----------------------------- MODULE FreqTable -----------------------------
(***************************************************************************)
(* scripts/build_freq_table.py: counts the tokens of whatever dump file    *)
(* exists, then hashes the file, then renames the table into place.        *)
(***************************************************************************)
EXTENDS PreparePriors

VARIABLES
  fpc,        \* program counter of build_freq_table.py
  fmodel,     \* its --model-path
  fcounts,    \* the dump it counted
  fsha        \* the dump it hashed

freqVars == <<fpc, fmodel, fcounts, fsha>>

Freqs == [counts : Dump, sha : Dump, model : ModelArgs]

FreqTypeOK ==
  /\ freq \in Freqs \cup {NoFile}
  /\ fpc \in {"idle", "count", "hash", "publish"}
  /\ fmodel \in ModelArgs \cup {NoFile}
  /\ fcounts \in Dump \cup {NoFile}
  /\ fsha \in Dump \cup {NoFile}

FreqInit ==
  /\ fpc = "idle"
  /\ fmodel = NoFile
  /\ fcounts = NoFile
  /\ fsha = NoFile

FreqExit ==
  /\ fpc' = "idle"
  /\ fmodel' = NoFile
  /\ fcounts' = NoFile
  /\ fsha' = NoFile

FreqStart(model) ==
  /\ fpc = "idle"
  /\ dump # NoFile
  /\ fpc' = "count"
  /\ fmodel' = model
  /\ UNCHANGED <<dirVars, dumpVars, fcounts, fsha>>

\* Mutant of FreqCount: the last line of the dump is not counted.
MutCountAllButLast ==
  /\ fpc = "count"
  /\ IF dump # <<>>
     THEN /\ fpc' = "hash"
          /\ fcounts' = SubSeq(dump, 1, Len(dump) - 1)
          /\ UNCHANGED <<fmodel, fsha>>
     ELSE FreqExit
  /\ UNCHANGED <<dirVars, dumpVars>>

\* Count the tokens of every record; no token at all is an error.
FreqCount ==
  /\ fpc = "count"
  /\ IF dump # <<>>
     THEN fpc' = "hash" /\ fcounts' = dump /\ UNCHANGED <<fmodel, fsha>>
     ELSE FreqExit
  /\ UNCHANGED <<dirVars, dumpVars>>

\* sha256(dump_path) reads the file a second time.
FreqHash ==
  /\ fpc = "hash"
  /\ fpc' = "publish"
  /\ fsha' = dump
  /\ UNCHANGED <<dirVars, dumpVars, fmodel, fcounts>>

FreqPublish ==
  /\ fpc = "publish"
  /\ freq' = [counts |-> fcounts, sha |-> fsha, model |-> fmodel]
  /\ FreqExit
  /\ UNCHANGED <<sources, datasets, priors, dumpVars>>

FreqKilled ==
  /\ fpc # "idle"
  /\ FreqExit
  /\ UNCHANGED <<dirVars, dumpVars>>

FreqStep  == FreqCount \/ FreqHash \/ FreqPublish

=============================================================================
