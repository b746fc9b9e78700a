---------------------------- MODULE LaunchGate ----------------------------
(***************************************************************************)
(* scripts/run_lookaway.sh up to the start of training: the existence      *)
(* checks of the shell script, then scripts/validate_priors.py.            *)
(***************************************************************************)
EXTENDS FreqTable

CONSTANT Decays         \* the values VD_FREQ_DECAY is given

ASSUME GateAssumption == Decays \subseteq BOOLEAN

VARIABLES
  lpc,        \* program counter of the launcher
  ldecay,     \* VD_FREQ_DECAY of this launch
  verdict     \* how the last launch ended

gateVars == <<lpc, ldecay, verdict>>

GateTypeOK ==
  /\ lpc \in {"idle", "validate", "validate_freq", "train"}
  /\ ldecay \in BOOLEAN
  /\ verdict \in {"none", "accepted", "rejected"}

GateInit ==
  /\ lpc = "idle"
  /\ ldecay = FALSE
  /\ verdict = "none"

\* resolve_model.py prints a local path: the one it was given, or that of
\* the snapshot a hub id was downloaded to.  Only this path is validated.
ResolvedModel == "snapshot"

\* The script looks only for the files it is going to pass on.
LaunchStart(decay) ==
  /\ lpc = "idle"
  /\ ldecay' = decay
  /\ IF /\ parquet # NoFile
        /\ priors # NoFile
        /\ manifest # NoFile
        /\ decay => freq # NoFile
     THEN lpc' = "validate" /\ verdict' = "none"
     ELSE lpc' = "idle" /\ verdict' = "rejected"
  /\ UNCHANGED <<dirVars, dumpVars>>

\* Mutants of PriorsValid: the row count is not compared; it is compared with
\* an off-by-one.
MutNoRowCount ==
  /\ priors # NoFile
  /\ manifest # NoFile
  /\ parquet # NoFile
  /\ priors.model = ResolvedModel
  /\ priors.man = manifest
  /\ priors.par = parquet

MutRowCountOffByOne ==
  /\ MutNoRowCount
  /\ Len(priors.recs) < parquet.n

\* validate(): every fingerprint recorded in the priors equals that of the
\* file now on disk, and the priors come from as many rows as the Parquet has.
PriorsValid ==
  /\ priors # NoFile
  /\ manifest # NoFile
  /\ parquet # NoFile
  /\ priors.model = ResolvedModel
  /\ priors.man = manifest
  /\ priors.par = parquet
  /\ Len(priors.recs) = parquet.n

ValidatePriors ==
  /\ lpc = "validate"
  /\ IF PriorsValid
     THEN IF ldecay
          THEN lpc' = "validate_freq" /\ verdict' = verdict
          ELSE lpc' = "train" /\ verdict' = "accepted"
     ELSE lpc' = "idle" /\ verdict' = "rejected"
  /\ UNCHANGED <<dirVars, dumpVars, ldecay>>

\* validate_freq(): the table was made from the dump now on disk.
FreqValid ==
  /\ freq # NoFile
  /\ dump # NoFile
  /\ freq.model = ResolvedModel
  /\ freq.sha = dump

ValidateFreq ==
  /\ lpc = "validate_freq"
  /\ IF FreqValid
     THEN lpc' = "train" /\ verdict' = "accepted"
     ELSE lpc' = "idle" /\ verdict' = "rejected"
  /\ UNCHANGED <<dirVars, dumpVars, ldecay>>

\* Training ends, one way or another.
TrainEnd ==
  /\ lpc = "train"
  /\ lpc' = "idle"
  /\ UNCHANGED <<dirVars, dumpVars, ldecay, verdict>>

LaunchStep ==
  \/ ValidatePriors
  \/ ValidateFreq
  \/ TrainEnd

=============================================================================
