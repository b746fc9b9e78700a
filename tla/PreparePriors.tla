--------------------------- MODULE PreparePriors ---------------------------
(***************************************************************************)
(* scripts/prepare_priors.py.  A dump job scores the rows of its shard and *)
(* appends one record per row to its output file; with one shard it goes   *)
(* on to build the priors, with several a merge job (--merge-shards) joins *)
(* the part files first.  Jobs of different shards run concurrently.       *)
(*                                                                         *)
(* A record is a row index and the releases of the three things its scores *)
(* depend on: the question, the positive and the negative view.            *)
(***************************************************************************)
EXTENDS DataDir, Sequences, SequencesExt

CONSTANTS
  MaxShards,    \* bound on --num-shards; jobs 0 .. MaxShards - 1 dump
  ShardCounts,  \* the values --num-shards is started with
  EmptyRows,    \* rows for which greedy decoding yields no content token
  ModelArgs     \* the values --model-path is given: "repo_id", "snapshot"

ASSUME PriorsAssumption ==
  /\ MaxShards \in Nat \ {0}
  /\ ShardCounts \subseteq 1 .. MaxShards
  /\ EmptyRows \subseteq 0 .. MaxRows - 1
  /\ ModelArgs # {}
  /\ NoFile \notin Seq([idx : Nat, q : Releases, pos : Releases, neg : Releases])

VARIABLES
  dump,         \* teacher_posneg_token_scores.jsonl
  part,         \* part[k]: teacher_posneg_token_scores.jsonl.part00k
  jpc,          \* jpc[j]: program counter of job j
  jnum,         \* its --num-shards (or --merge-shards)
  jrows,        \* the row table it read
  jcur,         \* the next row (or part file) it handles
  jmodel,       \* its --model-path
  jmeta         \* the priors it has computed but not yet published

dumpVars   == <<dump, part>>
jobVars    == <<jpc, jnum, jrows, jcur, jmodel, jmeta>>
priorsVars == <<dumpVars, jobVars>>

Shard    == 0 .. MaxShards - 1
MergeJob == MaxShards
Job      == 0 .. MaxShards

Record == [idx : Row, q : Releases, pos : Releases, neg : Releases]
Dump   == Seq(Record)
Priors == [recs : Dump, man : Table, par : Table, model : ModelArgs]

JobSteps ==
  {"idle", "score", "mark_freq", "priors", "publish", "remove_parts"}

PriorsTypeOK ==
  /\ dump \in Dump \cup {NoFile}
  /\ part \in [Shard -> Dump \cup {NoFile}]
  /\ priors \in Priors \cup {NoFile}
  /\ jpc \in [Job -> JobSteps]
  /\ jnum \in [Job -> 0 .. MaxShards]
  /\ jrows \in [Job -> Table \cup {NoFile}]
  /\ jcur \in [Job -> 0 .. MaxRows + MaxShards]
  /\ jmodel \in [Job -> ModelArgs \cup {NoFile}]
  /\ jmeta \in [Job -> Priors \cup {NoFile}]

PriorsInit ==
  /\ dump = NoFile
  /\ part = [k \in Shard |-> NoFile]
  /\ jpc = [j \in Job |-> "idle"]
  /\ jnum = [j \in Job |-> 0]
  /\ jrows = [j \in Job |-> NoFile]
  /\ jcur = [j \in Job |-> 0]
  /\ jmodel = [j \in Job |-> NoFile]
  /\ jmeta = [j \in Job |-> NoFile]

JobExit(j) ==
  /\ jpc' = [jpc EXCEPT ![j] = "idle"]
  /\ jnum' = [jnum EXCEPT ![j] = 0]
  /\ jrows' = [jrows EXCEPT ![j] = NoFile]
  /\ jcur' = [jcur EXCEPT ![j] = 0]
  /\ jmodel' = [jmodel EXCEPT ![j] = NoFile]
  /\ jmeta' = [jmeta EXCEPT ![j] = NoFile]

JobGo(j, from, to) ==
  /\ jpc[j] = from
  /\ jpc' = [jpc EXCEPT ![j] = to]

Sharded(j) == jnum[j] > 1

----------------------------------------------------------------------------
(***************************************************************************)
(* run_dump                                                                *)
(***************************************************************************)

\* The manifest must list every row of the JSONL file, all of them ok; then
\* the output file is opened with "w".
DumpStart(k, num, model) ==
  /\ jpc[k] = "idle"
  /\ num \in ShardCounts
  /\ k < num
  /\ jsonl # NoFile
  /\ manifest # NoFile
  /\ manifest.n > 0
  /\ manifest.n = jsonl.n
  /\ jpc' = [jpc EXCEPT ![k] = "score"]
  /\ jnum' = [jnum EXCEPT ![k] = num]
  /\ jrows' = [jrows EXCEPT ![k] = jsonl]
  /\ jcur' = [jcur EXCEPT ![k] = k]
  /\ jmodel' = [jmodel EXCEPT ![k] = model]
  /\ IF num > 1
     THEN part' = [part EXCEPT ![k] = <<>>] /\ dump' = dump
     ELSE dump' = <<>> /\ part' = part
  /\ UNCHANGED <<dirVars, jmeta>>

ScoreOf(k, r) == [idx |-> r, q |-> jrows[k].gen, pos |-> pos[r], neg |-> neg[r]]

HasViews(r) == pos[r] # NoFile /\ neg[r] # NoFile

\* One row of range(shard, total, num_shards): generate, score the three
\* views, append the record.  A row with an empty generation is skipped.
DumpRow(k) ==
  /\ jpc[k] = "score"
  /\ jcur[k] < jrows[k].n
  /\ jcur[k] \notin EmptyRows => HasViews(jcur[k])
  /\ jcur' = [jcur EXCEPT ![k] = @ + jnum[k]]
  /\ LET new == IF jcur[k] \in EmptyRows THEN <<>>
                ELSE <<ScoreOf(k, jcur[k])>>
     IN  IF Sharded(k)
         THEN part' = [part EXCEPT ![k] = @ \o new] /\ dump' = dump
         ELSE dump' = dump \o new /\ part' = part
  /\ UNCHANGED <<dirVars, jpc, jnum, jrows, jmodel, jmeta>>

\* A view of the row cannot be opened: the exception ends the process.
DumpRowMissing(k) ==
  /\ jpc[k] = "score"
  /\ jcur[k] < jrows[k].n
  /\ jcur[k] \notin EmptyRows
  /\ ~HasViews(jcur[k])
  /\ JobExit(k)
  /\ UNCHANGED <<dirVars, dumpVars>>

\* All rows done: a sharded job ends here, a single one goes on (main).
DumpEnd(k) ==
  /\ jpc[k] = "score"
  /\ jcur[k] >= jrows[k].n
  /\ IF Sharded(k)
     THEN JobExit(k)
     ELSE /\ JobGo(k, "score", "mark_freq")
          /\ UNCHANGED <<jnum, jrows, jcur, jmodel, jmeta>>
  /\ UNCHANGED <<dirVars, dumpVars>>

----------------------------------------------------------------------------
(***************************************************************************)
(* merge_shards                                                            *)
(***************************************************************************)

\* The records of all part files, one file after the other.
PartRecords(num) == FlattenSeq([i \in 1 .. num |-> part[i - 1]])

\* merge_dump_records: sorted() by row index, which keeps the order of records
\* of the same row.  Exactly one way p to rearrange the places does that.
MergeDumpRecords(num) ==
  LET records == PartRecords(num)
      Before(i, j) == \/ records[i].idx < records[j].idx
                      \/ records[i].idx = records[j].idx /\ i < j
  IN  {[i \in DOMAIN records |-> records[p[i]]] :
         p \in {p \in [DOMAIN records -> DOMAIN records] :
                  \A i, j \in DOMAIN records : i < j => Before(p[i], p[j])}}

\* Every part file must exist; the merged dump is renamed into place.
MergeStart(num, model) ==
  /\ jpc[MergeJob] = "idle"
  /\ num \in ShardCounts
  /\ \A k \in 0 .. num - 1 : part[k] # NoFile
  /\ dump' \in MergeDumpRecords(num)
  /\ jpc' = [jpc EXCEPT ![MergeJob] = "remove_parts"]
  /\ jnum' = [jnum EXCEPT ![MergeJob] = num]
  /\ jmodel' = [jmodel EXCEPT ![MergeJob] = model]
  /\ UNCHANGED <<dirVars, part, jrows, jcur, jmeta>>

\* The part files are removed one by one.
MergeRemovePart ==
  /\ jpc[MergeJob] = "remove_parts"
  /\ IF jcur[MergeJob] < jnum[MergeJob]
     THEN /\ part' = [part EXCEPT ![jcur[MergeJob]] = NoFile]
          /\ jcur' = [jcur EXCEPT ![MergeJob] = @ + 1]
          /\ jpc' = jpc
     ELSE /\ jpc' = [jpc EXCEPT ![MergeJob] = "mark_freq"]
          /\ UNCHANGED <<part, jcur>>
  /\ UNCHANGED <<dirVars, dump, jnum, jrows, jmodel, jmeta>>

----------------------------------------------------------------------------
(***************************************************************************)
(* mark_freq_table_stale and run_priors                                    *)
(***************************************************************************)

MarkFreqStale(j) ==
  /\ JobGo(j, "mark_freq", "priors")
  /\ freq' = NoFile
  /\ UNCHANGED <<sources, datasets, priors, dumpVars, jnum, jrows, jcur,
                 jmodel, jmeta>>

\* The dump is read, the rates are computed, and only then the manifest and
\* the Parquet file are hashed.  A missing file or an empty dump raises.
RunPriors(j) ==
  /\ jpc[j] = "priors"
  /\ IF dump # NoFile /\ dump # <<>> /\ manifest # NoFile /\ parquet # NoFile
     THEN /\ JobGo(j, "priors", "publish")
          /\ jmeta' = [jmeta EXCEPT ![j] =
                         [recs |-> dump, man |-> manifest, par |-> parquet,
                          model |-> jmodel[j]]]
          /\ UNCHANGED <<jnum, jrows, jcur, jmodel>>
     ELSE JobExit(j)
  /\ UNCHANGED <<dirVars, dumpVars>>

PublishPriors(j) ==
  /\ jpc[j] = "publish"
  /\ priors' = jmeta[j]
  /\ JobExit(j)
  /\ UNCHANGED <<sources, datasets, freq, dumpVars>>

\* A job is killed, or an exception nothing catches ends it.
JobKilled(j) ==
  /\ jpc[j] # "idle"
  /\ JobExit(j)
  /\ UNCHANGED <<dirVars, dumpVars>>

JobStep(j) ==
  \/ j \in Shard /\ (DumpRow(j) \/ DumpRowMissing(j) \/ DumpEnd(j))
  \/ j = MergeJob /\ MergeRemovePart
  \/ MarkFreqStale(j)
  \/ RunPriors(j)
  \/ PublishPriors(j)

=============================================================================
