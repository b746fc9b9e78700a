-------------------------- MODULE LookAwayPipeline --------------------------
(***************************************************************************)
(* The tools of scripts/ composed over one data directory: which of them   *)
(* an operator starts, in which order, and what dies on the way.           *)
(***************************************************************************)
EXTENDS BuildTrainset, ImportRelease, LaunchGate

CONSTANTS
  Tools,      \* the tools the operator uses
  Policy,     \* "any": in any order; "staged": a later tool only after the
              \* earlier ones finished; "script": always the next one
  Overlap,    \* TRUE: a tool may be started while another one runs
  MaxFaults   \* bound on kills, failed workers and failed renames

ASSUME PipelineAssumption ==
  /\ Tools \subseteq {"build", "import", "priors", "freq", "launch"}
  /\ Policy \in {"any", "staged", "script"}
  /\ Overlap \in BOOLEAN
  /\ MaxFaults \in Nat

VARIABLES
  stage,      \* last stage finished: 1 dataset, 2 priors, 3 table; 0 none
  faults      \* faults so far

vars == <<dirVars, buildVars, importVars, priorsVars, freqVars, gateVars,
          stage, faults>>

TypeOK ==
  /\ DirTypeOK
  /\ BuildTypeOK
  /\ ImportTypeOK
  /\ PriorsTypeOK
  /\ FreqTypeOK
  /\ GateTypeOK
  /\ stage \in 0 .. 3
  /\ faults \in 0 .. MaxFaults

Init ==
  /\ DirInit
  /\ BuildInit
  /\ ImportInit
  /\ PriorsInit
  /\ FreqInit
  /\ GateInit
  /\ stage = 0
  /\ faults = 0

----------------------------------------------------------------------------
(***************************************************************************)
(* The operator                                                            *)
(***************************************************************************)

JobsIdle == \A j \in Job : jpc[j] = "idle"

NoOtherTool(tool) ==
  /\ tool # "build"  => bpc = "idle"
  /\ tool # "import" => ipc = "idle"
  /\ tool # "priors" => JobsIdle
  /\ tool # "freq"   => fpc = "idle"
  /\ tool # "launch" => lpc = "idle"

\* Dump jobs of different shards are meant to run side by side.
OnlyShardsRun == \A j \in Job : jpc[j] # "idle" => jpc[j] = "score" /\ Sharded(j)

MayStart(tool, after) ==
  /\ tool \in Tools
  /\ Overlap \/ NoOtherTool(tool)
  /\ Policy = "staged" => stage >= after
  /\ Policy = "script" => stage = after

StartBuild ==
  /\ MayStart("build", 0)
  /\ \/ Policy # "script" /\ BuildSkipDownload
     \/ \E g \in Releases \ CropReleases : BuildDownload(g)
  /\ stage' = 0
  /\ UNCHANGED <<importVars, priorsVars, freqVars, gateVars, faults>>

StartImport ==
  /\ MayStart("import", 0)
  /\ \E g \in CropReleases : ImportStart(g)
  /\ stage' = 0
  /\ UNCHANGED <<buildVars, priorsVars, freqVars, gateVars, faults>>

StartDump ==
  /\ MayStart("priors", 1)
  /\ \E k \in Shard, num \in ShardCounts, model \in ModelArgs :
        /\ Overlap \/ JobsIdle \/ (num > 1 /\ OnlyShardsRun)
        /\ DumpStart(k, num, model)
  /\ stage' = IF stage > 1 THEN 1 ELSE stage
  /\ UNCHANGED <<buildVars, importVars, freqVars, gateVars, faults>>

StartMerge ==
  /\ MayStart("priors", 1)
  /\ Overlap \/ JobsIdle
  /\ \E num \in ShardCounts \ {1}, model \in ModelArgs : MergeStart(num, model)
  /\ stage' = IF stage > 1 THEN 1 ELSE stage
  /\ UNCHANGED <<buildVars, importVars, freqVars, gateVars, faults>>

StartFreq ==
  /\ MayStart("freq", 2)
  /\ \E model \in ModelArgs : FreqStart(model)
  /\ UNCHANGED <<buildVars, importVars, jobVars, gateVars, stage, faults>>

\* A launch may be tried at any time, except by the script.
StartLaunch ==
  /\ MayStart("launch", IF Policy = "script" THEN 3 ELSE 0)
  /\ \E decay \in Decays : LaunchStart(decay)
  /\ UNCHANGED <<buildVars, importVars, jobVars, freqVars, stage, faults>>

----------------------------------------------------------------------------
(***************************************************************************)
(* Running tools, and what goes wrong with them                            *)
(***************************************************************************)

RunBuild ==
  /\ BuildStep
  /\ stage' = IF bpc = "stale_freq" THEN 1 ELSE stage
  /\ UNCHANGED <<importVars, priorsVars, freqVars, gateVars, faults>>

RunImport ==
  /\ ImportStep
  /\ stage' = IF ipc = "convert_write" THEN 1 ELSE stage
  /\ UNCHANGED <<buildVars, priorsVars, freqVars, gateVars, faults>>

RunJob(j) ==
  /\ JobStep(j)
  /\ stage' = IF jpc[j] = "publish" THEN 2 ELSE stage
  /\ UNCHANGED <<buildVars, importVars, freqVars, gateVars, faults>>

RunFreq ==
  /\ FreqStep
  /\ stage' = IF fpc = "publish" THEN 3 ELSE stage
  /\ UNCHANGED <<buildVars, importVars, jobVars, gateVars, faults>>

RunLaunch ==
  /\ LaunchStep
  /\ UNCHANGED <<buildVars, importVars, jobVars, freqVars, stage, faults>>

Fault ==
  /\ faults < MaxFaults
  /\ faults' = faults + 1
  /\ \/ BuildFault /\ UNCHANGED <<importVars, priorsVars, freqVars>>
     \/ ImportDies /\ UNCHANGED <<buildVars, priorsVars, freqVars>>
     \/ \E j \in Job : JobKilled(j) /\ UNCHANGED <<buildVars, importVars, freqVars>>
     \/ FreqKilled /\ UNCHANGED <<buildVars, importVars, jobVars>>
  /\ UNCHANGED <<gateVars, stage>>

Progress ==
  \/ StartBuild
  \/ StartImport
  \/ StartDump
  \/ StartMerge
  \/ StartFreq
  \/ StartLaunch
  \/ RunBuild
  \/ RunImport
  \/ \E j \in Job : RunJob(j)
  \/ RunFreq
  \/ RunLaunch

Next == Progress \/ Fault

Spec == Init /\ [][Next]_vars

\* A started tool keeps running, and the operator keeps going.
LiveSpec == Spec /\ WF_vars(Progress)

----------------------------------------------------------------------------
(***************************************************************************)
(* What the pipeline promises                                              *)
(***************************************************************************)

Training == lpc = "train"

\* A generation manifest on disk describes the negative views on disk: no
\* kill or failed rename leaves the hashes of one release next to the images
\* of another (build_trainset.py: invalidate, publish, then write).
ManifestDescribesNegatives ==
  manifest # NoFile => \A r \in Row : r < manifest.n => neg[r] = manifest.gen

\* Training weighs tokens with priors that were scored on the very negative
\* views it will read ("Training rejects stale or mismatched priors").
TrainedNegativesWereScored ==
  Training => \A i \in DOMAIN priors.recs :
                 priors.recs[i].neg = neg[priors.recs[i].idx]

\* The same at the moment a launch is accepted, when other tools may run.
AcceptedNegativesWereScored ==
  [][lpc # "train" /\ lpc' = "train" =>
       \A i \in DOMAIN priors.recs :
          priors.recs[i].neg = neg[priors.recs[i].idx]]_vars

\* The same for the student images and positive crops.
TrainedPositivesWereScored ==
  Training => \A i \in DOMAIN priors.recs :
                 priors.recs[i].pos = pos[priors.recs[i].idx]

\* The priors training uses hold every row of the Parquet file exactly once,
\* whichever shards, kills and reruns the dump went through.
TrainedPriorsCoverEachRowOnce ==
  Training => \A r \in Row : r < parquet.n =>
                 Cardinality({i \in DOMAIN priors.recs : priors.recs[i].idx = r}) = 1

\* The frequency table training uses counts the dump the priors come from.
TrainedTableMatchesPriors ==
  Training /\ ldecay => freq.counts = priors.recs

\* A launch after a clean run of all stages is refused only when an artifact
\* is missing, or comes from other files, or does not cover every row.
Mismatch ==
  \/ NoFile \in {parquet, priors, manifest, dump, freq}
  \/ priors.man # manifest
  \/ priors.par # parquet
  \/ Len(priors.recs) # parquet.n
  \/ freq.counts # dump

RejectsOnlyMismatch ==
  [][verdict # "rejected" /\ verdict' = "rejected" => Mismatch]_vars

\* The negative views change only while no launch can be accepted: all three
\* artifacts a launch needs were withdrawn before.
NegativesChangeOnlyWhenWithdrawn ==
  [][neg' # neg => parquet = NoFile /\ priors = NoFile /\ manifest = NoFile]_vars

\* The same pipeline seen through GateContract: which release is shown in
\* teacher_neg/, and for which one validate_priors.py would let training start.
Contract == INSTANCE GateContract WITH
  None  <- NoFile,
  shown <- IF neg = NoViews THEN NoFile ELSE neg[0],
  open  <- IF PriorsValid THEN priors.recs[1].neg ELSE NoFile

ImplementsGateContract == Contract!Spec

\* Whatever was killed, rerunning the stages in order gets to training again:
\* nothing a dead tool leaves behind blocks its successors for good.
RecoversToTraining == []<>Training

=============================================================================
