----------------------- MODULE LookAwayPipelineProofs -----------------------
(***************************************************************************)
(* Theorems about LookAwayPipeline, for every set of releases, every row   *)
(* count, every number of faults and, unless a theorem says otherwise,     *)
(* every operator policy.                                                  *)
(***************************************************************************)
EXTENDS LookAwayPipeline, SumTheorems

\* The CROP importer, which withdraws nothing before it writes, is not used.
NoImport == "import" \notin Tools

----------------------------------------------------------------------------
(***************************************************************************)
(* Part 1.  The builder's state, and why a manifest describes the views.   *)
(***************************************************************************)

BuilderTypes ==
  /\ DirTypeOK
  /\ BuildTypeOK
  /\ bpc \notin {"idle", "read"} => brows \in Table
  /\ ipc = "idle"

\* While the negatives are being swapped there is no manifest, and the one
\* that will be written is the one of the views now in place.
SwapInv ==
  /\ bpc \in {"set_aside", "swap", "drop", "write_manifest"} => manifest = NoFile
  /\ bpc \in {"drop", "write_manifest"} => neg = Views(brows.gen, brows.n)
  /\ ManifestDescribesNegatives

BuilderInv == BuilderTypes /\ SwapInv

BuilderFiles == <<sources, datasets, buildVars>>

LEMMA WholeIsTable ==
  ASSUME NEW g \in Releases
  PROVE  Whole(g) \in Table
  BY ReleasesAssumption DEF Whole, Table

LEMMA BuilderInvInit == Init => BuilderInv
  BY ReleasesAssumption
  DEF Init, BuilderInv, BuilderTypes, SwapInv, ManifestDescribesNegatives,
      DirInit, BuildInit, ImportInit, DirTypeOK, BuildTypeOK, BuildSteps,
      Results, NoViews, Row, Table

\* Every step is one of the builder's or leaves its files alone.
LEMMA BuilderFrame ==
  ASSUME NoImport, ipc = "idle", [Next]_vars
  PROVE  /\ ipc' = "idle"
         /\ StartBuild \/ BuildStep \/ BuildFault \/ UNCHANGED BuilderFiles
<1> USE DEF BuilderFiles, sources, datasets, buildVars, dirVars, derived,
            importVars
<1>1. CASE StartBuild
  BY <1>1 DEF StartBuild
<1>2. CASE StartImport
  BY <1>2 DEF StartImport, MayStart, NoImport
<1>3. CASE StartDump \/ StartMerge
  BY <1>3 DEF StartDump, StartMerge, DumpStart, MergeStart
<1>4. CASE StartFreq \/ StartLaunch
  BY <1>4 DEF StartFreq, StartLaunch, FreqStart, LaunchStart
<1>5. CASE RunBuild
  BY <1>5 DEF RunBuild
<1>6. CASE RunImport
  BY <1>6 DEF RunImport, ImportStep, ImportPositive, ImportNegative,
     ImportOpenManifest, ImportWriteManifest, ImportConvertRead,
     ImportConvertWrite
<1>7. ASSUME NEW j \in Job, RunJob(j)
      PROVE  ipc' = "idle" /\ UNCHANGED BuilderFiles
  BY <1>7 DEF RunJob, JobStep, DumpRow, DumpRowMissing, DumpEnd,
     MergeRemovePart, MarkFreqStale, RunPriors, PublishPriors
<1>8. CASE RunFreq
  BY <1>8 DEF RunFreq, FreqStep, FreqCount, FreqHash, FreqPublish
<1>9. CASE RunLaunch
  BY <1>9 DEF RunLaunch, LaunchStep, ValidatePriors, ValidateFreq, TrainEnd
<1>10. CASE Fault
  <2>1. CASE BuildFault /\ UNCHANGED importVars
    BY <2>1
  <2>2. CASE ImportDies
    BY <2>2 DEF ImportDies
  <2>3. CASE (\E j \in Job : JobKilled(j)) /\ UNCHANGED <<buildVars, importVars>>
    BY <2>3 DEF JobKilled
  <2>4. CASE FreqKilled /\ UNCHANGED <<buildVars, importVars>>
    BY <2>4 DEF FreqKilled
  <2> QED BY <1>10, <2>1, <2>2, <2>3, <2>4 DEF Fault
<1>11. CASE UNCHANGED vars
  BY <1>11 DEF vars
<1> QED
  BY <1>1, <1>2, <1>3, <1>4, <1>5, <1>6, <1>7, <1>8, <1>9, <1>10, <1>11
  DEF Next, Progress

LEMMA BuilderTypesStep ==
  ASSUME BuilderTypes, StartBuild \/ BuildStep \/ BuildFault, ipc' = "idle"
  PROVE  BuilderTypes'
<1> USE ReleasesAssumption, WholeIsTable
    DEF BuilderTypes, DirTypeOK, BuildTypeOK, BuildSteps, Results, BuildGo,
        dirVars, sources, datasets, derived, Row
<1>1. CASE StartBuild
  BY <1>1 DEF StartBuild, BuildSkipDownload, BuildDownload
<1>2. CASE BuildExtract
  BY <1>2, SMTT(60) DEF BuildExtract, Table
<1>3. CASE BuildReadRows
  BY <1>3 DEF BuildReadRows, BuildExit, NoViews
<1>4. ASSUME NEW r \in Row, BuildWorker(r) \/ BuildWorkerFails(r)
      PROVE  BuilderTypes'
  BY <1>4 DEF BuildWorker, BuildWorkerFails
<1>5. CASE BuildCheckComplete
  BY <1>5 DEF BuildCheckComplete, BuildExit, NoViews
<1>6. CASE BuildInvalidateParquet \/ BuildInvalidatePriors \/ BuildInvalidateManifest
  BY <1>6 DEF BuildInvalidateParquet, BuildInvalidatePriors,
     BuildInvalidateManifest
<1>7. CASE BuildSetAside \/ BuildDropBackup
  BY <1>7 DEF BuildSetAside, BuildDropBackup, NoViews
<1>8. CASE BuildSwap
  BY <1>8 DEF BuildSwap, Views, Table
<1>9. CASE BuildSwapFails
  BY <1>9 DEF BuildSwapFails, BuildExit, NoViews
<1>10. CASE BuildWriteManifest \/ BuildConvertWrite
  BY <1>10 DEF BuildWriteManifest, BuildConvertWrite
<1>11. CASE BuildConvertRead
  BY <1>11 DEF BuildConvertRead, BuildExit, NoViews
<1>12. CASE BuildMarkPriorsStale \/ BuildMarkFreqStale \/ BuildKilled
  BY <1>12 DEF BuildMarkPriorsStale, BuildMarkFreqStale, BuildKilled, BuildExit,
     NoViews
<1> QED
  BY <1>1, <1>2, <1>3, <1>4, <1>5, <1>6, <1>7, <1>8, <1>9, <1>10, <1>11, <1>12
  DEF BuildStep, BuildFault

LEMMA SwapInvStep ==
  ASSUME BuilderInv, StartBuild \/ BuildStep \/ BuildFault
  PROVE  SwapInv'
<1> USE DEF BuilderInv, SwapInv, ManifestDescribesNegatives, BuildGo, dirVars,
        sources, datasets, derived
<1>1. CASE StartBuild
  BY <1>1 DEF StartBuild, BuildSkipDownload, BuildDownload
<1>2. CASE BuildExtract \/ BuildReadRows
  BY <1>2 DEF BuildExtract, BuildReadRows, BuildExit
<1>3. ASSUME NEW r \in Row, BuildWorker(r) \/ BuildWorkerFails(r)
      PROVE  SwapInv'
  BY <1>3 DEF BuildWorker, BuildWorkerFails
<1>4. CASE BuildCheckComplete \/ BuildInvalidateParquet \/ BuildInvalidatePriors
  BY <1>4 DEF BuildCheckComplete, BuildInvalidateParquet, BuildInvalidatePriors,
     BuildExit
<1>5. CASE BuildInvalidateManifest
  BY <1>5 DEF BuildInvalidateManifest
<1>6. CASE BuildSetAside \/ BuildSwap \/ BuildDropBackup
  BY <1>6 DEF BuildSetAside, BuildSwap, BuildDropBackup
<1>7. CASE BuildSwapFails
  BY <1>7 DEF BuildSwapFails, BuildExit
<1>8. CASE BuildWriteManifest
  <2>1. brows \in Table /\ neg = Views(brows.gen, brows.n)
    BY <1>8 DEF BuildWriteManifest, BuilderTypes
  <2>2. \A r \in Row : r < brows.n => neg[r] = brows.gen
    BY <2>1 DEF Views
  <2> QED
    BY <1>8, <2>2 DEF BuildWriteManifest
<1>9. CASE BuildConvertRead \/ BuildConvertWrite
  BY <1>9 DEF BuildConvertRead, BuildConvertWrite, BuildExit
<1>10. CASE BuildMarkPriorsStale \/ BuildMarkFreqStale \/ BuildKilled
  BY <1>10 DEF BuildMarkPriorsStale, BuildMarkFreqStale, BuildKilled, BuildExit
<1> QED
  BY <1>1, <1>2, <1>3, <1>4, <1>5, <1>6, <1>7, <1>8, <1>9, <1>10
  DEF BuildStep, BuildFault

LEMMA BuilderInvStep ==
  ASSUME NoImport, BuilderInv, [Next]_vars
  PROVE  BuilderInv'
<1>1. CASE StartBuild \/ BuildStep \/ BuildFault
  BY <1>1, BuilderFrame, BuilderTypesStep, SwapInvStep DEF BuilderInv, BuilderTypes
<1>2. CASE UNCHANGED BuilderFiles
  BY <1>2, BuilderFrame
  DEF BuilderInv, BuilderTypes, SwapInv, ManifestDescribesNegatives, DirTypeOK,
      BuildTypeOK, BuilderFiles, sources, datasets, buildVars
<1> QED
  BY <1>1, <1>2, BuilderFrame DEF BuilderInv, BuilderTypes

\* Whatever is killed and whatever runs at the same time, a manifest on disk
\* describes the negative views on disk (the order of generate_negative_views).
THEOREM ManifestTheorem ==
  ASSUME NoImport
  PROVE  Spec => []ManifestDescribesNegatives
<1>1. BuilderInv => ManifestDescribesNegatives
  BY DEF BuilderInv, SwapInv
<1> QED
  BY BuilderInvInit, BuilderInvStep, <1>1, PTL DEF Spec

----------------------------------------------------------------------------
(***************************************************************************)
(* Part 2.  Without overlap at most one tool runs, so nobody publishes     *)
(* priors while the negatives change.                                      *)
(***************************************************************************)

\* At most one of the four kinds of process is away from "idle".
Exclusive ==
  /\ bpc # "idle" => JobsIdle /\ fpc = "idle" /\ lpc = "idle"
  /\ fpc # "idle" => JobsIdle /\ lpc = "idle"
  /\ lpc # "idle" => JobsIdle

JobTypes == jpc \in [Job -> JobSteps]

\* What the builder has withdrawn stays withdrawn until it is rebuilt.
WithdrawnInv ==
  /\ bpc \in {"inv_priors", "inv_manifest", "set_aside", "swap", "drop",
               "write_manifest", "convert_read", "convert_write"}
       => parquet = NoFile
  /\ bpc \in {"inv_manifest", "set_aside", "swap", "drop", "write_manifest",
               "convert_read", "convert_write", "stale_priors"}
       => priors = NoFile

OneToolInv == BuilderInv /\ Exclusive /\ JobTypes /\ WithdrawnInv

LEMMA OneToolInvInit == Init => OneToolInv
<1> SUFFICES ASSUME Init PROVE OneToolInv
  OBVIOUS
<1>1. JobTypes /\ JobsIdle
  BY DEF Init, PriorsInit, JobTypes, JobsIdle, JobSteps
<1> QED
  BY <1>1, BuilderInvInit DEF Init, OneToolInv, Exclusive, WithdrawnInv, BuildInit,
     FreqInit, GateInit

LEMMA JobTypesStep ==
  ASSUME JobTypes, ipc = "idle", [Next]_vars
  PROVE  JobTypes'
<1> USE DEF JobTypes, JobSteps, JobExit, JobGo, priorsVars, jobVars
<1>1. CASE StartBuild \/ StartImport \/ StartFreq \/ StartLaunch
  BY <1>1 DEF StartBuild, StartImport, StartFreq, StartLaunch
<1>2. CASE StartDump
  BY <1>2 DEF StartDump, DumpStart
<1>3. CASE StartMerge
  BY <1>3 DEF StartMerge, MergeStart
<1>4. CASE RunBuild \/ RunImport \/ RunFreq \/ RunLaunch
  BY <1>4 DEF RunBuild, RunImport, RunFreq, RunLaunch
<1>5. ASSUME NEW j \in Job, RunJob(j)
      PROVE  JobTypes'
  BY <1>5 DEF RunJob, JobStep, DumpRow, DumpRowMissing, DumpEnd,
     MergeRemovePart, MarkFreqStale, RunPriors, PublishPriors
<1>6. CASE Fault
  BY <1>6 DEF Fault, JobKilled
<1>7. CASE UNCHANGED vars
  BY <1>7 DEF vars
<1> QED
  BY <1>1, <1>2, <1>3, <1>4, <1>5, <1>6, <1>7 DEF Next, Progress

\* A starting tool finds the others idle; a running tool was the one that ran.
LEMMA ExclusiveStep ==
  ASSUME ~Overlap, JobTypes, Exclusive, [Next]_vars
  PROVE  Exclusive'
<1> USE DEF Exclusive, JobsIdle, JobTypes
<1>1. CASE StartBuild
  BY <1>1 DEF StartBuild, MayStart, NoOtherTool, priorsVars, jobVars,
     freqVars, gateVars
<1>2. CASE StartImport
  BY <1>2 DEF StartImport, MayStart, NoOtherTool, priorsVars, jobVars,
     freqVars, gateVars, buildVars
<1>3. CASE StartDump \/ StartMerge
  <2>1. bpc = "idle" /\ fpc = "idle" /\ lpc = "idle"
    BY <1>3 DEF StartDump, StartMerge, MayStart, NoOtherTool
  <2> QED
    BY <1>3, <2>1 DEF StartDump, StartMerge, buildVars, freqVars, gateVars
<1>4. CASE StartFreq
  BY <1>4 DEF StartFreq, MayStart, NoOtherTool, buildVars, jobVars,
     gateVars
<1>5. CASE StartLaunch
  BY <1>5 DEF StartLaunch, MayStart, NoOtherTool, buildVars, jobVars,
     freqVars
<1>6. CASE RunBuild
  <2>1. bpc # "idle"
    BY <1>6 DEF RunBuild, BuildStep, BuildExtract, BuildReadRows, BuildWorker,
       BuildCheckComplete, BuildInvalidateParquet, BuildInvalidatePriors,
       BuildInvalidateManifest, BuildSetAside, BuildSwap, BuildDropBackup,
       BuildWriteManifest, BuildConvertRead, BuildConvertWrite,
       BuildMarkPriorsStale, BuildMarkFreqStale, BuildGo
  <2> QED
    BY <1>6, <2>1 DEF RunBuild, priorsVars, jobVars, freqVars, gateVars
<1>7. CASE RunImport
  BY <1>7 DEF RunImport, buildVars, priorsVars, jobVars, freqVars, gateVars
<1>8. ASSUME NEW j \in Job, RunJob(j)
      PROVE  Exclusive'
  <2>1. jpc[j] # "idle"
    BY <1>8 DEF RunJob, JobStep, DumpRow, DumpRowMissing, DumpEnd,
       MergeRemovePart, MarkFreqStale, RunPriors, PublishPriors, JobGo
  <2> QED
    BY <1>8, <2>1 DEF RunJob, buildVars, freqVars, gateVars
<1>9. CASE RunFreq
  <2>1. fpc # "idle"
    BY <1>9 DEF RunFreq, FreqStep, FreqCount, FreqHash, FreqPublish
  <2> QED
    BY <1>9, <2>1 DEF RunFreq, buildVars, jobVars, gateVars
<1>10. CASE RunLaunch
  <2>1. lpc # "idle"
    BY <1>10 DEF RunLaunch, LaunchStep, ValidatePriors, ValidateFreq, TrainEnd
  <2> QED
    BY <1>10, <2>1 DEF RunLaunch, buildVars, jobVars, freqVars
<1>11. CASE Fault
  <2> USE <1>11 DEF Fault, gateVars
  <2>1. CASE BuildFault /\ UNCHANGED <<importVars, priorsVars, freqVars>>
    <3>1. bpc # "idle"
      BY <2>1 DEF BuildFault, BuildWorkerFails, BuildSwapFails, BuildKilled
    <3> QED
      BY <2>1, <3>1 DEF priorsVars, jobVars, freqVars
  <2>2. CASE ImportDies /\ UNCHANGED <<buildVars, priorsVars, freqVars>>
    BY <2>2 DEF buildVars, priorsVars, jobVars, freqVars
  <2>3. ASSUME NEW j \in Job, JobKilled(j), UNCHANGED <<buildVars, importVars, freqVars>>
        PROVE  Exclusive'
    BY <2>3 DEF JobKilled, JobExit, buildVars, freqVars
  <2>4. CASE FreqKilled /\ UNCHANGED <<buildVars, importVars, jobVars>>
    BY <2>4 DEF FreqKilled, FreqExit, buildVars, jobVars
  <2> QED
    BY <2>1, <2>2, <2>3, <2>4
<1>12. CASE UNCHANGED vars
  BY <1>12 DEF vars, buildVars, priorsVars, jobVars, freqVars, gateVars
<1> QED
  BY <1>1, <1>2, <1>3, <1>4, <1>5, <1>6, <1>7, <1>8, <1>9, <1>10, <1>11, <1>12
  DEF Next, Progress

LEMMA WithdrawnInvStep ==
  ASSUME NoImport, OneToolInv, [Next]_vars
  PROVE  WithdrawnInv'
<1> USE DEF OneToolInv, WithdrawnInv, BuildGo, dirVars, datasets, derived
<1>1. CASE StartBuild
  BY <1>1 DEF StartBuild, BuildSkipDownload, BuildDownload
<1>2. CASE StartImport
  BY <1>2 DEF StartImport, MayStart, NoImport
<1>3. CASE StartDump \/ StartMerge
  BY <1>3 DEF StartDump, StartMerge, DumpStart, MergeStart, buildVars
<1>4. CASE StartFreq \/ StartLaunch
  BY <1>4 DEF StartFreq, StartLaunch, FreqStart, LaunchStart, buildVars
<1>5. CASE BuildStep
  <2>1. CASE BuildExtract \/ BuildReadRows \/ (\E r \in Row : BuildWorker(r)) \/ BuildCheckComplete
    BY <2>1 DEF BuildExtract, BuildReadRows, BuildWorker, BuildCheckComplete,
       BuildExit
  <2>2. CASE BuildInvalidateParquet \/ BuildInvalidatePriors \/ BuildInvalidateManifest
    BY <2>2 DEF BuildInvalidateParquet, BuildInvalidatePriors,
       BuildInvalidateManifest
  <2>3. CASE BuildSetAside \/ BuildSwap \/ BuildDropBackup \/ BuildWriteManifest
    BY <2>3 DEF BuildSetAside, BuildSwap, BuildDropBackup, BuildWriteManifest
  <2>4. CASE BuildConvertRead \/ BuildConvertWrite \/ BuildMarkPriorsStale \/ BuildMarkFreqStale
    BY <2>4 DEF BuildConvertRead, BuildConvertWrite, BuildMarkPriorsStale,
       BuildMarkFreqStale, BuildExit
  <2> QED
    BY <1>5, <2>1, <2>2, <2>3, <2>4 DEF BuildStep
<1>6. CASE RunImport
  BY <1>6 DEF RunImport, ImportStep, ImportPositive, ImportNegative,
     ImportOpenManifest, ImportWriteManifest, ImportConvertRead,
     ImportConvertWrite, BuilderInv, BuilderTypes
<1>7. ASSUME NEW j \in Job, RunJob(j)
      PROVE  WithdrawnInv'
  <2>1. jpc[j] # "idle"
    BY <1>7 DEF RunJob, JobStep, DumpRow, DumpRowMissing, DumpEnd,
       MergeRemovePart, MarkFreqStale, RunPriors, PublishPriors, JobGo
  <2>2. bpc = "idle"
    BY <2>1 DEF Exclusive, JobsIdle
  <2> QED
    BY <1>7, <2>2 DEF RunJob, buildVars
<1>8. CASE RunFreq
  BY <1>8 DEF RunFreq, FreqStep, FreqCount, FreqHash, FreqPublish, buildVars
<1>9. CASE RunLaunch
  BY <1>9 DEF RunLaunch, LaunchStep, ValidatePriors, ValidateFreq, TrainEnd,
     buildVars
<1>10. CASE Fault
  <2>1. CASE BuildFault
    BY <2>1 DEF BuildFault, BuildWorkerFails, BuildSwapFails, BuildKilled, BuildExit
  <2>2. CASE ImportDies /\ UNCHANGED buildVars
    BY <2>2 DEF ImportDies, buildVars
  <2>3. CASE (\E j \in Job : JobKilled(j)) /\ UNCHANGED buildVars
    BY <2>3 DEF JobKilled, buildVars
  <2>4. CASE FreqKilled /\ UNCHANGED buildVars
    BY <2>4 DEF FreqKilled, buildVars
  <2> QED
    BY <1>10, <2>1, <2>2, <2>3, <2>4 DEF Fault
<1>11. CASE UNCHANGED vars
  BY <1>11 DEF vars, buildVars
<1> QED
  BY <1>1, <1>2, <1>3, <1>4, <1>5, <1>6, <1>7, <1>8, <1>9, <1>10, <1>11
  DEF Next, Progress, RunBuild

LEMMA OneToolInvStep ==
  ASSUME NoImport, ~Overlap, OneToolInv, [Next]_vars
  PROVE  OneToolInv'
<1>1. ipc = "idle"
  BY DEF OneToolInv, BuilderInv, BuilderTypes
<1> QED
  BY <1>1, BuilderInvStep, JobTypesStep, ExclusiveStep, WithdrawnInvStep DEF OneToolInv

\* Only three steps touch the negatives, all between withdrawal and rebuild.
LEMMA NegativesFrame ==
  ASSUME NoImport, OneToolInv, [Next]_vars, neg' # neg
  PROVE  /\ parquet = NoFile /\ priors = NoFile /\ manifest = NoFile
         /\ bpc \in {"set_aside", "swap"}
         /\ StartBuild \/ BuildStep \/ BuildFault
<1>1. StartBuild \/ BuildStep \/ BuildFault
  BY BuilderFrame DEF OneToolInv, BuilderInv, BuilderTypes, BuilderFiles, datasets
<1>2. bpc \in {"set_aside", "swap"}
  BY <1>1 DEF StartBuild, BuildSkipDownload, BuildDownload, BuildStep,
     BuildFault, BuildExtract, BuildReadRows, BuildWorker, BuildWorkerFails,
     BuildCheckComplete, BuildInvalidateParquet, BuildInvalidatePriors,
     BuildInvalidateManifest, BuildSetAside, BuildSwap, BuildSwapFails,
     BuildDropBackup, BuildWriteManifest, BuildConvertRead, BuildConvertWrite,
     BuildMarkPriorsStale, BuildMarkFreqStale, BuildKilled, BuildGo, BuildExit,
     dirVars, datasets, derived
<1> QED
  BY <1>1, <1>2 DEF OneToolInv, BuilderInv, SwapInv, WithdrawnInv

\* The negative views change only while every artifact a launch needs is
\* withdrawn, so a launch can never be accepted half-way (build_trainset.py
\* invalidates before it publishes).
THEOREM WithdrawnTheorem ==
  ASSUME NoImport, ~Overlap
  PROVE  Spec => NegativesChangeOnlyWhenWithdrawn
<1>1. ASSUME OneToolInv, [Next]_vars
      PROVE  [neg' # neg => parquet = NoFile /\ priors = NoFile /\ manifest = NoFile]_vars
  BY <1>1, NegativesFrame
<1> QED
  BY OneToolInvInit, OneToolInvStep, <1>1, PTL DEF Spec, NegativesChangeOnlyWhenWithdrawn

----------------------------------------------------------------------------
(***************************************************************************)
(* Part 3.  Type correctness of the whole pipeline.  A part file that is   *)
(* merged away while its shard still runs is outside the model, so either  *)
(* dumps are not sharded or the tools do not overlap.                      *)
(***************************************************************************)

OneShard == ShardCounts = {1}
PartsApart == OneShard \/ ~Overlap

\* The file a dump job appends to.
Output(j) == IF Sharded(j) THEN part[j] ELSE dump

\* Every running job has its arguments; one that scores has the rows it read
\* and its output file, one that publishes has priors.
JobMemory ==
  \A j \in Job :
    /\ jpc[j] # "idle" =>
         /\ jmodel[j] \in ModelArgs
         /\ jnum[j] \in ShardCounts
         /\ j < jnum[j] \/ (j = MergeJob /\ Sharded(j))
    /\ jpc[j] = "score" => j \in Shard /\ jrows[j] \in Table /\ Output(j) \in Dump
    /\ jpc[j] = "publish" => jmeta[j] \in Priors

\* Only shards that are being scored run side by side.
JobsApart ==
  \A i, j \in Job : i # j /\ jpc[i] # "idle" /\ jpc[j] # "idle"
                      => jpc[i] = "score" /\ Sharded(i)

FreqMemory ==
  /\ fpc # "idle" => dump \in Dump /\ fmodel \in ModelArgs
  /\ fpc \in {"hash", "publish"} => fcounts \in Dump
  /\ fpc = "publish" => fsha \in Dump

RestTypes ==
  /\ ImportTypeOK
  /\ GateTypeOK
  /\ stage \in 0 .. 3
  /\ faults \in 0 .. MaxFaults

TypeInv ==
  /\ BuilderInv
  /\ PriorsTypeOK /\ JobMemory /\ (Overlap \/ JobsApart)
  /\ FreqTypeOK /\ FreqMemory
  /\ RestTypes

LEMMA ZeroIsShard == 0 \in Shard /\ 0 \in Job /\ MergeJob \in Job /\ MergeJob # 0
  BY PriorsAssumption DEF Shard, Job, MergeJob

LEMMA ShardFacts ==
  /\ MaxShards \in Nat /\ MaxRows \in Nat /\ 0 \in 0 .. MaxShards /\ 0 \in 0 .. MaxRows + MaxShards
  /\ \A k \in Shard : k \in Job /\ k \in Nat /\ k \in 0 .. MaxRows + MaxShards /\ k # MergeJob
  /\ \A n \in ShardCounts : n \in Nat \ {0} /\ n \in 0 .. MaxShards
BY PriorsAssumption, ReleasesAssumption DEF Shard, Job, MergeJob

\* Without shards only job 0 ever runs.
LEMMA OneJob ==
  ASSUME JobMemory, OneShard, NEW j \in Job, jpc[j] # "idle"
  PROVE  j = 0 /\ jnum[j] = 1 /\ ~Sharded(j) /\ Output(j) = dump
BY PriorsAssumption DEF JobMemory, OneShard, Job, Sharded, Output

LEMMA TypeInvInit == Init => TypeInv
<1> SUFFICES ASSUME Init PROVE TypeInv
  OBVIOUS
<1>1. PriorsTypeOK /\ JobMemory /\ JobsApart
  BY ShardFacts DEF Init, PriorsInit, DirInit, PriorsTypeOK, JobMemory, JobsApart, JobSteps
<1>2. FreqTypeOK /\ FreqMemory
  BY DEF Init, FreqInit, DirInit, FreqTypeOK, FreqMemory
<1>3. ImportTypeOK
  BY ReleasesAssumption DEF Init, ImportInit, ImportTypeOK, ImportSteps
<1>4. GateTypeOK
  BY DEF Init, GateInit, GateTypeOK
<1>5. stage \in 0 .. 3 /\ faults \in 0 .. MaxFaults
  BY PipelineAssumption DEF Init
<1> QED
  BY <1>1, <1>2, <1>3, <1>4, <1>5, BuilderInvInit DEF TypeInv, RestTypes

\* What a step of a job must keep of the types.
JobFilesTyped ==
  /\ dump' \in Dump \/ dump' = dump
  /\ part' \in [Shard -> Dump \cup {NoFile}]
  /\ priors' \in Priors \cup {NoFile}

JobStateTyped ==
  /\ jpc' \in [Job -> JobSteps]
  /\ jnum' \in [Job -> 0 .. MaxShards]
  /\ jrows' \in [Job -> Table \cup {NoFile}]
  /\ jcur' \in [Job -> 0 .. MaxRows + MaxShards]
  /\ jmodel' \in [Job -> ModelArgs \cup {NoFile}]
  /\ jmeta' \in [Job -> Priors \cup {NoFile}]

LEMMA JobExitTyped ==
  ASSUME PriorsTypeOK, NEW j \in Job, JobExit(j)
  PROVE  JobStateTyped
<1>1. "idle" \in JobSteps
  BY DEF JobSteps
<1> QED
  BY <1>1, ShardFacts DEF PriorsTypeOK, JobExit, JobStateTyped

\* The other jobs keep their memory while one changes its own, as long as
\* its step leaves their files alone.
LEMMA OthersRemember ==
  ASSUME JobMemory, NEW j \in Job,
         \A k \in Job \ {j} : /\ jpc'[k] = jpc[k] /\ jnum'[k] = jnum[k] /\ jrows'[k] = jrows[k]
                              /\ jmodel'[k] = jmodel[k] /\ jmeta'[k] = jmeta[k],
         \A k \in Shard \ {j} : part'[k] = part[k] \/ jpc[k] # "score",
         dump' \in Dump \/ dump' = dump,
         jpc'[j] # "idle" => /\ jmodel'[j] \in ModelArgs
                             /\ jnum'[j] \in ShardCounts
                             /\ j < jnum'[j] \/ (j = MergeJob /\ jnum'[j] > 1),
         jpc'[j] = "score" => j \in Shard /\ jrows'[j] \in Table /\ Output(j)' \in Dump,
         jpc'[j] = "publish" => jmeta'[j] \in Priors
  PROVE  JobMemory'
<1> SUFFICES ASSUME NEW k \in Job
             PROVE  /\ jpc'[k] # "idle" =>
                         /\ jmodel'[k] \in ModelArgs
                         /\ jnum'[k] \in ShardCounts
                         /\ k < jnum'[k] \/ (k = MergeJob /\ jnum'[k] > 1)
                    /\ jpc'[k] = "score" => k \in Shard /\ jrows'[k] \in Table /\ Output(k)' \in Dump
                    /\ jpc'[k] = "publish" => jmeta'[k] \in Priors
  BY DEF JobMemory, Sharded
<1>1. CASE k = j
  BY <1>1
<1>2. CASE k # j
  <2>1. jpc[k] = "score" => Output(k)' \in Dump
    BY <1>2 DEF JobMemory, Output, Sharded
  <2> QED BY <1>2, <2>1 DEF JobMemory, Sharded
<1> QED BY <1>1, <1>2

LEMMA JobExitMemory ==
  ASSUME JobMemory, PriorsTypeOK, NEW j \in Job, JobExit(j), UNCHANGED <<dump, part>>
  PROVE  JobMemory'
<1>1. jpc'[j] = "idle"
  BY DEF JobExit, PriorsTypeOK
<1>2. \A k \in Job \ {j} : /\ jpc'[k] = jpc[k] /\ jnum'[k] = jnum[k] /\ jrows'[k] = jrows[k]
                           /\ jmodel'[k] = jmodel[k] /\ jmeta'[k] = jmeta[k]
  BY DEF JobExit, PriorsTypeOK
<1> QED BY <1>1, <1>2, OthersRemember

\* A row adds one well-formed record to the job's file, or none.
LEMMA DumpRowAppends ==
  ASSUME TypeInv, NEW j \in Job, DumpRow(j)
  PROVE  /\ jpc[j] = "score" /\ j \in Shard /\ jcur[j] \in Row /\ jnum[j] \in ShardCounts
         /\ jnum'[j] = jnum[j] /\ Sharded(j)' = Sharded(j) /\ jcur'[j] = jcur[j] + jnum[j]
         /\ Output(j) \in Dump /\ Output(j)' \in Dump
         /\ \/ Output(j)' = Output(j)
            \/ /\ ScoreOf(j, jcur[j]) \in Record
               /\ Output(j)' = Append(Output(j), ScoreOf(j, jcur[j]))
         /\ IF Sharded(j) THEN dump' = dump /\ part' = [part EXCEPT ![j] = Output(j)']
                          ELSE part' = part /\ dump' = Output(j)'
<1> DEFINE r == jcur[j]
           new == IF r \in EmptyRows THEN <<>> ELSE <<ScoreOf(j, r)>>
<1>1. /\ jpc[j] = "score" /\ jrows[j] \in Table /\ Output(j) \in Dump /\ j \in Shard
      /\ jnum[j] \in ShardCounts /\ r \in Nat /\ r < MaxRows /\ jnum' = jnum
      /\ jcur' = [jcur EXCEPT ![j] = @ + jnum[j]] /\ jcur \in [Job -> 0 .. MaxRows + MaxShards]
      /\ part \in [Shard -> Dump \cup {NoFile}]
  BY ShardFacts DEF DumpRow, TypeInv, PriorsTypeOK, JobMemory, Table
<1>2. r \in Row
  BY <1>1, ReleasesAssumption DEF Row
<1>3. Sharded(j)' = Sharded(j)
  BY <1>1 DEF Sharded
<1>4. IF Sharded(j) THEN part' = [part EXCEPT ![j] = @ \o new] /\ dump' = dump
                    ELSE dump' = dump \o new /\ part' = part
  BY Zenon DEF DumpRow
<1>5. Output(j)' = Output(j) \o new
  <2> HIDE DEF new
  <2> QED BY <1>1, <1>3, <1>4 DEF Output
<1>6. IF Sharded(j) THEN dump' = dump /\ part' = [part EXCEPT ![j] = Output(j)']
                    ELSE part' = part /\ dump' = Output(j)'
  <2> HIDE DEF new
  <2> QED BY <1>1, <1>3, <1>4, <1>5 DEF Output
<1>7. CASE r \in EmptyRows
  <2>1. Output(j)' = Output(j)
    BY <1>1, <1>5, <1>7 DEF Dump
  <2> QED
    BY <1>1, <1>2, <1>3, <1>6, <2>1
<1>8. CASE r \notin EmptyRows
  <2>1. ScoreOf(j, r) \in Record
    BY <1>1, <1>2, <1>8
    DEF DumpRow, HasViews, ScoreOf, Record, TypeInv, BuilderInv, BuilderTypes,
        DirTypeOK, Table
  <2>2. Output(j)' = Append(Output(j), ScoreOf(j, r)) /\ Output(j)' \in Dump
    BY <1>1, <1>5, <1>8, <2>1 DEF Dump
  <2> QED
    BY <1>1, <1>2, <1>3, <1>6, <2>1, <2>2
<1> QED
  BY <1>7, <1>8

\* What a job step does to the types of the job's state and of its files.
LEMMA JobStepTypes ==
  ASSUME TypeInv, PartsApart, NEW j \in Job, JobStep(j)
  PROVE  /\ JobFilesTyped /\ JobStateTyped /\ JobMemory'
         /\ freq' = NoFile \/ freq' = freq
<1>1. PriorsTypeOK /\ JobMemory
  BY DEF TypeInv
<1>2. jpc[j] # "idle" /\ jpc[j] \in JobSteps /\ jmodel[j] \in ModelArgs /\ jnum[j] \in ShardCounts
      /\ (j < jnum[j] \/ (j = MergeJob /\ jnum[j] > 1))
  <2>1. jpc[j] # "idle"
    BY DEF JobStep, DumpRow, DumpRowMissing, DumpEnd,
       MergeRemovePart, MarkFreqStale, RunPriors, PublishPriors, JobGo
  <2> QED BY <1>1, <2>1 DEF JobMemory, PriorsTypeOK, Sharded
<1>3. CASE DumpRow(j)
  <2>1. /\ jpc[j] = "score" /\ j \in Shard /\ jcur[j] \in Row /\ jnum[j] \in ShardCounts
        /\ Output(j)' \in Dump
        /\ IF Sharded(j) THEN dump' = dump /\ part' = [part EXCEPT ![j] = Output(j)']
                         ELSE part' = part /\ dump' = Output(j)'
    BY <1>3, DumpRowAppends
  <2>2. jcur' \in [Job -> 0 .. MaxRows + MaxShards]
    <3>1. jcur[j] + jnum[j] \in 0 .. MaxRows + MaxShards
      BY <2>1, ShardFacts DEF Row
    <3> QED BY <1>1, <1>3, <3>1 DEF DumpRow, PriorsTypeOK
  <2>3. UNCHANGED <<dirVars, jpc, jnum, jrows, jmodel, jmeta>>
    BY <1>3 DEF DumpRow
  <2>4. UNCHANGED <<priors, freq>>
    BY <2>3 DEF dirVars
  <2>5. JobFilesTyped /\ JobStateTyped
    BY <1>1, <2>1, <2>2, <2>3, <2>4 DEF JobFilesTyped, JobStateTyped, PriorsTypeOK
  <2>6. \A k \in Shard \ {j} : part'[k] = part[k]
    BY <1>1, <2>1 DEF PriorsTypeOK
  <2>7. jrows'[j] \in Table /\ jpc'[j] # "publish"
    BY <1>1, <2>1, <2>3 DEF JobMemory
  <2>8. JobMemory'
    BY <1>1, <1>2, <2>1, <2>3, <2>6, <2>7, OthersRemember
  <2> QED BY <2>4, <2>5, <2>8
<1>4. CASE DumpRowMissing(j) \/ DumpEnd(j) \/ RunPriors(j)
  <2>1. UNCHANGED <<dirVars, dumpVars>>
    BY <1>4 DEF DumpRowMissing, DumpEnd, RunPriors
  <2>2. UNCHANGED <<priors, freq, manifest, parquet, dump, part>>
    BY <2>1 DEF dirVars, dumpVars
  <2>3. JobFilesTyped
    BY <1>1, <2>2 DEF PriorsTypeOK, JobFilesTyped
  <2>4. CASE JobExit(j)
    BY <1>1, <2>2, <2>3, <2>4, JobExitTyped, JobExitMemory
  <2>5. CASE DumpEnd(j) /\ ~JobExit(j)
    <3>1. jpc' = [jpc EXCEPT ![j] = "mark_freq"] /\ UNCHANGED <<jnum, jrows, jcur, jmodel, jmeta>>
      BY <2>5 DEF DumpEnd, JobGo
    <3>2. \A k \in Job \ {j} : jpc'[k] = jpc[k]
      BY <1>1, <3>1 DEF PriorsTypeOK
    <3>3. jpc'[j] = "mark_freq"
      BY <1>1, <3>1 DEF PriorsTypeOK
    <3>4. JobMemory'
      BY <1>1, <1>2, <2>2, <3>1, <3>2, <3>3, OthersRemember
    <3>5. JobStateTyped
      BY <1>1, <3>1 DEF PriorsTypeOK, JobStateTyped, JobSteps
    <3> QED BY <2>2, <2>3, <3>4, <3>5
  <2>6. CASE RunPriors(j) /\ ~JobExit(j)
    <3> DEFINE m == [recs |-> dump, man |-> manifest, par |-> parquet,
                     model |-> jmodel[j]]
    <3>1. dump # NoFile /\ manifest # NoFile /\ parquet # NoFile
      BY <2>6 DEF RunPriors
    <3>2. m \in Priors
      BY <1>1, <1>2, <3>1
      DEF Priors, PriorsTypeOK, TypeInv, BuilderInv, BuilderTypes, DirTypeOK
    <3>3. /\ jpc' = [jpc EXCEPT ![j] = "publish"]
          /\ jmeta' = [jmeta EXCEPT ![j] = m]
          /\ UNCHANGED <<jnum, jrows, jcur, jmodel>>
      BY <2>6, <3>1 DEF RunPriors, JobGo
    <3> HIDE DEF m
    <3>4. \A k \in Job \ {j} : jpc'[k] = jpc[k] /\ jmeta'[k] = jmeta[k]
      BY <1>1, <3>3 DEF PriorsTypeOK
    <3>5. jpc'[j] = "publish" /\ jmeta'[j] = m
      BY <1>1, <3>3 DEF PriorsTypeOK
    <3>6. JobMemory'
      BY <1>1, <1>2, <2>2, <3>2, <3>3, <3>4, <3>5, OthersRemember
    <3>7. JobStateTyped
      BY <1>1, <3>2, <3>3 DEF PriorsTypeOK, JobStateTyped, JobSteps
    <3> QED BY <2>2, <2>3, <3>6, <3>7
  <2> QED
    BY <1>4, <2>4, <2>5, <2>6 DEF DumpRowMissing
<1>5. CASE MarkFreqStale(j)
  <2>1. /\ jpc' = [jpc EXCEPT ![j] = "priors"] /\ freq' = NoFile
        /\ UNCHANGED <<priors, dump, part, jnum, jrows, jcur, jmodel, jmeta>>
    BY <1>5 DEF MarkFreqStale, JobGo, dumpVars
  <2>2. (\A k \in Job \ {j} : jpc'[k] = jpc[k]) /\ jpc'[j] = "priors"
    BY <1>1, <2>1 DEF PriorsTypeOK
  <2>3. JobMemory'
    BY <1>1, <1>2, <2>1, <2>2, OthersRemember
  <2>4. JobFilesTyped /\ JobStateTyped
    BY <1>1, <2>1 DEF PriorsTypeOK, JobFilesTyped, JobStateTyped, JobSteps
  <2> QED BY <2>1, <2>3, <2>4
<1>6. CASE PublishPriors(j)
  <2>1. /\ jpc[j] = "publish" /\ priors' = jmeta[j] /\ JobExit(j)
        /\ UNCHANGED <<freq, dump, part>>
    BY <1>6 DEF PublishPriors, dumpVars
  <2> QED
    BY <1>1, <2>1, JobExitTyped, JobExitMemory
    DEF PriorsTypeOK, JobMemory, JobFilesTyped
<1>7. CASE j = MergeJob /\ MergeRemovePart
  <2>1. ~Overlap /\ jpc[j] = "remove_parts"
    <3>1. j # 0 /\ jpc[j] = "remove_parts"
      BY <1>7, ZeroIsShard DEF MergeRemovePart
    <3> QED BY <1>1, <3>1, OneJob DEF PartsApart
  <2>2. \A k \in Job : jpc[k] # "score"
    BY <2>1 DEF TypeInv, JobsApart
  <2>3. UNCHANGED <<dirVars, dump, jnum, jrows, jmodel, jmeta>>
    BY <1>7 DEF MergeRemovePart
  <2>4. /\ part' \in [Shard -> Dump \cup {NoFile}] /\ jcur' \in [Job -> 0 .. MaxRows + MaxShards]
        /\ jpc' \in [Job -> JobSteps] /\ \A k \in Job \ {j} : jpc'[k] = jpc[k]
        /\ jpc'[j] \in {"remove_parts", "mark_freq"}
    <3>1. CASE jcur[j] < jnum[j]
      <4>1. jcur[j] + 1 \in 0 .. MaxRows + MaxShards
        BY <1>1, <1>2, <3>1, ShardFacts DEF PriorsTypeOK
      <4> QED BY <1>1, <1>7, <2>1, <3>1, <4>1 DEF MergeRemovePart, PriorsTypeOK
    <3>2. CASE ~(jcur[j] < jnum[j])
      BY <1>1, <1>7, <3>2 DEF MergeRemovePart, PriorsTypeOK, JobSteps
    <3> QED BY <3>1, <3>2
  <2>5. JobFilesTyped /\ JobStateTyped
    BY <1>1, <2>3, <2>4 DEF PriorsTypeOK, JobFilesTyped, JobStateTyped, dirVars
  <2>6. JobMemory'
    <3>1. \A k \in Shard \ {j} : jpc[k] # "score"
      BY <2>2, ShardFacts
    <3> QED BY <1>1, <1>2, <2>3, <2>4, <3>1, OthersRemember
  <2> QED BY <2>3, <2>5, <2>6 DEF dirVars
<1> QED
  BY <1>3, <1>4, <1>5, <1>6, <1>7 DEF JobStep
\* The builder only ever removes priors and frequency tables.
LEMMA BuilderWithdraws ==
  ASSUME StartBuild \/ BuildStep \/ BuildFault
  PROVE  priors' \in {priors, NoFile} /\ freq' \in {freq, NoFile}
  BY DEF StartBuild, BuildSkipDownload, BuildDownload, BuildStep, BuildFault,
     BuildExtract, BuildReadRows, BuildWorker, BuildWorkerFails,
     BuildCheckComplete, BuildInvalidateParquet, BuildInvalidatePriors,
     BuildInvalidateManifest, BuildSetAside, BuildSwap, BuildSwapFails,
     BuildDropBackup, BuildWriteManifest, BuildConvertRead, BuildConvertWrite,
     BuildMarkPriorsStale, BuildMarkFreqStale, BuildKilled, dirVars, datasets,
     sources, derived

LEMMA DumpStartTypes ==
  ASSUME TypeInv, StartDump
  PROVE  /\ JobFilesTyped /\ JobStateTyped /\ JobMemory'
         /\ UNCHANGED <<priors, freq>>
<1>1. PICK k \in Shard, num \in ShardCounts, model \in ModelArgs : DumpStart(k, num, model)
  BY DEF StartDump
<1>2. /\ jsonl # NoFile /\ k < num
      /\ jpc' = [jpc EXCEPT ![k] = "score"]
      /\ jnum' = [jnum EXCEPT ![k] = num]
      /\ jrows' = [jrows EXCEPT ![k] = jsonl]
      /\ jcur' = [jcur EXCEPT ![k] = k]
      /\ jmodel' = [jmodel EXCEPT ![k] = model]
      /\ IF num > 1 THEN part' = [part EXCEPT ![k] = <<>>] /\ dump' = dump
                    ELSE dump' = <<>> /\ part' = part
      /\ UNCHANGED <<priors, freq, jmeta>>
  BY <1>1 DEF DumpStart, dirVars
<1>3. jsonl \in Table /\ PriorsTypeOK /\ JobMemory
  BY <1>2 DEF TypeInv, BuilderInv, BuilderTypes, DirTypeOK
<1>4. <<>> \in Dump
  BY DEF Dump
<1>5. JobFilesTyped /\ JobStateTyped
  BY <1>2, <1>3, <1>4, ShardFacts DEF PriorsTypeOK, JobFilesTyped, JobStateTyped, JobSteps
<1>6. k \in Job /\ \A j \in Job \ {k} : /\ jpc'[j] = jpc[j] /\ jnum'[j] = jnum[j] /\ jrows'[j] = jrows[j]
                                        /\ jmodel'[j] = jmodel[j] /\ jmeta'[j] = jmeta[j]
  BY <1>2, <1>3, ShardFacts DEF PriorsTypeOK
<1>7. jpc'[k] = "score" /\ jnum'[k] = num /\ jrows'[k] = jsonl /\ jmodel'[k] = model
  BY <1>2, <1>3, <1>6 DEF PriorsTypeOK
<1>8. Output(k)' \in Dump
  BY <1>2, <1>3, <1>4, <1>7 DEF PriorsTypeOK, Output, Sharded
<1>9. \A j \in Shard \ {k} : part'[j] = part[j]
  BY <1>2, <1>3 DEF PriorsTypeOK
<1>10. JobMemory'
  <2>1. dump' \in Dump \/ dump' = dump
    BY <1>2, <1>4
  <2> QED BY <1>2, <1>3, <1>6, <1>7, <1>8, <1>9, <2>1, OthersRemember
<1> QED
  BY <1>2, <1>5, <1>10

\* What merge_dump_records returns is made of the records of the parts.
LEMMA MergedRecords ==
  ASSUME NEW num \in Nat \ {0}, \A k \in 0 .. num - 1 : part[k] \in Dump,
         NEW d \in MergeDumpRecords(num)
  PROVE  /\ PartRecords(num) = Flat([i \in 1 .. num |-> part[i - 1]], num)[num]
         /\ PartRecords(num) \in Dump /\ d \in Dump
<1> DEFINE m == [i \in 1 .. num |-> part[i - 1]]
           records == PartRecords(num)
<1>1. \A i \in 1 .. num : m[i] = part[i - 1] /\ m[i] \in Dump
  <2>1. \A i \in 1 .. num : i - 1 \in 0 .. num - 1
    OBVIOUS
  <2> QED BY <2>1
<1>2. records = Flat(m, num)[num]
  <2>1. Len(m) = num /\ m[1] \in Seq(Record)
    BY <1>1 DEF Dump
  <2>2. FlattenSeq(m) = (CHOOSE f : f = Unrolled(f, m, num))[num]
    <3> HIDE DEF m
    <3> QED BY <2>1 DEF FlattenSeq, Unrolled
  <2> HIDE DEF m
  <2>3. FlattenSeq(m) = Flat(m, num)[num]
    BY <2>1, <2>2, UnrolledIsFlat
  <2> QED BY <2>3 DEF PartRecords, m
<1>3. records \in Dump
  <2> HIDE DEF m, records
  <2>1. \A i \in 1 .. num : m[i] \in Seq(Record)
    BY <1>1 DEF Dump
  <2>2. \A i \in 0 .. num : Flat(m, num)[i] \in Seq(Record)
    BY <2>1, FlatSeq
  <2> QED BY <1>2, <2>2 DEF Dump
<1>4. d \in Dump
  <2> HIDE DEF records
  <2>1. PICK p \in [DOMAIN records -> DOMAIN records] : d = [i \in DOMAIN records |-> records[p[i]]]
    BY DEF MergeDumpRecords, records
  <2>2. DOMAIN records = 1 .. Len(records) /\ Len(records) \in Nat
        /\ \A i \in DOMAIN records : records[i] \in Record
    BY <1>3 DEF Dump
  <2>3. d \in [1 .. Len(records) -> Record]
    BY <2>1, <2>2
  <2> QED BY <2>2, <2>3 DEF Dump
<1> QED BY <1>2, <1>3, <1>4

LEMMA MergeStartTypes ==
  ASSUME TypeInv, PartsApart, StartMerge
  PROVE  /\ JobFilesTyped /\ JobStateTyped /\ JobMemory' /\ JobsIdle /\ ~Overlap
         /\ UNCHANGED <<priors, freq, part>>
<1>1. PICK num \in ShardCounts \ {1}, model \in ModelArgs : MergeStart(num, model)
  BY DEF StartMerge
<1>2. ~Overlap /\ JobsIdle
  BY <1>1 DEF StartMerge, PartsApart, OneShard
<1>3. /\ dump' \in MergeDumpRecords(num) /\ \A k \in 0 .. num - 1 : part[k] # NoFile
      /\ jpc' = [jpc EXCEPT ![MergeJob] = "remove_parts"]
      /\ jnum' = [jnum EXCEPT ![MergeJob] = num]
      /\ jmodel' = [jmodel EXCEPT ![MergeJob] = model]
      /\ UNCHANGED <<priors, freq, part, jrows, jcur, jmeta>>
  BY <1>1 DEF MergeStart, dirVars
<1>4. PriorsTypeOK /\ JobMemory
  BY DEF TypeInv
<1>5. num \in Nat \ {0} /\ num \in 0 .. MaxShards /\ num > 1 /\ 0 .. num - 1 \subseteq Shard
  BY ShardFacts DEF Shard
<1>6. \A k \in 0 .. num - 1 : part[k] \in Dump
  BY <1>3, <1>4, <1>5 DEF PriorsTypeOK
<1>7. dump' \in Dump
  BY <1>3, <1>5, <1>6, MergedRecords
<1>8. JobFilesTyped /\ JobStateTyped
  BY <1>3, <1>4, <1>5, <1>7 DEF PriorsTypeOK, JobFilesTyped, JobStateTyped, JobSteps
<1>9. MergeJob \in Job /\ \A j \in Job \ {MergeJob} :
           /\ jpc'[j] = jpc[j] /\ jnum'[j] = jnum[j] /\ jrows'[j] = jrows[j]
           /\ jmodel'[j] = jmodel[j] /\ jmeta'[j] = jmeta[j]
  BY <1>3, <1>4, ZeroIsShard DEF PriorsTypeOK
<1>10. jpc'[MergeJob] = "remove_parts" /\ jnum'[MergeJob] = num /\ jmodel'[MergeJob] = model
  BY <1>3, <1>4, <1>9 DEF PriorsTypeOK
<1>11. JobMemory'
  BY <1>3, <1>4, <1>5, <1>7, <1>9, <1>10, OthersRemember
<1> QED
  BY <1>2, <1>3, <1>8, <1>11

LEMMA FreqStepTypes ==
  ASSUME TypeInv, StartFreq \/ FreqStep \/ FreqKilled
  PROVE  FreqTypeOK' /\ FreqMemory' /\ UNCHANGED <<dump, part, priors>>
<1> USE DEF TypeInv, FreqTypeOK, FreqMemory, FreqExit, dirVars, dumpVars
<1>1. CASE StartFreq
  <2>1. PICK model \in ModelArgs : FreqStart(model)
    BY <1>1 DEF StartFreq
  <2> QED
    BY <2>1 DEF FreqStart, PriorsTypeOK
<1>2. CASE FreqCount
  BY <1>2 DEF FreqCount
<1>3. CASE FreqHash
  BY <1>3 DEF FreqHash
<1>4. CASE FreqPublish
  <2>1. [counts |-> fcounts, sha |-> fsha, model |-> fmodel] \in Freqs
    BY <1>4 DEF FreqPublish, Freqs
  <2> QED
    BY <1>4, <2>1 DEF FreqPublish
<1>5. CASE FreqKilled
  BY <1>5 DEF FreqKilled
<1> QED
  BY <1>1, <1>2, <1>3, <1>4, <1>5 DEF FreqStep

LEMMA LaunchTypes ==
  ASSUME GateTypeOK, StartLaunch \/ LaunchStep
  PROVE  GateTypeOK' /\ UNCHANGED <<dump, part, priors, freq>>
  BY GateAssumption
  DEF StartLaunch, LaunchStart, LaunchStep, ValidatePriors, ValidateFreq,
      TrainEnd, GateTypeOK, dirVars, dumpVars

\* The launcher, the counters, and the importer that is not used.
LEMMA RestTypesStep ==
  ASSUME NoImport, BuilderInv, RestTypes, [Next]_vars
  PROVE  RestTypes'
<1> USE PipelineAssumption DEF RestTypes, gateVars, importVars
<1>0. ipc = "idle"
  BY DEF BuilderInv, BuilderTypes
<1>1. CASE StartBuild \/ StartDump \/ StartMerge \/ StartFreq
  BY <1>1 DEF StartBuild, StartDump, StartMerge, StartFreq, ImportTypeOK,
     GateTypeOK
<1>2. CASE StartImport \/ RunImport
  BY <1>0, <1>2 DEF StartImport, MayStart, NoImport, RunImport, ImportStep,
     ImportPositive, ImportNegative, ImportOpenManifest, ImportWriteManifest,
     ImportConvertRead, ImportConvertWrite
<1>3. CASE StartLaunch \/ RunLaunch
  <2>1. GateTypeOK'
    BY <1>3, LaunchTypes DEF RunLaunch
  <2> QED
    BY <1>3, <2>1 DEF StartLaunch, RunLaunch, ImportTypeOK
<1>4. CASE RunBuild \/ RunFreq
  BY <1>4 DEF RunBuild, RunFreq, ImportTypeOK, GateTypeOK
<1>5. ASSUME NEW j \in Job, RunJob(j)
      PROVE  RestTypes'
  BY <1>5 DEF RunJob, ImportTypeOK, GateTypeOK
<1>6. CASE Fault
  <2>1. faults' \in 0 .. MaxFaults /\ stage' = stage /\ GateTypeOK'
    BY <1>6 DEF Fault, GateTypeOK
  <2>2. UNCHANGED importVars
    BY <1>0, <1>6 DEF Fault, ImportDies
  <2> QED
    BY <2>1, <2>2 DEF ImportTypeOK
<1>7. CASE UNCHANGED vars
  BY <1>7 DEF vars, ImportTypeOK, GateTypeOK
<1> QED
  BY <1>1, <1>2, <1>3, <1>4, <1>5, <1>6, <1>7 DEF Next, Progress

\* A job that starts beside others is a shard beside shards, and one that is
\* past its rows has no other beside it.
LEMMA JobsApartStep ==
  ASSUME ~Overlap, PriorsTypeOK, JobsApart, [Next]_vars
  PROVE  JobsApart'
<1> USE DEF JobsApart, Sharded, PriorsTypeOK
<1>1. ASSUME UNCHANGED <<jpc, jnum>>
      PROVE  JobsApart'
  BY <1>1
<1>2. CASE StartBuild \/ StartImport \/ StartFreq \/ StartLaunch
  BY <1>1, <1>2 DEF StartBuild, StartImport, StartFreq, StartLaunch, priorsVars, jobVars
<1>3. CASE StartDump
  <2>1. PICK k \in Shard, num \in ShardCounts, model \in ModelArgs :
           DumpStart(k, num, model) /\ (JobsIdle \/ (num > 1 /\ OnlyShardsRun))
    BY <1>3 DEF StartDump
  <2>2. jpc' = [jpc EXCEPT ![k] = "score"] /\ jnum' = [jnum EXCEPT ![k] = num] /\ k \in Job
    BY <2>1, ShardFacts DEF DumpStart
  <2>3. CASE JobsIdle
    BY <2>2, <2>3 DEF JobsIdle
  <2>4. CASE num > 1 /\ OnlyShardsRun
    BY <2>2, <2>4 DEF OnlyShardsRun
  <2> QED BY <2>1, <2>3, <2>4
<1>4. CASE StartMerge
  <2>1. JobsIdle /\ \A j \in Job \ {MergeJob} : jpc'[j] = jpc[j]
    BY <1>4 DEF StartMerge, MergeStart
  <2> QED BY <2>1 DEF JobsIdle
<1>5. CASE RunBuild \/ RunImport \/ RunFreq \/ RunLaunch
  BY <1>1, <1>5 DEF RunBuild, RunImport, RunFreq, RunLaunch, priorsVars, jobVars
<1>6. ASSUME NEW j \in Job, jpc[j] # "idle",
             \A k \in Job \ {j} : jpc'[k] = jpc[k] /\ jnum'[k] = jnum[k],
             jpc[j] = "score" /\ Sharded(j)
               => jpc'[j] = "idle" \/ (jpc'[j] = "score" /\ jnum'[j] = jnum[j])
      PROVE  JobsApart'
  BY <1>6
<1>7. ASSUME NEW j \in Job, JobExit(j), jpc[j] # "idle"
      PROVE  JobsApart'
  <2>1. jpc'[j] = "idle" /\ \A k \in Job \ {j} : jpc'[k] = jpc[k] /\ jnum'[k] = jnum[k]
    BY <1>7 DEF JobExit
  <2> QED BY <1>6, <1>7, <2>1
<1>8. ASSUME NEW j \in Job, RunJob(j)
      PROVE  JobsApart'
  <2>1. jpc[j] # "idle"
    BY <1>8 DEF RunJob, JobStep, DumpRow, DumpRowMissing, DumpEnd,
       MergeRemovePart, MarkFreqStale, RunPriors, PublishPriors, JobGo
  <2>2. CASE JobExit(j)
    BY <1>7, <2>1, <2>2
  <2>3. CASE DumpRow(j)
    BY <1>1, <2>3 DEF DumpRow
  <2>4. CASE ~JobExit(j) /\ ~DumpRow(j)
    <3>1. jnum' = jnum /\ \A k \in Job \ {j} : jpc'[k] = jpc[k]
      BY <1>8, <2>4 DEF RunJob, JobStep, DumpRowMissing, DumpEnd,
         MergeRemovePart, MarkFreqStale, RunPriors, PublishPriors, JobGo
    <3>2. ~(jpc[j] = "score" /\ Sharded(j))
      BY <1>8, <2>4 DEF RunJob, JobStep, DumpRowMissing, DumpEnd,
         MergeRemovePart, MarkFreqStale, RunPriors, PublishPriors, JobGo
    <3> QED BY <1>6, <2>1, <3>1, <3>2
  <2> QED BY <2>2, <2>3, <2>4
<1>9. CASE Fault
  <2>1. CASE UNCHANGED <<jpc, jnum>>
    BY <1>1, <2>1
  <2>2. CASE \E j \in Job : JobKilled(j)
    BY <1>7, <2>2 DEF JobKilled
  <2> QED BY <1>9, <2>1, <2>2 DEF Fault, priorsVars, jobVars
<1>10. CASE UNCHANGED vars
  BY <1>1, <1>10 DEF vars, priorsVars, jobVars
<1> QED
  BY <1>2, <1>3, <1>4, <1>5, <1>8, <1>9, <1>10 DEF Next, Progress

LEMMA TypeInvStep ==
  ASSUME NoImport, PartsApart, TypeInv, [Next]_vars
  PROVE  TypeInv'
<1>1. BuilderInv' /\ RestTypes' /\ ipc = "idle"
  BY BuilderInvStep, RestTypesStep DEF TypeInv, BuilderInv, BuilderTypes
<1>0. Overlap \/ JobsApart'
  BY JobsApartStep DEF TypeInv
<1>2. ASSUME JobFilesTyped, JobStateTyped, JobMemory',
             freq' \in {freq, NoFile}, UNCHANGED freqVars
      PROVE  TypeInv'
  BY <1>0, <1>1, <1>2 DEF TypeInv, PriorsTypeOK, FreqTypeOK, FreqMemory, freqVars,
     JobFilesTyped, JobStateTyped
<1>3. ASSUME UNCHANGED <<dump, part, jobVars>>, priors' \in {priors, NoFile}
      PROVE  PriorsTypeOK' /\ JobMemory'
  BY <1>3 DEF TypeInv, PriorsTypeOK, JobMemory, Output, Sharded, jobVars
<1>4. ASSUME UNCHANGED <<dump, freqVars>>, freq' \in {freq, NoFile}
      PROVE  FreqTypeOK' /\ FreqMemory'
  BY <1>4 DEF TypeInv, FreqTypeOK, FreqMemory, freqVars
<1>5. CASE StartBuild \/ RunBuild
  <2>1. UNCHANGED <<dump, part, jobVars, freqVars>>
    BY <1>5 DEF StartBuild, RunBuild, priorsVars, dumpVars
  <2> QED
    BY <1>0, <1>1, <1>3, <1>4, <1>5, <2>1, BuilderWithdraws DEF TypeInv, RunBuild
<1>6. CASE StartImport \/ RunImport
  BY <1>1, <1>6 DEF StartImport, MayStart, NoImport, RunImport, ImportStep,
     ImportPositive, ImportNegative, ImportOpenManifest, ImportWriteManifest,
     ImportConvertRead, ImportConvertWrite
<1>7. CASE StartDump
  BY <1>2, <1>7, DumpStartTypes DEF StartDump
<1>13. CASE StartMerge
  BY <1>2, <1>13, MergeStartTypes DEF StartMerge
<1>8. CASE StartFreq \/ RunFreq
  <2>1. UNCHANGED jobVars
    BY <1>8 DEF StartFreq, RunFreq
  <2> QED
    BY <1>0, <1>1, <1>3, <1>8, <2>1, FreqStepTypes DEF TypeInv, RunFreq
<1>9. CASE StartLaunch \/ RunLaunch
  <2>1. UNCHANGED <<jobVars, freqVars>>
    BY <1>9 DEF StartLaunch, RunLaunch
  <2>2. UNCHANGED <<dump, part, priors, freq>>
    BY <1>9, LaunchTypes DEF TypeInv, RestTypes, RunLaunch
  <2> QED
    BY <1>0, <1>1, <1>3, <1>4, <2>1, <2>2 DEF TypeInv
<1>10. ASSUME NEW j \in Job, RunJob(j)
       PROVE  TypeInv'
  BY <1>2, <1>10, JobStepTypes DEF RunJob
<1>11. CASE Fault
  <2>1. CASE BuildFault /\ UNCHANGED <<importVars, priorsVars, freqVars>>
    BY <1>0, <1>1, <1>3, <1>4, <2>1, BuilderWithdraws DEF TypeInv, priorsVars, dumpVars
  <2>2. CASE ImportDies
    BY <1>1, <2>2 DEF ImportDies
  <2>3. ASSUME NEW j \in Job, JobKilled(j), UNCHANGED <<buildVars, importVars, freqVars>>
        PROVE  TypeInv'
    <3>1. UNCHANGED <<dump, part, priors, freq>>
      BY <2>3 DEF JobKilled, dirVars, dumpVars
    <3>2. JobFilesTyped /\ JobStateTyped /\ JobMemory'
      BY <2>3, <3>1, JobExitTyped, JobExitMemory
      DEF JobKilled, TypeInv, PriorsTypeOK, JobFilesTyped
    <3> QED
      BY <1>2, <2>3, <3>1, <3>2
  <2>4. CASE FreqKilled /\ UNCHANGED <<buildVars, importVars, jobVars>>
    BY <1>0, <1>1, <1>3, <2>4, FreqStepTypes DEF TypeInv
  <2> QED
    BY <1>11, <2>1, <2>2, <2>3, <2>4 DEF Fault
<1>12. CASE UNCHANGED vars
  BY <1>0, <1>1, <1>3, <1>4, <1>12 DEF vars, TypeInv, priorsVars, dumpVars, dirVars
<1> QED
  BY <1>5, <1>6, <1>7, <1>8, <1>9, <1>10, <1>11, <1>12, <1>13 DEF Next, Progress

\* Every variable keeps its type, whatever is killed and however many shards
\* dump beside one another, as long as nothing is imported; without shards
\* this holds even if the tools overlap.
THEOREM TypeTheorem ==
  ASSUME NoImport, PartsApart
  PROVE  Spec => []TypeOK
<1>1. TypeInv => TypeOK
  BY DEF TypeInv, TypeOK, BuilderInv, BuilderTypes, RestTypes
<1> QED
  BY TypeInvInit, TypeInvStep, <1>1, PTL DEF Spec

----------------------------------------------------------------------------
(***************************************************************************)
(* Part 4.  The priors training uses were scored on the negatives on disk. *)
(***************************************************************************)

Scored(recs) == \A i \in DOMAIN recs : recs[i].neg = neg[recs[i].idx]

\* Priors, a dump in progress and unpublished priors all describe the negative
\* views on disk; a launch past the first validation has found priors.
ScoredInv ==
  /\ priors # NoFile => Scored(priors.recs)
  /\ jpc[0] # "idle" => Scored(dump)
  /\ jpc[0] = "publish" => Scored(jmeta[0].recs)
  /\ lpc \in {"validate_freq", "train"} => priors # NoFile

ToolInv == OneToolInv /\ TypeInv
PipelineInv == ToolInv /\ ScoredInv

LEMMA ScoredInvInit == Init => ScoredInv
  BY ZeroIsShard DEF Init, DirInit, PriorsInit, GateInit, ScoredInv

\* Nothing else runs while the builder starts or takes a step.
LEMMA BuilderAlone ==
  ASSUME ~Overlap, Exclusive, StartBuild \/ BuildStep \/ BuildFault
  PROVE  JobsIdle /\ lpc = "idle"
<1>1. CASE StartBuild
  BY <1>1 DEF StartBuild, MayStart, NoOtherTool
<1>2. CASE BuildStep \/ BuildFault
  <2>1. bpc # "idle"
    BY <1>2 DEF BuildFault, BuildWorkerFails, BuildSwapFails, BuildKilled,
       BuildStep, BuildExtract, BuildReadRows, BuildWorker,
       BuildCheckComplete, BuildInvalidateParquet, BuildInvalidatePriors,
       BuildInvalidateManifest, BuildSetAside, BuildSwap, BuildDropBackup,
       BuildWriteManifest, BuildConvertRead, BuildConvertWrite,
       BuildMarkPriorsStale, BuildMarkFreqStale, BuildGo
  <2> QED
    BY <2>1 DEF Exclusive
<1> QED
  BY <1>1, <1>2

LEMMA JobRuns ==
  ASSUME NEW j \in Job, RunJob(j)
  PROVE  jpc[j] # "idle"
BY DEF RunJob, JobStep, DumpRow, DumpRowMissing, DumpEnd, MergeRemovePart,
   MarkFreqStale, RunPriors, PublishPriors, JobGo

LEMMA ScoredByBuilder ==
  ASSUME NoImport, ~Overlap, PipelineInv, [Next]_vars,
         StartBuild \/ BuildStep \/ BuildFault, UNCHANGED <<priorsVars, gateVars>>
  PROVE  ScoredInv'
<1>1. jpc[0] = "idle" /\ lpc = "idle" /\ jpc' = jpc /\ lpc' = lpc
  BY BuilderAlone, ZeroIsShard
  DEF PipelineInv, ToolInv, OneToolInv, JobsIdle, priorsVars, jobVars, gateVars
<1>2. priors' \in {priors, NoFile}
  BY BuilderWithdraws
<1>3. neg' # neg => priors = NoFile
  BY NegativesFrame DEF PipelineInv, ToolInv
<1> QED
  BY <1>1, <1>2, <1>3 DEF PipelineInv, ToolInv, ScoredInv, Scored

LEMMA ScoredByJob ==
  ASSUME OneShard, PipelineInv, NEW j \in Job, RunJob(j)
  PROVE  ScoredInv'
<1>1. j = 0 /\ jpc[0] # "idle" /\ ~Sharded(0) /\ Output(0) = dump
  BY JobRuns, OneJob DEF PipelineInv, ToolInv, TypeInv
<1>2. lpc' = lpc /\ lpc = "idle"
  BY <1>1, ZeroIsShard
  DEF PipelineInv, ToolInv, OneToolInv, Exclusive, JobsIdle, RunJob, gateVars
<1>3. jpc \in [Job -> JobSteps] /\ 0 \in Job /\ jmeta \in [Job -> Priors \cup {NoFile}]
  BY ZeroIsShard DEF PipelineInv, ToolInv, TypeInv, PriorsTypeOK
<1>4. CASE DumpRow(0)
  <2>1. UNCHANGED <<priors, neg, jpc>> /\ jpc[0] = "score"
    BY <1>4 DEF DumpRow, dirVars
  <2>2. Scored(dump)'
    <3>1. CASE dump' = dump
      BY <1>1, <2>1, <3>1 DEF PipelineInv, ToolInv, ScoredInv, Scored
    <3>2. CASE /\ dump \in Dump /\ ScoreOf(0, jcur[0]) \in Record
               /\ dump' = Append(dump, ScoreOf(0, jcur[0]))
      <4>1. /\ ScoreOf(0, jcur[0]).idx = jcur[0]
            /\ ScoreOf(0, jcur[0]).neg = neg[jcur[0]]
        BY DEF ScoreOf
      <4>2. Scored(dump)
        BY <1>1 DEF PipelineInv, ToolInv, ScoredInv
      <4>3. \A i \in DOMAIN dump' : dump'[i].neg = neg[dump'[i].idx]
        BY <3>2, <4>1, <4>2 DEF Dump, Scored
      <4> QED
        BY <2>1, <4>3 DEF Scored
    <3>3. dump \in Dump /\ dump' = Output(0)' /\ 0 \in Job
      BY <1>1, <1>3, <1>4, DumpRowAppends DEF PipelineInv, ToolInv
    <3> QED
      BY <1>1, <1>4, <3>1, <3>2, <3>3, DumpRowAppends DEF PipelineInv, ToolInv
  <2> QED
    BY <1>2, <2>1, <2>2 DEF PipelineInv, ToolInv, ScoredInv, Scored
<1>5. CASE DumpRowMissing(0) \/ DumpEnd(0) \/ MarkFreqStale(0)
  <2>1. UNCHANGED <<priors, neg, dump>> /\ jpc'[0] # "publish"
    BY <1>3, <1>5 DEF DumpRowMissing, DumpEnd, MarkFreqStale, JobExit, JobGo,
       dirVars, sources, datasets, dumpVars
  <2> QED
    BY <1>1, <1>2, <2>1 DEF PipelineInv, ToolInv, ScoredInv, Scored
<1>6. CASE RunPriors(0)
  <2>1. UNCHANGED <<priors, neg, dump>>
    BY <1>6 DEF RunPriors, dirVars, dumpVars
  <2>2. jpc'[0] = "publish" => jmeta'[0].recs = dump
    BY <1>3, <1>6 DEF RunPriors, JobExit, JobGo
  <2> QED
    BY <1>1, <1>2, <2>1, <2>2 DEF PipelineInv, ToolInv, ScoredInv, Scored
<1>7. CASE PublishPriors(0)
  <2>1. UNCHANGED <<neg, dump>> /\ priors' = jmeta[0] /\ jpc'[0] = "idle"
        /\ jpc[0] = "publish"
    BY <1>3, <1>7 DEF PublishPriors, JobExit, datasets, dumpVars
  <2> QED
    BY <1>2, <2>1 DEF PipelineInv, ToolInv, ScoredInv, Scored
<1> QED
  BY <1>1, <1>4, <1>5, <1>6, <1>7, ZeroIsShard DEF RunJob, JobStep

LEMMA ScoredInvStep ==
  ASSUME NoImport, ~Overlap, OneShard, PipelineInv, [Next]_vars
  PROVE  ScoredInv'
<1>1. CASE StartBuild \/ RunBuild
  BY <1>1, ScoredByBuilder DEF StartBuild, RunBuild
<1>2. CASE StartImport \/ RunImport \/ StartMerge
  BY <1>2 DEF StartImport, MayStart, NoImport, RunImport, ImportStep,
     ImportPositive, ImportNegative, ImportOpenManifest, ImportWriteManifest,
     ImportConvertRead, ImportConvertWrite, StartMerge, OneShard, PipelineInv, ToolInv,
     OneToolInv, BuilderInv, BuilderTypes
<1>3. CASE StartDump
  <2>1. PICK k \in Shard, num \in ShardCounts, model \in ModelArgs : DumpStart(k, num, model)
    BY <1>3 DEF StartDump
  <2>2. k = 0 /\ num = 1
    BY <2>1, PriorsAssumption DEF DumpStart, OneShard, Shard
  <2>3. /\ dump' = <<>> /\ jpc' = [jpc EXCEPT ![0] = "score"]
        /\ UNCHANGED <<priors, neg>>
    BY <2>1, <2>2 DEF DumpStart, dirVars
  <2>4. jpc'[0] = "score"
    BY <2>3, ZeroIsShard DEF PipelineInv, ToolInv, TypeInv, PriorsTypeOK
  <2>5. UNCHANGED gateVars
    BY <1>3 DEF StartDump
  <2> QED
    BY <2>3, <2>4, <2>5 DEF PipelineInv, ToolInv, ScoredInv, Scored, gateVars
<1>4. CASE StartFreq \/ RunFreq \/ (FreqKilled /\ UNCHANGED <<jobVars, gateVars>>)
  <2>1. UNCHANGED <<priors, dump>>
    BY <1>4, FreqStepTypes DEF PipelineInv, ToolInv, RunFreq
  <2>2. UNCHANGED <<neg, jobVars, gateVars>>
    BY <1>4 DEF StartFreq, FreqStart, RunFreq, FreqStep, FreqCount, FreqHash,
       FreqPublish, FreqKilled, dirVars, datasets
  <2> QED
    BY <2>1, <2>2 DEF PipelineInv, ToolInv, ScoredInv, Scored, jobVars, gateVars
<1>5. CASE StartLaunch \/ RunLaunch
  <2>1. UNCHANGED <<priors, dump, neg, jobVars>>
    BY <1>5 DEF StartLaunch, LaunchStart, RunLaunch, LaunchStep,
       ValidatePriors, ValidateFreq, TrainEnd, dirVars, dumpVars
  <2>2. lpc' \in {"validate_freq", "train"} => priors # NoFile
    BY <1>5 DEF PipelineInv, ToolInv, ScoredInv, StartLaunch, LaunchStart, RunLaunch,
       LaunchStep, ValidatePriors, PriorsValid, ValidateFreq, TrainEnd
  <2> QED
    BY <2>1, <2>2 DEF PipelineInv, ToolInv, ScoredInv, Scored, jobVars
<1>6. ASSUME NEW j \in Job, RunJob(j)
      PROVE  ScoredInv'
  BY <1>6, ScoredByJob
<1>7. CASE Fault
  <2> USE <1>7 DEF Fault
  <2>1. CASE BuildFault /\ UNCHANGED priorsVars
    BY <2>1, ScoredByBuilder
  <2>2. CASE ImportDies
    BY <2>2 DEF ImportDies, PipelineInv, ToolInv, OneToolInv, BuilderInv, BuilderTypes
  <2>3. ASSUME NEW j \in Job, JobKilled(j)
        PROVE  ScoredInv'
    <3>1. j = 0 /\ UNCHANGED <<priors, dump, neg, gateVars>>
      BY <2>3, OneJob DEF JobKilled, dirVars, dumpVars, PipelineInv, ToolInv, TypeInv
    <3>2. jpc'[0] = "idle"
      BY <2>3, <3>1 DEF JobKilled, JobExit, PipelineInv, ToolInv, TypeInv, PriorsTypeOK
    <3> QED
      BY <3>1, <3>2 DEF PipelineInv, ToolInv, ScoredInv, Scored, gateVars
  <2>4. CASE FreqKilled /\ UNCHANGED jobVars
    BY <1>4, <2>4
  <2> QED
    BY <2>1, <2>2, <2>3, <2>4
<1>8. CASE UNCHANGED vars
  BY <1>8 DEF vars, dirVars, priorsVars, dumpVars, jobVars, gateVars,
     PipelineInv, ToolInv, ScoredInv, Scored
<1> QED
  BY <1>1, <1>2, <1>3, <1>4, <1>5, <1>6, <1>7, <1>8 DEF Next, Progress

\* Training reads negative views that its priors were scored on, whatever was
\* killed before the launch ("Training rejects stale or mismatched priors").
THEOREM ScoredTheorem ==
  ASSUME NoImport, ~Overlap, OneShard
  PROVE  Spec => []TrainedNegativesWereScored
<1>1. Init => PipelineInv
  BY OneToolInvInit, TypeInvInit, ScoredInvInit DEF PipelineInv, ToolInv
<1>2. PipelineInv /\ [Next]_vars => PipelineInv'
  BY OneToolInvStep, TypeInvStep, ScoredInvStep DEF PipelineInv, ToolInv, PartsApart
<1>3. PipelineInv => TrainedNegativesWereScored
  BY DEF PipelineInv, ToolInv, ScoredInv, Scored, TrainedNegativesWereScored, Training
<1> QED
  BY <1>1, <1>2, <1>3, PTL DEF Spec

----------------------------------------------------------------------------
(***************************************************************************)
(* Part 5.  The rows of the priors, whole or put together from shards.     *)
(* Part files carry neither a row count nor a shard count, so dumps that   *)
(* are merged must be of releases with the same number of rows, and all    *)
(* be cut into the same number of shards.                                  *)
(***************************************************************************)

SameRows  == \A g, h \in Releases : NRows[g] = NRows[h]
OneLayout == \E n : ShardCounts = {n}
PartsFit  == OneShard \/ (SameRows /\ OneLayout)

Layout == CHOOSE n : ShardCounts = {n}

Increasing(recs) == \A i, j \in DOMAIN recs : i < j => recs[i].idx < recs[j].idx
Within(recs, n) == \A i \in DOMAIN recs : recs[i].idx < n

\* Rows that job k of num_shards scores, of some release.
ShardRows(recs, k) ==
  \A i \in DOMAIN recs : /\ recs[i].idx % Layout = k
                         /\ \E g \in Releases : recs[i].idx < NRows[g]

\* Priors hold rows of the manifest they name, each once, and at least one.
RowsOf(p) == p.recs # <<>> /\ Increasing(p.recs) /\ Within(p.recs, p.man.n)

\* A dump follows the manifest that was there when it began.
JobRows(j) ==
  /\ jpc[j] = "score" =>
       /\ manifest # NoFile /\ jrows[j].n = manifest.n
       /\ Increasing(Output(j)) /\ Within(Output(j), manifest.n) /\ Within(Output(j), jcur[j])
  /\ jpc[j] \notin {"idle", "score"} =>
       Increasing(dump) /\ (manifest # NoFile => Within(dump, manifest.n))
  /\ jpc[j] = "publish" => RowsOf(jmeta[j])

WholeTables == {jsonl, manifest, brows} \subseteq {Whole(g) : g \in Releases} \cup {NoFile}

\* Every part file, of a running job or left behind by a dead one, holds rows
\* of its own residue class only.
PartsInv ==
  /\ WholeTables
  /\ \A k \in Shard : part[k] # NoFile => Increasing(part[k]) /\ ShardRows(part[k], k)
  /\ \A j \in Job : jpc[j] = "score" /\ Sharded(j) => jcur[j] % Layout = j

\* Manifest and Parquet file are of one length; nothing changes under a
\* validated launch.
RowsInv ==
  /\ bpc \in {"convert_read", "convert_write"} => manifest # NoFile /\ manifest.n = brows.n
  /\ manifest # NoFile /\ parquet # NoFile => parquet.n = manifest.n
  /\ \A j \in Job : JobRows(j)
  /\ priors # NoFile => RowsOf(priors)
  /\ lpc \in {"validate_freq", "train"} => PriorsValid

DumpInv == ToolInv /\ PartsInv /\ RowsInv

LEMMA LayoutIsCount ==
  ASSUME OneLayout
  PROVE  ShardCounts = {Layout} /\ Layout \in Nat \ {0}
BY ShardFacts DEF OneLayout, Layout

LEMMA DumpInvInit == Init => PartsInv /\ RowsInv
  BY DEF Init, DirInit, BuildInit, PriorsInit, GateInit, RowsInv, JobRows, PartsInv, WholeTables

\* A step of one job leaves the state of the others alone.
LEMMA JobFrame ==
  ASSUME PriorsTypeOK, NEW j \in Job, JobStep(j) \/ JobKilled(j), NEW k \in Job, k # j
  PROVE  /\ jpc'[k] = jpc[k] /\ jnum'[k] = jnum[k] /\ jrows'[k] = jrows[k]
         /\ jcur'[k] = jcur[k] /\ jmodel'[k] = jmodel[k] /\ jmeta'[k] = jmeta[k]
<1> USE DEF PriorsTypeOK
<1>1. CASE JobExit(j)
  BY <1>1 DEF JobExit
<1>2. CASE DumpRow(j)
  BY <1>2 DEF DumpRow
<1>3. CASE DumpEnd(j) /\ ~JobExit(j)
  BY <1>3 DEF DumpEnd, JobGo
<1>4. CASE j = MergeJob /\ MergeRemovePart
  BY <1>4 DEF MergeRemovePart
<1>5. CASE MarkFreqStale(j)
  BY <1>5 DEF MarkFreqStale, JobGo
<1>6. CASE RunPriors(j) /\ ~JobExit(j)
  BY <1>6 DEF RunPriors, JobGo
<1> QED
  BY <1>1, <1>2, <1>3, <1>4, <1>5, <1>6
  DEF JobStep, JobKilled, DumpRowMissing, PublishPriors

\* Two running jobs are two shards, and a step of one keeps to its own file.
LEMMA FilesApart ==
  ASSUME ToolInv, ~Overlap, NEW j \in Job, jpc[j] # "idle", JobStep(j) \/ JobKilled(j),
         NEW k \in Job, k # j, jpc[k] # "idle"
  PROVE  /\ jpc[k] = "score" /\ Sharded(k) /\ jpc[j] = "score" /\ Sharded(j)
         /\ dump' = dump /\ Output(k)' = Output(k) /\ UNCHANGED <<manifest, priors, freq>>
<1>1. /\ jpc[k] = "score" /\ Sharded(k) /\ jpc[j] = "score" /\ Sharded(j)
      /\ j \in Shard /\ k \in Shard /\ PriorsTypeOK
  BY DEF ToolInv, TypeInv, JobsApart, JobMemory
<1>2. jnum'[k] = jnum[k]
  BY <1>1, JobFrame
<1>3. DumpRow(j) \/ DumpRowMissing(j) \/ DumpEnd(j) \/ JobKilled(j)
  BY <1>1 DEF JobStep, MergeRemovePart, MarkFreqStale, RunPriors, PublishPriors, JobGo
<1>4. dump' = dump /\ part'[k] = part[k] /\ UNCHANGED <<manifest, priors, freq>>
  BY <1>1, <1>3 DEF DumpRow, DumpRowMissing, DumpEnd, JobKilled, PriorsTypeOK, dumpVars, dirVars
<1> QED BY <1>1, <1>2, <1>4 DEF Output, Sharded

\* A row appended to a file of earlier rows.
LEMMA AppendRow ==
  ASSUME NEW recs \in Dump, NEW rec \in Record, NEW c, rec.idx = c,
         Increasing(recs), Within(recs, c)
  PROVE  /\ Increasing(Append(recs, rec))
         /\ \A n \in Nat : c < n /\ Within(recs, n) => Within(Append(recs, rec), n)
         /\ \A k : ShardRows(recs, k) /\ c % Layout = k /\ (\E g \in Releases : c < NRows[g])
                     => ShardRows(Append(recs, rec), k)
<1> DEFINE d == Append(recs, rec)
<1>1. /\ Len(recs) \in Nat /\ DOMAIN recs = 1 .. Len(recs) /\ DOMAIN d = 1 .. Len(recs) + 1
      /\ (\A i \in DOMAIN recs : d[i] = recs[i]) /\ d[Len(recs) + 1] = rec
  BY DEF Dump
<1>2. \A i \in DOMAIN d : i \in DOMAIN recs \/ i = Len(recs) + 1
  BY <1>1
<1>3. \A i \in DOMAIN recs : recs[i].idx < c /\ d[i].idx = recs[i].idx
  BY <1>1 DEF Within
<1>4. d[Len(recs) + 1].idx = c
  BY <1>1
<1> HIDE DEF d
<1>5. ASSUME NEW i \in DOMAIN d, NEW k \in DOMAIN d, i < k
      PROVE  d[i].idx < d[k].idx
  <2>1. i \in DOMAIN recs
    BY <1>1, <1>5
  <2>2. CASE k \in DOMAIN recs
    BY <1>3, <1>5, <2>1, <2>2 DEF Increasing
  <2>3. CASE k = Len(recs) + 1
    BY <1>3, <1>4, <2>1, <2>3
  <2> QED BY <1>2, <2>2, <2>3
<1>6. \A n \in Nat : c < n /\ Within(recs, n) => Within(d, n)
  BY <1>2, <1>3, <1>4 DEF Within
<1>7. \A k : ShardRows(recs, k) /\ c % Layout = k /\ (\E g \in Releases : c < NRows[g])
               => ShardRows(d, k)
  BY <1>2, <1>3, <1>4 DEF ShardRows
<1>8. Increasing(d)
  BY <1>5 DEF Increasing
<1> QED BY <1>6, <1>7, <1>8 DEF d

\* A job's rows are those of the manifest, and so are its file's.
LEMMA RowInRelease ==
  ASSUME ToolInv, PartsInv, RowsInv, NEW j \in Job, DumpRow(j)
  PROVE  /\ jcur[j] < manifest.n /\ manifest.n \in Nat
         /\ \E g \in Releases : jcur[j] < NRows[g]
<1>1. jpc[j] = "score" /\ jcur[j] < jrows[j].n
  BY DEF DumpRow
<1>2. manifest # NoFile /\ jrows[j].n = manifest.n
  BY <1>1 DEF RowsInv, JobRows
<1>3. PICK g \in Releases : manifest = Whole(g)
  BY <1>2 DEF PartsInv, WholeTables
<1> QED BY <1>1, <1>2, <1>3, ReleasesAssumption DEF Whole

\* Shards put one after the other hold every row at most once.
LEMMA PartsJoin ==
  ASSUME NEW n \in Nat \ {0}, Layout = n, NEW m,
         \A i \in 1 .. n : m[i] \in Dump /\ Increasing(m[i]) /\ ShardRows(m[i], i - 1)
  PROVE  LET records == Flat(m, n)[n]
         IN  \A a, b \in DOMAIN records :
               /\ \E g \in Releases : records[a].idx < NRows[g]
               /\ a # b => records[a].idx # records[b].idx
<1> DEFINE F == Flat(m, n)
           Good(i) == \A a, b \in DOMAIN F[i] :
                        /\ F[i][a].idx % n < i /\ \E g \in Releases : F[i][a].idx < NRows[g]
                        /\ a # b => F[i][a].idx # F[i][b].idx
           T == {i \in 0 .. n : Good(i)}
<1>1. \A i \in 0 .. n : F[i] \in Seq(Record)
  <2>1. \A i \in 1 .. n : m[i] \in Seq(Record)
    BY DEF Dump
  <2> QED BY <2>1, FlatSeq
<1>2. 0 \in T
  <2>1. F[0] = <<>>
    BY FlatZero
  <2> QED BY <2>1
<1>3. ASSUME NEW i \in 1 .. n, i - 1 \in T PROVE i \in T
  <2> DEFINE e == F[i - 1]
             x == m[i]
             L == Len(e)
  <2>1. F[i] = e \o x
    BY FlatNext
  <2>2. e \in Seq(Record) /\ x \in Seq(Record) /\ i - 1 \in 0 .. n
    BY <1>1 DEF Dump
  <2>3. /\ L \in Nat /\ Len(x) \in Nat /\ DOMAIN F[i] = 1 .. L + Len(x)
        /\ DOMAIN e = 1 .. L /\ DOMAIN x = 1 .. Len(x)
        /\ \A a \in 1 .. L : F[i][a] = e[a]
        /\ \A a \in L + 1 .. L + Len(x) : F[i][a] = x[a - L]
    <3> HIDE DEF F, e, x
    <3> QED BY <2>1, <2>2
  <2>4. Good(i - 1) /\ Increasing(x) /\ ShardRows(x, i - 1)
    BY <1>3
  <2> HIDE DEF F, e, x, L
  <2>5. \A a \in 1 .. L + Len(x) : a \in 1 .. L \/ (a \in L + 1 .. L + Len(x) /\ a - L \in DOMAIN x)
    BY <2>3
  <2>6. /\ \A a \in 1 .. L : /\ F[i][a].idx % n < i - 1
                             /\ \E g \in Releases : F[i][a].idx < NRows[g]
        /\ \A a, b \in 1 .. L : a # b => F[i][a].idx # F[i][b].idx
    BY <2>3, <2>4 DEF e
  <2>7. \A a \in L + 1 .. L + Len(x) : /\ F[i][a].idx % n = i - 1
                                       /\ \E g \in Releases : F[i][a].idx < NRows[g]
    <3> SUFFICES ASSUME NEW a \in L + 1 .. L + Len(x)
                 PROVE  /\ F[i][a].idx % n = i - 1
                        /\ \E g \in Releases : F[i][a].idx < NRows[g]
      OBVIOUS
    <3>1. a - L \in DOMAIN x /\ F[i][a] = x[a - L]
      BY <2>3
    <3> QED BY <2>4, <3>1 DEF ShardRows
  <2>8. \A a, b \in L + 1 .. L + Len(x) : a # b => F[i][a].idx # F[i][b].idx
    <3> SUFFICES ASSUME NEW a \in L + 1 .. L + Len(x), NEW b \in L + 1 .. L + Len(x), a < b
                 PROVE  F[i][a].idx # F[i][b].idx
      BY <2>3
    <3>1. a - L \in DOMAIN x /\ F[i][a] = x[a - L] /\ a \in Int
      BY <2>3
    <3>2. b - L \in DOMAIN x /\ F[i][b] = x[b - L] /\ b \in Int
      BY <2>3
    <3>3. a - L < b - L
      BY <2>3, <3>1, <3>2
    <3>4. x[a - L].idx < x[b - L].idx
      BY <2>4, <3>1, <3>2, <3>3 DEF Increasing
    <3>5. \A c \in DOMAIN x : x[c].idx \in Nat
      <4>1. \A c \in DOMAIN x : x[c] \in Record
        BY <2>2
      <4> QED BY <4>1 DEF Record, Row
    <3> QED BY <3>1, <3>2, <3>4, <3>5
  <2>9. \A a \in DOMAIN F[i] : F[i][a].idx % n < i /\ \E g \in Releases : F[i][a].idx < NRows[g]
    <3> SUFFICES ASSUME NEW a \in DOMAIN F[i]
                 PROVE  F[i][a].idx % n < i /\ \E g \in Releases : F[i][a].idx < NRows[g]
      OBVIOUS
    <3>0. a \in 1 .. L + Len(x)
      BY <2>3
    <3>1. CASE a \in 1 .. L
      <4>1. F[i][a].idx \in Nat
        <5>1. e[a] \in Record
          BY <2>2, <2>3, <3>1
        <5> QED BY <2>3, <3>1, <5>1 DEF Record, Row
      <4>2. F[i][a].idx % n \in Int /\ F[i][a].idx % n < i - 1
        BY <2>6, <3>1, <4>1
      <4> QED BY <2>6, <3>1, <4>2
    <3>2. CASE a \in L + 1 .. L + Len(x)
      BY <2>7, <3>2
    <3> QED BY <2>5, <3>0, <3>1, <3>2
  <2>10. \A a, b \in DOMAIN F[i] : a # b => F[i][a].idx # F[i][b].idx
    <3>1. ASSUME NEW a \in 1 .. L, NEW b \in L + 1 .. L + Len(x)
          PROVE  F[i][a].idx # F[i][b].idx
      <4>1. F[i][a].idx % n < i - 1 /\ F[i][b].idx % n = i - 1
        BY <2>6, <2>7
      <4> QED BY <4>1
    <3> QED BY <2>3, <2>5, <2>6, <2>8, <3>1
  <2> QED BY <2>9, <2>10
<1>4. n \in T
  <2> HIDE DEF T
  <2>1. \A i \in 0 .. n : i \in T
    BY <1>2, <1>3, BoundedInduction
  <2> QED BY <2>1
<1> QED BY <1>4

\* Sorting distinct rows makes them increase.
LEMMA MergedRows ==
  ASSUME NEW n \in Nat \ {0}, Layout = n, SameRows, WholeTables,
         \A k \in 0 .. n - 1 : part[k] \in Dump /\ Increasing(part[k]) /\ ShardRows(part[k], k),
         NEW d \in MergeDumpRecords(n)
  PROVE  Increasing(d) /\ (manifest # NoFile => Within(d, manifest.n))
<1> DEFINE m == [i \in 1 .. n |-> part[i - 1]]
           records == PartRecords(n)
<1>1. records = Flat(m, n)[n] /\ records \in Dump
  BY MergedRecords
<1>2. \A i \in 1 .. n : m[i] \in Dump /\ Increasing(m[i]) /\ ShardRows(m[i], i - 1)
  <2>1. \A i \in 1 .. n : i - 1 \in 0 .. n - 1
    OBVIOUS
  <2> QED BY <2>1
<1>3. \A a, b \in DOMAIN records : /\ \E g \in Releases : records[a].idx < NRows[g]
                                   /\ a # b => records[a].idx # records[b].idx
  <2> HIDE DEF m, records
  <2> QED BY <1>1, <1>2, PartsJoin
<1> HIDE DEF records
<1>4. PICK p \in [DOMAIN records -> DOMAIN records] :
        /\ d = [i \in DOMAIN records |-> records[p[i]]]
        /\ \A i, j \in DOMAIN records : i < j =>
             \/ records[p[i]].idx < records[p[j]].idx
             \/ records[p[i]].idx = records[p[j]].idx /\ p[i] < p[j]
  BY Zenon DEF MergeDumpRecords, records
<1>5. DOMAIN records \subseteq Nat
  <2>1. DOMAIN records = 1 .. Len(records)
    BY <1>1 DEF Dump
  <2> QED BY <2>1
<1>6. Increasing(d)
  <2> SUFFICES ASSUME NEW i \in DOMAIN records, NEW j \in DOMAIN records, i < j
               PROVE  records[p[i]].idx < records[p[j]].idx
    BY <1>4 DEF Increasing
  <2>1. p[i] \in DOMAIN records /\ p[j] \in DOMAIN records
    BY <1>4
  <2> QED BY <1>3, <1>4, <1>5, <2>1
<1>7. ASSUME manifest # NoFile PROVE Within(d, manifest.n)
  <2>1. PICK h \in Releases : manifest = Whole(h)
    BY <1>7 DEF WholeTables
  <2>2. \A i \in DOMAIN records : records[p[i]].idx < NRows[h]
    BY <1>3, <1>4 DEF SameRows
  <2> QED BY <1>4, <2>1, <2>2 DEF Within, Whole
<1> QED BY <1>6, <1>7

LEMMA NoFileIsNoDump == NoFile \notin Dump
<1> DEFINE R == [idx : Nat, q : Releases, pos : Releases, neg : Releases]
<1>1. Record \subseteq R
  <2>1. Row \subseteq Nat
    BY ReleasesAssumption DEF Row
  <2> QED BY <2>1 DEF Record
<1> HIDE DEF R
<1>2. ASSUME NEW s \in Seq(Record) PROVE s \in Seq(R)
  BY <1>1, SeqMonotonic
<1> QED BY <1>2, PriorsAssumption DEF Dump, R

LEMMA ModShift ==
  ASSUME NEW a \in Nat, NEW n \in Nat \ {0}
  PROVE  (a + n) % n = a % n
<1> DEFINE q == ((a + n) \div n) - (a \div n) - 1
           d == (a % n) - ((a + n) % n)
<1>1. a = n * (a \div n) + (a % n) /\ a % n \in 0 .. n - 1 /\ a \div n \in Int
  OBVIOUS
<1>2. a + n = n * ((a + n) \div n) + ((a + n) % n) /\ (a + n) % n \in 0 .. n - 1 /\ (a + n) \div n \in Int
  <2> DEFINE b == a + n
  <2>1. b \in Nat
    OBVIOUS
  <2> HIDE DEF b
  <2>2. b = n * (b \div n) + (b % n) /\ b % n \in 0 .. n - 1 /\ b \div n \in Int
    BY <2>1
  <2> QED BY <2>2 DEF b
<1>3. q \in Int /\ d \in Int /\ d < n /\ -n < d /\ n * q = d
  <2> DEFINE x == a \div n
             y == (a + n) \div n
             u == a % n
             v == (a + n) % n
  <2>1. x \in Int /\ y \in Int /\ u \in 0 .. n - 1 /\ v \in 0 .. n - 1
        /\ a = n * x + u /\ a + n = n * y + v
    BY <1>1, <1>2
  <2> HIDE DEF x, y, u, v
  <2>2. n * (y - x - 1) = u - v
    BY <2>1
  <2>3. u - v < n /\ -n < u - v /\ y - x - 1 \in Int /\ u - v \in Int
    BY <2>1
  <2> QED BY <2>2, <2>3 DEF x, y, u, v
<1>4. d = 0
  <2> HIDE DEF q, d
  <2>1. q >= 1 => n * q >= n
    BY <1>3
  <2>2. q <= -1 => n * q <= -n
    BY <1>3
  <2>3. q = 0 => n * q = 0
    OBVIOUS
  <2> QED BY <1>3, <2>1, <2>2, <2>3
<1> QED BY <1>1, <1>2, <1>4

LEMMA WholeTablesStep ==
  ASSUME NoImport, ToolInv, WholeTables, [Next]_vars
  PROVE  WholeTables'
<1>1. ipc = "idle"
  BY DEF ToolInv, OneToolInv, BuilderInv, BuilderTypes
<1>2. CASE UNCHANGED BuilderFiles
  BY <1>2 DEF BuilderFiles, WholeTables, sources, datasets, buildVars
<1>3. CASE StartBuild \/ BuildStep \/ BuildFault
  <2> USE DEF WholeTables, BuildGo, BuildExit, dirVars, sources, datasets, derived
  <2>1. CASE StartBuild
    BY <2>1 DEF StartBuild, BuildSkipDownload, BuildDownload
  <2>2. CASE BuildExtract \/ BuildReadRows \/ BuildCheckComplete \/ BuildConvertRead
    BY <2>2 DEF BuildExtract, BuildReadRows, BuildCheckComplete, BuildConvertRead
  <2>3. CASE BuildWriteManifest
    BY <2>3 DEF BuildWriteManifest
  <2>4. CASE ~(StartBuild \/ BuildExtract \/ BuildReadRows \/ BuildCheckComplete
                \/ BuildConvertRead \/ BuildWriteManifest)
    BY <1>3, <2>4 DEF BuildStep, BuildFault, BuildWorker, BuildWorkerFails,
       BuildInvalidateParquet, BuildInvalidatePriors, BuildInvalidateManifest,
       BuildSetAside, BuildSwap, BuildSwapFails, BuildDropBackup, BuildConvertWrite,
       BuildMarkPriorsStale, BuildMarkFreqStale, BuildKilled
  <2> QED BY <2>1, <2>2, <2>3, <2>4
<1> QED BY <1>1, <1>2, <1>3, BuilderFrame

\* Part files are only emptied by a starting shard, extended by a scoring one,
\* and removed by the merge.
LEMMA PartsInvStep ==
  ASSUME NoImport, OneLayout, DumpInv, [Next]_vars
  PROVE  PartsInv'
<1>1. WholeTables' /\ PriorsTypeOK /\ ToolInv /\ PartsInv /\ RowsInv /\ JobMemory
  BY WholeTablesStep DEF DumpInv, PartsInv, ToolInv, TypeInv
<1>2. ASSUME \A k \in Shard : part'[k] # NoFile => part'[k] = part[k]
                                \/ (Increasing(part'[k]) /\ ShardRows(part'[k], k)),
             \A k \in Job : jpc'[k] = "score" /\ jnum'[k] > 1 =>
                \/ jpc[k] = "score" /\ jnum[k] > 1 /\ jcur'[k] = jcur[k]
                \/ jcur'[k] % Layout = k
      PROVE  PartsInv'
  <2>1. \A k \in Shard : part'[k] # NoFile => Increasing(part'[k]) /\ ShardRows(part'[k], k)
    BY <1>1, <1>2 DEF PartsInv
  <2>2. \A k \in Job : jpc'[k] = "score" /\ jnum'[k] > 1 => jcur'[k] % Layout = k
    BY <1>1, <1>2 DEF PartsInv, Sharded
  <2> QED BY <1>1, <2>1, <2>2 DEF PartsInv, Sharded, Increasing, ShardRows
<1>3. CASE UNCHANGED <<part, jobVars>>
  BY <1>2, <1>3 DEF jobVars
<1>4. CASE StartBuild \/ StartImport \/ StartFreq \/ StartLaunch
           \/ RunBuild \/ RunImport \/ RunFreq \/ RunLaunch
  <2>1. UNCHANGED <<part, jobVars>>
    BY <1>4, FreqStepTypes, LaunchTypes
    DEF StartBuild, StartImport, StartFreq, StartLaunch, RunBuild, RunImport, RunFreq,
        RunLaunch, priorsVars, dumpVars, ToolInv, TypeInv, RestTypes, DumpInv
  <2> QED BY <1>3, <2>1
<1>5. CASE StartDump
  <2>1. PICK k \in Shard, num \in ShardCounts, model \in ModelArgs : DumpStart(k, num, model)
    BY <1>5 DEF StartDump
  <2>2. /\ num = Layout /\ k < num /\ k \in Job
        /\ jpc' = [jpc EXCEPT ![k] = "score"] /\ jnum' = [jnum EXCEPT ![k] = num]
        /\ jcur' = [jcur EXCEPT ![k] = k]
        /\ part' = part \/ part' = [part EXCEPT ![k] = <<>>]
    BY <2>1, LayoutIsCount, ShardFacts DEF DumpStart
  <2>3. k % Layout = k
    BY <2>2, LayoutIsCount, ShardFacts
  <2>4. \A j \in Job : \/ jpc'[j] = jpc[j] /\ jnum'[j] = jnum[j] /\ jcur'[j] = jcur[j]
                       \/ j = k /\ jcur'[j] = k
    BY <1>1, <2>2 DEF PriorsTypeOK
  <2>5. \A j \in Shard : part'[j] = part[j] \/ part'[j] = <<>>
    BY <1>1, <2>2 DEF PriorsTypeOK
  <2>6. \A j : Increasing(<<>>) /\ ShardRows(<<>>, j)
    BY DEF Increasing, ShardRows
  <2> QED BY <1>2, <2>3, <2>4, <2>5, <2>6
<1>6. CASE StartMerge
  <2>1. part' = part /\ jcur' = jcur /\ \E num : jnum' = [jnum EXCEPT ![MergeJob] = num]
        /\ jpc' = [jpc EXCEPT ![MergeJob] = "remove_parts"]
    BY <1>6 DEF StartMerge, MergeStart
  <2>2. \A j \in Job : jpc'[j] = "score" => jpc[j] = "score" /\ jnum'[j] = jnum[j]
    BY <1>1, <2>1 DEF PriorsTypeOK
  <2> QED BY <1>2, <2>1, <2>2
<1>7. ASSUME NEW j \in Job, JobStep(j) \/ JobKilled(j)
      PROVE  PartsInv'
  <2>1. \A k \in Job : k # j => jpc'[k] = jpc[k] /\ jnum'[k] = jnum[k] /\ jcur'[k] = jcur[k]
    BY <1>1, <1>7, JobFrame
  <2>2. ASSUME jpc'[j] # "score", \A k \in Shard : part'[k] \in {part[k], NoFile}
        PROVE  PartsInv'
    BY <1>2, <2>1, <2>2
  <2>3. CASE DumpRow(j)
    <3>1. /\ j \in Shard /\ jnum'[j] = jnum[j] /\ jnum[j] = Layout /\ jpc' = jpc
          /\ jcur[j] \in Row /\ jcur'[j] = jcur[j] + jnum[j] /\ Sharded(j)' = Sharded(j)
          /\ Output(j) \in Dump /\ jpc[j] = "score"
          /\ \/ Output(j)' = Output(j)
             \/ /\ ScoreOf(j, jcur[j]) \in Record
                /\ Output(j)' = Append(Output(j), ScoreOf(j, jcur[j]))
      BY <1>1, <2>3, DumpRowAppends, LayoutIsCount DEF ToolInv, DumpRow
    <3>2. CASE ~Sharded(j)
      <4>1. part' = part
        BY <1>1, <2>3, <3>2, DumpRowAppends DEF ToolInv
      <4>2. \A k \in Job : jpc'[k] = "score" /\ jnum'[k] > 1
              => jpc[k] = "score" /\ jnum[k] > 1 /\ jcur'[k] = jcur[k]
        BY <2>1, <3>1, <3>2 DEF Sharded
      <4> QED BY <1>2, <4>1, <4>2
    <3>3. CASE Sharded(j)
      <4>1. part' = [part EXCEPT ![j] = Output(j)']
        BY <1>1, <2>3, <3>3, DumpRowAppends DEF ToolInv
      <4>2. jcur[j] % Layout = j /\ Output(j) = part[j] /\ part[j] # NoFile
        BY <1>1, <3>1, <3>3, NoFileIsNoDump DEF PartsInv, Output
      <4>3. (jcur[j] + Layout) % Layout = jcur[j] % Layout
        <5>1. jcur[j] \in Nat
          BY <3>1, ReleasesAssumption DEF Row
        <5> QED BY <5>1, LayoutIsCount, ModShift
      <4>4. /\ ScoreOf(j, jcur[j]).idx = jcur[j]
            /\ Increasing(Output(j)) /\ Within(Output(j), jcur[j]) /\ ShardRows(Output(j), j)
        BY <1>1, <3>1, <4>2 DEF ScoreOf, RowsInv, JobRows, PartsInv
      <4>5. Increasing(Output(j)') /\ ShardRows(Output(j)', j)
        BY <1>1, <2>3, <3>1, <4>2, <4>4, AppendRow, RowInRelease
      <4>6. \A k \in Shard : part'[k] = part[k] \/ (k = j /\ part'[k] = Output(j)')
        BY <1>1, <4>1 DEF PriorsTypeOK
      <4>7. jcur'[j] % Layout = j
        BY <3>1, <4>2, <4>3
      <4> QED BY <1>2, <2>1, <4>5, <4>6, <4>7
    <3> QED BY <3>2, <3>3
  <2>4. CASE JobExit(j) /\ part' = part
    <3>1. jpc'[j] = "idle"
      BY <1>1, <2>4 DEF JobExit, PriorsTypeOK
    <3> QED BY <2>2, <2>4, <3>1
  <2>5. CASE j = MergeJob /\ MergeRemovePart
    <3>1. jpc'[j] # "score"
      BY <1>1, <2>5 DEF MergeRemovePart, PriorsTypeOK
    <3>2. \A k \in Shard : part'[k] \in {part[k], NoFile}
      BY <1>1, <2>5 DEF MergeRemovePart, PriorsTypeOK
    <3> QED BY <2>2, <3>1, <3>2
  <2>6. CASE ~JobExit(j) /\ (DumpEnd(j) \/ MarkFreqStale(j) \/ RunPriors(j))
    <3>1. part' = part /\ jpc'[j] # "score"
      BY <1>1, <2>6 DEF DumpEnd, MarkFreqStale, RunPriors, JobGo, PriorsTypeOK, dumpVars
    <3> QED BY <2>2, <3>1
  <2>7. CASE DumpRowMissing(j) \/ DumpEnd(j) \/ MarkFreqStale(j) \/ RunPriors(j)
             \/ PublishPriors(j) \/ JobKilled(j)
    <3>1. part' = part
      BY <2>7 DEF DumpRowMissing, DumpEnd, MarkFreqStale, RunPriors, PublishPriors, JobKilled,
         dumpVars
    <3>2. JobExit(j) \/ DumpEnd(j) \/ MarkFreqStale(j) \/ RunPriors(j)
      BY <2>7 DEF DumpRowMissing, PublishPriors, JobKilled
    <3> QED BY <2>4, <2>6, <3>1, <3>2
  <2> QED
    BY <1>7, <2>3, <2>5, <2>7 DEF JobStep
<1>8. CASE Fault
  <2>1. CASE UNCHANGED <<part, jobVars>>
    BY <1>3, <2>1
  <2>2. CASE \E j \in Job : JobKilled(j)
    BY <1>7, <2>2
  <2>3. FreqKilled => UNCHANGED part
    BY FreqStepTypes DEF ToolInv, DumpInv
  <2> QED BY <1>8, <2>1, <2>2, <2>3 DEF Fault, priorsVars, dumpVars
<1>9. CASE UNCHANGED vars
  BY <1>3, <1>9 DEF vars, priorsVars, dumpVars
<1> QED
  BY <1>4, <1>5, <1>6, <1>7, <1>8, <1>9 DEF Next, Progress, RunJob

LEMMA RowsByBuilder ==
  ASSUME NoImport, ~Overlap, ToolInv, RowsInv, [Next]_vars,
         StartBuild \/ BuildStep \/ BuildFault, UNCHANGED <<priorsVars, gateVars>>
  PROVE  RowsInv'
<1>1. /\ lpc = "idle" /\ jpc' = jpc /\ lpc' = lpc /\ \A j \in Job : jpc[j] = "idle"
      /\ priors' \in {priors, NoFile}
  BY BuilderAlone, BuilderWithdraws
  DEF ToolInv, OneToolInv, JobsIdle, priorsVars, jobVars, gateVars
<1>2. priors' # NoFile => RowsOf(priors)'
  BY <1>1 DEF RowsInv, RowsOf, Increasing, Within
<1>3. /\ bpc' \in {"convert_read", "convert_write"} => manifest' # NoFile /\ manifest'.n = brows'.n
      /\ manifest' # NoFile /\ parquet' # NoFile => parquet'.n = manifest'.n
  <2> USE DEF RowsInv, BuildGo, BuildExit, dirVars, sources, datasets, derived
  <2>1. CASE StartBuild
    BY <2>1 DEF StartBuild, BuildSkipDownload, BuildDownload
  <2>2. CASE BuildExtract \/ BuildReadRows \/ BuildCheckComplete
    BY <2>2 DEF BuildExtract, BuildReadRows, BuildCheckComplete
  <2>3. CASE \E r \in Row : BuildWorker(r) \/ BuildWorkerFails(r)
    BY <2>3 DEF BuildWorker, BuildWorkerFails
  <2>4. CASE BuildInvalidateParquet \/ BuildInvalidatePriors \/ BuildInvalidateManifest
    BY <2>4 DEF BuildInvalidateParquet, BuildInvalidatePriors, BuildInvalidateManifest
  <2>5. CASE BuildSetAside \/ BuildSwap \/ BuildDropBackup \/ BuildSwapFails
    BY <2>5 DEF BuildSetAside, BuildSwap, BuildDropBackup, BuildSwapFails
  <2>6. CASE BuildWriteManifest
    <3>1. parquet = NoFile /\ brows \in Table
      BY <2>6 DEF BuildWriteManifest, ToolInv, OneToolInv, WithdrawnInv, BuilderInv,
         BuilderTypes
    <3>2. brows # NoFile
      BY <3>1, ReleasesAssumption DEF Table
    <3> QED BY <2>6, <3>1, <3>2 DEF BuildWriteManifest
  <2>7. CASE BuildConvertRead \/ BuildConvertWrite
    BY <2>7 DEF BuildConvertRead, BuildConvertWrite
  <2>8. CASE BuildMarkPriorsStale \/ BuildMarkFreqStale \/ BuildKilled
    BY <2>8 DEF BuildMarkPriorsStale, BuildMarkFreqStale, BuildKilled
  <2> QED
    BY <2>1, <2>2, <2>3, <2>4, <2>5, <2>6, <2>7, <2>8 DEF BuildStep, BuildFault
<1>4. \A j \in Job : JobRows(j)'
  BY <1>1 DEF JobRows
<1>5. lpc' \notin {"validate_freq", "train"}
  BY <1>1
<1> QED
  BY <1>2, <1>3, <1>4, <1>5 DEF RowsInv

\* A job's step keeps what is said of the other jobs.
LEMMA RowsOfOthers ==
  ASSUME ~Overlap, ToolInv, RowsInv, NEW j \in Job, jpc[j] # "idle", JobStep(j) \/ JobKilled(j),
         NEW k \in Job, k # j
  PROVE  JobRows(k)'
<1>1. /\ jpc'[k] = jpc[k] /\ jrows'[k] = jrows[k] /\ jcur'[k] = jcur[k]
  BY JobFrame DEF ToolInv, TypeInv
<1>2. CASE jpc[k] = "idle"
  BY <1>1, <1>2 DEF JobRows
<1>3. CASE jpc[k] # "idle"
  <2>1. jpc[k] = "score" /\ Output(k)' = Output(k) /\ manifest' = manifest
    BY <1>3, FilesApart
  <2>2. JobRows(k)
    BY DEF RowsInv
  <2> QED BY <1>1, <2>1, <2>2 DEF JobRows, Increasing, Within
<1> QED BY <1>2, <1>3

\* A job's own step, as long as it keeps what is said of itself.
LEMMA RowsByOne ==
  ASSUME ~Overlap, ToolInv, RowsInv, NEW j \in Job, jpc[j] # "idle", JobStep(j) \/ JobKilled(j),
         UNCHANGED <<buildVars, gateVars, manifest, parquet>>,
         priors' = priors \/ RowsOf(priors)', JobRows(j)'
  PROVE  RowsInv'
<1>1. bpc = "idle" /\ lpc = "idle" /\ bpc' = bpc /\ lpc' = lpc
  BY DEF ToolInv, OneToolInv, Exclusive, JobsIdle, buildVars, gateVars
<1>2. \A k \in Job : JobRows(k)'
  BY RowsOfOthers
<1>3. priors' # NoFile => RowsOf(priors)'
  BY DEF RowsInv, RowsOf, Increasing, Within
<1>4. manifest' # NoFile /\ parquet' # NoFile => parquet'.n = manifest'.n
  BY DEF RowsInv
<1> QED BY <1>1, <1>2, <1>3, <1>4 DEF RowsInv

LEMMA RowsByJob ==
  ASSUME ~Overlap, DumpInv, NEW j \in Job, RunJob(j)
  PROVE  RowsInv'
<1>1. /\ jpc[j] # "idle" /\ JobStep(j) /\ UNCHANGED <<buildVars, gateVars>>
      /\ ToolInv /\ PartsInv /\ RowsInv /\ JobRows(j) /\ PriorsTypeOK
  BY JobRuns DEF RunJob, DumpInv, RowsInv, ToolInv, TypeInv
<1>2. CASE JobExit(j) /\ UNCHANGED <<manifest, parquet, priors>>
  <2>1. jpc'[j] = "idle"
    BY <1>1, <1>2 DEF JobExit, PriorsTypeOK
  <2> QED BY <1>1, <1>2, <2>1, RowsByOne DEF JobRows
<1>3. CASE DumpRow(j)
  <2>1. /\ jpc[j] = "score" /\ jpc' = jpc /\ jrows' = jrows /\ jcur[j] \in Nat
        /\ jnum[j] \in Nat \ {0} /\ jcur'[j] = jcur[j] + jnum[j]
        /\ Output(j) \in Dump /\ Output(j)' \in Dump
        /\ \/ Output(j)' = Output(j)
           \/ /\ ScoreOf(j, jcur[j]) \in Record
              /\ Output(j)' = Append(Output(j), ScoreOf(j, jcur[j]))
        /\ UNCHANGED <<manifest, parquet, priors>>
    <3>1. jpc' = jpc /\ jrows' = jrows /\ UNCHANGED <<manifest, parquet, priors>>
      BY <1>3 DEF DumpRow, dirVars
    <3>2. jcur[j] \in Row /\ jnum[j] \in ShardCounts
      BY <1>1, <1>3, DumpRowAppends DEF ToolInv
    <3>3. jcur[j] \in Nat /\ jnum[j] \in Nat \ {0}
      BY <3>2, ShardFacts DEF Row
    <3> QED BY <1>1, <1>3, <3>1, <3>3, DumpRowAppends DEF ToolInv
  <2>2. /\ manifest # NoFile /\ jrows[j].n = manifest.n /\ Increasing(Output(j))
        /\ Within(Output(j), manifest.n) /\ Within(Output(j), jcur[j])
    BY <1>1, <2>1 DEF JobRows
  <2>3. jcur[j] < manifest.n /\ manifest.n \in Nat
    BY <1>1, <1>3, RowInRelease
  <2>4. jcur[j] < jcur'[j] /\ jcur'[j] \in Nat
    BY <2>1
  <2>5. Increasing(Output(j)') /\ Within(Output(j)', manifest.n) /\ Within(Output(j)', jcur'[j])
    <3>1. CASE Output(j)' = Output(j)
      <4>1. \A i \in DOMAIN Output(j) : Output(j)[i].idx \in Nat
        <5>1. \A i \in DOMAIN Output(j) : Output(j)[i] \in Record
          BY <2>1 DEF Dump
        <5> QED BY <5>1, ReleasesAssumption DEF Record, Row
      <4> QED BY <2>1, <2>2, <2>4, <3>1, <4>1 DEF Within
    <3>2. CASE /\ ScoreOf(j, jcur[j]) \in Record
               /\ Output(j)' = Append(Output(j), ScoreOf(j, jcur[j]))
      <4>1. ScoreOf(j, jcur[j]).idx = jcur[j]
        BY DEF ScoreOf
      <4>2. Within(Output(j), jcur'[j])
        <5>1. \A i \in DOMAIN Output(j) : Output(j)[i].idx \in Nat
          <6>1. \A i \in DOMAIN Output(j) : Output(j)[i] \in Record
            BY <2>1 DEF Dump
          <6> QED BY <6>1, ReleasesAssumption DEF Record, Row
        <5> QED BY <2>1, <2>2, <2>4, <5>1 DEF Within
      <4> QED BY <2>1, <2>2, <2>3, <2>4, <3>2, <4>1, <4>2, AppendRow
    <3> QED BY <2>1, <3>1, <3>2
  <2>6. JobRows(j)'
    BY <2>1, <2>2, <2>5 DEF JobRows, Increasing, Within
  <2> QED BY <1>1, <2>1, <2>6, RowsByOne
<1>4. CASE ~JobExit(j) /\ (DumpEnd(j) \/ MarkFreqStale(j) \/ RunPriors(j)
                           \/ (j = MergeJob /\ MergeRemovePart))
  <2>1. UNCHANGED <<manifest, parquet, priors, dump>>
    BY <1>4 DEF DumpEnd, MarkFreqStale, RunPriors, MergeRemovePart, datasets, dirVars, dumpVars
  <2>2. Increasing(dump) /\ (manifest # NoFile => Within(dump, manifest.n))
    <3>1. CASE jpc[j] = "score"
      <4>1. ~Sharded(j)
        BY <1>4, <3>1 DEF DumpEnd, MarkFreqStale, RunPriors, MergeRemovePart, JobGo
      <4> QED BY <1>1, <3>1, <4>1 DEF JobRows, Output
    <3>2. CASE jpc[j] # "score"
      BY <1>1, <3>2 DEF JobRows
    <3> QED BY <3>1, <3>2
  <2>3. jpc'[j] # "score" /\ (jpc'[j] = "publish" => RunPriors(j))
    BY <1>1, <1>4 DEF DumpEnd, MarkFreqStale, RunPriors, MergeRemovePart, JobGo, PriorsTypeOK
  <2>4. RunPriors(j) => dump # <<>> /\ manifest # NoFile
                        /\ jmeta'[j].recs = dump /\ jmeta'[j].man = manifest
    BY <1>1, <1>4 DEF RunPriors, PriorsTypeOK
  <2>5. JobRows(j)'
    BY <2>1, <2>2, <2>3, <2>4 DEF JobRows, RowsOf, Increasing, Within
  <2> QED BY <1>1, <2>1, <2>5, RowsByOne
<1>5. CASE PublishPriors(j)
  <2>1. /\ jpc[j] = "publish" /\ priors' = jmeta[j] /\ JobExit(j) /\ UNCHANGED <<manifest, parquet>>
    BY <1>5 DEF PublishPriors, datasets
  <2>2. RowsOf(jmeta[j]) /\ jpc'[j] = "idle"
    BY <1>1, <2>1 DEF JobRows, JobExit, PriorsTypeOK
  <2> QED BY <1>1, <2>1, <2>2, RowsByOne DEF JobRows, RowsOf, Increasing, Within
<1> QED
  BY <1>1, <1>2, <1>3, <1>4, <1>5
  DEF JobStep, DumpRowMissing, DumpEnd, MarkFreqStale, RunPriors, MergeRemovePart, datasets,
      dirVars

LEMMA RowsByDumpStart ==
  ASSUME ~Overlap, DumpInv, StartDump
  PROVE  RowsInv'
<1>1. PICK k \in Shard, num \in ShardCounts, model \in ModelArgs :
         DumpStart(k, num, model) /\ (JobsIdle \/ (num > 1 /\ OnlyShardsRun))
  BY DEF StartDump
<1>2. /\ ToolInv /\ RowsInv /\ PriorsTypeOK /\ k \in Job
      /\ bpc' = bpc /\ bpc = "idle" /\ lpc' = lpc /\ lpc = "idle"
  BY ShardFacts DEF DumpInv, ToolInv, TypeInv, StartDump, MayStart, NoOtherTool, buildVars, gateVars
<1>3. /\ manifest # NoFile /\ manifest.n = jsonl.n
      /\ jpc' = [jpc EXCEPT ![k] = "score"] /\ jnum' = [jnum EXCEPT ![k] = num]
      /\ jrows' = [jrows EXCEPT ![k] = jsonl] /\ jcur' = [jcur EXCEPT ![k] = k]
      /\ IF num > 1 THEN part' = [part EXCEPT ![k] = <<>>] /\ dump' = dump
                    ELSE dump' = <<>> /\ part' = part
      /\ UNCHANGED <<manifest, parquet, priors, jmeta>>
  BY <1>1 DEF DumpStart, dirVars
<1>4. ASSUME NEW j \in Job
      PROVE  JobRows(j)'
  <2>1. CASE j = k
    <3>1. jpc'[j] = "score" /\ jrows'[j] = jsonl /\ Output(j)' = <<>>
      BY <1>2, <1>3, <2>1 DEF PriorsTypeOK, Output, Sharded
    <3> QED BY <1>3, <3>1 DEF JobRows, Increasing, Within
  <2>2. CASE j # k
    <3>1. /\ jpc'[j] = jpc[j] /\ jnum'[j] = jnum[j] /\ jrows'[j] = jrows[j] /\ jcur'[j] = jcur[j]
          /\ JobRows(j)
      BY <1>2, <1>3, <2>2 DEF PriorsTypeOK, RowsInv
    <3>2. CASE jpc[j] = "idle"
      BY <3>1, <3>2 DEF JobRows
    <3>3. CASE jpc[j] # "idle"
      <4>1. num > 1 /\ jpc[j] = "score" /\ Sharded(j) /\ j \in Shard
        BY <1>1, <1>2, <3>3 DEF JobsIdle, OnlyShardsRun, ToolInv, TypeInv, JobMemory
      <4>2. Output(j)' = Output(j)
        BY <1>2, <1>3, <2>2, <3>1, <4>1 DEF PriorsTypeOK, Output, Sharded
      <4> QED BY <1>3, <3>1, <4>1, <4>2 DEF JobRows, Increasing, Within
    <3> QED BY <3>2, <3>3
  <2> QED BY <2>1, <2>2
<1>5. priors' # NoFile => RowsOf(priors)'
  BY <1>2, <1>3 DEF RowsInv, RowsOf, Increasing, Within
<1> QED BY <1>2, <1>3, <1>4, <1>5 DEF RowsInv

LEMMA RowsByMergeStart ==
  ASSUME ~Overlap, PartsFit, DumpInv, StartMerge
  PROVE  RowsInv'
<1>1. PICK num \in ShardCounts \ {1}, model \in ModelArgs : MergeStart(num, model)
  BY DEF StartMerge
<1>2. /\ ToolInv /\ RowsInv /\ PartsInv /\ PriorsTypeOK /\ JobsIdle
      /\ bpc' = bpc /\ bpc = "idle" /\ lpc' = lpc /\ lpc = "idle"
  BY DEF DumpInv, ToolInv, TypeInv, StartMerge, MayStart, NoOtherTool, buildVars, gateVars
<1>3. SameRows /\ OneLayout /\ num = Layout /\ num \in Nat \ {0}
  BY <1>1, LayoutIsCount DEF PartsFit, OneShard
<1>4. /\ dump' \in MergeDumpRecords(num) /\ \A k \in 0 .. num - 1 : part[k] # NoFile
      /\ jpc' = [jpc EXCEPT ![MergeJob] = "remove_parts"]
      /\ UNCHANGED <<manifest, parquet, priors>>
  BY <1>1 DEF MergeStart, dirVars
<1>5. \A k \in 0 .. num - 1 : part[k] \in Dump /\ Increasing(part[k]) /\ ShardRows(part[k], k)
  <2>1. \A k \in 0 .. num - 1 : k \in Shard
    BY ShardFacts DEF Shard
  <2> QED BY <1>2, <1>4, <2>1 DEF PriorsTypeOK, PartsInv
<1>6. Increasing(dump') /\ (manifest # NoFile => Within(dump', manifest.n))
  BY <1>2, <1>3, <1>4, <1>5, MergedRows DEF PartsInv
<1>7. \A j \in Job : JobRows(j)'
  <2>1. \A j \in Job : jpc'[j] \in {"idle", "remove_parts"}
    BY <1>2, <1>4 DEF PriorsTypeOK, JobsIdle
  <2> QED BY <1>4, <1>6, <2>1 DEF JobRows, Increasing, Within
<1>8. priors' # NoFile => RowsOf(priors)'
  BY <1>2, <1>4 DEF RowsInv, RowsOf, Increasing, Within
<1> QED BY <1>2, <1>4, <1>7, <1>8 DEF RowsInv

LEMMA RowsInvStep ==
  ASSUME NoImport, ~Overlap, PartsFit, DumpInv, [Next]_vars
  PROVE  RowsInv'
<1>0. ToolInv /\ RowsInv /\ ipc = "idle"
  BY DEF DumpInv, ToolInv, OneToolInv, BuilderInv, BuilderTypes
<1>1. CASE StartBuild \/ RunBuild
  BY <1>0, <1>1, RowsByBuilder DEF StartBuild, RunBuild
<1>2. CASE StartImport \/ RunImport
  BY <1>0, <1>2 DEF StartImport, MayStart, NoImport, RunImport, ImportStep,
     ImportPositive, ImportNegative, ImportOpenManifest, ImportWriteManifest,
     ImportConvertRead, ImportConvertWrite
<1>3. CASE StartDump \/ StartMerge
  BY <1>3, RowsByDumpStart, RowsByMergeStart
<1>4. ASSUME UNCHANGED <<bpc, brows, manifest, parquet, priors, dump, part, jobVars, lpc>>
      PROVE  RowsInv'
  <2>1. \A j \in Job : JobRows(j)'
    BY <1>0, <1>4 DEF RowsInv, JobRows, RowsOf, Increasing, Within, Output, Sharded, jobVars
  <2> QED BY <1>0, <1>4, <2>1 DEF RowsInv, RowsOf, Increasing, Within, PriorsValid
<1>5. CASE StartFreq \/ RunFreq \/ (FreqKilled /\ UNCHANGED <<buildVars, jobVars, gateVars>>)
  <2>1. UNCHANGED <<priors, dump, part>>
    BY <1>0, <1>5, FreqStepTypes DEF RunFreq, ToolInv
  <2>2. UNCHANGED <<manifest, parquet, buildVars, jobVars, gateVars>>
    BY <1>5 DEF StartFreq, FreqStart, RunFreq, FreqStep, FreqCount, FreqHash,
       FreqPublish, FreqKilled, dirVars, datasets
  <2> QED
    BY <1>4, <2>1, <2>2 DEF buildVars, gateVars
<1>6. CASE StartLaunch \/ RunLaunch
  <2>1. UNCHANGED <<bpc, brows, manifest, parquet, priors, dump, part, jobVars>>
    BY <1>6 DEF StartLaunch, LaunchStart, RunLaunch, LaunchStep, ValidatePriors,
       ValidateFreq, TrainEnd, dirVars, dumpVars, buildVars
  <2>2. lpc' \in {"validate_freq", "train"} => PriorsValid
    BY <1>0, <1>6 DEF RowsInv, StartLaunch, LaunchStart, RunLaunch,
       LaunchStep, ValidatePriors, ValidateFreq, TrainEnd
  <2>3. \A j \in Job : JobRows(j)'
    BY <1>0, <2>1 DEF RowsInv, JobRows, RowsOf, Increasing, Within, Output, Sharded, jobVars
  <2> QED
    BY <1>0, <2>1, <2>2, <2>3 DEF RowsInv, RowsOf, Increasing, Within, PriorsValid
<1>7. ASSUME NEW j \in Job, RunJob(j)
      PROVE  RowsInv'
  BY <1>7, RowsByJob
<1>8. CASE Fault
  <2> USE <1>8 DEF Fault
  <2>1. CASE BuildFault /\ UNCHANGED priorsVars
    BY <1>0, <2>1, RowsByBuilder
  <2>2. CASE ImportDies
    BY <1>0, <2>2 DEF ImportDies
  <2>3. ASSUME NEW j \in Job, JobKilled(j), UNCHANGED buildVars
        PROVE  RowsInv'
    <3>1. jpc[j] # "idle" /\ JobExit(j) /\ UNCHANGED <<priors, manifest, parquet>>
      BY <2>3 DEF JobKilled, dirVars
    <3>2. jpc'[j] = "idle"
      BY <1>0, <3>1 DEF JobExit, ToolInv, TypeInv, PriorsTypeOK
    <3> QED
      BY <1>0, <2>3, <3>1, <3>2, RowsByOne DEF JobRows
  <2>4. CASE FreqKilled /\ UNCHANGED <<buildVars, jobVars>>
    BY <1>5, <2>4
  <2> QED
    BY <2>1, <2>2, <2>3, <2>4
<1>9. CASE UNCHANGED vars
  BY <1>4, <1>9 DEF vars, dirVars, priorsVars, dumpVars, gateVars, buildVars
<1> QED
  BY <1>1, <1>2, <1>3, <1>5, <1>6, <1>7, <1>8, <1>9 DEF Next, Progress

LEMMA ToolInvariant ==
  ASSUME NoImport, ~Overlap
  PROVE  (Init => ToolInv) /\ (ToolInv /\ [Next]_vars => ToolInv')
BY OneToolInvInit, TypeInvInit, OneToolInvStep, TypeInvStep DEF ToolInv, PartsApart

LEMMA DumpInvariant ==
  ASSUME NoImport, ~Overlap, PartsFit
  PROVE  (Init => DumpInv) /\ (DumpInv /\ [Next]_vars => DumpInv')
<1>1. OneLayout
  BY DEF PartsFit, OneShard, OneLayout
<1> QED
  BY <1>1, ToolInvariant, DumpInvInit, PartsInvStep, RowsInvStep DEF DumpInv

\* A list of n rows below n in increasing order has each of them once.
LEMMA EachRowOnce ==
  ASSUME NEW recs \in Dump, NEW n \in Nat, Len(recs) = n, Increasing(recs), Within(recs, n),
         NEW r \in Nat, r < n
  PROVE  Cardinality({i \in DOMAIN recs : recs[i].idx = r}) = 1
<1> DEFINE S == 1 .. n
           T == 0 .. n - 1
           f == [i \in S |-> recs[i].idx]
<1>1. DOMAIN recs = S /\ \A i \in S : recs[i] \in Record
  BY DEF Dump
<1>2. \A i \in S : recs[i].idx \in Nat /\ recs[i].idx < n
  BY <1>1 DEF Record, Row, Within
<1>3. f \in [S -> T]
  BY <1>2
<1>4. \A i, j \in S : f[i] = f[j] => i = j
  <2> SUFFICES ASSUME NEW i \in S, NEW j \in S, i # j PROVE f[i] # f[j]
    OBVIOUS
  <2>1. i < j \/ j < i
    OBVIOUS
  <2> QED BY <1>1, <1>2, <2>1 DEF Increasing
<1>5. f \in Injection(S, T)
  BY <1>3, <1>4 DEF Injection, IsInjective
<1>6. /\ IsFiniteSet(T) /\ Cardinality(T) = n
      /\ IsFiniteSet(S) /\ Cardinality(S) = n
  BY FS_Interval
<1>7. f \in Surjection(S, T)
  <2> HIDE DEF S, T, f
  <2> QED BY <1>5, <1>6, FS_Injection
<1>8. PICK i \in S : f[i] = r
  <2>1. r \in T
    OBVIOUS
  <2> HIDE DEF S, T, f
  <2> QED BY <1>7, <2>1 DEF Surjection
<1>9. {k \in DOMAIN recs : recs[k].idx = r} = {i}
  BY <1>1, <1>4, <1>8
<1> QED BY <1>9, FS_Singleton

\* Every row of the Parquet file has exactly one record in the priors training
\* uses, after any kills and reruns, and however many shards were merged.
THEOREM RowsTheorem ==
  ASSUME NoImport, ~Overlap, PartsFit
  PROVE  Spec => []TrainedPriorsCoverEachRowOnce
<1>1. DumpInv => TrainedPriorsCoverEachRowOnce
  <2> SUFFICES ASSUME DumpInv, Training, NEW r \in Row, r < parquet.n
               PROVE  Cardinality({i \in DOMAIN priors.recs : priors.recs[i].idx = r}) = 1
    BY DEF TrainedPriorsCoverEachRowOnce
  <2>1. PriorsValid
    BY DEF DumpInv, RowsInv, Training
  <2>2. RowsOf(priors) /\ priors.man = manifest /\ parquet.n = manifest.n
        /\ Len(priors.recs) = parquet.n
    BY <2>1 DEF DumpInv, RowsInv, PriorsValid
  <2>3. priors \in Priors /\ parquet \in Table
    BY <2>1 DEF PriorsValid, DumpInv, ToolInv, TypeInv, PriorsTypeOK, BuilderInv, BuilderTypes,
       DirTypeOK
  <2>4. priors.recs \in Dump /\ parquet.n \in Nat /\ r \in Nat
    BY <2>3, ReleasesAssumption DEF Priors, Table, Row
  <2> QED BY <2>2, <2>4, EachRowOnce DEF RowsOf
<1> QED
  BY DumpInvariant, <1>1, PTL DEF Spec

LEMMA PipelineInvariant ==
  ASSUME NoImport, ~Overlap, OneShard
  PROVE  Spec => [](PipelineInv /\ DumpInv)
<1>1. PartsFit
  BY DEF PartsFit
<1>2. Init => PipelineInv /\ DumpInv
  BY <1>1, DumpInvariant, ScoredInvInit DEF PipelineInv, DumpInv
<1>3. PipelineInv /\ DumpInv /\ [Next]_vars => PipelineInv' /\ DumpInv'
  BY <1>1, DumpInvariant, ScoredInvStep DEF PipelineInv, DumpInv
<1> QED
  BY <1>2, <1>3, PTL DEF Spec

\* Priors the gate accepts were scored on the release whose views are shown.
LEMMA OpenIsShown ==
  PipelineInv /\ DumpInv /\ PriorsValid
    => neg # NoViews /\ priors.recs[1].neg = neg[0] /\ neg[0] \in Releases
<1> SUFFICES ASSUME PipelineInv, DumpInv, PriorsValid
             PROVE  neg # NoViews /\ priors.recs[1].neg = neg[0] /\ neg[0] \in Releases
  OBVIOUS
<1>1. /\ priors \in Priors /\ manifest \in Table /\ manifest # NoFile
      /\ neg \in [Row -> Releases \cup {NoFile}]
      /\ priors.man = manifest /\ priors # NoFile
  BY DEF PriorsValid, PipelineInv, ToolInv, TypeInv, PriorsTypeOK, BuilderInv, BuilderTypes, DirTypeOK
<1>2. RowsOf(priors) /\ Scored(priors.recs) /\ ManifestDescribesNegatives
  BY <1>1 DEF DumpInv, RowsInv, PipelineInv, ToolInv, ScoredInv, OneToolInv, BuilderInv, SwapInv
<1>3. priors.recs \in Seq(Record) /\ Len(priors.recs) \in Nat /\ Len(priors.recs) # 0
      /\ DOMAIN priors.recs = 1 .. Len(priors.recs)
  BY <1>1, <1>2 DEF Priors, Dump, RowsOf
<1>4. 1 \in DOMAIN priors.recs /\ priors.recs[1] \in Record
  BY <1>3
<1> DEFINE x == priors.recs[1].idx
<1>5. x \in Row /\ x < manifest.n /\ priors.recs[1].neg = neg[x]
  BY <1>1, <1>2, <1>4 DEF RowsOf, Within, Scored, Record
<1>6. manifest.n \in 0 .. MaxRows /\ manifest.gen \in Releases /\ MaxRows \in Nat
  BY <1>1, ReleasesAssumption DEF Table
<1>7. 0 \in Row /\ 0 < manifest.n
  BY <1>5, <1>6 DEF Row
<1>8. neg[x] = manifest.gen /\ neg[0] = manifest.gen
  BY <1>1, <1>2, <1>5, <1>7 DEF ManifestDescribesNegatives
<1>9. neg # NoViews
  BY <1>6, <1>7, <1>8, ReleasesAssumption DEF NoViews
<1> QED BY <1>5, <1>6, <1>8, <1>9

\* Seen from outside, build_trainset.py, prepare_priors.py and
\* validate_priors.py together are the gate of GateContract: it is shut while
\* views are replaced, and opens for the views in place only.
THEOREM GateTheorem ==
  ASSUME NoImport, ~Overlap, OneShard
  PROVE  Spec => ImplementsGateContract
<1> DEFINE Shown == IF neg = NoViews THEN NoFile ELSE neg[0]
           Accepted == IF PriorsValid THEN priors.recs[1].neg ELSE NoFile
<1>1. Init => Contract!Init
  BY DEF Init, DirInit, Contract!Init, PriorsValid
<1>2. (PipelineInv /\ DumpInv /\ PriorsValid
         => neg # NoViews /\ priors.recs[1].neg = neg[0] /\ neg[0] \in Releases)'
  BY OpenIsShown, PTL
<1>3. PipelineInv /\ DumpInv /\ PipelineInv' /\ DumpInv' /\ [Next]_vars
        => [Contract!Next]_(Contract!vars)
  <2> SUFFICES ASSUME PipelineInv, DumpInv, PipelineInv', DumpInv', [Next]_vars
               PROVE  [Contract!Next]_(Contract!vars)
    OBVIOUS
  <2>1. Accepted = NoFile \/ Accepted = Shown
    BY OpenIsShown
  <2>2. Accepted' = NoFile \/ (Accepted' = Shown' /\ Shown' # NoFile)
    BY <1>2, ReleasesAssumption DEF NoViews, Row
  <2>3. CASE neg' = neg
    <3>1. Shown' = Shown
      BY <2>3 DEF NoViews, Row
    <3> QED BY <2>2, <3>1 DEF Contract!Next, Contract!Open, Contract!Shut
  <2>4. CASE neg' # neg
    <3>1. priors = NoFile /\ (StartBuild \/ BuildStep \/ BuildFault)
      BY <2>4, NegativesFrame DEF PipelineInv, ToolInv
    <3>2. priors' = NoFile
      BY <3>1, BuilderWithdraws
    <3>3. Accepted = NoFile /\ Accepted' = NoFile
      BY <3>1, <3>2 DEF PriorsValid
    <3>4. Shown' \in Releases \cup {NoFile}
      <4>1. neg' \in [Row -> Releases \cup {NoFile}]
        BY DEF PipelineInv, ToolInv, OneToolInv, BuilderInv, BuilderTypes, DirTypeOK, Row
      <4>2. CASE 0 \in Row
        BY <4>1, <4>2
      <4>3. CASE 0 \notin Row
        <5>1. Row = {}
          BY <4>3, ReleasesAssumption DEF Row
        <5>2. neg' = NoViews'
          BY <4>1, <5>1 DEF NoViews, Row
        <5> QED BY <5>2
      <4> QED BY <4>2, <4>3
    <3> QED BY <3>3, <3>4 DEF Contract!Next, Contract!Replace
  <2> QED BY <2>3, <2>4
<1> QED
  BY PipelineInvariant, <1>1, <1>3, PTL DEF Spec, ImplementsGateContract, Contract!Spec

----------------------------------------------------------------------------
(***************************************************************************)
(* Part 6.  Operators who take the stages in order train with a table that *)
(* was counted from the very dump behind the priors.                       *)
(***************************************************************************)

InOrder == Policy \in {"staged", "script"}

\* Counting follows publishing, and a table older than the priors was set
\* aside before they were published.
TableInv ==
  /\ freq # NoFile /\ priors # NoFile => freq.counts = priors.recs
  /\ stage >= 2 => priors.recs = dump
  /\ bpc # "idle" => stage = 0
  /\ \A j \in Job :
       /\ jpc[j] # "idle" => stage <= 1
       /\ jpc[j] \in {"priors", "publish"} => freq = NoFile
       /\ jpc[j] = "publish" => jmeta[j].recs = dump
  /\ fpc # "idle" => stage >= 2
  /\ fpc \in {"hash", "publish"} => fcounts = dump
  /\ lpc \in {"validate_freq", "train"} => priors # NoFile
  /\ lpc = "train" /\ ldecay => freq # NoFile

LEMMA TableInvInit == Init => TableInv
  BY DEF Init, DirInit, BuildInit, PriorsInit, FreqInit, GateInit, TableInv

LEMMA TableByBuilder ==
  ASSUME ~Overlap, ToolInv, TableInv, StartBuild \/ BuildStep \/ BuildFault,
         stage' = 0 \/ (stage' = 1 /\ bpc' = "idle") \/ (stage' = stage /\ bpc # "idle"),
         UNCHANGED <<priorsVars, freqVars, gateVars>>
  PROVE  TableInv'
<1>1. JobsIdle /\ lpc = "idle" /\ jpc' = jpc /\ lpc' = lpc
  BY BuilderAlone DEF ToolInv, OneToolInv, priorsVars, jobVars, gateVars
<1>2. fpc = "idle" /\ fpc' = fpc
  BY DEF ToolInv, OneToolInv, Exclusive, StartBuild, MayStart, NoOtherTool,
     BuildFault, BuildWorkerFails, BuildSwapFails, BuildKilled,
     BuildStep, BuildExtract, BuildReadRows, BuildWorker,
     BuildCheckComplete, BuildInvalidateParquet, BuildInvalidatePriors,
     BuildInvalidateManifest, BuildSetAside, BuildSwap, BuildDropBackup,
     BuildWriteManifest, BuildConvertRead, BuildConvertWrite,
     BuildMarkPriorsStale, BuildMarkFreqStale, BuildGo, freqVars
<1>3. priors' \in {priors, NoFile} /\ freq' \in {freq, NoFile}
  BY BuilderWithdraws
<1>4. stage' < 2 /\ (bpc' # "idle" => stage' = 0)
  BY DEF TableInv
<1> QED
  BY <1>1, <1>2, <1>3, <1>4 DEF TableInv, JobsIdle

\* A step of one job, with what it does to the files and to its own state.
LEMMA TableByOne ==
  ASSUME ~Overlap, ToolInv, TableInv, NEW j \in Job, jpc[j] # "idle", JobStep(j) \/ JobKilled(j),
         UNCHANGED <<buildVars, freqVars, gateVars>>,
         stage' = stage \/ (stage' = 2 /\ jpc'[j] = "idle" /\ priors'.recs = dump' /\ jpc[j] # "score"),
         priors' = priors \/ freq' = NoFile, freq' \in {freq, NoFile},
         jpc'[j] \in {"priors", "publish"} => freq' = NoFile,
         jpc'[j] = "publish" => jmeta'[j].recs = dump'
  PROVE  TableInv'
<1>1. /\ bpc' = bpc /\ bpc = "idle" /\ lpc' = lpc /\ lpc = "idle" /\ fpc' = fpc /\ fpc = "idle"
      /\ stage \in 0 .. 3 /\ stage <= 1
  BY DEF ToolInv, OneToolInv, Exclusive, JobsIdle, buildVars, gateVars, freqVars, TypeInv,
     RestTypes, TableInv
<1>2. ASSUME NEW k \in Job, k # j
      PROVE  /\ jpc'[k] # "idle" => stage' <= 1
             /\ jpc'[k] \notin {"priors", "publish"}
  <2>1. jpc'[k] = jpc[k]
    BY <1>2, JobFrame DEF ToolInv, TypeInv
  <2>2. CASE jpc[k] # "idle"
    BY <1>1, <1>2, <2>1, <2>2, FilesApart
  <2> QED BY <2>1, <2>2
<1>3. \A k \in Job : /\ jpc'[k] # "idle" => stage' <= 1
                     /\ jpc'[k] \in {"priors", "publish"} => freq' = NoFile
                     /\ jpc'[k] = "publish" => jmeta'[k].recs = dump'
  BY <1>1, <1>2
<1>4. freq' # NoFile /\ priors' # NoFile => freq'.counts = priors'.recs
  BY DEF TableInv
<1>5. stage' >= 2 => priors'.recs = dump'
  BY <1>1
<1> QED
  BY <1>1, <1>3, <1>4, <1>5 DEF TableInv

LEMMA TableByJob ==
  ASSUME ~Overlap, ToolInv, TableInv, NEW j \in Job, RunJob(j)
  PROVE  TableInv'
<1>1. /\ jpc[j] # "idle" /\ JobStep(j) /\ UNCHANGED <<buildVars, freqVars, gateVars>>
      /\ stage' = (IF jpc[j] = "publish" THEN 2 ELSE stage) /\ PriorsTypeOK
  BY JobRuns DEF RunJob, ToolInv, TypeInv
<1>2. CASE DumpRow(j)
  <2>1. UNCHANGED <<priors, freq, jpc>> /\ jpc[j] = "score"
    BY <1>2 DEF DumpRow, dirVars
  <2> QED BY <1>1, <2>1, TableByOne
<1>3. CASE DumpRowMissing(j) \/ DumpEnd(j) \/ (j = MergeJob /\ MergeRemovePart)
  <2>1. /\ UNCHANGED <<priors, freq>> /\ jpc[j] # "publish"
        /\ jpc'[j] \in {"idle", "mark_freq", "remove_parts"}
    BY <1>1, <1>3 DEF DumpRowMissing, DumpEnd, MergeRemovePart, JobExit, JobGo, dirVars,
       PriorsTypeOK
  <2> QED BY <1>1, <2>1, TableByOne
<1>4. CASE MarkFreqStale(j)
  <2>1. freq' = NoFile /\ jpc[j] = "mark_freq" /\ jpc'[j] = "priors"
    BY <1>1, <1>4 DEF MarkFreqStale, JobGo, PriorsTypeOK
  <2> QED BY <1>1, <2>1, TableByOne
<1>5. CASE RunPriors(j)
  <2>1. /\ UNCHANGED <<priors, freq, dump>> /\ jpc[j] = "priors"
        /\ jpc'[j] \in {"idle", "publish"}
    BY <1>1, <1>5 DEF RunPriors, JobExit, JobGo, dirVars, dumpVars, PriorsTypeOK
  <2>2. jpc'[j] = "publish" => jmeta'[j].recs = dump
    BY <1>1, <1>5 DEF RunPriors, JobExit, JobGo, PriorsTypeOK
  <2>3. freq = NoFile
    BY <2>1 DEF TableInv
  <2> QED BY <1>1, <2>1, <2>2, <2>3, TableByOne
<1>6. CASE PublishPriors(j)
  <2>1. /\ priors' = jmeta[j] /\ freq' = freq /\ dump' = dump
        /\ jpc[j] = "publish" /\ jpc'[j] = "idle"
    BY <1>1, <1>6 DEF PublishPriors, JobExit, dumpVars, PriorsTypeOK
  <2>2. jmeta[j].recs = dump /\ freq = NoFile
    BY <2>1 DEF TableInv
  <2> QED BY <1>1, <2>1, <2>2, TableByOne
<1> QED
  BY <1>1, <1>2, <1>3, <1>4, <1>5, <1>6 DEF JobStep

LEMMA TableByStart ==
  ASSUME ~Overlap, ToolInv, TableInv, StartDump \/ StartMerge
  PROVE  TableInv'
<1>1. /\ bpc = "idle" /\ fpc = "idle" /\ lpc = "idle" /\ PriorsTypeOK
      /\ UNCHANGED <<bpc, fpc, lpc>> /\ stage' \in 0 .. 1
  BY DEF StartDump, StartMerge, MayStart, NoOtherTool, buildVars, freqVars, gateVars, ToolInv,
     TypeInv, RestTypes
<1>2. UNCHANGED <<priors, freq>>
  BY DumpStartTypes, MergeStartTypes DEF ToolInv, PartsApart
<1>3. \A j \in Job : jpc'[j] \notin {"priors", "publish"}
  <2>1. CASE StartDump
    <3>1. PICK k \in Shard, num \in ShardCounts, model \in ModelArgs :
             DumpStart(k, num, model) /\ (JobsIdle \/ OnlyShardsRun)
      BY <2>1 DEF StartDump
    <3>2. jpc' = [jpc EXCEPT ![k] = "score"]
      BY <3>1 DEF DumpStart
    <3> QED BY <1>1, <3>1, <3>2 DEF PriorsTypeOK, JobsIdle, OnlyShardsRun
  <2>2. CASE StartMerge
    <3>1. JobsIdle /\ jpc' = [jpc EXCEPT ![MergeJob] = "remove_parts"]
      BY <2>2 DEF StartMerge, MergeStart
    <3> QED BY <1>1, <3>1 DEF PriorsTypeOK, JobsIdle
  <2> QED BY <2>1, <2>2
<1> QED BY <1>1, <1>2, <1>3 DEF TableInv

LEMMA TableByFreq ==
  ASSUME ToolInv, TableInv, StartFreq \/ FreqStep \/ FreqKilled,
         InOrder, stage' = stage \/ (FreqPublish /\ stage' = 3),
         UNCHANGED <<buildVars, jobVars, gateVars>>
  PROVE  TableInv'
<1> USE DEF dirVars, dumpVars, buildVars, jobVars, gateVars
<1>1. UNCHANGED <<dump, priors, bpc, jpc, jmeta, lpc, ldecay>> /\ stage \in 0 .. 3
  BY FreqStepTypes DEF ToolInv, TypeInv, RestTypes
<1>2. CASE StartFreq
  <2>1. stage' >= 2 /\ stage' = stage
    BY <1>1, <1>2 DEF StartFreq, MayStart, InOrder
  <2>2. freq' = freq /\ fpc' = "count"
    BY <1>2 DEF StartFreq, FreqStart
  <2> QED BY <1>1, <2>1, <2>2 DEF TableInv
<1>3. CASE FreqCount \/ FreqHash \/ FreqKilled
  <2>1. freq' = freq /\ fpc # "idle" /\ stage >= 2 /\ stage' >= 2
    BY <1>1, <1>3 DEF FreqCount, FreqHash, FreqKilled, TableInv
  <2>2. fpc' \in {"hash", "publish"} => fcounts' = dump
    BY <1>3 DEF FreqCount, FreqHash, FreqKilled, FreqExit, TableInv
  <2> QED BY <1>1, <2>1, <2>2 DEF TableInv
<1>4. CASE FreqPublish
  <2>1. fpc = "publish" /\ fpc' = "idle" /\ stage >= 2 /\ stage' >= 2
    BY <1>1, <1>4 DEF FreqPublish, FreqExit, TableInv
  <2>2. freq'.counts = dump
    BY <1>4, <2>1 DEF FreqPublish, TableInv
  <2>3. bpc = "idle" /\ JobsIdle /\ lpc = "idle"
    BY <2>1 DEF ToolInv, OneToolInv, Exclusive, JobsIdle
  <2> QED BY <1>1, <2>1, <2>2, <2>3 DEF TableInv, JobsIdle
<1> QED BY <1>2, <1>3, <1>4 DEF FreqStep

LEMMA TableInvStep ==
  ASSUME NoImport, ~Overlap, InOrder, ToolInv, TableInv, [Next]_vars
  PROVE  TableInv'
<1>0. ipc = "idle" /\ stage \in 0 .. 3
  <2>1. BuilderTypes /\ RestTypes
    BY DEF ToolInv, OneToolInv, BuilderInv, TypeInv
  <2> QED BY <2>1 DEF BuilderTypes, RestTypes
<1>1. CASE StartBuild
  <2>1. stage' = 0 /\ UNCHANGED <<priorsVars, freqVars, gateVars>>
    BY <1>1 DEF StartBuild
  <2> QED BY <1>1, <2>1, TableByBuilder
<1>2. CASE RunBuild
  <2>1. BuildStep /\ UNCHANGED <<priorsVars, freqVars, gateVars>>
        /\ stage' = IF bpc = "stale_freq" THEN 1 ELSE stage
    BY <1>2 DEF RunBuild
  <2>2. bpc # "idle"
    BY <2>1 DEF BuildStep, BuildExtract, BuildReadRows, BuildWorker,
       BuildCheckComplete, BuildInvalidateParquet, BuildInvalidatePriors,
       BuildInvalidateManifest, BuildSetAside, BuildSwap, BuildDropBackup,
       BuildWriteManifest, BuildConvertRead, BuildConvertWrite,
       BuildMarkPriorsStale, BuildMarkFreqStale, BuildGo
  <2>3. bpc = "stale_freq" => bpc' = "idle"
    BY <2>1 DEF BuildStep, BuildExtract, BuildReadRows, BuildWorker,
       BuildCheckComplete, BuildInvalidateParquet, BuildInvalidatePriors,
       BuildInvalidateManifest, BuildSetAside, BuildSwap, BuildDropBackup,
       BuildWriteManifest, BuildConvertRead, BuildConvertWrite,
       BuildMarkPriorsStale, BuildMarkFreqStale, BuildGo, BuildExit
  <2> QED BY <2>1, <2>2, <2>3, TableByBuilder
<1>3. CASE StartImport \/ RunImport
  BY <1>0, <1>3 DEF StartImport, MayStart, NoImport, RunImport, ImportStep,
     ImportPositive, ImportNegative, ImportOpenManifest, ImportWriteManifest,
     ImportConvertRead, ImportConvertWrite
<1>4. CASE StartDump \/ StartMerge
  BY <1>4, TableByStart
<1>5. CASE StartFreq \/ RunFreq
  <2>1. stage' = stage \/ (FreqPublish /\ stage' = 3)
    BY <1>5 DEF StartFreq, RunFreq, FreqStep, FreqCount, FreqHash, FreqPublish
  <2> QED BY <1>5, <2>1, TableByFreq DEF StartFreq, RunFreq
<1>6. CASE StartLaunch \/ RunLaunch
  <2>1. UNCHANGED <<priors, dump, freq, bpc, jpc, jmeta, fpc, fcounts, stage>>
    BY <1>6 DEF StartLaunch, LaunchStart, RunLaunch, LaunchStep, ValidatePriors,
       ValidateFreq, TrainEnd, dirVars, dumpVars, buildVars, jobVars, freqVars
  <2>2. /\ lpc' = "train" /\ ldecay' => freq # NoFile
        /\ lpc' \in {"validate_freq", "train"} => priors # NoFile
    BY <1>6 DEF TableInv, PriorsValid, StartLaunch, LaunchStart, RunLaunch, LaunchStep,
       ValidatePriors, ValidateFreq, FreqValid, TrainEnd
  <2> QED BY <2>1, <2>2 DEF TableInv
<1>7. ASSUME NEW j \in Job, RunJob(j)
      PROVE  TableInv'
  BY <1>7, TableByJob
<1>8. CASE Fault
  <2> USE <1>8 DEF Fault
  <2>1. CASE BuildFault /\ UNCHANGED <<priorsVars, freqVars>>
    <3>1. bpc # "idle"
      BY <2>1 DEF BuildFault, BuildWorkerFails, BuildSwapFails, BuildKilled
    <3> QED BY <2>1, <3>1, TableByBuilder
  <2>2. CASE ImportDies
    BY <1>0, <2>2 DEF ImportDies
  <2>3. ASSUME NEW j \in Job, JobKilled(j), UNCHANGED <<buildVars, freqVars>>
        PROVE  TableInv'
    <3>1. jpc[j] # "idle" /\ UNCHANGED <<priors, freq, gateVars, stage>>
      BY <2>3 DEF JobKilled, dirVars
    <3>2. jpc'[j] = "idle"
      BY <2>3, <3>1 DEF JobKilled, JobExit, ToolInv, TypeInv, PriorsTypeOK
    <3> QED
      BY <2>3, <3>1, <3>2, TableByOne
  <2>4. CASE FreqKilled /\ UNCHANGED <<buildVars, jobVars>>
    BY <2>4, TableByFreq
  <2> QED
    BY <2>1, <2>2, <2>3, <2>4
<1>9. CASE UNCHANGED vars
  BY <1>9 DEF vars, dirVars, priorsVars, dumpVars, jobVars, freqVars, gateVars, buildVars, TableInv
<1> QED
  BY <1>1, <1>2, <1>3, <1>4, <1>5, <1>6, <1>7, <1>8, <1>9 DEF Next, Progress

\* The frequency table training uses counts the dump its priors come from,
\* although validate_priors.py never compares the two with each other.
THEOREM TableTheorem ==
  ASSUME NoImport, ~Overlap, InOrder
  PROVE  Spec => []TrainedTableMatchesPriors
<1>1. Init => ToolInv /\ TableInv
  BY ToolInvariant, TableInvInit
<1>2. ToolInv /\ TableInv /\ [Next]_vars => ToolInv' /\ TableInv'
  BY ToolInvariant, TableInvStep
<1>3. TableInv => TrainedTableMatchesPriors
  BY DEF TableInv, TrainedTableMatchesPriors, Training
<1> QED
  BY <1>1, <1>2, <1>3, PTL DEF Spec

=============================================================================
