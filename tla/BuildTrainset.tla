--------------------------- MODULE BuildTrainset ---------------------------
(***************************************************************************)
(* scripts/build_trainset.py: download a release in place, render the      *)
(* negative views of all rows into a staging directory, and only if every  *)
(* row succeeded withdraw the old training artifacts, swap the directory   *)
(* in, and rebuild the manifest and the Parquet file.                      *)
(*                                                                         *)
(* One action per file-system operation, because the process can be killed *)
(* between any two of them.  bpc is its program counter.                   *)
(***************************************************************************)
EXTENDS DataDir

VARIABLES
  bpc,        \* program counter of build_trainset.py
  brows,      \* the table it holds in memory
  bcur,       \* the next row whose image archive entry is extracted
  bres,       \* bres[r]: result of the pool worker for row r
  backup      \* .teacher_neg.backup.XXXX/, the negatives set aside

buildVars == <<bpc, brows, bcur, bres, backup>>

BuildSteps ==
  {"idle", "extract", "read", "work", "inv_parquet", "inv_priors",
   "inv_manifest", "set_aside", "swap", "drop", "write_manifest",
   "convert_read", "convert_write", "stale_priors", "stale_freq"}

Results == {"none", "todo", "ok", "failed"}

BuildTypeOK ==
  /\ bpc \in BuildSteps
  /\ brows \in Table \cup {NoFile}
  /\ bcur \in 0 .. MaxRows
  /\ bres \in [Row -> Results]
  /\ backup \in [Row -> Releases \cup {NoFile}]

BuildInit ==
  /\ bpc = "idle"
  /\ brows = NoFile
  /\ bcur = 0
  /\ bres = [r \in Row |-> "none"]
  /\ backup = NoViews

\* Leaving main(): the memory of the process is gone, the finally block has
\* removed the staging directory, and no run ever opens the .backup.XXXX
\* directory that an earlier one may have left behind.
BuildExit ==
  /\ bpc' = "idle"
  /\ brows' = NoFile
  /\ bcur' = 0
  /\ bres' = [r \in Row |-> "none"]
  /\ backup' = NoViews

BuildGo(from, to) ==
  /\ bpc = from
  /\ bpc' = to

----------------------------------------------------------------------------
(***************************************************************************)
(* download_dataset: snapshot_download replaces trainset_clean.jsonl, then *)
(* the archives are extracted over the image directories file by file.     *)
(***************************************************************************)

BuildDownload(g) ==
  /\ BuildGo("idle", "extract")
  /\ jsonl' = Whole(g)
  /\ brows' = Whole(g)
  /\ UNCHANGED <<pos, datasets, derived, bcur, bres, backup>>

BuildSkipDownload ==
  /\ BuildGo("idle", "read")
  /\ UNCHANGED <<dirVars, brows, bcur, bres, backup>>

\* Mutant of BuildExtract: the loop runs once too often.
MutExtractOneMore ==
  /\ bpc = "extract"
  /\ IF bcur <= brows.n
     THEN /\ pos' = [r \in Row |-> IF r = bcur THEN brows.gen ELSE pos[r]]
          /\ bcur' = bcur + 1
          /\ bpc' = bpc
     ELSE /\ bpc' = "read"
          /\ UNCHANGED <<pos, bcur>>
  /\ UNCHANGED <<jsonl, datasets, derived, brows, bres, backup>>

BuildExtract ==
  /\ bpc = "extract"
  /\ IF bcur < brows.n
     THEN /\ pos' = [pos EXCEPT ![bcur] = brows.gen]
          /\ bcur' = bcur + 1
          /\ bpc' = bpc
     ELSE /\ bpc' = "read"
          /\ UNCHANGED <<pos, bcur>>
  /\ UNCHANGED <<jsonl, datasets, derived, brows, bres, backup>>

----------------------------------------------------------------------------
(***************************************************************************)
(* generate_negative_views                                                 *)
(***************************************************************************)

\* The row table is read once.  A missing or empty file is an exception.
BuildReadRows ==
  /\ bpc = "read"
  /\ IF jsonl # NoFile /\ jsonl.n > 0
     THEN /\ bpc' = "work"
          /\ brows' = jsonl
          /\ bres' = [r \in Row |-> IF r < jsonl.n THEN "todo" ELSE "none"]
          /\ UNCHANGED <<bcur, backup>>
     ELSE BuildExit
  /\ UNCHANGED dirVars

\* A pool worker renders row r.  It reconstructs the official positive first,
\* so an image of another release than the row's box fails (ok: False).
BuildWorker(r) ==
  /\ bpc = "work"
  /\ bres[r] = "todo"
  /\ bres' = [bres EXCEPT ![r] = IF pos[r] = brows.gen THEN "ok" ELSE "failed"]
  /\ UNCHANGED <<dirVars, bpc, brows, bcur, backup>>

\* Any other exception inside a worker becomes a failed result as well.
BuildWorkerFails(r) ==
  /\ bpc = "work"
  /\ bres[r] = "todo"
  /\ bres' = [bres EXCEPT ![r] = "failed"]
  /\ UNCHANGED <<dirVars, bpc, brows, bcur, backup>>

\* Mutant of BuildCheckComplete: invalidate_training_artifacts is not called.
MutPublishWithoutInvalidating ==
  /\ bpc = "work"
  /\ \A r \in Row : bres[r] # "todo"
  /\ IF \A r \in Row : r < brows.n => bres[r] = "ok"
     THEN bpc' = "set_aside" /\ UNCHANGED <<brows, bcur, bres, backup>>
     ELSE BuildExit
  /\ UNCHANGED dirVars

\* All results are in: publish only a complete set, else raise.
BuildCheckComplete ==
  /\ bpc = "work"
  /\ \A r \in Row : bres[r] # "todo"
  /\ IF \A r \in Row : r < brows.n => bres[r] = "ok"
     THEN bpc' = "inv_parquet" /\ UNCHANGED <<brows, bcur, bres, backup>>
     ELSE BuildExit
  /\ UNCHANGED dirVars

\* invalidate_training_artifacts: three renames to *.stale, in this order.
BuildInvalidateParquet ==
  /\ BuildGo("inv_parquet", "inv_priors")
  /\ parquet' = NoFile
  /\ UNCHANGED <<sources, neg, manifest, derived, brows, bcur, bres, backup>>

\* Mutant of BuildInvalidatePriors: the priors are not in the list of names.
MutKeepPriors ==
  /\ BuildGo("inv_priors", "inv_manifest")
  /\ UNCHANGED <<dirVars, brows, bcur, bres, backup>>

BuildInvalidatePriors ==
  /\ BuildGo("inv_priors", "inv_manifest")
  /\ priors' = NoFile
  /\ UNCHANGED <<sources, datasets, freq, brows, bcur, bres, backup>>

\* Mutant of BuildInvalidateManifest: neither is the manifest.
MutKeepManifest ==
  /\ BuildGo("inv_manifest", "set_aside")
  /\ UNCHANGED <<dirVars, brows, bcur, bres, backup>>

BuildInvalidateManifest ==
  /\ BuildGo("inv_manifest", "set_aside")
  /\ manifest' = NoFile
  /\ UNCHANGED <<sources, neg, parquet, derived, brows, bcur, bres, backup>>

\* publish_negative_views: target -> backup, staging -> target, rm backup.
BuildSetAside ==
  /\ BuildGo("set_aside", "swap")
  /\ backup' = neg
  /\ neg' = NoViews
  /\ UNCHANGED <<sources, manifest, parquet, derived, brows, bcur, bres>>

BuildSwap ==
  /\ BuildGo("swap", "drop")
  /\ neg' = Views(brows.gen, brows.n)
  /\ UNCHANGED <<sources, manifest, parquet, derived, brows, bcur, bres, backup>>

\* The second rename raised: the backup is put back and main() dies.
BuildSwapFails ==
  /\ bpc = "swap"
  /\ neg' = backup
  /\ BuildExit
  /\ UNCHANGED <<sources, manifest, parquet, derived>>

BuildDropBackup ==
  /\ BuildGo("drop", "write_manifest")
  /\ backup' = NoViews
  /\ UNCHANGED <<dirVars, brows, bcur, bres>>

\* write_json_atomic: temporary file, fsync, rename.
BuildWriteManifest ==
  /\ BuildGo("write_manifest", "convert_read")
  /\ manifest' = brows
  /\ UNCHANGED <<sources, neg, parquet, derived, brows, bcur, bres, backup>>

----------------------------------------------------------------------------
(***************************************************************************)
(* convert_to_parquet reads the JSONL file again and compares its length   *)
(* with the results; the Parquet file is written aside and renamed.        *)
(***************************************************************************)

BuildConvertRead ==
  /\ bpc = "convert_read"
  /\ IF jsonl # NoFile /\ jsonl.n = brows.n
     THEN /\ bpc' = "convert_write"
          /\ brows' = jsonl
          /\ UNCHANGED <<bcur, bres, backup>>
     ELSE BuildExit
  /\ UNCHANGED dirVars

BuildConvertWrite ==
  /\ BuildGo("convert_write", "stale_priors")
  /\ parquet' = brows
  /\ UNCHANGED <<sources, neg, manifest, derived, brows, bcur, bres, backup>>

\* main: whatever derived artifact is left is renamed to *.stale.
BuildMarkPriorsStale ==
  /\ BuildGo("stale_priors", "stale_freq")
  /\ priors' = NoFile
  /\ UNCHANGED <<sources, datasets, freq, brows, bcur, bres, backup>>

BuildMarkFreqStale ==
  /\ bpc = "stale_freq"
  /\ freq' = NoFile
  /\ BuildExit
  /\ UNCHANGED <<sources, datasets, priors>>

----------------------------------------------------------------------------
\* The process is killed between two steps.
BuildKilled ==
  /\ bpc # "idle"
  /\ BuildExit
  /\ UNCHANGED dirVars

BuildStep ==
  \/ BuildExtract
  \/ BuildReadRows
  \/ \E r \in Row : BuildWorker(r)
  \/ BuildCheckComplete
  \/ BuildInvalidateParquet
  \/ BuildInvalidatePriors
  \/ BuildInvalidateManifest
  \/ BuildSetAside
  \/ BuildSwap
  \/ BuildDropBackup
  \/ BuildWriteManifest
  \/ BuildConvertRead
  \/ BuildConvertWrite
  \/ BuildMarkPriorsStale
  \/ BuildMarkFreqStale

BuildFault ==
  \/ \E r \in Row : BuildWorkerFails(r)
  \/ BuildSwapFails
  \/ BuildKilled

=============================================================================
