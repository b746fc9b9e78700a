--------------------------- MODULE ImportRelease ---------------------------
(***************************************************************************)
(* scripts/import_crop_release.py: copies a published CROP release over    *)
(* the data directory in place, row by row, then rewrites the manifest and *)
(* the Parquet file.  It withdraws nothing before it starts.               *)
(***************************************************************************)
EXTENDS DataDir

CONSTANT CropReleases   \* the releases that are CROP snapshots

ASSUME CropAssumption == CropReleases \subseteq Releases

VARIABLES
  ipc,        \* program counter of import_crop_release.py
  igen,       \* the release it imports
  icur        \* the row it copies

importVars == <<ipc, igen, icur>>

ImportSteps ==
  {"idle", "copy_pos", "copy_neg", "open_manifest", "write_manifest",
   "convert_read", "convert_write"}

ImportTypeOK ==
  /\ ipc \in ImportSteps
  /\ igen \in Releases \cup {NoFile}
  /\ icur \in 0 .. MaxRows

ImportInit ==
  /\ ipc = "idle"
  /\ igen = NoFile
  /\ icur = 0

ImportExit ==
  /\ ipc' = "idle"
  /\ igen' = NoFile
  /\ icur' = 0

\* main: the rows are loaded and filtered, the JSONL file is truncated.
ImportStart(g) ==
  /\ ipc = "idle"
  /\ ipc' = "copy_pos"
  /\ igen' = g
  /\ icur' = 0
  /\ jsonl' = [gen |-> g, n |-> 0]
  /\ UNCHANGED <<pos, datasets, derived>>

\* The student image and the positive crop of the row are copied.  The JSONL
\* writes are buffered: any prefix of the rows written so far may be on disk.
ImportPositive ==
  /\ ipc = "copy_pos"
  /\ ipc' = "copy_neg"
  /\ pos' = [pos EXCEPT ![icur] = igen]
  /\ \E k \in 0 .. icur + 1 : jsonl' = [gen |-> igen, n |-> k]
  /\ UNCHANGED <<datasets, derived, igen, icur>>

\* The negative crop is copied under the new row index.  After the last row
\* the with-block closes, and so completes, the JSONL file.
ImportNegative ==
  /\ ipc = "copy_neg"
  /\ neg' = [neg EXCEPT ![icur] = igen]
  /\ icur' = icur + 1
  /\ IF icur + 1 < NRows[igen]
     THEN ipc' = "copy_pos" /\ jsonl' = jsonl
     ELSE ipc' = "open_manifest" /\ jsonl' = Whole(igen)
  /\ UNCHANGED <<pos, manifest, parquet, derived, igen>>

\* The manifest is opened with "w" (truncated) and then filled.
ImportOpenManifest ==
  /\ ipc = "open_manifest"
  /\ ipc' = "write_manifest"
  /\ manifest' = [gen |-> igen, n |-> 0]
  /\ UNCHANGED <<sources, neg, parquet, derived, igen, icur>>

ImportWriteManifest ==
  /\ ipc = "write_manifest"
  /\ ipc' = "convert_read"
  /\ manifest' = Whole(igen)
  /\ UNCHANGED <<sources, neg, parquet, derived, igen, icur>>

\* build_trainset.convert_to_parquet on the results held in memory.
ImportConvertRead ==
  /\ ipc = "convert_read"
  /\ IF jsonl # NoFile /\ jsonl.n = NRows[igen]
     THEN ipc' = "convert_write" /\ igen' = jsonl.gen /\ icur' = icur
     ELSE ImportExit
  /\ UNCHANGED dirVars

ImportConvertWrite ==
  /\ ipc = "convert_write"
  /\ parquet' = Whole(igen)
  /\ ImportExit
  /\ UNCHANGED <<sources, neg, manifest, derived>>

\* A source image is missing or its hash is not the release's (SystemExit,
\* after the copy), or the process is killed: what was written stays.
ImportDies ==
  /\ ipc # "idle"
  /\ ImportExit
  /\ UNCHANGED dirVars

ImportStep ==
  \/ ImportPositive
  \/ ImportNegative
  \/ ImportOpenManifest
  \/ ImportWriteManifest
  \/ ImportConvertRead
  \/ ImportConvertWrite

=============================================================================
