------------------------------ MODULE DataDir ------------------------------
(***************************************************************************)
(* The files of one LookAway data directory (DATA_DIR), the only channel   *)
(* through which the tools of scripts/ talk to each other.  A file holds   *)
(* an abstract content; two files have the same SHA-256 exactly when they  *)
(* hold the same content.                                                  *)
(*                                                                         *)
(* A dataset is named by the release it was made from: a Hugging Face      *)
(* revision (build_trainset.py) or a CROP snapshot (import_crop_release).  *)
(* A table file (JSONL, manifest, Parquet) is the release and the number   *)
(* of complete rows in it; n = 0 is a file truncated by open(path, "w").   *)
(***************************************************************************)
EXTENDS Naturals

CONSTANTS
  Releases,   \* the dataset releases the tools can be pointed at
  NRows,      \* rows of each release, in [Releases -> Nat \ {0}]
  MaxRows,    \* a bound on them: row indices are 0 .. MaxRows - 1
  NoFile      \* the content of a file that does not exist

ASSUME ReleasesAssumption ==
  /\ MaxRows \in Nat
  /\ NRows \in [Releases -> 1 .. MaxRows]
  /\ NoFile \notin Releases
  /\ NoFile \notin [gen : Releases, n : 0 .. MaxRows]

VARIABLES
  jsonl,      \* trainset_clean.jsonl
  pos,        \* pos[r]: release of images/ and teacher_images/ of row r
  neg,        \* neg[r]: release of teacher_neg/<r>.png
  manifest,   \* dataset_generation_manifest.json
  parquet,    \* trainset_clean.parquet
  priors,     \* token_priors_frozen.json
  freq        \* token_freq_counts.json

sources  == <<jsonl, pos>>
datasets == <<neg, manifest, parquet>>
derived  == <<priors, freq>>
dirVars  == <<jsonl, pos, neg, manifest, parquet, priors, freq>>

Row     == 0 .. MaxRows - 1
Table   == [gen : Releases, n : 0 .. MaxRows]
Whole(g) == [gen |-> g, n |-> NRows[g]]

\* An image directory in which the first n rows come from release g.
Views(g, n) == [r \in Row |-> IF r < n THEN g ELSE NoFile]
NoViews     == [r \in Row |-> NoFile]

DirTypeOK ==
  /\ jsonl    \in Table \cup {NoFile}
  /\ manifest \in Table \cup {NoFile}
  /\ parquet  \in Table \cup {NoFile}
  /\ pos \in [Row -> Releases \cup {NoFile}]
  /\ neg \in [Row -> Releases \cup {NoFile}]

DirInit ==
  /\ jsonl = NoFile
  /\ manifest = NoFile
  /\ parquet = NoFile
  /\ priors = NoFile
  /\ freq = NoFile
  /\ pos = NoViews
  /\ neg = NoViews

=============================================================================
