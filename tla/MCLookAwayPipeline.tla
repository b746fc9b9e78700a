------------------------- MODULE MCLookAwayPipeline -------------------------
(***************************************************************************)
(* Instances of LookAwayPipeline for TLC: releases "a" and "b" come from   *)
(* Hugging Face, "c" is a CROP snapshot.                                   *)
(***************************************************************************)
EXTENDS LookAwayPipeline

\* "b" has one row more than "a": row counts differ between releases.
MCNRows == [g \in Releases |-> IF g = "a" THEN MaxRows - 1 ELSE MaxRows]

\* All releases have the same number of rows.
MCSameRows == [g \in Releases |-> MaxRows]

\* Four rows: the shards of a layout then can have different sizes, and
\* shards of two layouts can add up to the right number of rows.
MCFourRows  == [g \in Releases |-> 4]

=============================================================================
