--------------------------- MODULE MCEvalPipeline ---------------------------
(***************************************************************************)
(* Instances of EvalPipeline for TLC.                                      *)
(***************************************************************************)
EXTENDS EvalPipeline

CONSTANTS s1, s2

MCGold == [u \in Samples |-> IF u = s1 THEN "A" ELSE "B"]

=============================================================================
