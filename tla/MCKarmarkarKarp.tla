--------------------------- MODULE MCKarmarkarKarp ---------------------------
(***************************************************************************)
(* Instances of KarmarkarKarp for TLC: up to six samples of up to four     *)
(* tokens in every order.                                                  *)
(***************************************************************************)
EXTENDS KarmarkarKarp

MCInputs == UNION {[1 .. n -> 1 .. 4] : n \in 3 .. 6}

=============================================================================
