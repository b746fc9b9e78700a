---------------------------- MODULE MCActorUpdate ----------------------------
(***************************************************************************)
(* Instances of ActorUpdate for TLC: six samples on two ranks, two mini-   *)
(* batches per rank of which the second is smaller.                        *)
(***************************************************************************)
EXTENDS ActorUpdate

MCBatches == {<<1, 1, 1, 3, 3, 3>>, <<2, 1, 3, 1, 2, 2>>, <<1, 1, 1, 1, 1, 1>>}

=============================================================================
