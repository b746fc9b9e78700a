----------------------------- MODULE MCTrainer -----------------------------
(***************************************************************************)
(* Instances of Trainer for TLC.                                           *)
(***************************************************************************)
EXTENDS Trainer

MCTwoRanks == {0, 1}
MCKeepAll     == [ro \in Role |-> 0]
MCKeepOne     == [ro \in Role |-> 1]
MCKeepTwo     == [ro \in Role |-> 2]
MCKeepTwoOrThree == [ro \in Role |-> IF ro = "actor" THEN 2 ELSE 3]
MCKeepTwoOrOne == [ro \in Role |-> IF ro = "actor" THEN 2 ELSE 1]

=============================================================================
