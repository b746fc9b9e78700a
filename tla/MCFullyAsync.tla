---------------------------- MODULE MCFullyAsync ----------------------------
(***************************************************************************)
(* Instances of FullyAsync for TLC: the capacity of the message queue      *)
(* follows from the settings, as set_max_required_samples computes it.     *)
(***************************************************************************)
EXTENDS FullyAsync

MCSyncCapacity == 4       \* Required = 2, Trigger = 2, StalePercent = 0
MCStaleCapacity == 3      \* StalePercent = 50, and Required = 1, Trigger = 2 or the reverse

=============================================================================
