---------------------------- MODULE GateContract ----------------------------
(***************************************************************************)
(* What the launch gate promises, without the files: the negative views in *)
(* place are replaced only while the gate is shut, and the gate is opened  *)
(* only for priors that were scored on the views in place.                 *)
(***************************************************************************)
CONSTANTS Releases, None

VARIABLES
  shown,      \* the release whose negative views are in place, or None
  open        \* the release a launch would be accepted for, or None

vars == <<shown, open>>

Init ==
  /\ shown = None
  /\ open = None

Replace ==
  /\ open = None
  /\ shown' \in Releases \cup {None}
  /\ UNCHANGED open

Open ==
  /\ shown # None
  /\ open' = shown
  /\ UNCHANGED shown

Shut ==
  /\ open' = None
  /\ UNCHANGED shown

Next == Replace \/ Open \/ Shut

Spec == Init /\ [][Next]_vars

=============================================================================
