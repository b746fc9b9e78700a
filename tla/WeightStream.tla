----------------------------- MODULE WeightStream -----------------------------
(***************************************************************************)
(* What a checkpoint engine promises to the rollout workers (base.py): a    *)
(* generator hands the named weights of the trainer to each of them, one    *)
(* after the other, and ends when it has handed out all. A worker copies    *)
(* what it was handed, in that order and each weight once, when it likes:   *)
(* the copies may still be under way when the generator has ended.          *)
(***************************************************************************)
EXTENDS Naturals, Sequences

CONSTANTS Workers

VARIABLES
  count,     \* weights the trainer has
  handed,    \* how many of them each worker was handed
  loaded,    \* weights each worker has copied, in order
  finished   \* workers whose generator has ended

vars == <<count, handed, loaded, finished>>

Init ==
  /\ count \in Nat
  /\ handed = [r \in Workers |-> 0]
  /\ loaded = [r \in Workers |-> <<>>]
  /\ finished = {}

Hand(r) ==
  /\ handed[r] < count
  /\ handed' = [handed EXCEPT ![r] = @ + 1]
  /\ UNCHANGED <<count, loaded, finished>>

Load(r) ==
  /\ Len(loaded[r]) < handed[r]
  /\ loaded' = [loaded EXCEPT ![r] = Append(@, Len(@) + 1)]
  /\ UNCHANGED <<count, handed, finished>>

Finish(r) ==
  /\ handed[r] = count
  /\ finished' = finished \cup {r}
  /\ UNCHANGED <<count, handed, loaded>>

Next == \E r \in Workers : Hand(r) \/ Load(r) \/ Finish(r)

Spec == Init /\ [][Next]_vars

=============================================================================
