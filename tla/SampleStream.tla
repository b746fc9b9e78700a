---------------------------- MODULE SampleStream ----------------------------
(***************************************************************************)
(* What the fully asynchronous mode promises about the stream of samples,  *)
(* without its queues, coroutines and locks: samples are taken in order,   *)
(* at most Bound of them are under way, a training step uses Batch samples *)
(* that are under way, a sample is trained on once or is lost, and a new   *)
(* version of the weights is published after at most Trigger steps.        *)
(***************************************************************************)
EXTENDS Integers, FiniteSets

CONSTANTS Batch, Trigger, Bound

VARIABLES
  next,       \* samples taken from the data so far
  underWay,   \* taken, and neither trained on nor lost
  used,       \* trained on
  steps,      \* training steps since the version was published
  published   \* versions of the weights

vars == <<next, underWay, used, steps, published>>

Init ==
  /\ next = 0 /\ underWay = {} /\ used = {} /\ steps = 0 /\ published = 0

Take ==
  /\ Cardinality(underWay) < Bound
  /\ next' = next + 1
  /\ underWay' = underWay \cup {next'}
  /\ UNCHANGED <<used, steps, published>>

\* Training takes the batch out of the stream; a full round is published.
Train ==
  \E B \in SUBSET underWay :
    /\ Cardinality(B) = Batch
    /\ underWay' = underWay \ B
    /\ used' = used \cup B
    /\ IF steps + 1 = Trigger
       THEN steps' = 0 /\ published' = published + 1
       ELSE steps' = steps + 1 /\ UNCHANGED published
    /\ UNCHANGED next

Lose ==
  \E L \in SUBSET underWay :
    /\ L # {}
    /\ underWay' = underWay \ L
    /\ UNCHANGED <<next, used, steps, published>>

\* The last version, when training is over.
Publish ==
  /\ steps' = 0 /\ published' = published + 1
  /\ UNCHANGED <<next, underWay, used>>

Next == Take \/ Train \/ Lose \/ Publish

Spec == Init /\ [][Next]_vars

=============================================================================
