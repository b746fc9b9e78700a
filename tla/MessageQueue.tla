---------------------------- MODULE MessageQueue ----------------------------
(***************************************************************************)
(* The queue between the rollouter and the trainer of the fully            *)
(* asynchronous mode (experimental/fully_async_policy/message_queue.py).   *)
(* It is an actor of its own: every method runs under its lock, so a call  *)
(* is one step.  A producer never waits: a full queue loses its oldest     *)
(* entry.  The consumer waits while the queue is empty.                    *)
(*                                                                         *)
(* Samples are numbered in the order the data loader yields them; Finish   *)
(* stands for the None that ends the stream.                               *)
(***************************************************************************)
EXTENDS Integers, Sequences, FiniteSets

CONSTANT MaxQueueSize   \* the argument max_queue_size of the actor

VARIABLES
  queue,      \* what waits to be trained on, oldest first
  dropped     \* samples the queue lost (the code keeps their number only)

mqVars == <<queue, dropped>>

Finish == 0

QueueInit == queue = <<>> /\ dropped = {}

\* Mutant of put_sample: a place of the queue stays empty.
MutOneTooFew(x) ==
  IF Len(queue) >= MaxQueueSize - 1
  THEN /\ queue' = Append(Tail(queue), x)
       /\ dropped' = dropped \cup {Head(queue)}
  ELSE /\ queue' = Append(queue, x)
       /\ UNCHANGED dropped

\* put_sample: append, after removing the oldest entry of a full queue.
put_sample(x) ==
  IF Len(queue) >= MaxQueueSize
  THEN /\ queue' = Append(Tail(queue), x)
       /\ dropped' = dropped \cup {Head(queue)}
  ELSE /\ queue' = Append(queue, x)
       /\ UNCHANGED dropped

\* get_sample: the oldest entry, as soon as there is one.
get_sample(x) ==
  /\ queue # <<>>
  /\ x = Head(queue)
  /\ queue' = Tail(queue)
  /\ UNCHANGED dropped

=============================================================================
