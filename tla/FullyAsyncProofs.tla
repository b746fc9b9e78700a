-------------------------- MODULE FullyAsyncProofs --------------------------
(***************************************************************************)
(* Theorems about FullyAsync for any number of samples, slots and steps,   *)
(* any staleness threshold, with and without partial rollout, and with     *)
(* tasks that raise:                                                       *)
(*   - in partial mode the weights of the servers are overwritten while    *)
(*     nothing generates (QuietTheorem).  The mode matters: without it     *)
(*     cancel() is not called, and the monitor can let the processor go on *)
(*     in the middle of the copy (async_unpaused.cfg);                     *)
(*   - the variables keep their types and the queue its bound              *)
(*     (TypeTheorem), from who owns the lock during a synchronisation;     *)
(*   - at most one sample more than the staleness limit is outstanding     *)
(*     (OutstandingTheorem), from what the counter may miss;               *)
(*   - the samples go the way SampleStream says (StreamTheorem), from each *)
(*     being in one place once and the feed having no gap;                 *)
(*   - with a staleness threshold of zero nothing is dropped and, unless a *)
(*     generation raised, all but an incomplete last batch is trained on   *)
(*     (UsedTheorem), from nothing being outstanding while the weights are *)
(*     copied;                                                             *)
(*   - the end mark is never lost (EndMarkTheorem), from how many entries  *)
(*     can still come behind it;                                           *)
(*   - in partial mode no sample is trained on more than one version later *)
(*     than the staleness threshold says (LagTheorem), from the place of   *)
(*     every sample among those the trainer receives;                      *)
(*   - with a threshold of zero every sample is trained on at the version  *)
(*     that completed it (OnPolicyTheorem).                                *)
(***************************************************************************)
EXTENDS FullyAsync, FiniteSetTheorems, TLAPS

TaskStates == {"none", "new", "gen", "put"}

\* The servers refuse work from the moment pause() has cancelled them until
\* resume(), and once the active tasks were gathered none generates again.
Copying == {"weights", "update", "updating", "resume"}

QuietInv ==
  /\ task \in [Samples -> TaskStates]
  /\ sync \in Copying \cup {"gather"} => serversPaused
  /\ sync \in Copying => \A s \in Samples : task[s] # "gen"

LEMMA QuietInit == ASSUME Init PROVE QuietInv
BY DEF Init, RollInit, QuietInv, Copying, TaskStates

\* The coroutines that start no generation.
LEMMA QuietOwn ==
  ASSUME QuietInv, Feeder \/ Processor \/ Monitor \/ Main
  PROVE  QuietInv'
<1>1. UNCHANGED <<sync, serversPaused>>
  BY DEF Feeder, Processor, Monitor, Main, Own, _feed_samples, _processor_worker, procOther,
         ProcTop, ProcTake, ProcAdmit, ProcPause, ProcReap, ProcWait, ProcGoOn, ProcSubmit,
         _async_monitor_loop, MonitorCheck, MonitorResume, SendFinish
<1>2. task' = task \/ task' = [task EXCEPT ![hand] = "new"]
  BY DEF Feeder, Processor, Monitor, Main, _feed_samples, _processor_worker, procOther,
         ProcTop, ProcTake, ProcAdmit, ProcPause, ProcReap, ProcWait, ProcGoOn, ProcSubmit,
         _async_monitor_loop, MonitorCheck, MonitorResume, SendFinish
<1>3. \A s \in Samples : task'[s] = task[s] \/ task'[s] = "new"
  BY <1>2 DEF QuietInv
<1>4. task' \in [Samples -> TaskStates]
  BY <1>2 DEF QuietInv, TaskStates
<1> QED
  BY <1>1, <1>3, <1>4 DEF QuietInv

\* A task that reaches a paused server is interrupted.
LEMMA QuietTask ==
  ASSUME QuietInv, NEW s \in Samples, Task(s)
  PROVE  QuietInv'
<1>1. UNCHANGED <<sync, serversPaused>>
  BY DEF Task, Own, _process_single_sample_streaming, TaskReachesServer, TaskCancelled,
         TaskGenerated, TaskPuts, TaskRaises, taskOther
<1>2. \/ task' = [task EXCEPT ![s] = "none"]
      \/ task' = [task EXCEPT ![s] = "put"]
      \/ task' = [task EXCEPT ![s] = "gen"] /\ ~serversPaused
  BY DEF Task, _process_single_sample_streaming, TaskReachesServer, TaskCancelled,
         TaskGenerated, TaskPuts, TaskRaises, Interrupted
<1>3. task' \in [Samples -> TaskStates]
  BY <1>2 DEF QuietInv, TaskStates
<1>4. serversPaused => \A t \in Samples : task'[t] = task[t] \/ task'[t] # "gen"
  BY <1>2 DEF QuietInv
<1> QED
  BY <1>1, <1>3, <1>4 DEF QuietInv, Copying

LEMMA QuietTrainer == ASSUME QuietInv, Trainer \/ Done PROVE QuietInv'
BY DEF QuietInv, Trainer, Collect, Train, FinalSync, Closing, Done, vars, rollVars, syncVars

LEMMA QuietSynchronizer ==
  ASSUME QuietInv, Partial, Synchronizer
  PROVE  QuietInv'
<1>1. task' = task
  BY DEF Synchronizer, SyncStart, PauseBegin, PauseEnd, WeightsCopied, UpdateBegin, UpdateEnd,
         ResumeCall, resume, notProc
<1>2. CASE SyncStart
  BY <1>1, <1>2 DEF QuietInv, SyncStart, Copying
<1>3. CASE PauseBegin
  BY <1>1, <1>3 DEF QuietInv, PauseBegin, Copying
<1>4. CASE PauseEnd
  BY <1>1, <1>4 DEF QuietInv, PauseEnd, Copying, Live
<1>5. CASE WeightsCopied
  BY <1>1, <1>5 DEF QuietInv, WeightsCopied, Copying
<1>6. CASE UpdateBegin
  BY <1>1, <1>6 DEF QuietInv, UpdateBegin, Copying
<1>7. CASE UpdateEnd
  BY <1>1, <1>7 DEF QuietInv, UpdateEnd, Copying
<1>8. CASE ResumeCall
  BY <1>1, <1>8 DEF QuietInv, ResumeCall, syncVars
<1>9. CASE resume
  BY <1>1, <1>9 DEF QuietInv, resume, Copying
<1> QED
  BY <1>2, <1>3, <1>4, <1>5, <1>6, <1>7, <1>8, <1>9 DEF Synchronizer

\* sync_weights runs between pause() and update_param_version() of the
\* rollouter; in partial mode no generation is under way meanwhile.
THEOREM QuietTheorem ==
  ASSUME Partial
  PROVE  Spec => []QuietDuringCopy
<1>1. Init => QuietInv
  BY QuietInit
<1>2. QuietInv /\ [Next]_vars => QuietInv'
  <2>1. ASSUME QuietInv, Next PROVE QuietInv'
    BY <2>1, QuietOwn, QuietTask, QuietTrainer, QuietSynchronizer DEF Next
  <2>2. ASSUME QuietInv, UNCHANGED vars PROVE QuietInv'
    BY <2>2 DEF QuietInv, vars, rollVars, syncVars
  <2> QED BY <2>1, <2>2
<1>3. QuietInv => QuietDuringCopy
  BY DEF QuietInv, QuietDuringCopy, Copying
<1> QED
  BY <1>1, <1>2, <1>3, PTL DEF Spec

-----------------------------------------------------------------------------
(* Sequences as queues: what they hold, and each of it once.               *)

Once(seq) == \A i, j \in 1 .. Len(seq) : seq[i] = seq[j] /\ seq[i] # Finish => i = j

LEMMA SetOfAppend ==
  ASSUME NEW S, NEW seq \in Seq(S), NEW x \in S
  PROVE  /\ Append(seq, x) \in Seq(S) /\ Len(Append(seq, x)) = Len(seq) + 1
         /\ ToSet(Append(seq, x)) = ToSet(seq) \cup {x}
         /\ Once(seq) /\ (x = Finish \/ x \notin ToSet(seq)) => Once(Append(seq, x))
<1> DEFINE new == Append(seq, x)
<1>1. /\ Len(seq) \in Nat /\ Len(new) = Len(seq) + 1 /\ new \in Seq(S)
      /\ DOMAIN seq = 1 .. Len(seq) /\ DOMAIN new = 1 .. (Len(seq) + 1)
      /\ \A i \in 1 .. Len(seq) : new[i] = seq[i]
      /\ new[Len(seq) + 1] = x
  OBVIOUS
<1> HIDE DEF new
<1>2. \A i \in 1 .. Len(new) : i \in 1 .. Len(seq) \/ i = Len(seq) + 1
  BY <1>1
<1>3. ToSet(new) = ToSet(seq) \cup {x}
  <2>1. \A y \in ToSet(new) : y \in ToSet(seq) \cup {x}
    BY <1>1, <1>2 DEF ToSet
  <2>2. \A y \in ToSet(seq) \cup {x} : y \in ToSet(new)
    <3>1. x \in ToSet(new)
      BY <1>1 DEF ToSet
    <3>2. 1 .. Len(seq) \subseteq DOMAIN new
      BY <1>1
    <3> QED BY <1>1, <3>1, <3>2 DEF ToSet
  <2> QED BY <2>1, <2>2
<1>4. ASSUME Once(seq), x = Finish \/ x \notin ToSet(seq) PROVE Once(new)
  <2>1. x = Finish \/ \A i \in 1 .. Len(seq) : seq[i] # x
    BY <1>1, <1>4 DEF ToSet
  <2>2. ASSUME NEW i \in 1 .. Len(new), NEW j \in 1 .. Len(new), new[i] = new[j], new[i] # Finish
        PROVE  i = j
    <3>1. CASE i \in 1 .. Len(seq) /\ j \in 1 .. Len(seq)
      BY <1>1, <1>4, <2>2, <3>1 DEF Once
    <3>2. CASE i = Len(seq) + 1 \/ j = Len(seq) + 1
      BY <1>1, <1>2, <2>1, <2>2, <3>2
    <3> QED BY <1>2, <3>1, <3>2
  <2> QED BY <2>2 DEF Once
<1> QED BY <1>1, <1>3, <1>4 DEF new

LEMMA SetOfTail ==
  ASSUME NEW S, NEW seq \in Seq(S), seq # <<>>
  PROVE  /\ Tail(seq) \in Seq(S) /\ Len(Tail(seq)) = Len(seq) - 1 /\ Len(seq) \in Nat \ {0}
         /\ Head(seq) \in S
         /\ ToSet(seq) = ToSet(Tail(seq)) \cup {Head(seq)}
         /\ Once(seq) => Once(Tail(seq)) /\ (Head(seq) # Finish => Head(seq) \notin ToSet(Tail(seq)))
<1> DEFINE t == Tail(seq)
           h == Head(seq)
<1>1. /\ Len(seq) \in Nat \ {0} /\ t \in Seq(S) /\ Len(t) = Len(seq) - 1
      /\ DOMAIN seq = 1 .. Len(seq) /\ DOMAIN t = 1 .. (Len(seq) - 1)
      /\ \A i \in 1 .. (Len(seq) - 1) : t[i] = seq[i + 1]
      /\ h = seq[1] /\ h \in S
  OBVIOUS
<1> HIDE DEF t, h
<1>2. ToSet(seq) = ToSet(t) \cup {h}
  <2>1. ASSUME NEW i \in DOMAIN seq PROVE seq[i] \in ToSet(t) \cup {h}
    <3>1. CASE i # 1
      <4>1. i - 1 \in DOMAIN t /\ t[i - 1] = seq[i]
        BY <1>1, <2>1, <3>1
      <4> QED BY <4>1 DEF ToSet
    <3> QED BY <1>1, <3>1
  <2>2. ASSUME NEW i \in DOMAIN t PROVE t[i] \in ToSet(seq)
    <3>1. i + 1 \in DOMAIN seq /\ t[i] = seq[i + 1]
      BY <1>1, <2>2
    <3> QED BY <3>1 DEF ToSet
  <2>3. h \in ToSet(seq)
    <3>1. 1 \in DOMAIN seq
      BY <1>1
    <3> QED BY <1>1, <3>1 DEF ToSet
  <2> QED BY <2>1, <2>2, <2>3 DEF ToSet
<1>3. ASSUME Once(seq) PROVE Once(t) /\ (h # Finish => h \notin ToSet(t))
  <2>1. \A i \in 1 .. Len(t) : i + 1 \in 1 .. Len(seq) /\ t[i] = seq[i + 1]
    BY <1>1
  <2>2. Once(t)
    <3> SUFFICES ASSUME NEW i \in 1 .. Len(t), NEW j \in 1 .. Len(t), t[i] = t[j], t[i] # Finish
                 PROVE  i = j
      BY DEF Once
    <3>1. i + 1 = j + 1
      BY <1>3, <2>1 DEF Once
    <3> QED BY <1>1, <3>1
  <2>3. ASSUME h # Finish, NEW i \in DOMAIN t PROVE t[i] # h
    <3>1. 1 \in 1 .. Len(seq) /\ i + 1 # 1 /\ i \in 1 .. Len(t)
      BY <1>1, <2>3
    <3> QED BY <1>1, <1>3, <2>1, <2>3, <3>1 DEF Once
  <2> QED BY <2>2, <2>3 DEF ToSet
<1> QED BY <1>1, <1>2, <1>3 DEF t, h

LEMMA SetOfConcat ==
  ASSUME NEW S, NEW a \in Seq(S), NEW b \in Seq(S)
  PROVE  /\ a \o b \in Seq(S) /\ ToSet(a \o b) = ToSet(a) \cup ToSet(b)
         /\ Len(a \o b) = Len(a) + Len(b)
         /\ \A i \in 1 .. (Len(a) + Len(b)) :
              (a \o b)[i] = IF i <= Len(a) THEN a[i] ELSE b[i - Len(a)]
<1> DEFINE c == a \o b
<1>1. /\ c \in Seq(S) /\ Len(a) \in Nat /\ Len(b) \in Nat /\ Len(c) = Len(a) + Len(b)
      /\ DOMAIN a = 1 .. Len(a) /\ DOMAIN b = 1 .. Len(b) /\ DOMAIN c = 1 .. (Len(a) + Len(b))
      /\ \A i \in 1 .. (Len(a) + Len(b)) : c[i] = IF i <= Len(a) THEN a[i] ELSE b[i - Len(a)]
  OBVIOUS
<1> HIDE DEF c
<1>2. ASSUME NEW i \in DOMAIN c PROVE c[i] \in ToSet(a) \cup ToSet(b)
  <2>1. CASE i <= Len(a)
    <3>1. i \in DOMAIN a /\ c[i] = a[i]
      BY <1>1, <1>2, <2>1
    <3> QED BY <3>1 DEF ToSet
  <2>2. CASE ~(i <= Len(a))
    <3>1. i - Len(a) \in DOMAIN b /\ c[i] = b[i - Len(a)]
      BY <1>1, <1>2, <2>2
    <3> QED BY <3>1 DEF ToSet
  <2> QED BY <2>1, <2>2
<1>3. ASSUME NEW i \in DOMAIN a PROVE a[i] \in ToSet(c)
  <2>1. i \in DOMAIN c /\ c[i] = a[i]
    BY <1>1, <1>3
  <2> QED BY <2>1 DEF ToSet
<1>4. ASSUME NEW i \in DOMAIN b PROVE b[i] \in ToSet(c)
  <2>1. i + Len(a) \in DOMAIN c /\ c[i + Len(a)] = b[i]
    BY <1>1, <1>4
  <2> QED BY <2>1 DEF ToSet
<1>5. ToSet(c) = ToSet(a) \cup ToSet(b)
  BY <1>2, <1>3, <1>4 DEF ToSet
<1> QED BY <1>1, <1>5 DEF c

\* A sequence holds at most as many elements as it is long, and exactly as many
\* when it holds each of them once.
LEMMA SetOfSize ==
  ASSUME NEW S, NEW seq \in Seq(S)
  PROVE  /\ IsFiniteSet(ToSet(seq)) /\ Cardinality(ToSet(seq)) <= Len(seq)
         /\ Once(seq) /\ Finish \notin ToSet(seq) => Cardinality(ToSet(seq)) = Len(seq)
<1> DEFINE D == 1 .. Len(seq)
           T == ToSet(seq)
<1>1. Len(seq) \in Nat /\ DOMAIN seq = D /\ seq = [i \in D |-> seq[i]]
  OBVIOUS
<1>2. IsFiniteSet(D) /\ Cardinality(D) = Len(seq)
  <2>1. Len(seq) \in Nat
    OBVIOUS
  <2>2. /\ IsFiniteSet(1 .. Len(seq))
        /\ Cardinality(1 .. Len(seq)) = IF 1 > Len(seq) THEN 0 ELSE Len(seq) - 1 + 1
    BY <2>1, FS_Interval
  <2> QED BY <2>1, <2>2
<1>3. seq \in Surjection(D, T)
  <2>1. seq \in [D -> T]
    BY <1>1 DEF ToSet
  <2> QED BY <1>1, <2>1 DEF Surjection, ToSet
<1>4. ASSUME Once(seq), Finish \notin T PROVE seq \in Injection(D, T)
  <2>1. \A i \in D : seq[i] \in T
    BY <1>1 DEF ToSet
  <2>2. \A i, j \in D : seq[i] = seq[j] => i = j
    BY <1>4, <2>1 DEF Once
  <2>3. seq \in [D -> T]
    BY <1>3 DEF Surjection
  <2> HIDE DEF D, T
  <2> QED BY <2>2, <2>3 DEF Injection, IsInjective
<1> HIDE DEF D, T
<1>5. IsFiniteSet(T) /\ Cardinality(T) <= Cardinality(D)
      /\ (seq \in Injection(D, T) => Cardinality(T) = Cardinality(D))
  BY <1>2, <1>3, FS_Surjection
<1> QED BY <1>2, <1>4, <1>5 DEF T

-----------------------------------------------------------------------------
(* Types, and what the processor has in its hand.                          *)

TypeInv ==
  /\ TypeOK
  /\ pc = "admit" => hand \in 1 .. DoneMark
  /\ pc \in {"full", "submit", "submitParked"} => hand \in Samples

LEMMA Sizes ==
  /\ Total \in Nat /\ PendingSize \in Nat \ {0} /\ Required \in Nat \ {0}
  /\ Trigger \in Nat \ {0} /\ MaxQueueSize \in Nat \ {0} /\ DoneMark \in Nat
<1>1. /\ Required \in Nat \ {0} /\ Trigger \in Nat \ {0} /\ StalePercent \in Nat
      /\ MaxQueueSize = (Required * (StalePercent + 100) * Trigger) \div 100
  BY RolloutAssumption
<1> DEFINE a == Required * (StalePercent + 100)
           b == a * Trigger
<1>2. a \in Nat /\ a >= 100
  BY <1>1
<1> HIDE DEF a
<1>3. b \in Nat /\ b >= 100
  BY <1>1, <1>2
<1> HIDE DEF b
<1>4. b \div 100 \in Nat \ {0}
  BY <1>3
<1> QED BY <1>1, <1>4, RolloutAssumption DEF a, b, DoneMark

LEMMA TypeInit == ASSUME Init PROVE TypeInv
<1>1. Init /\ Total \in Nat /\ Trigger \in Nat \ {0} /\ MaxQueueSize \in Nat \ {0} /\ DoneMark \in Nat
  BY Sizes
<1>2. 1 \in 1 .. Trigger
  BY <1>1
<1>3. /\ queue = <<>> /\ dropped = {} /\ lost = {}
      /\ task = [s \in Samples |-> "none"] /\ ver = [s \in Samples |-> 0]
      /\ fed = 0 /\ pending = <<>> /\ cancelQ = <<>> /\ hand = 0
      /\ finished = 0 /\ staleness = 0 /\ version = 0 /\ tversion = 0
      /\ ~raised /\ ~waited /\ ~paused /\ trigger /\ ~serversPaused /\ ~ending
      /\ {raised, waited, paused, trigger, serversPaused, ending} \subseteq BOOLEAN
      /\ pc = "top" /\ mon = "sleep" /\ lock = <<>> /\ tpc = "collect" /\ sync = "idle"
      /\ batch = <<>> /\ trained = <<>> /\ step = 1
      /\ synced = 0 /\ counted = 0 /\ begun = 0 /\ begunAtUpdate = 0 /\ leftOver = 0
  BY DEF Init, RollInit, QueueInit, Nothing
<1>4. Len(queue) <= MaxQueueSize /\ queue \in Seq(Samples \cup {Finish})
  BY <1>1, <1>3
<1>5. /\ pending \in Seq(1 .. DoneMark) /\ cancelQ \in Seq(Samples)
      /\ batch \in Seq(Samples) /\ trained \in Seq(Samples)
      /\ lock \in Seq({"proc", "monitor", "pause", "update", "resume"})
  BY <1>3
<1>6. 0 \in 0 .. DoneMark /\ 0 \in 0 .. Total
  BY <1>1
<1> QED
  BY <1>2, <1>3, <1>4, <1>5, <1>6 DEF TypeInv, TypeOK

\* The queue keeps its bound; what it takes in or loses is a sample or the end
\* mark, and it never loses what it has just been given.
LEMMA PutTypes ==
  ASSUME TypeOK, NEW x \in Samples \cup {Finish}, put_sample(x)
  PROVE  /\ queue' \in Seq(Samples \cup {Finish}) /\ Len(queue') <= MaxQueueSize
         /\ dropped' \subseteq Samples \cup {Finish}
         /\ ToSet(queue') \subseteq ToSet(queue) \cup {x}
         /\ Once(queue) /\ (x = Finish \/ x \notin ToSet(queue)) => Once(queue')
<1>1. /\ queue \in Seq(Samples \cup {Finish}) /\ Len(queue) \in Nat /\ Len(queue) <= MaxQueueSize
      /\ MaxQueueSize \in Nat \ {0} /\ dropped \subseteq Samples \cup {Finish}
  BY Sizes DEF TypeOK
<1>2. CASE Len(queue) >= MaxQueueSize
  <2>1. queue # <<>>
    BY <1>1, <1>2
  <2> DEFINE t == Tail(queue)
  <2>2. /\ t \in Seq(Samples \cup {Finish}) /\ Len(t) = Len(queue) - 1
        /\ Head(queue) \in Samples \cup {Finish}
        /\ ToSet(t) \subseteq ToSet(queue) /\ (Once(queue) => Once(t))
    BY <1>1, <2>1, SetOfTail
  <2>3. queue' = Append(t, x) /\ dropped' = dropped \cup {Head(queue)}
    BY <1>2 DEF put_sample
  <2> HIDE DEF t
  <2>4. /\ queue' \in Seq(Samples \cup {Finish}) /\ Len(queue') = Len(t) + 1
        /\ ToSet(queue') = ToSet(t) \cup {x}
        /\ Once(t) /\ (x = Finish \/ x \notin ToSet(t)) => Once(queue')
    BY <2>2, <2>3, SetOfAppend
  <2> QED BY <1>1, <2>2, <2>3, <2>4
<1>3. CASE ~(Len(queue) >= MaxQueueSize)
  <2>1. queue' = Append(queue, x) /\ dropped' = dropped
    BY <1>3 DEF put_sample
  <2>2. /\ queue' \in Seq(Samples \cup {Finish}) /\ Len(queue') = Len(queue) + 1
        /\ ToSet(queue') = ToSet(queue) \cup {x}
        /\ Once(queue) /\ (x = Finish \/ x \notin ToSet(queue)) => Once(queue')
    BY <1>1, <2>1, SetOfAppend
  <2> QED BY <1>1, <1>3, <2>1, <2>2
<1> QED BY <1>2, <1>3

LEMMA LockTyped ==
  ASSUME TypeOK,
         \/ lock' = lock
         \/ lock # <<>> /\ lock' = Tail(lock)
         \/ \E p \in {"proc", "monitor", "pause", "update", "resume"} :
              \/ lock' = Append(lock, p)
              \/ lock # <<>> /\ lock' = Append(Tail(lock), p)
  PROVE  lock' \in Seq({"proc", "monitor", "pause", "update", "resume"})
<1> DEFINE P == {"proc", "monitor", "pause", "update", "resume"}
<1>1. lock \in Seq(P)
  BY DEF TypeOK
<1>2. CASE lock' = lock \/ (lock # <<>> /\ lock' = Tail(lock))
  BY <1>1, <1>2, SetOfTail
<1>3. ASSUME NEW p \in P, lock' = Append(lock, p) PROVE lock' \in Seq(P)
  BY <1>1, <1>3, SetOfAppend
<1>4. ASSUME NEW p \in P, lock # <<>>, lock' = Append(Tail(lock), p) PROVE lock' \in Seq(P)
  <2>1. Tail(lock) \in Seq(P)
    BY <1>1, <1>4, SetOfTail
  <2> QED BY <1>4, <2>1, SetOfAppend
<1> QED BY <1>2, <1>3, <1>4

LEMMA TypeFeeder == ASSUME TypeInv, Feeder PROVE TypeInv'
<1> DEFINE n == IF PendingSize - Len(pending) < DoneMark - fed
                THEN PendingSize - Len(pending) ELSE DoneMark - fed
           more == [i \in 1 .. n |-> fed + i]
<1>1. /\ n > 0 /\ pending' = pending \o more /\ fed' = fed + n
      /\ UNCHANGED <<cancelQ, hand, task, ver, finished, raised, waited, pc, mon,
                     lock, paused, trigger, staleness, version, serversPaused, lost>>
      /\ UNCHANGED mqVars /\ Own
  BY DEF Feeder, _feed_samples
<1>2. fed \in 0 .. DoneMark /\ pending \in Seq(1 .. DoneMark) /\ DoneMark \in Nat
      /\ PendingSize \in Nat /\ Len(pending) \in Nat /\ n \in Int /\ n <= DoneMark - fed
  <2>1. fed \in 0 .. DoneMark /\ pending \in Seq(1 .. DoneMark)
    BY DEF TypeInv, TypeOK
  <2>2. Len(pending) \in Nat
    BY <2>1
  <2> QED BY <2>1, <2>2, Sizes
<1> HIDE DEF n
<1>3. n \in Nat /\ more \in Seq(1 .. DoneMark)
  BY <1>1, <1>2
<1> HIDE DEF more
<1>4. fed' \in 0 .. DoneMark /\ pending' \in Seq(1 .. DoneMark)
  BY <1>1, <1>2, <1>3
<1>5. (pc' = "admit" => hand' \in 1 .. DoneMark) /\ (pc' \in {"full", "submit", "submitParked"} => hand' \in Samples)
  BY <1>1 DEF TypeInv
<1>6. /\ UNCHANGED <<queue, dropped, batch, trained, step, tpc, tversion>>
      /\ UNCHANGED <<sync, synced, counted, begun, begunAtUpdate, leftOver, ending>>
  BY <1>1 DEF Own, mqVars, trainVars
<1>7. {raised', waited', paused', trigger', serversPaused', ending'} \subseteq BOOLEAN
  BY <1>1, <1>6 DEF TypeInv, TypeOK
<1> QED
  BY <1>1, <1>4, <1>5, <1>6, <1>7 DEF TypeInv, TypeOK

\* What the processor takes from one of its two queues.
LEMMA TakeTypes ==
  ASSUME TypeInv
  PROVE  /\ pending # <<>> => /\ Head(pending) \in 1 .. DoneMark
                              /\ Tail(pending) \in Seq(1 .. DoneMark)
         /\ cancelQ # <<>> => /\ Head(cancelQ) \in Samples
                              /\ Tail(cancelQ) \in Seq(Samples)
         /\ Samples \subseteq 1 .. DoneMark /\ 0 \in 0 .. DoneMark
         /\ \A x \in 1 .. DoneMark : x # DoneMark => x \in Samples
         /\ \A x \in 1 .. DoneMark : x \in 0 .. DoneMark
<1>1. pending \in Seq(1 .. DoneMark) /\ cancelQ \in Seq(Samples)
  BY DEF TypeInv, TypeOK
<1>2. Samples \subseteq 1 .. DoneMark /\ DoneMark \in Nat /\ Total \in Nat
  BY Sizes DEF Samples, DoneMark
<1>3. pending # <<>> => Head(pending) \in 1 .. DoneMark /\ Tail(pending) \in Seq(1 .. DoneMark)
  BY <1>1, SetOfTail
<1>4. cancelQ # <<>> => Head(cancelQ) \in Samples /\ Tail(cancelQ) \in Seq(Samples)
  BY <1>1, SetOfTail
<1> QED BY <1>2, <1>3, <1>4 DEF Samples, DoneMark

LEMMA TypeProcessor == ASSUME TypeInv, Processor PROVE TypeInv'
<1>1. /\ UNCHANGED <<fed, ver, mon, trigger, version, serversPaused, lost, queue, dropped>>
      /\ UNCHANGED <<sync, synced, counted, begunAtUpdate, leftOver>> /\ UNCHANGED trainVars
  BY DEF Processor, _processor_worker, procOther, ProcTop, ProcTake, ProcAdmit, ProcPause,
         ProcReap, ProcWait, ProcGoOn, ProcSubmit, Own, mqVars
<1>2. lock' \in Seq({"proc", "monitor", "pause", "update", "resume"})
  <2>1. \/ lock' = lock
        \/ lock # <<>> /\ lock' = Tail(lock)
        \/ \E p \in {"proc", "monitor", "pause", "update", "resume"} :
             \/ lock' = Append(lock, p)
             \/ lock # <<>> /\ lock' = Append(Tail(lock), p)
    BY DEF Processor, _processor_worker, ProcTop, ProcTake, ProcAdmit, ProcPause,
           ProcReap, AfterWait, ProcWait, ProcGoOn, ProcSubmit, Requeue, Release, Holds
  <2> QED BY <2>1, LockTyped DEF TypeInv
<1>3. /\ pending' = pending \/ (pending # <<>> /\ pending' = Tail(pending))
      /\ cancelQ' = cancelQ \/ (cancelQ # <<>> /\ cancelQ' = Tail(cancelQ))
      /\ hand' = hand \/ hand' = 0 \/ (pending # <<>> /\ hand' = Head(pending))
           \/ (cancelQ # <<>> /\ hand' = Head(cancelQ))
      /\ staleness' = staleness \/ staleness' = staleness + 1
      /\ finished' = finished \/ finished' = 0
  BY DEF Processor, _processor_worker, ProcTop, ProcTake, TakePending, ProcAdmit, ProcPause,
         ProcReap, ProcWait, ProcGoOn, ProcSubmit, Nothing
<1>4. /\ pending' \in Seq(1 .. DoneMark) /\ cancelQ' \in Seq(Samples)
      /\ hand' \in 0 .. DoneMark /\ staleness' \in Nat /\ finished' \in Nat
  <2>1. /\ pending \in Seq(1 .. DoneMark) /\ cancelQ \in Seq(Samples)
        /\ hand \in 0 .. DoneMark /\ staleness \in Nat /\ finished \in Nat
    BY DEF TypeInv, TypeOK
  <2>2. pending' \in Seq(1 .. DoneMark) /\ cancelQ' \in Seq(Samples)
    BY <1>3, <2>1, TakeTypes
  <2>3. hand' \in 0 .. DoneMark
    BY <1>3, <2>1, TakeTypes
  <2> QED BY <1>3, <2>1, <2>2, <2>3
<1>5. task' \in [Samples -> {"none", "new", "gen", "put"}]
  BY DEF TypeInv, TypeOK, Processor, _processor_worker, ProcTop, ProcTake, ProcAdmit, ProcPause,
         ProcReap, ProcWait, ProcGoOn, ProcSubmit, procOther
<1>6. {raised', waited', paused', trigger', serversPaused', ending'} \subseteq BOOLEAN
  <2>1. {raised, waited, paused, trigger, serversPaused, ending} \subseteq BOOLEAN
    BY DEF TypeInv, TypeOK
  <2>2. ending' = ending
    BY <1>1 DEF trainVars
  <2>3. (raised' = raised \/ raised' = FALSE) /\ (waited' = waited \/ waited' = (waited \/ Active > 0))
        /\ (paused' = paused \/ paused' = TRUE)
    BY DEF Processor, _processor_worker, ProcTop, ProcTake, ProcAdmit, ProcPause,
         ProcReap, ProcWait, ProcGoOn, ProcSubmit
  <2>4. raised' \in BOOLEAN /\ waited' \in BOOLEAN /\ paused' \in BOOLEAN
    BY <2>1, <2>3
  <2> QED BY <1>1, <2>1, <2>2, <2>4
<1>7. /\ pc' \in {"top", "take", "admit", "pause", "drain", "wait", "parked", "full",
                   "submit", "submitParked", "end", "finished", "failed", "ended"}
      /\ pc' = "admit" => hand' \in 1 .. DoneMark
      /\ pc' \in {"full", "submit", "submitParked"} => hand' \in Samples
      /\ pc = "submit" => hand \in Samples
  <2> USE TakeTypes DEF TypeInv
  <2>1. CASE ProcTop
    BY <2>1 DEF ProcTop, TakePending
  <2>2. CASE ProcTake
    BY <2>2 DEF ProcTake, TakePending
  <2>3. CASE ProcAdmit
    BY <2>3 DEF ProcAdmit
  <2>4. CASE ProcPause \/ ProcWait \/ ProcGoOn \/ ProcSubmit
    BY <2>4 DEF ProcPause, ProcWait, ProcGoOn, ProcSubmit
  <2>5. CASE ProcReap
    <3>1. pc \in {"drain", "full", "end"} /\ hand' = hand
          /\ (pc' = "failed" \/ AfterWait(Cardinality(Live)))
      BY <2>5 DEF ProcReap
    <3>2. /\ pc' \in {"failed", "drain", "wait", "full", "submit", "end", "finished"}
          /\ pc' \in {"full", "submit"} => pc = "full"
      BY <3>1 DEF AfterWait
    <3> QED BY <3>1, <3>2
  <2> QED BY <2>1, <2>2, <2>3, <2>4, <2>5 DEF Processor, _processor_worker
<1>8. begun' \in 0 .. Total
  <2>1. begun' = begun \/ (pc = "submit" /\ begun' = hand)
    BY DEF Processor, Own
  <2> QED BY <1>7, <2>1 DEF TypeInv, TypeOK, Samples
<1> QED
  BY <1>1, <1>2, <1>4, <1>5, <1>6, <1>7, <1>8 DEF TypeInv, TypeOK, trainVars

LEMMA TypeNotified ==
  ASSUME TypeInv, NotifyAndRelease, lock # <<>>, hand' = hand
  PROVE  /\ lock' \in Seq({"proc", "monitor", "pause", "update", "resume"})
         /\ pc' \in {pc, "wait", "submit"}
         /\ pc' = "admit" => hand' \in 1 .. DoneMark
         /\ pc' \in {"full", "submit", "submitParked"} => hand' \in Samples
<1>1. \/ pc = "parked" /\ pc' = "wait" /\ lock' = Append(Tail(lock), "proc")
      \/ pc = "submitParked" /\ pc' = "submit" /\ lock' = Append(Tail(lock), "proc")
      \/ pc' = pc /\ lock' = Tail(lock)
  BY DEF NotifyAndRelease, Requeue, Release
<1>2. lock' \in Seq({"proc", "monitor", "pause", "update", "resume"})
  BY <1>1, LockTyped DEF TypeInv
<1> QED BY <1>1, <1>2 DEF TypeInv

LEMMA TypeMonitor == ASSUME TypeInv, Monitor PROVE TypeInv'
<1>1. CASE MonitorCheck
  <2>1. lock' \in Seq({"proc", "monitor", "pause", "update", "resume"})
    BY <1>1, LockTyped DEF MonitorCheck, TypeInv
  <2> QED BY <1>1, <2>1 DEF MonitorCheck, Monitor, Own, TypeInv, TypeOK, mqVars, trainVars
<1>2. CASE MonitorResume
  <2>1. lock # <<>> /\ NotifyAndRelease /\ hand' = hand /\ paused' = FALSE /\ mon' = "sleep"
    BY <1>2 DEF MonitorResume, Holds
  <2>2. begun' = begun
    <3>1. pc = "submit" => pc' # "top"
      BY <2>1 DEF NotifyAndRelease
    <3> QED BY <3>1 DEF Monitor, Own
  <2>3. /\ lock' \in Seq({"proc", "monitor", "pause", "update", "resume"})
        /\ pc' \in {pc, "wait", "submit"}
        /\ pc' = "admit" => hand' \in 1 .. DoneMark
        /\ pc' \in {"full", "submit", "submitParked"} => hand' \in Samples
    BY <2>1, TypeNotified
  <2>4. /\ UNCHANGED <<fed, pending, cancelQ, hand, task, ver, finished, raised, waited,
                       trigger, staleness, version, serversPaused, lost>>
        /\ UNCHANGED <<queue, dropped, sync, synced, counted, begunAtUpdate, leftOver>>
        /\ UNCHANGED trainVars
    BY <1>2 DEF MonitorResume, Monitor, Own, mqVars
  <2>5. {raised', waited', paused', trigger', serversPaused', ending'} \subseteq BOOLEAN
    BY <2>1, <2>4 DEF TypeInv, TypeOK, trainVars
  <2> QED
    BY <2>1, <2>2, <2>3, <2>4, <2>5 DEF TypeInv, TypeOK, trainVars
<1> QED BY <1>1, <1>2 DEF Monitor, _async_monitor_loop

\* How a task ends, if it ends, and what it leaves behind.
LEMMA TaskEffect ==
  ASSUME TypeInv, NEW s \in Samples, Task(s)
  PROVE  /\ UNCHANGED taskOther /\ UNCHANGED trainVars
         /\ UNCHANGED <<sync, synced, counted, begun, begunAtUpdate, leftOver>>
         /\ task[s] # "none"
         /\ \/ /\ task' = [task EXCEPT ![s] = "gen"] \/ task' = [task EXCEPT ![s] = "put"]
               /\ UNCHANGED <<cancelQ, queue, dropped>>
            \/ /\ task' = [task EXCEPT ![s] = "none"] /\ cancelQ' = Append(cancelQ, s)
               /\ UNCHANGED <<queue, dropped>>
            \/ /\ task' = [task EXCEPT ![s] = "none"] /\ put_sample(s) /\ UNCHANGED cancelQ
            \/ /\ task' = [task EXCEPT ![s] = "none"] /\ UNCHANGED <<cancelQ, queue, dropped>>
<1>1. UNCHANGED taskOther /\ UNCHANGED trainVars /\ UNCHANGED <<sync, synced, counted, begunAtUpdate, leftOver>>
  BY DEF Task, Own, _process_single_sample_streaming, TaskReachesServer, TaskCancelled,
         TaskGenerated, TaskPuts, TaskRaises
<1>2. pc' = pc /\ begun' = begun
  <2>1. pc' = pc
    BY <1>1 DEF taskOther
  <2> QED BY <2>1 DEF Task, Own
<1>3. CASE TaskReachesServer(s) \/ TaskCancelled(s)
  BY <1>1, <1>2, <1>3 DEF TaskReachesServer, TaskCancelled, Interrupted, mqVars
<1>4. CASE TaskGenerated(s) \/ TaskRaises(s)
  BY <1>1, <1>2, <1>4 DEF TaskGenerated, TaskRaises, mqVars
<1>5. CASE TaskPuts(s)
  BY <1>1, <1>2, <1>5 DEF TaskPuts
<1> QED BY <1>3, <1>4, <1>5 DEF Task, _process_single_sample_streaming

LEMMA TypeTask == ASSUME TypeInv, NEW s \in Samples, Task(s) PROVE TypeInv'
<1>1. UNCHANGED taskOther /\ UNCHANGED trainVars /\ UNCHANGED <<sync, synced, counted, begun, begunAtUpdate, leftOver>>
  BY TaskEffect
<1>2. task' \in [Samples -> {"none", "new", "gen", "put"}]
  BY TaskEffect DEF TypeInv, TypeOK
<1>3. cancelQ' \in Seq(Samples)
  <2>1. cancelQ \in Seq(Samples) /\ (cancelQ' = cancelQ \/ cancelQ' = Append(cancelQ, s))
    BY TaskEffect DEF TypeInv, TypeOK
  <2> QED BY <2>1, SetOfAppend
<1>4. /\ queue' \in Seq(Samples \cup {Finish}) /\ Len(queue') <= MaxQueueSize
      /\ dropped' \subseteq Samples \cup {Finish}
  <2>1. UNCHANGED <<queue, dropped>> \/ put_sample(s)
    BY TaskEffect
  <2> QED BY <2>1, PutTypes DEF TypeInv, TypeOK
<1>5. /\ ver' \in [Samples -> Nat] /\ finished' \in Nat /\ lost' \subseteq Samples
      /\ raised' \in BOOLEAN
  <2>1. ver \in [Samples -> Nat] /\ finished \in Nat /\ lost \subseteq Samples /\ version \in Nat
        /\ raised \in BOOLEAN
    BY DEF TypeInv, TypeOK
  <2>2. /\ ver' = ver \/ ver' = [ver EXCEPT ![s] = version]
        /\ finished' = finished \/ finished' = finished + 1
        /\ lost' = lost \/ lost' = lost \cup {s}
        /\ raised' = raised \/ raised' = TRUE
    BY DEF Task, _process_single_sample_streaming, TaskReachesServer, TaskCancelled, Interrupted,
         TaskGenerated, TaskPuts, TaskRaises
  <2>3. ver' \in [Samples -> Nat]
    BY <2>1, <2>2
  <2>4. raised' \in BOOLEAN
    BY <2>1, <2>2
  <2> QED BY <2>1, <2>2, <2>3, <2>4
<1>6. {raised', waited', paused', trigger', serversPaused', ending'} \subseteq BOOLEAN
  BY <1>1, <1>5 DEF taskOther, trainVars, TypeInv, TypeOK
<1>7. (pc' = "admit" => hand' \in 1 .. DoneMark) /\ (pc' \in {"full", "submit", "submitParked"} => hand' \in Samples)
  BY <1>1 DEF TypeInv, taskOther
<1>8. TypeOK'
  <2>1. UNCHANGED <<fed, pending, hand, pc, mon, lock, staleness, version, tpc, batch, trained, step, tversion>>
    BY <1>1 DEF taskOther, trainVars
  <2>2. UNCHANGED <<sync, synced, counted, begun, begunAtUpdate, leftOver>>
    BY <1>1
  <2>3. lost' \subseteq Samples /\ ver' \in [Samples -> Nat] /\ finished' \in Nat
    BY <1>5
  <2>4. /\ fed' \in 0 .. DoneMark /\ pending' \in Seq(1 .. DoneMark) /\ hand' \in 0 .. DoneMark
        /\ pc' \in {"top", "take", "admit", "pause", "drain", "wait", "parked", "full",
                   "submit", "submitParked", "end", "finished", "failed", "ended"}
        /\ mon' \in {"sleep", "resume"} /\ lock' \in Seq({"proc", "monitor", "pause", "update", "resume"})
        /\ staleness' \in Nat /\ version' \in Nat
    BY <2>1 DEF TypeInv, TypeOK
  <2>5. /\ tpc' \in {"collect", "valid", "sync", "last", "closing", "done"}
        /\ batch' \in Seq(Samples) /\ trained' \in Seq(Samples) /\ step' \in 1 .. Trigger /\ tversion' \in Nat
        /\ sync' \in {"idle", "pausing", "gather", "weights", "update", "updating", "resume"}
        /\ synced' \in Nat /\ counted' \in Nat /\ begun' \in 0 .. Total /\ begunAtUpdate' \in 0 .. Total /\ leftOver' \in Nat
    BY <2>1, <2>2 DEF TypeInv, TypeOK
  <2> QED BY <1>2, <1>3, <1>4, <1>6, <2>3, <2>4, <2>5 DEF TypeOK
<1> QED BY <1>7, <1>8 DEF TypeInv

LEMMA TypeMain == ASSUME TypeInv, Main PROVE TypeInv'
<1>1. /\ queue' \in Seq(Samples \cup {Finish}) /\ Len(queue') <= MaxQueueSize
      /\ dropped' \subseteq Samples \cup {Finish}
  BY PutTypes DEF Main, SendFinish, TypeInv
<1>2. pc' = "ended" /\ begun' = begun
  BY DEF Main, SendFinish, Own
<1> QED BY <1>1, <1>2 DEF Main, SendFinish, Own, trainVars, TypeInv, TypeOK

LEMMA TypeTrainer == ASSUME TypeInv, Trainer \/ Done PROVE TypeInv'
<1>1. Trigger \in Nat \ {0} /\ step \in 1 .. Trigger /\ tversion \in Nat
  BY Sizes DEF TypeInv, TypeOK
<1>2. ASSUME NEW validate, AfterStep(validate)
      PROVE  step' \in 1 .. Trigger /\ tversion' \in Nat /\ tpc' \in {"collect", "valid"}
  BY <1>1, <1>2 DEF AfterStep
<1>3. CASE Collect
  <2>1. PICK x \in Samples \cup {Finish} :
          /\ get_sample(x)
          /\ \/ x = Finish /\ batch' = <<>> /\ ending' = TRUE /\ tpc' = "last"
             \/ x # Finish /\ batch' = Append(batch, x) /\ UNCHANGED <<ending, tpc>>
    BY <1>3 DEF Collect
  <2>2. queue' \in Seq(Samples \cup {Finish}) /\ Len(queue') <= MaxQueueSize /\ dropped' = dropped
    <3>1. queue \in Seq(Samples \cup {Finish}) /\ Len(queue) <= MaxQueueSize /\ queue # <<>>
          /\ queue' = Tail(queue) /\ dropped' = dropped /\ MaxQueueSize \in Nat
      BY <2>1, Sizes DEF get_sample, TypeInv, TypeOK
    <3> QED BY <3>1, SetOfTail
  <2>3. batch' \in Seq(Samples)
    <3>1. batch \in Seq(Samples)
      BY DEF TypeInv, TypeOK
    <3>2. CASE x = Finish
      <4>1. batch' = <<>>
        BY <2>1, <3>2
      <4> QED BY <4>1
    <3>3. CASE x # Finish
      <4>1. x \in Samples /\ batch' = Append(batch, x)
        BY <2>1, <3>3
      <4> QED BY <3>1, <4>1, SetOfAppend
    <3> QED BY <3>2, <3>3
  <2>4. UNCHANGED <<trained, step, tversion, rollVars, syncVars>>
    BY <1>3 DEF Collect
  <2>5. {raised', waited', paused', trigger', serversPaused', ending'} \subseteq BOOLEAN
        /\ tpc' \in {"collect", "valid", "sync", "last", "closing", "done"}
    BY <2>1, <2>4 DEF TypeInv, TypeOK, rollVars
  <2> QED BY <2>2, <2>3, <2>4, <2>5 DEF rollVars, syncVars, TypeInv, TypeOK
<1>4. CASE Train
  <2>1. batch \in Seq(Samples) /\ trained \in Seq(Samples) /\ trained' = trained \o batch /\ batch' = <<>>
    BY <1>4 DEF Train, TypeInv, TypeOK
  <2>2. trained' \in Seq(Samples) /\ batch' \in Seq(Samples)
    BY <2>1
  <2>3. /\ UNCHANGED <<mqVars, rollVars, syncVars, ending>> /\ tversion' \in Nat
        /\ step' \in 1 .. Trigger /\ tpc' \in {"collect", "valid", "sync", "last", "closing", "done"}
    BY <1>2, <1>4 DEF Train
  <2> QED BY <2>2, <2>3 DEF mqVars, rollVars, syncVars, TypeInv, TypeOK
<1>5. CASE FinalSync
  BY <1>1, <1>2, <1>5 DEF FinalSync, mqVars, rollVars, syncVars, TypeInv, TypeOK
<1>6. CASE Closing
  BY <1>6 DEF Closing, mqVars, rollVars, syncVars, TypeInv, TypeOK
<1>7. CASE Done
  BY <1>7 DEF Done, vars, mqVars, rollVars, trainVars, syncVars, TypeInv, TypeOK
<1> QED BY <1>3, <1>4, <1>5, <1>6, <1>7 DEF Trainer

LEMMA ActiveTyped == TypeOK => Cardinality(Live) \in Nat /\ IsFiniteSet(Live) /\ Active \in Nat
<1>1. IsFiniteSet(Samples)
  BY Sizes, FS_Interval DEF Samples
<1>2. Live \in SUBSET Samples
  BY DEF Live
<1>3. IsFiniteSet(Live) /\ Cardinality(Live) \in Nat
  BY <1>1, <1>2, FS_Subset, FS_CardinalityType
<1>4. ASSUME TypeOK PROVE finished \in Nat
  BY <1>4 DEF TypeOK
<1> QED BY <1>3, <1>4 DEF Active

\* A synchronisation that is waiting or updating owns the lock.
LockInv ==
  /\ sync = "gather" => Holds("pause")
  /\ sync = "updating" => Holds("update")

LEMMA LockKept ==
  ASSUME TypeOK, LockInv, UNCHANGED sync,
         \/ lock' = lock \/ Holds("proc") \/ Holds("monitor")
         \/ \E p \in {"proc", "monitor", "pause", "update", "resume"} : lock' = Append(lock, p)
  PROVE  LockInv'
<1>1. CASE sync \notin {"gather", "updating"} \/ lock' = lock
  BY <1>1 DEF LockInv, Holds
<1>2. CASE sync \in {"gather", "updating"}
  <2>1. lock # <<>> /\ ~Holds("proc") /\ ~Holds("monitor")
    BY <1>2 DEF LockInv, Holds
  <2>2. CASE lock' = lock
    BY <1>1, <2>2
  <2>3. ASSUME NEW p \in {"proc", "monitor", "pause", "update", "resume"}, lock' = Append(lock, p)
        PROVE  LockInv'
    <3>1. lock \in Seq({"proc", "monitor", "pause", "update", "resume"})
      BY DEF TypeOK
    <3>2. lock' # <<>> /\ Head(lock') = Head(lock)
      BY <2>1, <2>3, <3>1
    <3> QED BY <2>1, <3>2 DEF LockInv, Holds
  <2> QED BY <2>1, <2>2, <2>3
<1> QED BY <1>1, <1>2

LEMMA TypeSynchronizer == ASSUME TypeInv, LockInv, Synchronizer PROVE TypeInv' /\ LockInv'
<1>1. UNCHANGED <<fed, pending, cancelQ, hand, task, ver, waited, mon, lost, queue, dropped>>
      /\ UNCHANGED <<batch, trained, step, tversion, ending, begun>>
  BY DEF Synchronizer, SyncStart, PauseBegin, PauseEnd, WeightsCopied, UpdateBegin, UpdateEnd,
         ResumeCall, resume, notProc, mqVars, trainVars, syncVars
<1>2. Active + Len(cancelQ) \in Nat /\ Len(queue) \in Nat
  <2>1. cancelQ \in Seq(Samples) /\ queue \in Seq(Samples \cup {Finish}) /\ Active \in Nat
    BY ActiveTyped DEF TypeInv, TypeOK
  <2> QED BY <2>1
<1>3. tversion \in Nat /\ counted \in Nat /\ synced \in Nat /\ synced' \in Nat
  <2>1. tversion \in Nat /\ counted \in Nat /\ synced \in Nat
    BY DEF TypeInv, TypeOK
  <2>2. synced' \in {synced, tversion}
    BY DEF Synchronizer, SyncStart, PauseBegin, PauseEnd, WeightsCopied, UpdateBegin, UpdateEnd,
           ResumeCall, resume, syncVars
  <2> QED BY <2>1, <2>2
<1>4. CASE SyncStart \/ WeightsCopied \/ ResumeCall
  <2>1. lock' \in Seq({"proc", "monitor", "pause", "update", "resume"})
    BY <1>4, LockTyped DEF TypeInv, SyncStart, WeightsCopied, ResumeCall
  <2>2. sync' \in {"pausing", "update", "resume"} /\ tpc' \in {tpc, "sync", "closing", "collect"}
    BY <1>4 DEF SyncStart, WeightsCopied, ResumeCall, syncVars, trainVars
  <2>3. UNCHANGED <<counted, begunAtUpdate, leftOver, finished, raised, pc, paused, trigger,
                    staleness, version, serversPaused>>
    BY <1>4 DEF SyncStart, WeightsCopied, ResumeCall, syncVars
  <2>4. {raised', waited', paused', trigger', serversPaused', ending'} \subseteq BOOLEAN
        /\ tpc' \in {"collect", "valid", "sync", "last", "closing", "done"}
    BY <1>1, <2>2, <2>3 DEF TypeInv, TypeOK
  <2> QED BY <1>1, <1>3, <2>1, <2>2, <2>3, <2>4 DEF TypeInv, TypeOK, LockInv
<1>5. CASE PauseBegin
  BY <1>1, <1>3, <1>5, RolloutAssumption DEF PauseBegin, TypeInv, TypeOK, LockInv, Holds, trainVars
<1>6. CASE UpdateBegin
  <2>1. version' \in Nat /\ counted' \in Nat /\ sync' = "updating" /\ Holds("update") /\ lock' = lock
    BY <1>2, <1>3, <1>6 DEF UpdateBegin
  <2>2. UNCHANGED <<begun, begunAtUpdate, leftOver, finished, raised, pc, paused, trigger, staleness,
                    serversPaused, tpc>>
    BY <1>6 DEF UpdateBegin, trainVars
  <2>3. {raised', waited', paused', trigger', serversPaused', ending'} \subseteq BOOLEAN
    BY <1>1, <2>2 DEF TypeInv, TypeOK
  <2>4. TypeInv'
    BY <1>1, <1>3, <2>1, <2>2, <2>3 DEF TypeInv, TypeOK
  <2> QED BY <2>1, <2>4 DEF LockInv, Holds
<1>7. CASE PauseEnd \/ UpdateEnd
  <2>1. lock # <<>> /\ lock' = Tail(lock) /\ sync' \in {"weights", "resume"}
    BY <1>7 DEF PauseEnd, UpdateEnd, LockInv, Holds, Release
  <2>2. lock' \in Seq({"proc", "monitor", "pause", "update", "resume"})
    BY <2>1, LockTyped DEF TypeInv
  <2>3. staleness' \in Nat /\ leftOver' \in Nat /\ begunAtUpdate' \in 0 .. Total
    <3>1. staleness \in Nat /\ leftOver \in Nat /\ begunAtUpdate \in 0 .. Total
          /\ begun \in 0 .. Total
      BY DEF TypeInv, TypeOK
    <3>2. CASE PauseEnd
      BY <3>1, <3>2 DEF PauseEnd
    <3>3. CASE UpdateEnd
      <4>1. Len(queue) \in Nat
        BY DEF TypeInv, TypeOK
      <4> QED BY <1>3, <3>1, <3>3, <4>1 DEF UpdateEnd
    <3> QED BY <1>7, <3>2, <3>3
  <2>4. /\ UNCHANGED <<counted, begun, pc, paused, version, serversPaused, tpc>>
        /\ finished' \in Nat /\ raised' \in BOOLEAN /\ trigger' \in BOOLEAN
    <3>1. finished \in Nat /\ raised \in BOOLEAN /\ trigger \in BOOLEAN
      BY DEF TypeInv, TypeOK
    <3>2. /\ UNCHANGED <<counted, begun, pc, paused, version, serversPaused, tpc>>
          /\ finished' = finished \/ finished' = 0
          /\ raised' = raised \/ raised' = FALSE
          /\ trigger' = trigger \/ trigger' = FALSE
      <4>1. CASE PauseEnd
        BY <4>1 DEF PauseEnd, trainVars
      <4>2. CASE UpdateEnd
        BY <4>2 DEF UpdateEnd, trainVars
      <4> QED BY <1>7, <4>1, <4>2
    <3>3. finished' \in Nat
      BY <3>1, <3>2
    <3>4. raised' \in BOOLEAN /\ trigger' \in BOOLEAN
      BY <3>1, <3>2
    <3> QED BY <3>2, <3>3, <3>4
  <2>5. {raised', waited', paused', trigger', serversPaused', ending'} \subseteq BOOLEAN
        /\ tpc' \in {"collect", "valid", "sync", "last", "closing", "done"}
    BY <1>1, <2>4 DEF TypeInv, TypeOK
  <2> QED BY <1>1, <1>3, <2>1, <2>2, <2>3, <2>4, <2>5 DEF TypeInv, TypeOK, LockInv
<1>8. CASE resume
  <2>1. lock # <<>> /\ NotifyAndRelease /\ hand' = hand /\ sync' = "idle"
    BY <1>1, <1>8 DEF resume, Holds
  <2>2. /\ lock' \in Seq({"proc", "monitor", "pause", "update", "resume"})
        /\ pc' \in {pc, "wait", "submit"}
        /\ pc' = "admit" => hand' \in 1 .. DoneMark
        /\ pc' \in {"full", "submit", "submitParked"} => hand' \in Samples
    BY <2>1, TypeNotified
  <2>3. /\ UNCHANGED <<counted, begunAtUpdate, leftOver, finished, raised, staleness, version, tpc>>
        /\ serversPaused' = FALSE /\ paused' = FALSE /\ trigger' = TRUE
    BY <1>8 DEF resume, trainVars
  <2>4. {raised', waited', paused', trigger', serversPaused', ending'} \subseteq BOOLEAN
    BY <1>1, <2>3 DEF TypeInv, TypeOK
  <2> QED BY <1>1, <1>3, <2>1, <2>2, <2>3, <2>4 DEF TypeInv, TypeOK, LockInv
<1> QED BY <1>4, <1>5, <1>6, <1>7, <1>8 DEF Synchronizer

FlowInv == TypeInv /\ LockInv

LEMMA FlowInit == ASSUME Init PROVE FlowInv
BY TypeInit DEF Init, FlowInv, LockInv

LEMMA FlowStep == ASSUME FlowInv, [Next]_vars PROVE FlowInv'
<1> USE DEF FlowInv
<1>1. ASSUME UNCHANGED sync,
             \/ lock' = lock \/ Holds("proc") \/ Holds("monitor")
             \/ \E p \in {"proc", "monitor", "pause", "update", "resume"} : lock' = Append(lock, p)
      PROVE  LockInv'
  BY <1>1, LockKept DEF TypeInv
<1>2. CASE Feeder
  BY <1>1, <1>2, TypeFeeder DEF Feeder, _feed_samples, Own
<1>3. CASE Processor
  <2>1. UNCHANGED sync
    BY <1>3 DEF Processor, Own
  <2>2. \/ lock' = lock \/ Holds("proc") \/ lock' = Append(lock, "proc")
    BY <1>3 DEF Processor, _processor_worker, ProcTop, ProcTake, ProcAdmit, ProcPause,
           ProcReap, ProcWait, ProcGoOn, ProcSubmit
  <2> QED BY <1>1, <1>3, <2>1, <2>2, TypeProcessor
<1>4. CASE Monitor
  <2>1. UNCHANGED sync /\ (Holds("monitor") \/ lock' = Append(lock, "monitor"))
    BY <1>4 DEF Monitor, Own, _async_monitor_loop, MonitorCheck, MonitorResume
  <2> QED BY <1>1, <1>4, <2>1, TypeMonitor
<1>5. CASE Main
  BY <1>1, <1>5, TypeMain DEF Main, SendFinish, Own
<1>6. ASSUME NEW s \in Samples, Task(s) PROVE FlowInv'
  BY <1>1, <1>6, TypeTask, TaskEffect DEF taskOther
<1>7. CASE Trainer \/ Done
  <2>1. UNCHANGED <<sync, lock>>
    BY <1>7 DEF Trainer, Collect, Train, FinalSync, Closing, Done, vars, rollVars, syncVars
  <2> QED BY <1>1, <1>7, <2>1, TypeTrainer
<1>8. CASE Synchronizer
  BY <1>8, TypeSynchronizer
<1>9. CASE UNCHANGED vars
  BY <1>9 DEF vars, mqVars, rollVars, trainVars, syncVars, TypeInv, TypeOK, LockInv, Holds
<1> QED BY <1>2, <1>3, <1>4, <1>5, <1>6, <1>7, <1>8, <1>9 DEF Next

\* Every variable keeps its type, the queue its bound, and the processor never
\* starts the end mark as if it were a sample.
THEOREM TypeTheorem == Spec => []TypeOK
<1>1. FlowInv => TypeOK
  BY DEF FlowInv, TypeInv
<1> QED BY FlowInit, FlowStep, <1>1, PTL DEF Spec

-----------------------------------------------------------------------------
(* How many samples are outstanding.  The counter that enforces the limit    *)
(* may be one short: update_param_version sets it to what it counted before  *)
(* and after a call of the message queue, and the sample the processor holds *)
(* or takes meanwhile is in neither.  Nothing else is ever missed, because   *)
(* the lock it holds keeps the processor from starting what it took.         *)

Waiting == {"top", "take", "pause", "drain", "wait", "parked"}
InHands == IF hand \in Samples THEN 1 ELSE 0
Waits == Cardinality(Live) + Len(cancelQ)
Counted == Cardinality(Ready) + Waits + InHands

LimitInv ==
  /\ pc \in Waiting => hand = Nothing
  /\ pc = "take" => staleness < MaxRequired
  /\ sync = "updating" => Waits <= counted
  /\ Counted <= staleness + 1
  /\ Counted <= MaxRequired + 1

LEMMA Sets ==
  TypeOK => /\ IsFiniteSet(Ready) /\ Cardinality(Ready) \in Nat
            /\ IsFiniteSet(Live) /\ Cardinality(Live) \in Nat /\ Live \subseteq Samples
            /\ Len(cancelQ) \in Nat /\ InHands \in {0, 1} /\ 0 \notin Samples
            /\ Waits \in Nat /\ Counted \in Nat
<1> SUFFICES ASSUME TypeOK
             PROVE  /\ IsFiniteSet(Ready) /\ Cardinality(Ready) \in Nat
                    /\ IsFiniteSet(Live) /\ Cardinality(Live) \in Nat /\ Live \subseteq Samples
                    /\ Len(cancelQ) \in Nat /\ InHands \in {0, 1} /\ 0 \notin Samples
                    /\ Waits \in Nat /\ Counted \in Nat
  OBVIOUS
<1>1. queue \in Seq(Samples \cup {Finish}) /\ cancelQ \in Seq(Samples)
  BY DEF TypeOK
<1>2. IsFiniteSet(ToSet(queue))
  BY <1>1, SetOfSize
<1>3. Ready \in SUBSET ToSet(queue)
  BY DEF Ready
<1>4. IsFiniteSet(Ready) /\ Cardinality(Ready) \in Nat
  BY <1>2, <1>3, FS_Subset, FS_CardinalityType
<1>5. IsFiniteSet(Live) /\ Cardinality(Live) \in Nat /\ Live \subseteq Samples
  BY ActiveTyped DEF Live
<1>6. Len(cancelQ) \in Nat /\ InHands \in {0, 1} /\ 0 \notin Samples
  BY <1>1 DEF InHands, Samples
<1> QED BY <1>4, <1>5, <1>6 DEF Waits, Counted

LEMMA SetsNext ==
  TypeOK' => /\ IsFiniteSet(Ready') /\ Cardinality(Ready') \in Nat
             /\ IsFiniteSet(Live') /\ Cardinality(Live') \in Nat /\ Live' \subseteq Samples
             /\ Len(cancelQ') \in Nat /\ InHands' \in {0, 1} /\ 0 \notin Samples
             /\ Waits' \in Nat /\ Counted' \in Nat
<1>1. (TypeOK => /\ IsFiniteSet(Ready) /\ Cardinality(Ready) \in Nat
                 /\ IsFiniteSet(Live) /\ Cardinality(Live) \in Nat /\ Live \subseteq Samples
                 /\ Len(cancelQ) \in Nat /\ InHands \in {0, 1} /\ 0 \notin Samples
                 /\ Waits \in Nat /\ Counted \in Nat)'
  BY Sets, PTL
<1> QED BY <1>1 DEF Samples

LEMMA LimitInit == ASSUME Init PROVE LimitInv
<1>1. queue = <<>> /\ cancelQ = <<>> /\ hand = 0 /\ staleness = 0 /\ pc = "top" /\ sync = "idle"
      /\ task = [s \in Samples |-> "none"]
  BY DEF Init, RollInit, QueueInit, Nothing
<1>2. Ready = {} /\ Live = {} /\ InHands = 0 /\ Len(cancelQ) = 0
  <2>1. ToSet(queue) = {}
    BY <1>1 DEF ToSet
  <2>2. Live = {}
    BY <1>1 DEF Live
  <2>3. 0 \notin Samples
    BY DEF Samples
  <2> QED BY <1>1, <2>1, <2>2, <2>3 DEF Ready, InHands
<1>3. Counted = 0
  BY <1>2, FS_EmptySet DEF Counted, Waits
<1> QED BY <1>1, <1>3, Sizes DEF LimitInv, Nothing, MaxRequired

\* The steps that take nothing from the feed and move nothing into a task.
LEMMA LimitFrame ==
  ASSUME FlowInv, FlowInv', LimitInv,
         pc' \in Waiting => hand' = Nothing, pc' = "take" => pc = "take",
         Counted' <= Counted, UNCHANGED <<sync, counted, staleness>>,
         sync = "updating" => Waits' <= Waits
  PROVE  LimitInv'
<1>1. Counted \in Nat /\ Counted' \in Nat /\ Waits \in Nat /\ Waits' \in Nat
      /\ staleness \in Nat /\ counted \in Nat /\ MaxRequired \in Nat
  BY Sets, SetsNext, Sizes DEF FlowInv, TypeInv, TypeOK, MaxRequired
<1> QED BY <1>1 DEF LimitInv, MaxRequired

LEMMA LimitProcessor == ASSUME FlowInv, FlowInv', LimitInv, Processor PROVE LimitInv'
<1>1. /\ UNCHANGED <<sync, counted, queue>> /\ Ready' = Ready
      /\ staleness \in Nat /\ counted \in Nat /\ MaxRequired \in Nat
      /\ cancelQ \in Seq(Samples)
  BY Sizes DEF Processor, Own, mqVars, Ready, FlowInv, TypeInv, TypeOK, MaxRequired
<1>2. /\ Cardinality(Ready) \in Nat /\ Cardinality(Live) \in Nat /\ Len(cancelQ) \in Nat
      /\ InHands \in {0, 1} /\ Cardinality(Live') \in Nat /\ Len(cancelQ') \in Nat
      /\ InHands' \in {0, 1} /\ 0 \notin Samples /\ IsFiniteSet(Live)
  BY Sets, SetsNext DEF FlowInv, TypeInv
<1>3. ASSUME pc \in {"top", "take"}, TakePending, UNCHANGED <<cancelQ, task>>, staleness < MaxRequired
      PROVE  LimitInv'
  <2>1. hand = 0 /\ InHands = 0 /\ Waits' = Waits /\ staleness' = staleness + 1 /\ pc' = "admit"
    BY <1>2, <1>3 DEF LimitInv, Waiting, Nothing, InHands, Waits, Live, TakePending
  <2>2. Counted' <= Counted + 1 /\ Counted \in Nat /\ Counted' \in Nat
    <3>1. Waits \in Nat /\ InHands' \in {0, 1}
      BY <1>2 DEF Waits
    <3>2. Counted = Cardinality(Ready) + Waits /\ Counted' = Cardinality(Ready) + Waits + InHands'
      BY <1>1, <1>2, <2>1, <3>1 DEF Counted
    <3> QED BY <1>2, <3>1, <3>2
  <2>3. Counted' <= staleness' + 1 /\ Counted' <= MaxRequired + 1
    BY <1>1, <1>3, <2>1, <2>2 DEF LimitInv
  <2>4. pc' \notin Waiting /\ pc' # "take"
    BY <2>1 DEF Waiting
  <2>5. sync' = "updating" => Waits' <= counted'
    BY <1>1, <2>1 DEF LimitInv
  <2> QED BY <2>3, <2>4, <2>5 DEF LimitInv, MaxRequired
<1>4. CASE ProcTop
  <2>1. UNCHANGED task
    BY <1>4 DEF ProcTop, procOther
  <2>2. CASE paused \/ ShouldPause
    <3>1. UNCHANGED <<hand, cancelQ, staleness>> /\ pc' = "pause" /\ pc = "top"
      BY <1>4, <2>2 DEF ProcTop
    <3> QED BY <1>1, <2>1, <3>1, LimitFrame DEF LimitInv, Waiting, Counted, Waits, InHands, Live
  <2>3. CASE ~(paused \/ ShouldPause) /\ cancelQ # <<>>
    <3>1. hand' = Head(cancelQ) /\ cancelQ' = Tail(cancelQ) /\ pc' = "admit" /\ staleness' = staleness
          /\ pc = "top"
      BY <1>4, <2>3 DEF ProcTop
    <3>2. hand' \in Samples /\ Len(cancelQ') = Len(cancelQ) - 1
      <4>1. cancelQ \in Seq(Samples) /\ cancelQ # <<>>
        BY <1>1, <2>3
      <4>2. Head(cancelQ) \in Samples /\ Len(Tail(cancelQ)) = Len(cancelQ) - 1
        BY <4>1, SetOfTail
      <4> QED BY <3>1, <4>2
    <3>3. hand = 0 /\ InHands = 0 /\ InHands' = 1
      BY <1>2, <3>1, <3>2 DEF LimitInv, Waiting, Nothing, InHands
    <3>4. Counted' = Counted /\ Waits' <= Waits
      BY <1>1, <1>2, <2>1, <3>2, <3>3 DEF Counted, Waits, Live
    <3>5. Counted \in Nat
      BY <1>2 DEF Counted, Waits
    <3> QED BY <1>1, <3>1, <3>4, <3>5, LimitFrame DEF Waiting
  <2>4. CASE ~(paused \/ ShouldPause) /\ cancelQ = <<>> /\ pending # <<>>
    <3>1. TakePending /\ UNCHANGED cancelQ /\ staleness < MaxRequired /\ pc = "top"
      BY <1>1, <1>4, <2>4 DEF ProcTop, ShouldPause, MaxRequired
    <3> QED BY <1>3, <2>1, <3>1
  <2>5. CASE ~(paused \/ ShouldPause) /\ cancelQ = <<>> /\ pending = <<>>
    <3>1. UNCHANGED <<hand, cancelQ, staleness>> /\ pc' = "take" /\ staleness < MaxRequired /\ pc = "top"
      BY <1>1, <1>4, <2>5 DEF ProcTop, ShouldPause, MaxRequired
    <3>2. Counted' = Counted /\ Waits' = Waits
      BY <1>1, <2>1, <3>1 DEF Counted, Waits, InHands, Live
    <3> QED BY <1>1, <3>1, <3>2 DEF LimitInv, Waiting, MaxRequired
  <2> QED BY <2>2, <2>3, <2>4, <2>5
<1>5. CASE ProcTake
  <2>1. TakePending /\ UNCHANGED <<cancelQ, task>> /\ pc = "take"
    BY <1>5 DEF ProcTake, procOther
  <2> QED BY <1>3, <2>1 DEF LimitInv
<1>6. CASE ProcAdmit \/ ProcPause \/ ProcWait \/ ProcGoOn \/ ProcReap
  <2>1. UNCHANGED <<cancelQ, staleness, task>> /\ (hand' = hand \/ hand' = Nothing) /\ pc' # "take"
    BY <1>6 DEF ProcAdmit, ProcPause, ProcWait, ProcGoOn, ProcReap, AfterWait, procOther
  <2>2. pc' \in Waiting => pc \in Waiting
    <3>1. CASE ProcAdmit \/ ProcPause \/ ProcWait \/ ProcGoOn
      BY <3>1 DEF ProcAdmit, ProcPause, ProcWait, ProcGoOn, Waiting
    <3>2. CASE ProcReap
      <4>1. pc \in {"drain", "full", "end"} /\ (pc' = "failed" \/ AfterWait(Cardinality(Live)))
        BY <3>2 DEF ProcReap
      <4>2. pc' \in {"failed", "full", "submit", "end", "finished"} \/ pc = "drain"
        BY <4>1 DEF AfterWait
      <4> QED BY <4>2 DEF Waiting
    <3> QED BY <1>6, <3>1, <3>2
  <2>3. InHands' <= InHands /\ Waits' = Waits
    BY <1>2, <2>1 DEF InHands, Waits, Live, Nothing
  <2>4. Counted' <= Counted /\ Waits \in Nat
    BY <1>1, <1>2, <2>1, <2>3 DEF Counted, Waits
  <2> QED BY <1>1, <2>1, <2>2, <2>3, <2>4, LimitFrame DEF LimitInv
<1>7. CASE ProcSubmit
  <2>1. /\ pc = "submit" /\ Holds("proc") /\ hand' = Nothing /\ pc' = "top"
        /\ task' = [task EXCEPT ![hand] = "new"] /\ UNCHANGED <<cancelQ, staleness>>
    BY <1>7 DEF ProcSubmit
  <2>2. hand \in Samples /\ sync # "updating" /\ InHands = 1 /\ InHands' = 0
    BY <1>2, <2>1 DEF FlowInv, TypeInv, LockInv, Holds, InHands, Nothing
  <2>3. Live' = Live \cup {hand}
    BY <2>1, <2>2 DEF Live, FlowInv, TypeInv, TypeOK
  <2>4. Cardinality(Live') <= Cardinality(Live) + 1
    <3>1. Cardinality(Live \cup {hand}) = IF hand \in Live THEN Cardinality(Live)
                                                         ELSE Cardinality(Live) + 1
      BY <1>2, FS_AddElement
    <3> QED BY <1>2, <2>3, <3>1
  <2>5. Counted' <= Counted /\ Counted \in Nat /\ Counted' \in Nat
    BY <1>1, <1>2, <2>1, <2>2, <2>4 DEF Counted, Waits
  <2> QED BY <1>1, <2>1, <2>2, <2>5, LimitFrame DEF Waiting
<1> QED BY <1>4, <1>5, <1>6, <1>7 DEF Processor, _processor_worker

\* A task that ends leaves its sample in one place at most.
LEMMA LimitTask == ASSUME FlowInv, FlowInv', LimitInv, NEW s \in Samples, Task(s) PROVE LimitInv'
<1>1. /\ UNCHANGED <<pc, hand, staleness, sync, counted>> /\ task[s] # "none"
      /\ queue \in Seq(Samples \cup {Finish}) /\ cancelQ \in Seq(Samples)
      /\ task \in [Samples -> {"none", "new", "gen", "put"}]
  BY TaskEffect DEF taskOther, FlowInv, TypeInv, TypeOK
<1>2. /\ IsFiniteSet(Ready) /\ Cardinality(Ready) \in Nat /\ Cardinality(Ready') \in Nat
      /\ IsFiniteSet(Live) /\ Cardinality(Live) \in Nat /\ Cardinality(Live') \in Nat
      /\ Len(cancelQ) \in Nat /\ InHands \in {0, 1} /\ InHands' = InHands
  BY <1>1, Sets, SetsNext DEF FlowInv, TypeInv, InHands
<1>3. /\ Cardinality(Live \ {s}) = Cardinality(Live) - 1
      /\ Cardinality(Ready \cup {s}) <= Cardinality(Ready) + 1 /\ IsFiniteSet(Ready \cup {s})
  <2>1. s \in Live
    BY <1>1 DEF Live
  <2>2. Cardinality(Live \ {s}) = IF s \in Live THEN Cardinality(Live) - 1 ELSE Cardinality(Live)
    BY <1>2, FS_RemoveElement
  <2>3. Cardinality(Ready \cup {s}) = IF s \in Ready THEN Cardinality(Ready) ELSE Cardinality(Ready) + 1
    BY <1>2, FS_AddElement
  <2>4. IsFiniteSet(Ready \cup {s})
    BY <1>2, FS_AddElement
  <2> QED BY <1>2, <2>1, <2>2, <2>3, <2>4
<1>4. \/ Live' = Live /\ cancelQ' = cancelQ /\ Ready' = Ready
      \/ Live' = Live \ {s} /\ Len(cancelQ') = Len(cancelQ) + 1 /\ Ready' = Ready
      \/ Live' = Live \ {s} /\ cancelQ' = cancelQ /\ Ready' \subseteq Ready \cup {s}
  <2>1. /\ task' = [task EXCEPT ![s] = "gen"] \/ task' = [task EXCEPT ![s] = "put"] => Live' = Live
        /\ task' = [task EXCEPT ![s] = "none"] => Live' = Live \ {s}
    BY <1>1 DEF Live
  <2>2. queue' = queue => Ready' = Ready
    BY DEF Ready
  <2>3. put_sample(s) => Ready' \subseteq Ready \cup {s}
    BY PutTypes DEF Ready, FlowInv, TypeInv
  <2>4. cancelQ' = Append(cancelQ, s) => Len(cancelQ') = Len(cancelQ) + 1
    BY <1>1, SetOfAppend
  <2>5. \/ /\ task' = [task EXCEPT ![s] = "gen"] \/ task' = [task EXCEPT ![s] = "put"]
           /\ UNCHANGED <<cancelQ, queue>>
        \/ /\ task' = [task EXCEPT ![s] = "none"] /\ cancelQ' = Append(cancelQ, s)
           /\ UNCHANGED queue
        \/ /\ task' = [task EXCEPT ![s] = "none"] /\ put_sample(s) /\ UNCHANGED cancelQ
        \/ /\ task' = [task EXCEPT ![s] = "none"] /\ UNCHANGED <<cancelQ, queue>>
    BY TaskEffect DEF FlowInv
  <2>6. CASE task' = [task EXCEPT ![s] = "none"]
    <3>1. Live' = Live \ {s}
      BY <2>1, <2>6
    <3>2. \/ cancelQ' = Append(cancelQ, s) /\ queue' = queue
          \/ put_sample(s) /\ cancelQ' = cancelQ
          \/ cancelQ' = cancelQ /\ queue' = queue
      <4>1. task[s] = "none" \/ task'[s] = "none"
        BY <1>1, <2>6
      <4>2. task'[s] \notin {"gen", "put"}
        BY <1>1, <4>1
      <4> QED BY <1>1, <2>5, <4>2
    <3> QED BY <2>2, <2>3, <2>4, <3>1, <3>2
  <2>7. CASE task' # [task EXCEPT ![s] = "none"]
    BY <2>1, <2>2, <2>5, <2>7
  <2> QED BY <2>6, <2>7
<1>5. Counted' <= Counted /\ Waits' <= Waits
  <2>1. CASE Live' = Live /\ cancelQ' = cancelQ /\ Ready' = Ready
    BY <1>2, <2>1 DEF Counted, Waits
  <2>2. CASE Live' = Live \ {s} /\ Len(cancelQ') = Len(cancelQ) + 1 /\ Ready' = Ready
    BY <1>2, <1>3, <2>2 DEF Counted, Waits
  <2>3. CASE Live' = Live \ {s} /\ cancelQ' = cancelQ /\ Ready' \subseteq Ready \cup {s}
    <3>1. Cardinality(Ready') <= Cardinality(Ready \cup {s}) /\ Cardinality(Ready \cup {s}) \in Nat
      BY <1>3, <2>3, FS_Subset, FS_CardinalityType
    <3>2. Cardinality(Ready') <= Cardinality(Ready) + 1
      BY <1>2, <1>3, <3>1
    <3>3. Waits' = Waits - 1 /\ Waits \in Nat
      BY <1>2, <1>3, <2>3 DEF Waits
    <3> QED BY <1>2, <3>2, <3>3 DEF Counted
  <2> QED BY <1>4, <2>1, <2>2, <2>3
<1> QED BY <1>1, <1>5, LimitFrame DEF LimitInv

LEMMA LimitMain == ASSUME FlowInv, FlowInv', LimitInv, Main PROVE LimitInv'
<1>1. /\ UNCHANGED <<hand, task, cancelQ, staleness, sync, counted>> /\ pc' = "ended"
      /\ put_sample(Finish)
  BY DEF Main, SendFinish, Own
<1>2. Ready' \subseteq Ready
  BY <1>1, PutTypes DEF Ready, FlowInv, TypeInv
<1>3. Live' = Live /\ Waits' = Waits /\ InHands' = InHands
  BY <1>1 DEF Live, Waits, InHands
<1>4. Waits \in Nat /\ InHands \in {0, 1} /\ IsFiniteSet(Ready)
      /\ Cardinality(Ready) \in Nat /\ Cardinality(Ready') \in Nat
  BY Sets, SetsNext DEF FlowInv, TypeInv
<1>5. Cardinality(Ready') <= Cardinality(Ready)
  BY <1>2, <1>4, FS_Subset
<1>6. Counted' <= Counted /\ Waits' <= Waits
  BY <1>3, <1>4, <1>5 DEF Counted
<1> QED BY <1>1, <1>6, LimitFrame DEF Waiting

LEMMA LimitTrainer == ASSUME FlowInv, FlowInv', LimitInv, Trainer \/ Done PROVE LimitInv'
<1>1. UNCHANGED <<hand, task, cancelQ, staleness, sync, counted, pc>>
  BY DEF Trainer, Collect, Train, FinalSync, Closing, Done, vars, rollVars, syncVars
<1>2. Ready' \subseteq Ready
  <2>1. queue' = queue \/ (queue # <<>> /\ queue' = Tail(queue))
    BY DEF Trainer, Collect, get_sample, Train, FinalSync, Closing, Done, vars, mqVars
  <2>2. queue \in Seq(Samples \cup {Finish})
    BY DEF FlowInv, TypeInv, TypeOK
  <2>3. queue # <<>> => ToSet(Tail(queue)) \subseteq ToSet(queue)
    BY <2>2, SetOfTail
  <2>4. ToSet(queue') \subseteq ToSet(queue)
    BY <2>1, <2>3
  <2> QED BY <2>4 DEF Ready
<1>3. Live' = Live /\ Waits' = Waits /\ InHands' = InHands
  BY <1>1 DEF Live, Waits, InHands
<1>4. Waits \in Nat /\ InHands \in {0, 1} /\ IsFiniteSet(Ready)
      /\ Cardinality(Ready) \in Nat /\ Cardinality(Ready') \in Nat
  BY Sets, SetsNext DEF FlowInv, TypeInv
<1>5. Cardinality(Ready') <= Cardinality(Ready)
  BY <1>2, <1>4, FS_Subset
<1>6. Counted' <= Counted /\ Waits' <= Waits
  BY <1>3, <1>4, <1>5 DEF Counted
<1> QED BY <1>1, <1>6, LimitFrame DEF LimitInv

\* Nothing the counter counts is touched, and the processor at most goes on.
LEMMA LimitAside ==
  ASSUME FlowInv, FlowInv', LimitInv, UNCHANGED <<queue, hand, task, cancelQ, staleness>>,
         UNCHANGED <<sync, counted>> \/ sync' # "updating",
         pc' = pc \/ (pc = "parked" /\ pc' = "wait") \/ pc' = "submit"
  PROVE  LimitInv'
<1>1. Counted' = Counted /\ Waits' = Waits
  BY DEF Counted, Waits, Ready, Live, InHands
<1>2. (pc' \in Waiting => hand' = Nothing) /\ (pc' = "take" => pc = "take")
  BY DEF LimitInv, Waiting
<1> QED BY <1>1, <1>2 DEF LimitInv, MaxRequired

LEMMA LimitSynchronizer == ASSUME FlowInv, FlowInv', LimitInv, Synchronizer PROVE LimitInv'
<1>1. UNCHANGED <<cancelQ, hand, task, queue>> /\ Counted' = Counted /\ Waits' = Waits
  BY DEF Synchronizer, SyncStart, PauseBegin, PauseEnd, WeightsCopied, UpdateBegin, UpdateEnd,
         ResumeCall, resume, notProc, mqVars, Counted, Waits, Ready, Live, InHands
<1>2. CASE SyncStart \/ PauseBegin \/ PauseEnd \/ WeightsCopied \/ ResumeCall
  BY <1>1, <1>2, LimitAside DEF SyncStart, PauseBegin, PauseEnd, WeightsCopied, ResumeCall, syncVars
<1>3. CASE resume
  <2>1. pc' = pc \/ (pc = "parked" /\ pc' = "wait") \/ pc' = "submit"
    BY <1>3 DEF resume, NotifyAndRelease
  <2> QED BY <1>1, <1>3, <2>1, LimitAside DEF resume
<1>4. CASE UpdateBegin
  <2>1. pc' = pc /\ staleness' = staleness /\ counted' = Active + Len(cancelQ)
    BY <1>4 DEF UpdateBegin
  <2>2. Waits <= Active + Len(cancelQ)
    <3>1. Cardinality(Live) \in Nat /\ Len(cancelQ) \in Nat
      BY Sets DEF FlowInv, TypeInv
    <3>2. finished \in Nat
      BY DEF FlowInv, TypeInv, TypeOK
    <3> QED BY <3>1, <3>2 DEF Waits, Active
  <2> QED BY <1>1, <2>1, <2>2 DEF LimitInv, MaxRequired, Waiting
<1>5. CASE UpdateEnd
  <2>1. pc' = pc /\ pc # "take" /\ staleness' = counted + Len(queue) /\ sync = "updating"
        /\ sync' = "resume"
    BY <1>5 DEF UpdateEnd, LoopFree
  <2>2. Cardinality(Ready) <= Len(queue)
    <3>1. queue \in Seq(Samples \cup {Finish}) /\ Ready \subseteq ToSet(queue)
      BY DEF FlowInv, TypeInv, TypeOK, Ready
    <3>2. IsFiniteSet(ToSet(queue)) /\ Cardinality(ToSet(queue)) <= Len(queue) /\ Len(queue) \in Nat
      BY <3>1, SetOfSize
    <3>3. Cardinality(Ready) <= Cardinality(ToSet(queue)) /\ Cardinality(ToSet(queue)) \in Nat
          /\ Cardinality(Ready) \in Nat
      BY <3>1, <3>2, FS_Subset, FS_CardinalityType
    <3> QED BY <3>2, <3>3
  <2>3. Counted <= counted + Len(queue) + 1
    <3>1. Cardinality(Ready) \in Nat /\ Waits \in Nat /\ InHands \in {0, 1} /\ counted \in Nat
          /\ Len(queue) \in Nat /\ Waits <= counted
      <4>1. Cardinality(Ready) \in Nat /\ Waits \in Nat /\ InHands \in {0, 1}
        BY Sets DEF FlowInv, TypeInv
      <4>2. counted \in Nat /\ Len(queue) \in Nat
        BY DEF FlowInv, TypeInv, TypeOK
      <4> QED BY <2>1, <4>1, <4>2 DEF LimitInv
    <3> QED BY <2>2, <3>1 DEF Counted
  <2> QED BY <1>1, <2>1, <2>3 DEF LimitInv, MaxRequired, Waiting
<1> QED BY <1>2, <1>3, <1>4, <1>5 DEF Synchronizer

LEMMA LimitStep == ASSUME FlowInv, LimitInv, [Next]_vars PROVE LimitInv'
<1>0. FlowInv'
  BY FlowStep
<1>1. CASE Feeder
  BY <1>0, <1>1, LimitAside DEF Feeder, _feed_samples, mqVars, Own
<1>2. CASE Monitor
  <2>1. /\ UNCHANGED <<queue, hand, task, cancelQ, staleness, sync, counted>>
        /\ pc' = pc \/ (pc = "parked" /\ pc' = "wait") \/ pc' = "submit"
    BY <1>2 DEF Monitor, Own, mqVars, _async_monitor_loop, MonitorCheck, MonitorResume, NotifyAndRelease
  <2> QED BY <1>0, <2>1, LimitAside
<1>3. CASE UNCHANGED vars
  BY <1>0, <1>3, LimitAside DEF vars, mqVars, rollVars, syncVars
<1> QED
  BY <1>0, <1>1, <1>2, <1>3, LimitProcessor, LimitTask, LimitMain, LimitTrainer, LimitSynchronizer
  DEF Next

LEMMA UnionAtMost ==
  ASSUME NEW A, NEW B, IsFiniteSet(A), IsFiniteSet(B)
  PROVE  /\ IsFiniteSet(A \cup B) /\ Cardinality(A \cup B) \in Nat
         /\ Cardinality(A \cup B) <= Cardinality(A) + Cardinality(B)
<1>1. /\ IsFiniteSet(A \cup B) /\ IsFiniteSet(A \cap B)
      /\ Cardinality(A \cup B) = Cardinality(A) + Cardinality(B) - Cardinality(A \cap B)
  BY FS_Union, FS_Intersection
<1>2. Cardinality(A) \in Nat /\ Cardinality(B) \in Nat /\ Cardinality(A \cap B) \in Nat
      /\ Cardinality(A \cup B) \in Nat
  BY <1>1, FS_CardinalityType
<1> QED BY <1>1, <1>2

LEMMA AtMost ==
  ASSUME TypeOK
  PROVE  /\ IsFiniteSet(Outstanding) /\ Cardinality(Outstanding) \in Nat
         /\ Cardinality(Outstanding) <= Counted
<1> DEFINE C == ToSet(cancelQ)
<1>1. /\ IsFiniteSet(Ready) /\ Cardinality(Ready) \in Nat /\ IsFiniteSet(Live) /\ Cardinality(Live) \in Nat
      /\ Len(cancelQ) \in Nat /\ InHands \in {0, 1} /\ MaxRequired \in Nat
  BY Sets, Sizes DEF MaxRequired
<1>2. IsFiniteSet(C) /\ Cardinality(C) <= Len(cancelQ) /\ Cardinality(C) \in Nat
  BY SetOfSize, FS_CardinalityType DEF TypeOK
<1>3. IsFiniteSet(InHand) /\ Cardinality(InHand) = InHands
  <2>1. IsFiniteSet({}) /\ Cardinality({}) = 0 /\ IsFiniteSet({hand}) /\ Cardinality({hand}) = 1
    BY FS_EmptySet, FS_Singleton
  <2>2. InHand = IF hand \in Samples THEN {hand} ELSE {}
    BY DEF InHand
  <2> QED BY <2>1, <2>2 DEF InHands
<1> HIDE DEF C
<1>5. /\ IsFiniteSet(Ready \cup Live) /\ Cardinality(Ready \cup Live) \in Nat
      /\ Cardinality(Ready \cup Live) <= Cardinality(Ready) + Cardinality(Live)
  BY <1>1, UnionAtMost
<1>6. /\ IsFiniteSet(C \cup InHand) /\ Cardinality(C \cup InHand) \in Nat
      /\ Cardinality(C \cup InHand) <= Cardinality(C) + Cardinality(InHand)
  BY <1>2, <1>3, UnionAtMost
<1> DEFINE A == Ready \cup Live
           B == C \cup InHand
<1>7. Outstanding = A \cup B
  BY DEF Outstanding, C
<1>8. /\ IsFiniteSet(A \cup B) /\ Cardinality(A \cup B) \in Nat
      /\ Cardinality(A \cup B) <= Cardinality(A) + Cardinality(B)
  <2> HIDE DEF A, B
  <2> QED BY <1>5, <1>6, UnionAtMost DEF A, B
<1>9. Cardinality(A \cup B) <= Counted
  BY <1>1, <1>2, <1>3, <1>5, <1>6, <1>8 DEF Counted, Waits
<1> QED BY <1>7, <1>8, <1>9

\* _should_pause_generation and update_param_version keep the samples that are
\* queued, generated, interrupted or in the processor's hand within one of the
\* staleness limit, whatever is interrupted, dropped or raised.
THEOREM OutstandingTheorem == Spec => []OutstandingBounded
<1>1. Init => FlowInv /\ LimitInv
  BY FlowInit, LimitInit
<1>2. FlowInv /\ LimitInv /\ [Next]_vars => (FlowInv /\ LimitInv)'
  BY FlowStep, LimitStep
<1>3. FlowInv /\ LimitInv => OutstandingBounded
  <2>1. TypeOK => Cardinality(Outstanding) \in Nat /\ Counted \in Nat /\ MaxRequired \in Nat
                  /\ Cardinality(Outstanding) <= Counted
    BY AtMost, Sets, Sizes DEF MaxRequired
  <2> QED BY <2>1 DEF FlowInv, TypeInv, LimitInv, OutstandingBounded
<1> QED BY <1>1, <1>2, <1>3, PTL DEF Spec

-----------------------------------------------------------------------------
(* The stream of samples.  A sample is in one place at a time, and in that   *)
(* place once: the places are the queue, the tasks, the interrupted samples, *)
(* the processor's hand and the trainer's batch.  What the feed still holds  *)
(* continues, without a gap, what has been taken from it.                    *)

Cancelled == ToSet(cancelQ)
InBatch == ToSet(batch)
UnderWay == Outstanding \cup InBatch
Drawn == fed - Len(pending)

OrderInv ==
  /\ Len(pending) <= fed
  /\ \A i \in 1 .. Len(pending) : pending[i] = Drawn + i

Apart ==
  /\ Ready \cap (Live \cup Cancelled \cup InHand \cup InBatch) = {}
  /\ Live \cap (Cancelled \cup InHand \cup InBatch) = {}
  /\ Cancelled \cap (InHand \cup InBatch) = {}
  /\ InHand \cap InBatch = {}

OnceInv ==
  /\ Once(queue) /\ Once(cancelQ) /\ Once(batch) /\ Len(batch) <= Required
  /\ Apart
  /\ \A s \in UnderWay : s <= Drawn

PlaceInv == OrderInv /\ OnceInv

StreamStep == [Stream!Next]_(Stream!vars)

LEMMA SameCardinality == \A S : Stream!Cardinality(S) = Cardinality(S)
BY DEF Cardinality, Stream!Cardinality

LEMMA PlaceInit == ASSUME Init PROVE PlaceInv /\ Stream!Init
<1>1. /\ queue = <<>> /\ cancelQ = <<>> /\ hand = 0 /\ batch = <<>> /\ pending = <<>> /\ fed = 0
      /\ task = [s \in Samples |-> "none"] /\ trained = <<>> /\ step = 1 /\ tversion = 0
      /\ Total \in Nat /\ Required \in Nat
  BY Sizes DEF Init, RollInit, QueueInit, Nothing
<1>2. Len(<<>>) = 0 /\ ToSet(<<>>) = {} /\ Once(<<>>)
  BY DEF ToSet, Once
<1>3. Ready = {} /\ Live = {} /\ Cancelled = {} /\ InHand = {} /\ InBatch = {}
  <2>1. 0 \notin Samples
    BY DEF Samples
  <2>2. Live = {}
    BY <1>1 DEF Live
  <2> QED BY <1>1, <1>2, <2>1, <2>2 DEF Ready, Cancelled, InHand, InBatch
<1>4. Drawn = 0 /\ UnderWay = {} /\ Taken = 0
  <2>1. Drawn = 0 /\ Taken = IF Drawn < Total THEN Drawn ELSE Total
    <3>1. Drawn = 0
      <4>1. fed = 0 /\ Len(pending) = 0
        BY <1>1, <1>2
      <4> QED BY <4>1 DEF Drawn
    <3> QED BY <3>1 DEF Drawn, Taken
  <2>2. Taken = 0
    BY <1>1, <2>1
  <2>3. UnderWay = {}
    BY <1>3 DEF UnderWay, Outstanding, Cancelled
  <2> QED BY <2>1, <2>2, <2>3
<1>5. OrderInv
  BY <1>1, <1>2 DEF OrderInv
<1>6. OnceInv
  BY <1>1, <1>2, <1>3, <1>4 DEF OnceInv, Apart
<1>7. Stream!Init
  BY <1>1, <1>2, <1>3, <1>4 DEF Stream!Init, UnderWay, InBatch
<1> QED BY <1>5, <1>6, <1>7 DEF PlaceInv

\* A step that moves samples between the places or loses some.
LEMMA Loses ==
  ASSUME Drawn' = Drawn, UNCHANGED <<trained, step, tversion>>, UnderWay' \subseteq UnderWay
  PROVE  StreamStep
<1>1. Taken' = Taken
  BY DEF Taken, Drawn, Samples
<1>2. CASE UnderWay' = UnderWay
  BY <1>1, <1>2 DEF StreamStep, Stream!vars, UnderWay, InBatch
<1>3. CASE UnderWay' # UnderWay
  <2> DEFINE L == UnderWay \ UnderWay'
  <2>1. L \in SUBSET UnderWay /\ L # {} /\ UnderWay' = UnderWay \ L
    BY <1>3
  <2> HIDE DEF L
  <2>2. Stream!Lose
    BY <1>1, <2>1 DEF Stream!Lose, UnderWay, InBatch
  <2> QED BY <2>2 DEF StreamStep, Stream!Next
<1> QED BY <1>2, <1>3

\* A step that moves no sample.
LEMMA Unmoved ==
  ASSUME PlaceInv, OrderInv', Drawn' = Drawn, UNCHANGED <<queue, cancelQ, hand, task, batch>>
  PROVE  /\ PlaceInv' /\ UnderWay' = UnderWay
         /\ UNCHANGED <<trained, step, tversion>> => StreamStep
<1>1. /\ Ready' = Ready /\ Live' = Live /\ Cancelled' = Cancelled /\ InHand' = InHand /\ InBatch' = InBatch
      /\ UnderWay' = UnderWay
  BY DEF Ready, Live, Cancelled, InHand, InBatch, UnderWay, Outstanding, Samples
<1>2. Apart'
  BY <1>1 DEF PlaceInv, OnceInv, Apart
<1>3. (Once(queue) /\ Once(cancelQ) /\ Once(batch) /\ Len(batch) <= Required)'
  BY DEF PlaceInv, OnceInv, Once, Finish
<1>4. OnceInv'
  BY <1>1, <1>2, <1>3 DEF PlaceInv, OnceInv
<1> QED BY <1>1, <1>4, Loses DEF PlaceInv

LEMMA PlaceFeeder == ASSUME FlowInv, PlaceInv, Feeder PROVE PlaceInv' /\ StreamStep /\ Drawn' = Drawn
<1> DEFINE n == IF PendingSize - Len(pending) < DoneMark - fed
                THEN PendingSize - Len(pending) ELSE DoneMark - fed
           more == [i \in 1 .. n |-> fed + i]
<1>1. /\ n > 0 /\ pending' = pending \o more /\ fed' = fed + n
      /\ UNCHANGED <<queue, cancelQ, hand, task, batch, trained, step, tversion>>
  BY DEF Feeder, _feed_samples, Own, mqVars, trainVars
<1>2. fed \in 0 .. DoneMark /\ pending \in Seq(1 .. DoneMark) /\ DoneMark \in Nat
      /\ PendingSize \in Nat /\ Len(pending) \in Nat /\ n \in Int /\ Len(pending) <= fed
      /\ \A i \in 1 .. Len(pending) : pending[i] = fed - Len(pending) + i
  BY Sizes DEF FlowInv, TypeInv, TypeOK, PlaceInv, OrderInv, Drawn
<1> HIDE DEF n
<1>3. n \in Nat /\ more \in Seq(Nat) /\ Len(more) = n /\ pending \in Seq(Nat)
      /\ \A i \in 1 .. n : more[i] = fed + i
  BY <1>1, <1>2
<1> HIDE DEF more
<1>4. /\ Len(pending') = Len(pending) + n
      /\ \A i \in 1 .. (Len(pending) + n) :
           pending'[i] = IF i <= Len(pending) THEN pending[i] ELSE more[i - Len(pending)]
  <2>1. pending \in Seq(Nat) /\ more \in Seq(Nat) /\ Len(more) = n /\ pending' = pending \o more
    BY <1>1, <1>3
  <2> QED BY <2>1, SetOfConcat
<1>5. Drawn' = Drawn
  BY <1>1, <1>2, <1>3, <1>4 DEF Drawn
<1>6. OrderInv'
  <2>1. ASSUME NEW i \in 1 .. (Len(pending) + n) PROVE pending'[i] = fed - Len(pending) + i
    <3>1. CASE i <= Len(pending)
      <4>1. i \in 1 .. Len(pending) /\ pending'[i] = pending[i]
        BY <1>2, <1>3, <1>4, <3>1
      <4> QED BY <1>2, <4>1
    <3>2. CASE ~(i <= Len(pending))
      <4>1. i - Len(pending) \in 1 .. n
        BY <1>2, <1>3, <3>2
      <4> QED BY <1>2, <1>3, <1>4, <3>2, <4>1
    <3> QED BY <3>1, <3>2
  <2>2. Len(pending') <= fed'
    BY <1>1, <1>2, <1>3, <1>4
  <2> QED BY <1>4, <1>5, <2>1, <2>2 DEF OrderInv, Drawn
<1> QED BY <1>1, <1>5, <1>6, Unmoved

\* The next sample of the feed, or the mark that ends it.
LEMMA PlaceTake ==
  ASSUME FlowInv, LimitInv, PlaceInv, pc \in {"top", "take"}, pending # <<>>, TakePending,
         staleness < MaxRequired,
         UNCHANGED <<queue, cancelQ, batch, task, fed, trained, step, tversion>>
  PROVE  PlaceInv' /\ StreamStep
<1> DEFINE h == Head(pending)
<1>1. /\ pending \in Seq(1 .. DoneMark) /\ Len(pending) \in Nat \ {0} /\ fed \in Nat /\ Total \in Nat
      /\ Len(pending') = Len(pending) - 1 /\ hand' = h /\ DoneMark = Total + 1
      /\ h \in 1 .. DoneMark /\ h = Drawn + 1 /\ Drawn \in Nat /\ Drawn' = h
      /\ \A i \in 1 .. (Len(pending) - 1) : pending'[i] = Drawn + i + 1
  <2>1. /\ pending \in Seq(1 .. DoneMark) /\ fed \in Nat /\ Total \in Nat /\ DoneMark = Total + 1
        /\ Len(pending) <= fed /\ \A i \in 1 .. Len(pending) : pending[i] = Drawn + i
    BY Sizes DEF FlowInv, TypeInv, TypeOK, PlaceInv, OrderInv, DoneMark
  <2>2. /\ Len(pending) \in Nat \ {0} /\ h = pending[1] /\ h \in 1 .. DoneMark
        /\ Len(Tail(pending)) = Len(pending) - 1
        /\ \A i \in 1 .. (Len(pending) - 1) : Tail(pending)[i] = pending[i + 1]
    BY <2>1
  <2>3. hand' = h /\ pending' = Tail(pending) /\ fed' = fed
    BY DEF TakePending
  <2>4. 1 \in 1 .. Len(pending) /\ \A i \in 1 .. (Len(pending) - 1) : i + 1 \in 1 .. Len(pending)
    BY <2>2
  <2>5. Drawn \in Nat
    BY <2>1, <2>2 DEF Drawn
  <2>6. h = Drawn + 1 /\ \A i \in 1 .. (Len(pending) - 1) : Tail(pending)[i] = Drawn + i + 1
    BY <2>1, <2>2, <2>4, <2>5
  <2>7. Drawn' = h
    BY <2>1, <2>2, <2>3, <2>6 DEF Drawn
  <2> QED BY <2>1, <2>2, <2>3, <2>5, <2>6, <2>7
<1> HIDE DEF h
<1>2. OrderInv'
  <2>1. Len(pending') <= fed'
    BY <1>1 DEF PlaceInv, OrderInv
  <2>2. \A i \in 1 .. Len(pending') : pending'[i] = Drawn' + i
    BY <1>1
  <2> QED BY <2>1, <2>2 DEF OrderInv
<1>3. /\ Ready' = Ready /\ Live' = Live /\ Cancelled' = Cancelled /\ InBatch' = InBatch
      /\ InHand = {} /\ InHand' = {h} \cap Samples
  <2>1. hand = 0 /\ 0 \notin Samples
    BY DEF LimitInv, Waiting, Nothing, Samples
  <2> QED BY <1>1, <2>1 DEF Ready, Live, Cancelled, InBatch, InHand, Samples
<1>4. \A s \in UnderWay : s <= Drawn /\ s \in Samples
  <2>1. queue \in Seq(Samples \cup {Finish}) /\ cancelQ \in Seq(Samples) /\ batch \in Seq(Samples)
    BY DEF FlowInv, TypeInv, TypeOK
  <2>2. ToSet(queue) \subseteq Samples \cup {Finish} /\ Cancelled \subseteq Samples /\ InBatch \subseteq Samples
    BY <2>1 DEF ToSet, Cancelled, InBatch
  <2>3. UnderWay \subseteq Samples
    BY <2>2 DEF UnderWay, Outstanding, Ready, Live, InHand, Cancelled
  <2> QED BY <2>3 DEF PlaceInv, OnceInv
<1>5. UnderWay' = UnderWay \cup InHand'
  BY <1>3 DEF UnderWay, Outstanding, Cancelled
<1>6. h \notin UnderWay
  BY <1>1, <1>4
<1>7. Apart'
  <2>1. InHand' \cap (Ready \cup Live \cup Cancelled \cup InBatch) = {}
    BY <1>3, <1>6 DEF UnderWay, Outstanding, Cancelled
  <2> QED BY <1>3, <2>1 DEF PlaceInv, OnceInv, Apart
<1>8. \A s \in UnderWay' : s <= Drawn'
  BY <1>1, <1>3, <1>4, <1>5 DEF Samples
<1>9. OnceInv'
  <2>1. (Once(queue) /\ Once(cancelQ) /\ Once(batch) /\ Len(batch) <= Required)'
    BY DEF PlaceInv, OnceInv, Once, Finish
  <2> QED BY <1>7, <1>8, <2>1 DEF OnceInv
<1>10. CASE h = DoneMark
  <2>1. InHand' = {} /\ UnderWay' = UnderWay
    BY <1>1, <1>3, <1>5, <1>10 DEF Samples
  <2>2. Taken' = Total /\ Taken = Total
    BY <1>1, <1>10 DEF Taken, Drawn
  <2>3. StreamStep
    BY <2>1, <2>2 DEF StreamStep, Stream!vars, UnderWay, InBatch
  <2> QED BY <1>2, <1>9, <2>3 DEF PlaceInv
<1>11. CASE h # DoneMark
  <2>1. h \in Samples /\ InHand' = {h} /\ UnderWay' = UnderWay \cup {h}
    BY <1>1, <1>3, <1>5, <1>11 DEF Samples
  <2>2. Taken = Drawn /\ Taken' = h
    <3>1. /\ Taken = IF Drawn < Total THEN Drawn ELSE Total
          /\ Taken' = IF Drawn' < Total THEN Drawn' ELSE Total
      BY DEF Taken, Drawn
    <3> QED BY <1>1, <1>11, <3>1
  <2>3. Cardinality(UnderWay) < MaxRequired + Required + 1
    <3>1. /\ IsFiniteSet(Outstanding) /\ Cardinality(Outstanding) \in Nat
          /\ Cardinality(Outstanding) <= Counted
      BY AtMost DEF FlowInv, TypeInv
    <3>2. IsFiniteSet(InBatch) /\ Cardinality(InBatch) <= Len(batch) /\ Len(batch) <= Required
          /\ Cardinality(InBatch) \in Nat /\ Len(batch) \in Nat
      BY SetOfSize, FS_CardinalityType DEF InBatch, FlowInv, TypeInv, TypeOK, PlaceInv, OnceInv
    <3>3. Cardinality(UnderWay) \in Nat
          /\ Cardinality(UnderWay) <= Cardinality(Outstanding) + Cardinality(InBatch)
      BY <3>1, <3>2, UnionAtMost DEF UnderWay
    <3>4. Counted <= MaxRequired + 1 /\ Counted <= staleness + 1 /\ Counted \in Nat /\ staleness \in Nat
          /\ MaxRequired \in Nat /\ Required \in Nat
      BY Sets, Sizes DEF LimitInv, MaxRequired, FlowInv, TypeInv, TypeOK
    <3> QED BY <3>1, <3>2, <3>3, <3>4
  <2>4. Stream!Take
    <3>1. Taken' = Taken + 1 /\ UnderWay' = UnderWay \cup {Taken'}
      BY <1>1, <2>1, <2>2
    <3>2. UNCHANGED <<trained, step, tversion>>
      OBVIOUS
    <3> QED BY <2>3, <3>1, <3>2, SameCardinality DEF Stream!Take, UnderWay, InBatch
  <2> QED BY <1>2, <1>9, <2>4 DEF PlaceInv, StreamStep, Stream!Next
<1> QED BY <1>10, <1>11

-----------------------------------------------------------------------------
\* The samples move between the places, or leave them.
LEMMA Moved ==
  ASSUME PlaceInv, UNCHANGED <<fed, pending, trained, step, tversion>>,
         Apart', Once(queue)', Once(cancelQ)', Once(batch)', (Len(batch) <= Required)',
         UnderWay' \subseteq UnderWay
  PROVE  PlaceInv' /\ StreamStep
<1>1. Drawn' = Drawn /\ OrderInv'
  BY DEF PlaceInv, OrderInv, Drawn
<1>2. OnceInv'
  BY <1>1 DEF PlaceInv, OnceInv
<1> QED BY <1>1, <1>2, Loses DEF PlaceInv

LEMMA PlaceProcessor ==
  ASSUME FlowInv, LimitInv, PlaceInv, Processor
  PROVE  PlaceInv' /\ StreamStep
<1>1. /\ UNCHANGED <<fed, queue, batch, trained, step, tversion>> /\ Ready' = Ready /\ InBatch' = InBatch
      /\ 0 \notin Samples /\ DoneMark \notin Samples
  <2>1. DoneMark \notin Samples
    BY Sizes DEF Samples, DoneMark
  <2> QED BY <2>1 DEF Processor, _processor_worker, procOther, ProcTop, ProcTake, ProcAdmit, ProcPause,
          ProcReap, ProcWait, ProcGoOn, ProcSubmit, Own, mqVars, trainVars, Ready, InBatch, Samples
<1>2. /\ Once(queue)' /\ Once(batch)' /\ (Len(batch) <= Required)'
      /\ cancelQ' = cancelQ => Once(cancelQ)' /\ Cancelled' = Cancelled
      /\ task' = task => Live' = Live
  BY <1>1 DEF PlaceInv, OnceInv, Once, Finish, Cancelled, Live, Samples
<1>3. ASSUME UNCHANGED <<pending, cancelQ, task>>, hand' = hand \/ (hand = DoneMark /\ hand' = Nothing)
      PROVE  PlaceInv' /\ StreamStep
  <2>1. InHand' = InHand
    BY <1>1, <1>3 DEF InHand, Nothing, Samples
  <2>2. Live' = Live /\ Cancelled' = Cancelled /\ Once(cancelQ)'
    BY <1>2, <1>3
  <2>3. Apart' /\ UnderWay' = UnderWay
    BY <1>1, <2>1, <2>2 DEF PlaceInv, OnceInv, Apart, UnderWay, Outstanding, Cancelled
  <2> QED BY <1>1, <1>2, <1>3, <2>2, <2>3, Moved
<1>4. CASE ProcTop
  <2>1. UNCHANGED task
    BY <1>4 DEF ProcTop, procOther
  <2>2. CASE (paused \/ ShouldPause) \/ (cancelQ = <<>> /\ pending = <<>>)
    <3>1. UNCHANGED <<pending, cancelQ, hand>>
      BY <1>4, <2>2 DEF ProcTop
    <3> QED BY <1>3, <2>1, <3>1
  <2>3. CASE ~(paused \/ ShouldPause) /\ cancelQ # <<>>
    <3> DEFINE h == Head(cancelQ)
    <3>1. hand' = h /\ cancelQ' = Tail(cancelQ) /\ UNCHANGED pending /\ pc = "top"
      BY <1>4, <2>3 DEF ProcTop
    <3>2. cancelQ \in Seq(Samples) /\ cancelQ # <<>> /\ Once(cancelQ)
      BY <2>3 DEF FlowInv, TypeInv, TypeOK, PlaceInv, OnceInv
    <3>3. /\ h \in Samples /\ h # Finish
          /\ Cancelled = ToSet(Tail(cancelQ)) \cup {h}
          /\ Once(Tail(cancelQ)) /\ (h # Finish => h \notin ToSet(Tail(cancelQ)))
      <4>1. h \in Samples /\ h # Finish
        BY <1>1, <3>2, SetOfTail DEF Finish
      <4> QED BY <3>2, <4>1, SetOfTail DEF Cancelled
    <3> HIDE DEF h
    <3>4. Cancelled' = ToSet(Tail(cancelQ)) /\ Once(cancelQ)'
      BY <3>1, <3>3 DEF Cancelled
    <3>5. InHand = {} /\ InHand' = {h} /\ Cancelled = Cancelled' \cup {h} /\ h \notin Cancelled'
          /\ Live' = Live
      <4>1. hand = 0
        BY <3>1 DEF LimitInv, Waiting, Nothing
      <4> QED BY <1>1, <1>2, <2>1, <3>1, <3>3, <3>4, <4>1 DEF InHand, Samples
    <3>6. Apart' /\ UnderWay' = UnderWay
      BY <1>1, <3>5 DEF PlaceInv, OnceInv, Apart, UnderWay, Outstanding, Cancelled
    <3> QED BY <1>1, <1>2, <3>1, <3>4, <3>6, Moved
  <2>4. CASE ~(paused \/ ShouldPause) /\ cancelQ = <<>> /\ pending # <<>>
    <3>1. TakePending /\ UNCHANGED cancelQ /\ staleness < MaxRequired /\ pc = "top"
      <4>1. staleness < MaxRequired
        BY <2>4, Sizes DEF ShouldPause, MaxRequired, FlowInv, TypeInv, TypeOK
      <4> QED BY <1>4, <2>4, <4>1 DEF ProcTop
    <3> QED BY <1>1, <2>1, <2>4, <3>1, PlaceTake
  <2> QED BY <2>2, <2>3, <2>4
<1>5. CASE ProcTake
  <2>1. TakePending /\ UNCHANGED <<cancelQ, task>> /\ pc = "take" /\ pending # <<>>
    BY <1>5 DEF ProcTake, procOther
  <2>2. staleness < MaxRequired
    BY <2>1 DEF LimitInv
  <2> QED BY <1>1, <2>1, <2>2, PlaceTake
<1>6. CASE ProcAdmit \/ ProcPause \/ ProcReap \/ ProcWait \/ ProcGoOn
  BY <1>3, <1>6 DEF ProcAdmit, ProcPause, ProcReap, ProcWait, ProcGoOn, procOther
<1>7. CASE ProcSubmit
  <2>1. /\ pc = "submit" /\ hand' = Nothing /\ task' = [task EXCEPT ![hand] = "new"]
        /\ UNCHANGED <<pending, cancelQ>>
    BY <1>7 DEF ProcSubmit
  <2>2. hand \in Samples /\ InHand = {hand} /\ InHand' = {}
    BY <1>1, <2>1 DEF FlowInv, TypeInv, InHand, Nothing, Samples
  <2>3. Live' = Live \cup {hand}
    BY <2>1, <2>2 DEF Live, FlowInv, TypeInv, TypeOK
  <2>4. Cancelled' = Cancelled /\ Once(cancelQ)'
    BY <1>2, <2>1
  <2>5. Apart' /\ UnderWay' = UnderWay
    BY <1>1, <2>2, <2>3, <2>4 DEF PlaceInv, OnceInv, Apart, UnderWay, Outstanding, Cancelled
  <2> QED BY <1>1, <1>2, <2>1, <2>4, <2>5, Moved
<1> QED BY <1>4, <1>5, <1>6, <1>7 DEF Processor, _processor_worker

LEMMA PlaceTask ==
  ASSUME FlowInv, PlaceInv, NEW s \in Samples, Task(s)
  PROVE  PlaceInv' /\ StreamStep
<1>1. /\ UNCHANGED <<fed, pending, hand, batch, trained, step, tversion>> /\ task[s] # "none"
      /\ InHand' = InHand /\ InBatch' = InBatch /\ s \in Live /\ s # Finish
      /\ Once(batch)' /\ (Len(batch) <= Required)'
  <2>1. UNCHANGED <<fed, pending, hand, batch, trained, step, tversion>> /\ task[s] # "none"
    BY TaskEffect DEF taskOther, trainVars, FlowInv
  <2> QED BY <2>1 DEF InHand, InBatch, Samples, Live, Finish, PlaceInv, OnceInv, Once
<1>2. /\ queue \in Seq(Samples \cup {Finish}) /\ cancelQ \in Seq(Samples)
      /\ task \in [Samples -> {"none", "new", "gen", "put"}] /\ Once(queue) /\ Once(cancelQ)
      /\ s \notin Cancelled /\ s \notin ToSet(queue)
  BY <1>1 DEF FlowInv, TypeInv, TypeOK, PlaceInv, OnceInv, Apart, Ready
<1>3. /\ queue' = queue => Ready' = Ready /\ Once(queue)'
      /\ cancelQ' = cancelQ => Cancelled' = Cancelled /\ Once(cancelQ)'
      /\ task' = [task EXCEPT ![s] = "gen"] \/ task' = [task EXCEPT ![s] = "put"] => Live' = Live
      /\ task' = [task EXCEPT ![s] = "none"] => Live' = Live \ {s}
  <2>1. /\ queue' = queue => Ready' = Ready /\ Once(queue)'
        /\ cancelQ' = cancelQ => Cancelled' = Cancelled /\ Once(cancelQ)'
    BY <1>2 DEF Ready, Cancelled, Once, Finish
  <2>2. /\ task' = [task EXCEPT ![s] = "gen"] \/ task' = [task EXCEPT ![s] = "put"] => Live' = Live
        /\ task' = [task EXCEPT ![s] = "none"] => Live' = Live \ {s}
    BY <1>1, <1>2 DEF Live
  <2> QED BY <2>1, <2>2
<1>4. CASE /\ task' = [task EXCEPT ![s] = "gen"] \/ task' = [task EXCEPT ![s] = "put"]
           /\ UNCHANGED <<cancelQ, queue>>
  <2>1. Ready' = Ready /\ Live' = Live /\ Cancelled' = Cancelled /\ Once(queue)' /\ Once(cancelQ)'
    BY <1>3, <1>4
  <2>2. Apart' /\ UnderWay' = UnderWay
    BY <1>1, <2>1 DEF PlaceInv, OnceInv, Apart, UnderWay, Outstanding, Cancelled
  <2> QED BY <1>1, <2>1, <2>2, Moved
<1>5. CASE task' = [task EXCEPT ![s] = "none"] /\ cancelQ' = Append(cancelQ, s) /\ UNCHANGED queue
  <2>1. Ready' = Ready /\ Live' = Live \ {s} /\ Once(queue)'
    BY <1>3, <1>5
  <2>2. Cancelled' = Cancelled \cup {s} /\ Once(cancelQ)'
    <3>1. ToSet(Append(cancelQ, s)) = ToSet(cancelQ) \cup {s} /\ Once(Append(cancelQ, s))
      BY <1>2, SetOfAppend DEF Cancelled
    <3> QED BY <1>5, <3>1 DEF Cancelled
  <2>3. Apart' /\ UnderWay' = UnderWay
    BY <1>1, <2>1, <2>2 DEF PlaceInv, OnceInv, Apart, UnderWay, Outstanding, Cancelled
  <2> QED BY <1>1, <2>1, <2>2, <2>3, Moved
<1>6. CASE task' = [task EXCEPT ![s] = "none"] /\ put_sample(s) /\ UNCHANGED cancelQ
  <2>1. Cancelled' = Cancelled /\ Live' = Live \ {s} /\ Once(cancelQ)'
    BY <1>3, <1>6
  <2>2. Ready' \subseteq Ready \cup {s} /\ Once(queue)'
    BY <1>2, <1>6, PutTypes DEF Ready, FlowInv, TypeInv
  <2>3. Apart' /\ UnderWay' \subseteq UnderWay
    BY <1>1, <2>1, <2>2 DEF PlaceInv, OnceInv, Apart, UnderWay, Outstanding, Cancelled
  <2> QED BY <1>1, <2>1, <2>2, <2>3, Moved
<1>7. CASE task' = [task EXCEPT ![s] = "none"] /\ UNCHANGED <<cancelQ, queue>>
  <2>1. Ready' = Ready /\ Cancelled' = Cancelled /\ Live' = Live \ {s} /\ Once(queue)' /\ Once(cancelQ)'
    BY <1>3, <1>7
  <2>2. Apart' /\ UnderWay' \subseteq UnderWay
    BY <1>1, <2>1 DEF PlaceInv, OnceInv, Apart, UnderWay, Outstanding, Cancelled
  <2> QED BY <1>1, <2>1, <2>2, Moved
<1>8. \/ /\ task' = [task EXCEPT ![s] = "gen"] \/ task' = [task EXCEPT ![s] = "put"]
         /\ UNCHANGED <<cancelQ, queue>>
      \/ task' = [task EXCEPT ![s] = "none"] /\ cancelQ' = Append(cancelQ, s) /\ UNCHANGED queue
      \/ task' = [task EXCEPT ![s] = "none"] /\ put_sample(s) /\ UNCHANGED cancelQ
      \/ task' = [task EXCEPT ![s] = "none"] /\ UNCHANGED <<cancelQ, queue>>
  BY TaskEffect DEF FlowInv
<1> QED BY <1>4, <1>5, <1>6, <1>7, <1>8

LEMMA PlaceMain == ASSUME FlowInv, PlaceInv, Main PROVE PlaceInv' /\ StreamStep
<1>1. UNCHANGED <<fed, pending, hand, task, cancelQ, batch, trained, step, tversion>>
      /\ put_sample(Finish)
  BY DEF Main, SendFinish, Own, trainVars
<1>2. /\ InHand' = InHand /\ InBatch' = InBatch /\ Live' = Live /\ Cancelled' = Cancelled
      /\ Once(cancelQ)' /\ Once(batch)' /\ (Len(batch) <= Required)'
  BY <1>1 DEF InHand, InBatch, Live, Cancelled, Samples, PlaceInv, OnceInv, Once, Finish
<1>3. Ready' \subseteq Ready /\ Once(queue)'
  BY <1>1, PutTypes DEF Ready, FlowInv, TypeInv, PlaceInv, OnceInv
<1>4. Apart' /\ UnderWay' \subseteq UnderWay
  BY <1>2, <1>3 DEF PlaceInv, OnceInv, Apart, UnderWay, Outstanding, Cancelled
<1> QED BY <1>1, <1>2, <1>3, <1>4, Moved

\* A training step uses a full batch and publishes after Trigger of them.
LEMMA PlaceTrain == ASSUME FlowInv, PlaceInv, Train PROVE PlaceInv' /\ StreamStep
<1>1. /\ Len(batch) = Required /\ trained' = trained \o batch /\ batch' = <<>> /\ AfterStep(FALSE)
      /\ UNCHANGED <<fed, pending, queue, cancelQ, hand, task>>
  BY DEF Train, mqVars, rollVars
<1>2. /\ batch \in Seq(Samples) /\ trained \in Seq(Samples) /\ step \in 1 .. Trigger /\ Trigger \in Nat
      /\ tversion \in Nat /\ Required \in Nat /\ Once(batch)
  BY Sizes DEF FlowInv, TypeInv, TypeOK, PlaceInv, OnceInv
<1>3. /\ Ready' = Ready /\ Live' = Live /\ Cancelled' = Cancelled /\ InHand' = InHand
      /\ Once(queue)' /\ Once(cancelQ)'
  BY <1>1 DEF Ready, Live, Cancelled, InHand, Samples, PlaceInv, OnceInv, Once, Finish
<1>4. InBatch' = {} /\ Once(batch)' /\ (Len(batch) <= Required)'
  <2>1. Len(<<>>) = 0 /\ ToSet(<<>>) = {}
    BY DEF ToSet
  <2>2. Len(batch') = 0 /\ ToSet(batch') = {}
    BY <1>1, <2>1
  <2> QED BY <1>2, <2>2 DEF InBatch, Once
<1>5. UnderWay' = UnderWay \ InBatch /\ Apart'
  BY <1>3, <1>4 DEF PlaceInv, OnceInv, Apart, UnderWay, Outstanding, Cancelled
<1>6. Drawn' = Drawn /\ Taken' = Taken /\ PlaceInv'
  <2>1. Drawn' = Drawn /\ Taken' = Taken /\ OrderInv'
    BY <1>1 DEF Drawn, Taken, Samples, PlaceInv, OrderInv
  <2>2. OnceInv'
    BY <1>3, <1>4, <1>5, <2>1 DEF PlaceInv, OnceInv
  <2> QED BY <2>1, <2>2 DEF PlaceInv
<1>7. Cardinality(InBatch) = Required
  <2>1. \A x \in InBatch : x \in Samples
    BY <1>2 DEF InBatch, ToSet
  <2>2. Finish \notin InBatch
    BY <2>1 DEF Finish, Samples
  <2> QED BY <1>1, <1>2, <2>2, SetOfSize DEF InBatch
<1>8. ToSet(trained') = ToSet(trained) \cup InBatch
  BY <1>1, <1>2, SetOfConcat DEF InBatch
<1>9. IF step - 1 + 1 = Trigger
      THEN step' - 1 = 0 /\ tversion' = tversion + 1
      ELSE step' - 1 = step - 1 + 1 /\ tversion' = tversion
  BY <1>1, <1>2 DEF AfterStep
<1>10. Stream!Train
  <2>1. InBatch \in SUBSET UnderWay
    BY DEF UnderWay
  <2> HIDE DEF InBatch
  <2>2. /\ Stream!Cardinality(InBatch) = Required
        /\ UnderWay' = UnderWay \ InBatch
        /\ ToSet(trained)' = ToSet(trained) \cup InBatch
        /\ IF step - 1 + 1 = Trigger
           THEN (step - 1)' = 0 /\ tversion' = tversion + 1
           ELSE (step - 1)' = step - 1 + 1 /\ UNCHANGED tversion
        /\ UNCHANGED Taken
    BY <1>5, <1>6, <1>7, <1>8, <1>9, SameCardinality
  <2> HIDE DEF Taken, Outstanding
  <2>3. \E B \in SUBSET UnderWay :
          /\ Stream!Cardinality(B) = Required
          /\ UnderWay' = UnderWay \ B
          /\ ToSet(trained)' = ToSet(trained) \cup B
          /\ IF step - 1 + 1 = Trigger
             THEN (step - 1)' = 0 /\ tversion' = tversion + 1
             ELSE (step - 1)' = step - 1 + 1 /\ UNCHANGED tversion
          /\ UNCHANGED Taken
    BY <2>1, <2>2
  <2> QED BY <2>3 DEF Stream!Train, UnderWay, InBatch
<1> QED BY <1>6, <1>10 DEF StreamStep, Stream!Next

LEMMA PlaceTrainer == ASSUME FlowInv, PlaceInv, Trainer \/ Done PROVE PlaceInv' /\ StreamStep
<1>1. CASE Collect
  <2>1. PICK x \in Samples \cup {Finish} :
          /\ queue # <<>> /\ x = Head(queue) /\ queue' = Tail(queue)
          /\ \/ x = Finish /\ batch' = <<>>
             \/ x # Finish /\ batch' = Append(batch, x)
    BY <1>1 DEF Collect, get_sample
  <2>2. /\ UNCHANGED <<fed, pending, hand, task, cancelQ, trained, step, tversion>>
        /\ Len(batch) < Required
    BY <1>1 DEF Collect, rollVars
  <2>3. /\ queue \in Seq(Samples \cup {Finish}) /\ batch \in Seq(Samples) /\ Required \in Nat
        /\ Once(queue) /\ Once(batch)
    BY Sizes DEF FlowInv, TypeInv, TypeOK, PlaceInv, OnceInv
  <2>4. /\ ToSet(queue) = ToSet(queue') \cup {x} /\ Once(queue)'
        /\ x # Finish => x \notin ToSet(queue')
    <3>1. /\ ToSet(queue) = ToSet(Tail(queue)) \cup {x} /\ Once(Tail(queue))
          /\ x # Finish => x \notin ToSet(Tail(queue))
      BY <2>1, <2>3, SetOfTail
    <3> QED BY <2>1, <3>1 DEF Once, Finish
  <2>5. Live' = Live /\ Cancelled' = Cancelled /\ InHand' = InHand /\ Once(cancelQ)'
    BY <2>2 DEF Live, Cancelled, InHand, Samples, PlaceInv, OnceInv, Once, Finish
  <2>6. CASE x = Finish
    <3>1. Ready' \subseteq Ready
      BY <2>4, <2>6 DEF Ready, Finish
    <3>2. InBatch' = {} /\ Once(batch)' /\ (Len(batch) <= Required)'
      <4>1. Len(<<>>) = 0 /\ ToSet(<<>>) = {} /\ batch' = <<>>
        BY <2>1, <2>6 DEF ToSet
      <4>2. Len(batch') = 0 /\ ToSet(batch') = {}
        BY <4>1
      <4> QED BY <2>3, <4>2 DEF InBatch, Once
    <3>3. Apart' /\ UnderWay' \subseteq UnderWay
      BY <2>5, <3>1, <3>2 DEF PlaceInv, OnceInv, Apart, UnderWay, Outstanding, Cancelled
    <3> QED BY <2>2, <2>4, <2>5, <3>2, <3>3, Moved
  <2>7. CASE x # Finish
    <3>1. x \in Samples /\ batch' = Append(batch, x)
      BY <2>1, <2>7
    <3>2. Ready = Ready' \cup {x} /\ x \notin Ready'
      BY <2>4, <2>7 DEF Ready, Finish
    <3>3. x \notin InBatch
      BY <3>2 DEF PlaceInv, OnceInv, Apart
    <3>4. InBatch' = InBatch \cup {x} /\ Once(batch)' /\ (Len(batch) <= Required)'
      <4>1. /\ ToSet(Append(batch, x)) = ToSet(batch) \cup {x} /\ Once(Append(batch, x))
            /\ Len(Append(batch, x)) = Len(batch) + 1
        BY <2>3, <3>1, <3>3, SetOfAppend DEF InBatch
      <4>2. Len(batch) \in Nat
        BY <2>3
      <4>3. Len(batch') <= Required
        BY <2>2, <2>3, <3>1, <4>1, <4>2
      <4>4. Once(batch)'
        BY <3>1, <4>1 DEF Once, Finish
      <4> QED BY <3>1, <4>1, <4>3, <4>4 DEF InBatch
    <3>5. Apart' /\ UnderWay' = UnderWay
      BY <2>5, <3>2, <3>3, <3>4 DEF PlaceInv, OnceInv, Apart, UnderWay, Outstanding, Cancelled
    <3> QED BY <2>2, <2>4, <2>5, <3>4, <3>5, Moved
  <2> QED BY <2>6, <2>7
<1>2. CASE Train
  BY <1>2, PlaceTrain
<1>3. CASE FinalSync
  <2>1. UNCHANGED <<fed, pending, queue, cancelQ, hand, task, batch, trained>>
    BY <1>3 DEF FinalSync, mqVars, rollVars
  <2>2. Drawn' = Drawn /\ OrderInv'
    BY <2>1 DEF PlaceInv, OrderInv, Drawn
  <2>3. PlaceInv' /\ UnderWay' = UnderWay /\ (UNCHANGED <<trained, step, tversion>> => StreamStep)
    BY <2>1, <2>2, Unmoved
  <2>4. CASE AfterStep(TRUE)
    <3>1. step' = 1 /\ tversion' = tversion + 1
      BY <2>4 DEF AfterStep
    <3>2. Taken' = Taken
      BY <2>1 DEF Taken, Samples
    <3>3. (step - 1)' = 0 /\ ToSet(trained)' = ToSet(trained)
      BY <2>1, <3>1
    <3>4. Stream!Publish
      BY <2>3, <3>1, <3>2, <3>3 DEF Stream!Publish, UnderWay, InBatch
    <3> QED BY <2>3, <3>4 DEF StreamStep, Stream!Next
  <2>5. CASE UNCHANGED <<step, tversion>>
    BY <2>1, <2>3, <2>5
  <2> QED BY <1>3, <2>4, <2>5 DEF FinalSync
<1>4. CASE Closing \/ Done
  <2>1. UNCHANGED <<fed, pending, queue, cancelQ, hand, task, batch, trained, step, tversion>>
    BY <1>4 DEF Closing, Done, vars, mqVars, rollVars, trainVars
  <2>2. Drawn' = Drawn /\ OrderInv'
    BY <2>1 DEF PlaceInv, OrderInv, Drawn
  <2> QED BY <2>1, <2>2, Unmoved
<1> QED BY <1>1, <1>2, <1>3, <1>4 DEF Trainer

LEMMA PlaceStep ==
  ASSUME FlowInv, LimitInv, PlaceInv, [Next]_vars
  PROVE  PlaceInv' /\ StreamStep
<1>1. ASSUME UNCHANGED <<fed, pending, queue, cancelQ, hand, task, batch, trained, step, tversion>>
      PROVE  PlaceInv' /\ StreamStep
  <2>1. Drawn' = Drawn /\ OrderInv'
    BY <1>1 DEF PlaceInv, OrderInv, Drawn
  <2> QED BY <1>1, <2>1, Unmoved
<1>2. CASE Monitor
  BY <1>1, <1>2 DEF Monitor, Own, mqVars, trainVars, _async_monitor_loop, MonitorCheck, MonitorResume
<1>3. CASE Synchronizer
  BY <1>1, <1>3 DEF Synchronizer, SyncStart, PauseBegin, PauseEnd, WeightsCopied, UpdateBegin,
     UpdateEnd, ResumeCall, resume, notProc, mqVars, trainVars
<1>4. CASE UNCHANGED vars
  BY <1>1, <1>4 DEF vars, mqVars, rollVars, trainVars
<1> QED
  BY <1>2, <1>3, <1>4, PlaceFeeder, PlaceProcessor, PlaceTask, PlaceMain, PlaceTrainer DEF Next

\* The fully asynchronous mode keeps what SampleStream promises: samples are
\* taken in order, a bounded number is under way, a training step gets a full
\* batch of samples no step has used, and the version rises after Trigger steps.
THEOREM StreamTheorem == Spec => ImplementsSampleStream
<1>1. Init => FlowInv /\ LimitInv /\ PlaceInv /\ Stream!Init
  BY FlowInit, LimitInit, PlaceInit
<1>2. FlowInv /\ LimitInv /\ PlaceInv /\ [Next]_vars
      => (FlowInv /\ LimitInv /\ PlaceInv)' /\ [Stream!Next]_(Stream!vars)
  BY FlowStep, LimitStep, PlaceStep DEF StreamStep
<1> QED BY <1>1, <1>2, PTL DEF Spec, ImplementsSampleStream, Stream!Spec

-----------------------------------------------------------------------------
(* Synchronous training.  With a staleness threshold of zero the counter     *)
(* limits a round to the samples of Trigger steps: what of a round is        *)
(* outstanding, what the trainer has received, the end mark and an exception *)
(* that has not surfaced never exceed it together.  A round is therefore     *)
(* over, for the rollouter too, when its last batch is full: nothing is      *)
(* outstanding while the weights are copied, no sample is interrupted, and   *)
(* the queue never overflows.                                                *)

EndSites == {"end", "finished", "failed", "ended"}
Idle == {"pause", "drain", "wait", "parked"}
Copy == {"gather", "weights", "update", "updating", "resume"}
Lockers == {"proc", "monitor", "pause", "update", "resume"}

Mark == IF hand = DoneMark \/ pc \in EndSites THEN 1 ELSE 0
Raise == IF raised THEN 1 ELSE 0
Round == (step - 1) * Required + Len(batch)

\* From a full last batch to the resume of the rollouter; the counter starts
\* again when the version is updated.
Syncing == tpc = "valid" \/ sync # "idle"
Uncounted == tpc = "valid" \/ sync \notin {"idle", "resume"}

Distinct(seq) == \A i, j \in 1 .. Len(seq) : seq[i] = seq[j] => i = j
Behind(seq) == \A i, j \in 1 .. Len(seq) : seq[i] = "proc" /\ seq[j] = "monitor" => j < i

\* Who can be in the queue of the lock.
QueueInv ==
  /\ Distinct(lock)
  /\ "monitor" \in ToSet(lock) <=> mon = "resume"
  /\ "proc" \in ToSet(lock) => pc \in {"pause", "drain", "wait", "full", "submit", "end"}
  /\ "pause" \in ToSet(lock) => sync \in {"pausing", "gather"}
  /\ "update" \in ToSet(lock) => sync \in {"update", "updating"}
  /\ "resume" \in ToSet(lock) => sync = "resume"

\* The trainer and the synchroniser take turns, and the processor waits while
\* the weights are copied.
PhaseInv ==
  ~ending =>
  /\ tpc \in {"collect", "valid", "sync"}
  /\ tpc = "valid" => sync = "idle"
  /\ tpc = "sync" <=> sync \in {"pausing", "gather", "weights"}
  /\ serversPaused => sync \in Copy
  /\ sync \in Copy => paused /\ pc \in Idle
  /\ sync \in Copy \ {"gather"} => ~trigger
  /\ sync \in {"weights", "update", "updating"} => finished = 0
  /\ sync = "updating" => counted = 0
  /\ pc \in {"end", "finished"} => hand = Nothing

\* Nothing is under way during a synchronisation.
StillInv ==
  ~ending /\ Syncing =>
  /\ Counted = 0 /\ Mark = 0 /\ batch = <<>> /\ step = 1
  /\ ~raised /\ pc \in Idle \cup {"top"} /\ mon = "sleep"

CounterInv ==
  ~ending =>
  /\ cancelQ = <<>>
  /\ Uncounted => staleness = MaxRequired
  /\ ~Uncounted => Counted + Mark + Round + Raise <= staleness /\ staleness <= MaxRequired

\* A monitor that decided to go on before the counter was at its limit is ahead
\* of the processor, which still holds the sample that made the limit.
AlarmInv ==
  ~ending /\ staleness = MaxRequired /\ mon = "resume" =>
  (hand # Nothing \/ Mark = 1) /\ Behind(lock)

\* Until a wait has bound done_tasks, active_tasks holds whatever was started,
\* so that the first wait finds something to wait for.
FirstInv ==
  ~waited /\ pc \notin {"finished", "failed", "ended"} =>
  /\ sync \in {"idle", "pausing"} /\ (pc # "drain" => sync = "idle")
  /\ staleness <= Active + (IF hand # Nothing THEN 1 ELSE 0) + (IF pc = "end" THEN 1 ELSE 0)
  /\ pc = "pause" => lock = <<"proc">>
  /\ pc = "drain" => Holds("proc")
  /\ paused => pc = "drain"
  /\ pc \notin {"wait", "parked", "submitParked"}
  /\ pc \in {"pause", "drain", "full", "end"} => Active > 0

\* The end mark is the queue's only entry that is not a sample.
EndInv ==
  /\ dropped = {}
  /\ pc = "failed" \/ raised => lost # {}
  /\ Len(queue) = Cardinality(Ready) + (IF pc = "ended" /\ ~ending THEN 1 ELSE 0)
  /\ Finish \in ToSet(queue) <=> pc = "ended" /\ ~ending
  /\ ending => pc = "ended" /\ tpc # "collect" /\ Counted <= MaxRequired
  /\ tpc \in {"last", "closing", "done"} => ending

\* Unless a generation raised, what was taken from the feed is under way or used.
WholeInv ==
  lost = {} =>
  /\ ~ending => \A s \in Samples : s <= Drawn => s \in UnderWay \/ s \in ToSet(trained)
  /\ hand = DoneMark \/ pc \in EndSites => Drawn = DoneMark
  /\ pc \in {"finished", "ended"} => Live = {} /\ hand = Nothing
  /\ pc = "ended" /\ ~ending => queue[Len(queue)] = Finish
  /\ ending => Total - Len(trained) < Required

BaseInv == FlowInv /\ LimitInv /\ PlaceInv
SyncInv ==
  /\ QueueInv /\ PhaseInv /\ StillInv /\ CounterInv
  /\ AlarmInv /\ FirstInv /\ EndInv /\ WholeInv

LEMMA SyncSizes == ASSUME StalePercent = 0 PROVE MaxRequired = Required * Trigger
<1> DEFINE a == Required * Trigger
<1>1. a \in Nat /\ Required * (StalePercent + 100) * Trigger = 100 * a
  BY RolloutAssumption
<1> HIDE DEF a
<1>2. (100 * a) \div 100 = a
  BY <1>1
<1>3. MaxRequired = a
  BY <1>1, <1>2, RolloutAssumption DEF MaxRequired
<1> QED BY <1>3 DEF a

LEMMA LockAppended ==
  ASSUME NEW S, NEW seq \in Seq(S), Distinct(seq), NEW x \in S, x \notin ToSet(seq)
  PROVE  /\ Append(seq, x) \in Seq(S) /\ Distinct(Append(seq, x))
         /\ ToSet(Append(seq, x)) = ToSet(seq) \cup {x}
         /\ x # "monitor" /\ Behind(seq) => Behind(Append(seq, x))
         /\ seq # <<>> => Head(Append(seq, x)) = Head(seq)
         /\ Append(seq, x) # <<>>
<1> DEFINE new == Append(seq, x)
           n == Len(seq)
<1>1. /\ n \in Nat /\ new \in Seq(S) /\ Len(new) = n + 1 /\ DOMAIN seq = 1 .. n
      /\ \A i \in 1 .. n : new[i] = seq[i]
      /\ new[n + 1] = x /\ new # <<>>
      /\ \A i \in 1 .. (n + 1) : i \in 1 .. n \/ i = n + 1
  OBVIOUS
<1>6. seq # <<>> => Head(new) = Head(seq)
  OBVIOUS
<1>2. ToSet(new) = ToSet(seq) \cup {x}
  BY SetOfAppend
<1> HIDE DEF new, n
<1>3. \A i \in 1 .. n : seq[i] # x
  BY <1>1 DEF ToSet
<1>4. Distinct(new)
  <2> SUFFICES ASSUME NEW i \in 1 .. (n + 1), NEW j \in 1 .. (n + 1), new[i] = new[j] PROVE i = j
    BY <1>1 DEF Distinct
  <2>1. CASE i = n + 1 \/ j = n + 1
    BY <1>1, <1>3, <2>1
  <2>2. CASE i # n + 1 /\ j # n + 1
    BY <1>1, <2>2 DEF Distinct, n
  <2> QED BY <2>1, <2>2
<1>5. ASSUME x # "monitor", Behind(seq) PROVE Behind(new)
  <2> SUFFICES ASSUME NEW i \in 1 .. (n + 1), NEW j \in 1 .. (n + 1), new[i] = "proc", new[j] = "monitor"
               PROVE  j < i
    BY <1>1 DEF Behind
  <2>1. j \in 1 .. n /\ seq[j] = "monitor"
    BY <1>1, <1>5
  <2>2. CASE i = n + 1
    BY <1>1, <2>1, <2>2
  <2>3. CASE i # n + 1
    <3>1. i \in 1 .. n /\ seq[i] = "proc"
      BY <1>1, <2>3
    <3> QED BY <1>5, <2>1, <3>1 DEF Behind, n
  <2> QED BY <2>2, <2>3
<1> QED BY <1>1, <1>2, <1>4, <1>5, <1>6 DEF new

LEMMA LockReleased ==
  ASSUME NEW S, NEW seq \in Seq(S), Distinct(seq), seq # <<>>
  PROVE  /\ Tail(seq) \in Seq(S) /\ Distinct(Tail(seq)) /\ Head(seq) \in ToSet(seq)
         /\ ToSet(Tail(seq)) = ToSet(seq) \ {Head(seq)}
         /\ Behind(seq) => Behind(Tail(seq))
         /\ Behind(seq) /\ Head(seq) = "proc" => "monitor" \notin ToSet(seq)
<1> DEFINE t == Tail(seq)
           n == Len(seq)
<1>1. /\ n \in Nat \ {0} /\ t \in Seq(S) /\ Len(t) = n - 1 /\ DOMAIN seq = 1 .. n
      /\ DOMAIN t = 1 .. (n - 1) /\ \A i \in 1 .. (n - 1) : t[i] = seq[i + 1] /\ i + 1 \in 1 .. n
      /\ Head(seq) = seq[1] /\ 1 \in 1 .. n
  OBVIOUS
<1>2. ToSet(seq) = ToSet(t) \cup {Head(seq)}
  BY SetOfTail
<1> HIDE DEF t, n
<1>3. Head(seq) \notin ToSet(t)
  <2>1. ASSUME NEW i \in 1 .. (n - 1), t[i] = seq[1] PROVE FALSE
    <3>1. i + 1 = 1
      BY <1>1, <2>1 DEF Distinct, n
    <3> QED BY <1>1, <3>1
  <2> QED BY <1>1, <2>1 DEF ToSet
<1>4. Distinct(t)
  <2> SUFFICES ASSUME NEW i \in 1 .. (n - 1), NEW j \in 1 .. (n - 1), t[i] = t[j] PROVE i = j
    BY <1>1 DEF Distinct
  <2>1. i + 1 = j + 1
    BY <1>1 DEF Distinct, n
  <2> QED BY <1>1, <2>1
<1>5. ASSUME Behind(seq) PROVE Behind(t)
  <2> SUFFICES ASSUME NEW i \in 1 .. (n - 1), NEW j \in 1 .. (n - 1), t[i] = "proc", t[j] = "monitor"
               PROVE  j < i
    BY <1>1 DEF Behind
  <2>1. j + 1 < i + 1
    BY <1>1, <1>5 DEF Behind, n
  <2> QED BY <1>1, <2>1
<1>6. ASSUME Behind(seq), Head(seq) = "proc" PROVE "monitor" \notin ToSet(seq)
  <2>1. ASSUME NEW j \in 1 .. n, seq[j] = "monitor" PROVE FALSE
    <3>1. j < 1
      BY <1>1, <1>6, <2>1 DEF Behind, n
    <3> QED BY <1>1, <3>1
  <2> QED BY <1>1, <2>1 DEF ToSet
<1> QED BY <1>1, <1>2, <1>3, <1>4, <1>5, <1>6 DEF t

\* The lock gets a waiter that it did not have.
LEMMA LockAppend ==
  ASSUME TypeOK, Distinct(lock), NEW p \in Lockers, p \notin ToSet(lock), lock' = Append(lock, p)
  PROVE  /\ Distinct(lock') /\ ToSet(lock') = ToSet(lock) \cup {p}
         /\ p # "monitor" /\ Behind(lock) => Behind(lock')
         /\ \A q : Holds(q) => Holds(q)'
<1>1. lock \in Seq(Lockers)
  BY DEF TypeOK, Lockers
<1>2. /\ Distinct(lock') /\ ToSet(lock') = ToSet(lock) \cup {p}
      /\ p # "monitor" /\ Behind(lock) => Behind(lock')
      /\ lock # <<>> => Head(lock') = Head(lock)
      /\ lock' # <<>>
  BY <1>1, LockAppended
<1> QED BY <1>2 DEF Holds

\* The owner leaves the lock, for good or to queue for it again.
LEMMA LockRelease ==
  ASSUME TypeOK, Distinct(lock), NEW p \in Lockers, Holds(p)
  PROVE  /\ p \in ToSet(lock)
         /\ p = "proc" /\ Behind(lock) => "monitor" \notin ToSet(lock)
         /\ lock' = Tail(lock) =>
              /\ Distinct(lock') /\ ToSet(lock') = ToSet(lock) \ {p}
              /\ Behind(lock) => Behind(lock')
         /\ lock' = Append(Tail(lock), "proc") /\ (p = "proc" \/ "proc" \notin ToSet(lock)) =>
              /\ Distinct(lock') /\ ToSet(lock') = (ToSet(lock) \ {p}) \cup {"proc"}
              /\ Behind(lock) => Behind(lock')
<1> DEFINE t == Tail(lock)
<1>1. lock \in Seq(Lockers) /\ lock # <<>> /\ Head(lock) = p
  BY DEF TypeOK, Lockers, Holds
<1>2. /\ t \in Seq(Lockers) /\ Distinct(t) /\ p \in ToSet(lock)
      /\ ToSet(t) = ToSet(lock) \ {p}
      /\ Behind(lock) => Behind(t)
      /\ Behind(lock) /\ p = "proc" => "monitor" \notin ToSet(lock)
  BY <1>1, LockReleased
<1> HIDE DEF t
<1>3. ASSUME p = "proc" \/ "proc" \notin ToSet(lock)
      PROVE  /\ Distinct(Append(t, "proc")) /\ ToSet(Append(t, "proc")) = ToSet(t) \cup {"proc"}
             /\ Behind(t) => Behind(Append(t, "proc"))
  <2>1. "proc" \in Lockers /\ "proc" \notin ToSet(t)
    BY <1>2, <1>3 DEF Lockers
  <2> QED BY <1>2, <2>1, LockAppended
<1> QED BY <1>2, <1>3 DEF t

LEMMA LockOne ==
  ASSUME TypeOK, \A p \in Lockers : p \notin ToSet(lock)
  PROVE  lock = <<>> /\ Append(lock, "proc") = <<"proc">>
<1>1. lock \in Seq(Lockers)
  BY DEF TypeOK, Lockers
<1>2. lock = <<>>
  <2>1. SUFFICES ASSUME lock # <<>> PROVE FALSE
    OBVIOUS
  <2>2. Head(lock) \in Lockers /\ Head(lock) \in ToSet(lock)
    BY <1>1, <2>1, SetOfTail
  <2> QED BY <2>2
<1> QED BY <1>2

\* Only the owner takes itself off the lock, and who asks for it does not have it.
LEMMA QueueStep == ASSUME FlowInv, QueueInv, [Next]_vars PROVE QueueInv'
<1> USE DEF QueueInv, Lockers
<1>1. TypeOK
  BY DEF FlowInv, TypeInv
<1>2. ASSUME UNCHANGED <<lock, mon, sync>>, "proc" \in ToSet(lock) => pc' = pc PROVE QueueInv'
  BY <1>2 DEF Distinct
<1>3. ASSUME UNCHANGED <<mon, sync>>, pc' \in {"pause", "drain", "wait", "full", "submit", "end"},
             Holds("proc"), lock' = Append(Tail(lock), "proc")
      PROVE  QueueInv'
  <2>1. Distinct(lock') /\ ToSet(lock') = (ToSet(lock) \ {"proc"}) \cup {"proc"}
    BY <1>1, <1>3, LockRelease
  <2> QED BY <1>3, <2>1
<1>4. ASSUME UNCHANGED <<mon, sync>>, Holds("proc"), lock' = Tail(lock) PROVE QueueInv'
  <2>1. Distinct(lock') /\ ToSet(lock') = ToSet(lock) \ {"proc"}
    BY <1>1, <1>4, LockRelease
  <2> QED BY <1>4, <2>1
<1>5. ASSUME UNCHANGED <<mon, sync>>, pc \in {"top", "admit"}, pc' \in {"pause", "full", "submit", "end"},
             lock' = Append(lock, "proc")
      PROVE  QueueInv'
  <2>1. Distinct(lock') /\ ToSet(lock') = ToSet(lock) \cup {"proc"}
    BY <1>1, <1>5, LockAppend
  <2> QED BY <1>5, <2>1
<1>6. CASE Feeder
  BY <1>2, <1>6 DEF Feeder, _feed_samples, Own
<1>7. CASE Processor
  <2>1. UNCHANGED <<mon, sync>>
    BY <1>7 DEF Processor, Own, _processor_worker, procOther, ProcTop, ProcTake, ProcAdmit, ProcPause,
           ProcReap, ProcWait, ProcGoOn, ProcSubmit
  <2>2. CASE ProcTop \/ ProcTake
    BY <1>2, <1>5, <2>1, <2>2 DEF ProcTop, ProcTake, TakePending
  <2>3. CASE ProcAdmit
    BY <1>2, <1>5, <2>1, <2>3 DEF ProcAdmit
  <2>4. CASE ProcPause
    BY <1>3, <2>1, <2>4 DEF ProcPause, Requeue
  <2>5. CASE ProcWait \/ ProcGoOn \/ ProcSubmit
    BY <1>4, <2>1, <2>5 DEF ProcWait, ProcGoOn, ProcSubmit, Release
  <2>6. CASE ProcReap
    <3>1. /\ Holds("proc") /\ pc \in {"drain", "full", "end"}
          /\ (Release /\ pc' = "failed") \/ AfterWait(Cardinality(Live))
      BY <2>6 DEF ProcReap
    <3>2. \/ lock' = Tail(lock)
          \/ lock' = Append(Tail(lock), "proc") /\ pc' \in {"drain", "wait", "full", "submit", "end"}
      BY <3>1 DEF AfterWait, Release, Requeue
    <3> QED BY <1>3, <1>4, <2>1, <3>1, <3>2
  <2> QED BY <1>7, <2>2, <2>3, <2>4, <2>5, <2>6 DEF Processor, _processor_worker
<1>8. ASSUME NEW p \in {"monitor", "resume"}, Holds(p), NotifyAndRelease
      PROVE  /\ Distinct(lock') /\ p \notin ToSet(lock')
             /\ \A q \in Lockers \ {p, "proc"} : q \in ToSet(lock') <=> q \in ToSet(lock)
             /\ "proc" \in ToSet(lock') => pc' \in {"pause", "drain", "wait", "full", "submit", "end"}
  <2>1. \/ pc' = pc /\ lock' = Tail(lock)
        \/ /\ pc \in {"parked", "submitParked"} /\ pc' \in {"wait", "submit"}
           /\ lock' = Append(Tail(lock), "proc")
    BY <1>8 DEF NotifyAndRelease, Release, Requeue
  <2>2. CASE lock' = Tail(lock) /\ pc' = pc
    BY <1>1, <1>8, <2>2, LockRelease
  <2>3. CASE /\ pc \in {"parked", "submitParked"} /\ pc' \in {"wait", "submit"}
             /\ lock' = Append(Tail(lock), "proc")
    <3>1. Distinct(lock') /\ ToSet(lock') = (ToSet(lock) \ {p}) \cup {"proc"}
      BY <1>1, <1>8, <2>3, LockRelease
    <3> QED BY <2>3, <3>1
  <2> QED BY <2>1, <2>2, <2>3
<1>9. CASE Monitor
  <2>1. UNCHANGED sync
    BY <1>9 DEF Monitor, Own
  <2>2. CASE MonitorCheck
    <3>1. mon = "sleep" /\ mon' = "resume" /\ lock' = Append(lock, "monitor") /\ pc' = pc
      BY <2>2 DEF MonitorCheck
    <3>2. Distinct(lock') /\ ToSet(lock') = ToSet(lock) \cup {"monitor"}
      BY <1>1, <3>1, LockAppend
    <3> QED BY <2>1, <3>1, <3>2
  <2>3. CASE MonitorResume
    <3>1. mon' = "sleep" /\ Holds("monitor") /\ NotifyAndRelease
      BY <2>3 DEF MonitorResume
    <3> QED BY <1>8, <2>1, <3>1
  <2> QED BY <1>9, <2>2, <2>3 DEF Monitor, _async_monitor_loop
<1>10. CASE Main
  BY <1>2, <1>10 DEF Main, SendFinish, Own
<1>11. ASSUME NEW s \in Samples, Task(s) PROVE QueueInv'
  BY <1>2, <1>11, TaskEffect DEF taskOther, FlowInv
<1>12. CASE Trainer \/ Done \/ UNCHANGED vars
  BY <1>2, <1>12 DEF Trainer, Collect, Train, FinalSync, Closing, Done, vars, rollVars, syncVars
<1>13. CASE Synchronizer
  <2>1. UNCHANGED mon
    BY <1>13 DEF Synchronizer, SyncStart, PauseBegin, PauseEnd, WeightsCopied, UpdateBegin, UpdateEnd,
           ResumeCall, resume, notProc
  <2>2. ASSUME NEW p \in {"pause", "update", "resume"}, p \notin ToSet(lock), lock' = Append(lock, p)
        PROVE  Distinct(lock') /\ ToSet(lock') = ToSet(lock) \cup {p}
    BY <1>1, <2>2, LockAppend
  <2>3. CASE SyncStart
    <3>1. sync = "idle" /\ sync' = "pausing" /\ lock' = Append(lock, "pause") /\ pc' = pc
      BY <2>3 DEF SyncStart
    <3> QED BY <2>1, <2>2, <3>1
  <2>4. CASE WeightsCopied
    <3>1. sync = "weights" /\ sync' = "update" /\ lock' = Append(lock, "update") /\ pc' = pc
      BY <2>4 DEF WeightsCopied
    <3> QED BY <2>1, <2>2, <3>1
  <2>5. CASE ResumeCall
    <3>1. sync = "resume" /\ sync' = "resume" /\ lock' = Append(lock, "resume") /\ pc' = pc
          /\ "resume" \notin ToSet(lock)
      BY <2>5 DEF ResumeCall, syncVars, ToSet
    <3> QED BY <2>1, <2>2, <3>1
  <2>6. CASE PauseBegin \/ UpdateBegin
    <3>1. UNCHANGED <<lock, pc>> /\ <<sync, sync'>> \in {<<"pausing", "gather">>, <<"update", "updating">>}
      BY <2>6 DEF PauseBegin, UpdateBegin
    <3> QED BY <2>1, <3>1 DEF Distinct
  <2>7. CASE PauseEnd
    <3>1. sync = "gather" /\ sync' = "weights" /\ lock' = Tail(lock) /\ pc' = pc /\ Holds("pause")
      BY <2>7 DEF PauseEnd, Release, FlowInv, LockInv
    <3>2. Distinct(lock') /\ ToSet(lock') = ToSet(lock) \ {"pause"}
      BY <1>1, <3>1, LockRelease
    <3> QED BY <2>1, <3>1, <3>2
  <2>8. CASE UpdateEnd
    <3>1. sync = "updating" /\ sync' = "resume" /\ lock' = Tail(lock) /\ pc' = pc /\ Holds("update")
      BY <2>8 DEF UpdateEnd, Release, FlowInv, LockInv
    <3>2. Distinct(lock') /\ ToSet(lock') = ToSet(lock) \ {"update"}
      BY <1>1, <3>1, LockRelease
    <3> QED BY <2>1, <3>1, <3>2
  <2>9. CASE resume
    <3>1. sync = "resume" /\ sync' = "idle" /\ Holds("resume") /\ NotifyAndRelease
      BY <2>9 DEF resume
    <3> QED BY <1>8, <2>1, <3>1
  <2> QED BY <1>13, <2>3, <2>4, <2>5, <2>6, <2>7, <2>8, <2>9 DEF Synchronizer
<1> QED BY <1>6, <1>7, <1>9, <1>10, <1>11, <1>12, <1>13 DEF Next

-----------------------------------------------------------------------------
(* What the counts are made of.                                            *)

LEMMA Numbers ==
  ASSUME FlowInv, FlowInv'
  PROVE  /\ Counted \in Nat /\ Counted' \in Nat /\ Mark \in {0, 1} /\ Mark' \in {0, 1}
         /\ Raise \in {0, 1} /\ Raise' \in {0, 1} /\ Round \in Nat /\ Round' \in Nat
         /\ staleness \in Nat /\ staleness' \in Nat /\ MaxRequired \in Nat \ {0}
         /\ Active \in Nat /\ Active' \in Nat /\ Cardinality(Ready) \in Nat /\ Cardinality(Live) \in Nat
         /\ InHands \in {0, 1} /\ Nothing # DoneMark /\ Nothing \notin Samples /\ DoneMark \notin Samples
         /\ Cardinality(Ready) <= Counted
<1>1. TypeOK /\ TypeOK'
  BY DEF FlowInv, TypeInv
<1>2. Mark \in {0, 1} /\ Mark' \in {0, 1} /\ Raise \in {0, 1} /\ Raise' \in {0, 1}
  BY DEF Mark, Raise
<1>3. \A st, n \in Nat : st > 0 => (st - 1) * Required + n \in Nat
  BY Sizes
<1>4. Round \in Nat /\ Round' \in Nat
  <2>1. batch \in Seq(Samples) /\ batch' \in Seq(Samples) /\ step \in 1 .. Trigger /\ step' \in 1 .. Trigger
    BY <1>1 DEF TypeOK, Samples
  <2>2. Len(batch) \in Nat /\ Len(batch') \in Nat
    BY <2>1
  <2>3. step \in Nat /\ step > 0 /\ step' \in Nat /\ step' > 0
    BY <2>1, Sizes
  <2> QED BY <1>3, <2>2, <2>3 DEF Round
<1>5. staleness \in Nat /\ staleness' \in Nat /\ finished \in Nat /\ finished' \in Nat
  BY <1>1 DEF TypeOK
<1>6. Cardinality(Live) \in Nat /\ Cardinality(Live') \in Nat /\ Counted \in Nat /\ Counted' \in Nat
      /\ Cardinality(Ready) \in Nat /\ Waits \in Nat /\ InHands \in {0, 1}
  BY <1>1, Sets, SetsNext
<1>7. Active \in Nat /\ Active' \in Nat
  BY <1>5, <1>6 DEF Active
<1>8. MaxRequired \in Nat \ {0} /\ Nothing # DoneMark /\ Nothing \notin Samples /\ DoneMark \notin Samples
  BY Sizes DEF MaxRequired, Nothing, DoneMark, Samples
<1>9. Cardinality(Ready) <= Counted
  BY <1>6 DEF Counted
<1> QED BY <1>2, <1>4, <1>5, <1>6, <1>7, <1>8, <1>9

LEMMA SameCounts ==
  ASSUME UNCHANGED <<queue, task, cancelQ>>, hand' = hand \/ (hand = DoneMark /\ hand' = Nothing)
  PROVE  /\ Counted' = Counted /\ Ready' = Ready /\ Live' = Live /\ Outstanding' = Outstanding
         /\ UNCHANGED finished => Active' = Active
<1>1. DoneMark \notin Samples /\ Nothing \notin Samples
  BY Sizes DEF DoneMark, Nothing, Samples
<1> QED BY <1>1 DEF Counted, Waits, Ready, Live, InHands, InHand, Outstanding, Active, Samples

LEMMA SameRound == ASSUME UNCHANGED <<step, batch>> PROVE Round' = Round
BY DEF Round

\* Nothing is outstanding when the count is zero.
LEMMA Emptied ==
  ASSUME FlowInv, Counted = 0
  PROVE  Ready = {} /\ Live = {} /\ cancelQ = <<>> /\ hand \notin Samples /\ Cardinality(Live) = 0
<1>1. TypeOK
  BY DEF FlowInv, TypeInv
<1>2. /\ IsFiniteSet(Ready) /\ Cardinality(Ready) \in Nat /\ IsFiniteSet(Live)
      /\ Cardinality(Live) \in Nat /\ Len(cancelQ) \in Nat /\ InHands \in {0, 1}
  BY <1>1, Sets
<1>3. Cardinality(Ready) = 0 /\ Cardinality(Live) = 0 /\ Len(cancelQ) = 0 /\ InHands = 0
  BY <1>2 DEF Counted, Waits
<1>4. Ready = {} /\ Live = {}
  BY <1>2, <1>3, FS_EmptySet
<1>5. cancelQ = <<>>
  <2>1. cancelQ \in Seq(Samples)
    BY <1>1 DEF TypeOK
  <2> QED BY <1>3, <2>1
<1> QED BY <1>3, <1>4, <1>5 DEF InHands

\* During a round, what is counted is within the counter's limit.
LEMMA InRound ==
  ASSUME BaseInv, SyncInv, BaseInv', ~ending
  PROVE  /\ staleness <= MaxRequired /\ Counted + Mark + Raise <= staleness
         /\ Cardinality(Ready) <= staleness
         /\ Uncounted => staleness = MaxRequired
<1>1. FlowInv /\ FlowInv'
  BY DEF BaseInv
<1>2. /\ Counted \in Nat /\ Mark \in {0, 1} /\ Raise \in {0, 1} /\ Round \in Nat /\ staleness \in Nat
      /\ MaxRequired \in Nat \ {0} /\ Cardinality(Ready) \in Nat /\ Cardinality(Ready) <= Counted
  BY <1>1, Numbers
<1>3. CASE Uncounted
  <2>1. staleness = MaxRequired /\ Counted = 0 /\ Mark = 0 /\ Raise = 0
    BY <1>3 DEF SyncInv, CounterInv, StillInv, Uncounted, Syncing, Raise
  <2> QED BY <1>2, <1>3, <2>1
<1>4. CASE ~Uncounted
  <2>1. Counted + Mark + Round + Raise <= staleness /\ staleness <= MaxRequired
    BY <1>4 DEF SyncInv, CounterInv
  <2> QED BY <1>2, <1>4, <2>1
<1> QED BY <1>3, <1>4

-----------------------------------------------------------------------------
(* The processor                                                           *)

ProcAside == <<queue, dropped, fed, mon, trigger, serversPaused, lost, tpc, sync, counted, ending,
               batch, step, trained>>

LEMMA ProcessorAside ==
  ASSUME SyncInv, Processor
  PROVE  /\ UNCHANGED ProcAside /\ ~ending /\ Round' = Round
         /\ Syncing' = Syncing /\ Uncounted' = Uncounted
<1>1. UNCHANGED ProcAside
  BY DEF Processor, _processor_worker, procOther, ProcTop, ProcTake, ProcAdmit, ProcPause,
         ProcReap, ProcWait, ProcGoOn, ProcSubmit, Own, mqVars, trainVars, ProcAside
<1>2. pc # "ended"
  BY DEF Processor, _processor_worker, ProcTop, ProcTake, ProcAdmit, ProcPause,
         ProcReap, ProcWait, ProcGoOn, ProcSubmit
<1>3. ~ending
  BY <1>2 DEF SyncInv, EndInv
<1> QED BY <1>1, <1>3, SameRound DEF ProcAside, Syncing, Uncounted

\* A step of the processor that leaves what was taken where it is, except that
\* the end mark may leave its hand.
LEMMA ProcStays ==
  ASSUME BaseInv, BaseInv', SyncInv, Processor,
         UNCHANGED <<cancelQ, pending, staleness, task>>,
         hand' = hand \/ (hand = DoneMark /\ hand' = Nothing),
         Mark' = Mark, raised' = raised
  PROVE  /\ CounterInv'
         /\ (Syncing => pc' \in Idle \cup {"top"}) => StillInv'
         /\ pc' # "failed" /\ pc' # "ended" => EndInv'
         /\ (/\ pc' \in EndSites => Drawn = DoneMark
             /\ pc' = "finished" => Live = {} /\ hand' = Nothing
             /\ pc' # "ended")
            => WholeInv'
<1>1. /\ UNCHANGED ProcAside /\ ~ending /\ Round' = Round
      /\ Syncing' = Syncing /\ Uncounted' = Uncounted
  BY ProcessorAside
<1>2. Counted' = Counted /\ Ready' = Ready /\ Live' = Live /\ Outstanding' = Outstanding
  BY <1>1, SameCounts DEF ProcAside
<1>3. CounterInv'
  BY <1>1, <1>2 DEF ProcAside, SyncInv, CounterInv, Raise, MaxRequired
<1>4. ASSUME Syncing => pc' \in Idle \cup {"top"} PROVE StillInv'
  BY <1>1, <1>2, <1>4 DEF ProcAside, SyncInv, StillInv
<1>5. ASSUME pc' # "failed", pc' # "ended" PROVE EndInv'
  <2>1. pc # "ended"
    BY DEF Processor, _processor_worker, ProcTop, ProcTake, ProcAdmit, ProcPause,
         ProcReap, ProcWait, ProcGoOn, ProcSubmit
  <2> QED BY <1>1, <1>2, <1>5, <2>1 DEF ProcAside, SyncInv, EndInv, Finish
<1>6. ASSUME pc' \in EndSites => Drawn = DoneMark,
             pc' = "finished" => Live = {} /\ hand' = Nothing, pc' # "ended"
      PROVE  WholeInv'
  <2>1. Drawn' = Drawn /\ UnderWay' = UnderWay /\ Samples' = Samples /\ DoneMark' = DoneMark
    BY <1>1, <1>2 DEF ProcAside, Drawn, UnderWay, InBatch, Samples, DoneMark
  <2>2. hand' = DoneMark => hand = DoneMark
    BY Sizes DEF Nothing, DoneMark
  <2> QED BY <1>1, <1>2, <1>6, <2>1, <2>2 DEF ProcAside, SyncInv, WholeInv
<1> QED BY <1>3, <1>4, <1>5, <1>6

\* The processor asks for the lock to pause.
LEMMA SyncTopPause ==
  ASSUME BaseInv, BaseInv', SyncInv, QueueInv', Processor, ProcTop, paused \/ ShouldPause
  PROVE  SyncInv'
<1>1. /\ UNCHANGED ProcAside /\ ~ending /\ Syncing' = Syncing
  BY ProcessorAside
<1>2. /\ pc = "top" /\ pc' = "pause" /\ lock' = Append(lock, "proc")
      /\ UNCHANGED <<hand, cancelQ, pending, staleness, task, finished, raised, waited, paused>>
      /\ hand = Nothing
  BY DEF ProcTop, procOther, BaseInv, LimitInv, Waiting
<1>3. /\ FlowInv /\ FlowInv' /\ TypeOK
  BY DEF BaseInv, FlowInv, TypeInv
<1>4. Mark' = Mark /\ Mark = 0
  BY <1>2, <1>3, Numbers DEF Mark, EndSites, DoneMark
<1>5. CounterInv' /\ StillInv' /\ EndInv' /\ WholeInv'
  BY <1>2, <1>4, ProcStays DEF Idle, EndSites
<1>6. PhaseInv'
  BY <1>1, <1>2 DEF ProcAside, SyncInv, PhaseInv, Idle
<1>7. AlarmInv'
  BY <1>1, <1>2, <1>4 DEF ProcAside, SyncInv, AlarmInv, MaxRequired
<1>8. FirstInv'
  <2> SUFFICES ASSUME ~waited PROVE FirstInv'
    BY <1>2 DEF FirstInv
  <2>1. /\ sync = "idle" /\ ~paused /\ staleness <= Active + 0 + 0
    BY <1>2 DEF SyncInv, FirstInv
  <2>2. staleness = MaxRequired /\ staleness \in Nat \ {0} /\ Active \in Nat
    <3>1. Len(queue) = Cardinality(Ready)
      BY <1>2, <1>3, Numbers DEF SyncInv, EndInv
    <3>2. /\ staleness \in Nat /\ staleness <= MaxRequired /\ Cardinality(Ready) <= staleness
          /\ Active \in Nat /\ Cardinality(Ready) \in Nat /\ MaxRequired \in Nat \ {0}
      BY <1>1, <1>3, InRound, Numbers
    <3> QED BY <2>1, <3>1, <3>2 DEF ShouldPause
  <2>3. Active' = Active /\ Active > 0
    <3>1. Active' = Active
      BY <1>1, <1>2 DEF ProcAside, Active, Live, Samples
    <3> QED BY <2>1, <2>2, <3>1
  <2>4. lock' = <<"proc">>
    <3>1. mon # "resume"
      BY <1>1, <1>2, <1>4, <2>2 DEF SyncInv, AlarmInv
    <3>2. \A p \in Lockers : p \notin ToSet(lock)
      BY <1>2, <2>1, <3>1 DEF SyncInv, QueueInv, Lockers
    <3> QED BY <1>2, <1>3, <3>2, LockOne
  <2> QED BY <1>1, <1>2, <2>1, <2>3, <2>4 DEF ProcAside, SyncInv, FirstInv
<1> QED BY <1>5, <1>6, <1>7, <1>8 DEF SyncInv

\* The next sample, or the end mark, comes from the feed.
LEMMA SyncTake ==
  ASSUME BaseInv, BaseInv', SyncInv, QueueInv', Processor, pc \in {"top", "take"}, TakePending,
         pending # <<>>, staleness < MaxRequired,
         UNCHANGED <<cancelQ, lock, finished, raised, waited, paused, task>>
  PROVE  SyncInv'
<1>1. /\ UNCHANGED ProcAside /\ ~ending /\ Syncing' = Syncing /\ Uncounted' = Uncounted /\ Round' = Round
  BY ProcessorAside
<1>2. /\ hand = Nothing /\ hand' = Head(pending) /\ pending' = Tail(pending)
      /\ staleness' = staleness + 1 /\ pc' = "admit"
  BY DEF TakePending, BaseInv, LimitInv, Waiting
<1>3. FlowInv /\ FlowInv' /\ TypeOK
  BY DEF BaseInv, FlowInv, TypeInv
<1>4. ~Uncounted /\ ~Syncing /\ sync = "idle"
  <2>1. ~Uncounted
    BY <1>1, <1>3, InRound, Numbers
  <2>2. sync # "resume"
    BY <1>1 DEF SyncInv, PhaseInv, Copy, Idle
  <2> QED BY <2>1, <2>2 DEF Uncounted, Syncing
<1>5. Live' = Live /\ Ready' = Ready /\ Active' = Active /\ InHand = {} /\ InBatch' = InBatch
      /\ Cancelled' = Cancelled /\ InHand' = {hand'} \cap Samples
  <2>1. Nothing \notin Samples
    BY <1>3, Numbers
  <2> QED BY <1>1, <1>2, <2>1
      DEF ProcAside, Live, Ready, Active, Samples, InHand, InBatch, Cancelled
<1>6. hand' \in 1 .. DoneMark /\ Drawn' = Drawn + 1 /\ hand' = Drawn' /\ Drawn \in Nat
  <2>1. /\ pending \in Seq(1 .. DoneMark) /\ fed \in Nat /\ Len(pending) <= fed
        /\ \A i \in 1 .. Len(pending) : pending[i] = Drawn + i
    BY Sizes DEF BaseInv, FlowInv, TypeInv, TypeOK, PlaceInv, OrderInv
  <2>2. /\ Len(pending) \in Nat \ {0} /\ Head(pending) = pending[1] /\ Head(pending) \in 1 .. DoneMark
        /\ Len(Tail(pending)) = Len(pending) - 1 /\ 1 \in 1 .. Len(pending)
    <3>1. /\ Len(pending) \in Nat \ {0} /\ Head(pending) \in 1 .. DoneMark
          /\ Len(Tail(pending)) = Len(pending) - 1
      BY <2>1, SetOfTail
    <3>2. Head(pending) = pending[1]
      OBVIOUS
    <3> QED BY <3>1, <3>2
  <2>3. Drawn' = fed - (Len(pending) - 1) /\ Drawn = fed - Len(pending)
    BY <1>1, <1>2, <2>2 DEF Drawn, ProcAside
  <2> QED BY <1>2, <2>1, <2>2, <2>3
<1>7. /\ Mark = 0
      /\ (Counted' = Counted + 1 /\ Mark' = 0) \/ (Counted' = Counted /\ Mark' = 1)
  <2>1. /\ Cardinality(Ready) \in Nat /\ Cardinality(Live) \in Nat /\ Len(cancelQ) \in Nat
        /\ Nothing \notin Samples /\ DoneMark \notin Samples /\ Nothing # DoneMark
    BY <1>3, Numbers, Sets
  <2>2. Waits' = Waits /\ Waits \in Nat
    BY <1>5, <2>1 DEF Waits
  <2>3. InHands = 0 /\ Mark = 0
    BY <1>2, <2>1 DEF InHands, Mark, EndSites
  <2>4. (InHands' = 1 /\ Mark' = 0) \/ (InHands' = 0 /\ Mark' = 1)
    <3>1. CASE hand' = DoneMark
      BY <2>1, <3>1 DEF InHands, Mark, DoneMark, Samples
    <3>2. CASE hand' # DoneMark
      <4>1. hand' \in Samples
        BY <1>3, <1>6, <3>2, TakeTypes DEF FlowInv
      <4> QED BY <1>2, <3>2, <4>1 DEF InHands, Mark, DoneMark, Samples, EndSites
    <3> QED BY <3>1, <3>2
  <2>5. /\ Counted = Cardinality(Ready) + Waits + InHands
        /\ Counted' = Cardinality(Ready) + Waits + InHands'
    BY <1>5, <2>2 DEF Counted
  <2> QED BY <2>1, <2>2, <2>3, <2>4, <2>5
<1>8. PhaseInv'
  BY <1>1, <1>2, <1>4 DEF ProcAside, SyncInv, PhaseInv, Copy
<1>9. StillInv'
  BY <1>1, <1>4 DEF StillInv
<1>10. CounterInv'
  <2>1. Raise' = Raise /\ cancelQ = <<>> /\ Counted + Mark + Round + Raise <= staleness
    BY <1>1, <1>4 DEF Raise, SyncInv, CounterInv
  <2>2. /\ Counted \in Nat /\ Counted' \in Nat /\ Mark \in Nat /\ Mark' \in Nat
        /\ Raise \in Nat /\ Round \in Nat /\ staleness \in Nat /\ MaxRequired \in Nat
    <3>1. /\ Counted \in Nat /\ Counted' \in Nat /\ Mark \in {0, 1} /\ Mark' \in {0, 1}
          /\ Raise \in {0, 1} /\ Round \in Nat /\ staleness \in Nat /\ MaxRequired \in Nat
      BY <1>3, Numbers
    <3> QED BY <3>1
  <2>3. Counted' + Mark' + Round' + Raise' <= staleness' /\ staleness' <= MaxRequired
    <3>1. Round' = Round /\ staleness' = staleness + 1
      BY <1>1, <1>2
    <3>2. CASE Counted' = Counted + 1 /\ Mark' = 0
      BY <1>4, <1>7, <2>1, <2>2, <3>1, <3>2
    <3>3. CASE Counted' = Counted /\ Mark' = 1
      BY <1>7, <2>1, <2>2, <3>1, <3>3
    <3> QED BY <1>7, <3>2, <3>3
  <2> QED BY <1>1, <1>4, <2>1, <2>3 DEF CounterInv, MaxRequired
<1>11. AlarmInv'
  <2>1. hand' # Nothing
    BY <1>6, Sizes DEF Nothing
  <2>2. Behind(lock')
    <3>1. "proc" \notin ToSet(lock) /\ lock \in Seq(Lockers)
      BY <1>3 DEF SyncInv, QueueInv, TypeOK, Lockers
    <3>2. DOMAIN lock = 1 .. Len(lock)
      BY <3>1
    <3> QED BY <3>1, <3>2 DEF Behind, ToSet
  <2> QED BY <2>1, <2>2 DEF AlarmInv, Nothing
<1>12. FirstInv'
  <2> SUFFICES ASSUME ~waited PROVE FirstInv'
    BY DEF FirstInv
  <2>1. staleness <= Active + 0 + 0 /\ ~paused
    BY <1>2 DEF SyncInv, FirstInv
  <2>2. hand' # Nothing /\ Active \in Nat /\ staleness \in Nat
    BY <1>3, <1>6, Numbers, Sizes DEF Nothing
  <2>3. staleness' <= Active' + 1 + 0
    BY <1>2, <1>5, <2>1, <2>2
  <2> QED BY <1>1, <1>2, <1>4, <2>1, <2>2, <2>3 DEF ProcAside, FirstInv, Nothing
<1>13. EndInv'
  BY <1>1, <1>2, <1>5 DEF ProcAside, SyncInv, EndInv, Finish
<1>14. WholeInv'
  <2>1. UnderWay' = UnderWay \cup InHand'
    BY <1>5 DEF UnderWay, Outstanding, Cancelled
  <2>2. ASSUME lost = {}, NEW s \in Samples, s <= Drawn' PROVE s \in UnderWay' \/ s \in ToSet(trained')
    <3>1. CASE s <= Drawn
      BY <1>1, <2>1, <2>2, <3>1 DEF ProcAside, SyncInv, WholeInv
    <3>2. CASE ~(s <= Drawn)
      <4>1. s = hand'
        BY <1>6, <2>2, <3>2 DEF Samples
      <4> QED BY <1>5, <2>1, <2>2, <4>1
    <3> QED BY <3>1, <3>2
  <2>3. Samples' = Samples /\ DoneMark' = DoneMark
    BY DEF Samples, DoneMark
  <2> QED BY <1>1, <1>2, <1>6, <2>2, <2>3 DEF ProcAside, WholeInv, EndSites
<1> QED BY <1>8, <1>9, <1>10, <1>11, <1>12, <1>13, <1>14 DEF SyncInv

\* The processor waits for the feed.
LEMMA SyncTopTake ==
  ASSUME BaseInv, BaseInv', SyncInv, QueueInv', Processor, pc = "top", pc' = "take",
         UNCHANGED <<hand, cancelQ, pending, staleness, task, lock, finished, raised, waited, paused>>
  PROVE  SyncInv'
<1>1. /\ UNCHANGED ProcAside /\ ~ending /\ Syncing' = Syncing
  BY ProcessorAside
<1>2. hand = Nothing /\ FlowInv /\ FlowInv' /\ staleness < MaxRequired
  <2>1. LimitInv /\ LimitInv'
    BY DEF BaseInv
  <2>2. staleness' < MaxRequired
    BY <2>1 DEF LimitInv, MaxRequired
  <2> QED BY <2>1, <2>2 DEF LimitInv, Waiting, BaseInv
<1>3. ~Syncing /\ sync = "idle"
  <2>1. ~Uncounted
    <3>1. staleness \in Nat /\ MaxRequired \in Nat
      BY <1>2, Numbers
    <3>2. Uncounted => staleness = MaxRequired
      BY <1>1, InRound
    <3> QED BY <1>2, <3>1, <3>2
  <2>2. sync # "resume"
    BY <1>1 DEF SyncInv, PhaseInv, Copy, Idle
  <2> QED BY <2>1, <2>2 DEF Uncounted, Syncing
<1>4. Mark' = Mark /\ Active' = Active
  BY <1>1 DEF ProcAside, Mark, EndSites, DoneMark, Active, Live, Samples
<1>5. CounterInv' /\ StillInv' /\ EndInv' /\ WholeInv'
  BY <1>3, <1>4, ProcStays DEF EndSites
<1>6. PhaseInv'
  BY <1>1, <1>3 DEF ProcAside, SyncInv, PhaseInv, Copy
<1>7. AlarmInv'
  BY <1>1, <1>4 DEF ProcAside, SyncInv, AlarmInv, MaxRequired, Behind, Nothing
<1>8. FirstInv'
  BY <1>1, <1>3, <1>4 DEF ProcAside, SyncInv, FirstInv, Nothing
<1> QED BY <1>5, <1>6, <1>7, <1>8 DEF SyncInv

\* The processor asks for the lock with a sample in its hand, or for the end.
LEMMA SyncAdmit ==
  ASSUME BaseInv, BaseInv', SyncInv, QueueInv', Processor, ProcAdmit
  PROVE  SyncInv'
<1>1. /\ UNCHANGED ProcAside /\ ~ending /\ Syncing' = Syncing
  BY ProcessorAside
<1>2. /\ pc = "admit" /\ hand \in 1 .. DoneMark
      /\ UNCHANGED <<cancelQ, pending, staleness, task, finished, raised, waited, paused>>
      /\ FlowInv /\ FlowInv' /\ TypeOK
  BY DEF ProcAdmit, procOther, BaseInv, FlowInv, TypeInv
<1>3. ~Syncing /\ sync = "idle"
  BY <1>1, <1>2 DEF SyncInv, StillInv, Idle, Syncing
<1>4. /\ Active' = Active /\ Active \in Nat /\ staleness \in Nat /\ Nothing # DoneMark
      /\ DoneMark \notin Samples /\ MaxRequired \in Nat \ {0} /\ hand # Nothing
      /\ Cardinality(Live) \in Nat /\ finished \in Nat
  <2>1. Active' = Active
    BY <1>1, <1>2 DEF ProcAside, Active, Live, Samples
  <2>2. finished \in Nat
    BY <1>2 DEF TypeOK
  <2> QED BY <1>2, <2>1, <2>2, Numbers DEF Nothing
<1>5. lock' = Append(lock, "proc") => (Behind(lock) => Behind(lock'))
  <2>1. Distinct(lock) /\ "proc" \in Lockers /\ "proc" \notin ToSet(lock)
    BY <1>2 DEF SyncInv, QueueInv, Lockers
  <2> QED BY <1>2, <2>1, LockAppend
<1>6. CASE hand = DoneMark
  <2>1. /\ hand' = Nothing
        /\ \/ pc' = "finished" /\ Active = 0 /\ lock' = lock
           \/ pc' = "end" /\ Active # 0 /\ lock' = Append(lock, "proc")
    BY <1>6 DEF ProcAdmit
  <2>2. Mark' = Mark /\ Mark = 1
    BY <1>6, <2>1 DEF Mark, EndSites
  <2>3. pc' = "finished" => Live = {}
    <3>1. CASE Active = 0
      <4>1. Cardinality(Live) = 0 /\ IsFiniteSet(Live)
        BY <1>2, <1>4, <3>1, ActiveTyped DEF Active
      <4> QED BY <4>1, FS_EmptySet
    <3> QED BY <2>1, <3>1
  <2>4. lost = {} => Drawn = DoneMark
    BY <1>6 DEF SyncInv, WholeInv
  <2>5. CounterInv' /\ StillInv' /\ EndInv'
    BY <1>2, <1>3, <1>6, <2>1, <2>2, ProcStays
  <2>6. WholeInv'
    <3>1. CASE lost = {}
      BY <1>2, <1>6, <2>1, <2>2, <2>3, <2>4, <3>1, ProcStays
    <3>2. CASE lost # {}
      BY <1>1, <3>2 DEF WholeInv, ProcAside
    <3> QED BY <3>1, <3>2
  <2>7. PhaseInv'
    BY <1>1, <1>2, <1>3, <2>1 DEF ProcAside, SyncInv, PhaseInv, Copy, Nothing
  <2>8. AlarmInv'
    <3>1. lock' = lock => Behind(lock') = Behind(lock)
      OBVIOUS
    <3> QED BY <1>1, <1>2, <1>5, <2>1, <2>2, <3>1 DEF ProcAside, SyncInv, AlarmInv, MaxRequired
  <2>9. FirstInv'
    <3> SUFFICES ASSUME ~waited, pc' = "end" PROVE FirstInv'
      BY <1>2, <2>1 DEF FirstInv
    <3>1. staleness <= Active + 1 + 0 /\ ~paused
      BY <1>2, <1>4 DEF SyncInv, FirstInv
    <3>2. Active > 0
      BY <1>4, <2>1
    <3> QED BY <1>1, <1>2, <1>3, <1>4, <2>1, <3>1, <3>2 DEF ProcAside, FirstInv
  <2> QED BY <2>5, <2>6, <2>7, <2>8, <2>9 DEF SyncInv
<1>7. CASE hand # DoneMark
  <2>1. /\ hand' = hand /\ lock' = Append(lock, "proc")
        /\ \/ pc' = "full" /\ Active >= MaxConcurrent
           \/ pc' = "submit"
    BY <1>7 DEF ProcAdmit
  <2>2. Mark' = Mark
    BY <1>2, <2>1 DEF Mark, EndSites, DoneMark
  <2>3. CounterInv' /\ StillInv' /\ EndInv' /\ WholeInv'
    BY <1>2, <1>3, <2>1, <2>2, ProcStays DEF EndSites
  <2>4. PhaseInv'
    BY <1>1, <1>2, <1>3, <2>1 DEF ProcAside, SyncInv, PhaseInv, Copy, Nothing
  <2>5. AlarmInv'
    BY <1>1, <1>2, <1>5, <2>1, <2>2 DEF ProcAside, SyncInv, AlarmInv, MaxRequired, Nothing
  <2>6. FirstInv'
    <3> SUFFICES ASSUME ~waited PROVE FirstInv'
      BY <1>2 DEF FirstInv
    <3>1. staleness <= Active + 1 + 0 /\ ~paused
      BY <1>2, <1>4 DEF SyncInv, FirstInv
    <3>2. MaxConcurrent \in Nat \ {0}
      BY <1>4, RolloutAssumption DEF MaxConcurrent
    <3>3. pc' = "full" => Active > 0
      BY <1>4, <2>1, <3>2
    <3> QED BY <1>1, <1>2, <1>3, <1>4, <2>1, <3>1, <3>3 DEF ProcAside, FirstInv, Nothing
  <2> QED BY <2>3, <2>4, <2>5, <2>6 DEF SyncInv
<1> QED BY <1>6, <1>7

\* Paused, the processor waits for its tasks.
LEMMA SyncPause ==
  ASSUME BaseInv, BaseInv', SyncInv, QueueInv', Processor, ProcPause
  PROVE  SyncInv'
<1>1. /\ UNCHANGED ProcAside /\ ~ending /\ Syncing' = Syncing
  BY ProcessorAside
<1>2. /\ pc = "pause" /\ Holds("proc") /\ paused' = TRUE /\ lock' = Append(Tail(lock), "proc")
      /\ pc' = IF Active > 0 THEN "drain" ELSE "wait"
      /\ UNCHANGED <<hand, cancelQ, pending, staleness, task, finished, raised, waited>>
      /\ hand = Nothing
      /\ FlowInv /\ FlowInv' /\ TypeOK
  BY DEF ProcPause, Requeue, procOther, BaseInv, LimitInv, Waiting, FlowInv, TypeInv
<1>3. Mark' = Mark /\ Mark = 0
  BY <1>2, Numbers DEF Mark, EndSites, DoneMark
<1>4. CounterInv' /\ StillInv' /\ EndInv' /\ WholeInv'
  BY <1>2, <1>3, ProcStays DEF Idle, EndSites
<1>5. PhaseInv'
  BY <1>1, <1>2 DEF ProcAside, SyncInv, PhaseInv, Idle
<1>6. AlarmInv'
  BY <1>1, <1>2, <1>3 DEF ProcAside, SyncInv, AlarmInv, MaxRequired
<1>7. FirstInv'
  <2> SUFFICES ASSUME ~waited PROVE FirstInv'
    BY <1>2 DEF FirstInv
  <2>1. sync = "idle" /\ staleness <= Active + 0 + 0 /\ lock = <<"proc">> /\ Active > 0
    BY <1>2 DEF SyncInv, FirstInv
  <2>2. Active' = Active
    BY <1>1, <1>2 DEF ProcAside, Active, Live, Samples
  <2>3. Holds("proc")'
    <3>1. lock' = <<"proc">>
      BY <1>2, <2>1
    <3> QED BY <3>1 DEF Holds
  <2> QED BY <1>1, <1>2, <2>1, <2>2, <2>3 DEF ProcAside, FirstInv
<1> QED BY <1>4, <1>5, <1>6, <1>7 DEF SyncInv

\* A wait for active tasks is over; it is never the first with none to wait for.
LEMMA SyncReap ==
  ASSUME BaseInv, BaseInv', SyncInv, QueueInv', Processor, ProcReap
  PROVE  SyncInv'
<1>1. /\ UNCHANGED ProcAside /\ ~ending /\ Syncing' = Syncing /\ Uncounted' = Uncounted /\ Round' = Round
  BY ProcessorAside
<1>2. /\ pc \in {"drain", "full", "end"} /\ Holds("proc") /\ finished' = 0 /\ raised' = FALSE
      /\ waited' = (waited \/ Active > 0)
      /\ IF raised \/ ~waited' THEN Release /\ pc' = "failed" ELSE AfterWait(Cardinality(Live))
      /\ UNCHANGED <<hand, cancelQ, pending, staleness, task, paused>>
      /\ FlowInv /\ FlowInv' /\ TypeOK
  BY DEF ProcReap, procOther, BaseInv, FlowInv, TypeInv
<1>3. waited'
  BY <1>2 DEF SyncInv, FirstInv
<1>4. /\ raised \in BOOLEAN /\ Cardinality(Live) \in Nat /\ IsFiniteSet(Live)
      /\ Nothing # DoneMark /\ Nothing \notin Samples /\ MaxConcurrent \in Nat \ {0}
  <2>1. raised \in BOOLEAN
    BY <1>2 DEF TypeOK
  <2>2. MaxConcurrent \in Nat \ {0}
    BY <1>2, Numbers, RolloutAssumption DEF MaxConcurrent
  <2> QED BY <1>2, <2>1, <2>2, Numbers, ActiveTyped
<1>5. /\ raised => pc' = "failed" /\ lock' = Tail(lock)
      /\ ~raised =>
           \/ pc = "drain" /\ pc' \in {"drain", "wait"} /\ lock' = Append(Tail(lock), "proc")
           \/ pc = "full" /\ pc' \in {"full", "submit"} /\ lock' = Append(Tail(lock), "proc")
           \/ pc = "end" /\ pc' = "end" /\ lock' = Append(Tail(lock), "proc")
           \/ pc = "end" /\ pc' = "finished" /\ lock' = Tail(lock) /\ Cardinality(Live) = 0
  <2>1. raised => pc' = "failed" /\ lock' = Tail(lock)
    BY <1>2 DEF Release
  <2>2. CASE ~raised
    <3>1. AfterWait(Cardinality(Live))
      BY <1>2, <1>3, <2>2
    <3>2. pc = "drain" => pc' \in {"drain", "wait"} /\ lock' = Append(Tail(lock), "proc")
      BY <3>1 DEF AfterWait, Requeue
    <3>3. pc = "full" => pc' \in {"full", "submit"} /\ lock' = Append(Tail(lock), "proc")
      BY <3>1 DEF AfterWait, Requeue
    <3>4. pc = "end" => \/ pc' = "end" /\ lock' = Append(Tail(lock), "proc")
                        \/ pc' = "finished" /\ lock' = Tail(lock) /\ ~(Cardinality(Live) > 0)
      BY <3>1 DEF AfterWait, Requeue, Release
    <3>5. Cardinality(Live) = 0 \/ Cardinality(Live) > 0
      BY <1>4
    <3> QED BY <1>2, <2>2, <3>2, <3>3, <3>4, <3>5
  <2> QED BY <2>1, <2>2
<1>6. FirstInv'
  BY <1>3 DEF FirstInv
<1>7. AlarmInv'
  <2>1. Behind(lock) => Behind(lock')
    <3>1. Distinct(lock) /\ "proc" \in Lockers
      BY DEF SyncInv, QueueInv, Lockers
    <3> QED BY <1>2, <1>5, <3>1, LockRelease
  <2>2. pc = "drain" => hand = Nothing /\ Mark = 0
    BY <1>2, <1>4 DEF BaseInv, LimitInv, Waiting, Mark, EndSites
  <2>3. (hand # Nothing \/ Mark = 1) => (hand' # Nothing \/ Mark' = 1)
    BY <1>2, <1>5, <2>2 DEF Mark, EndSites, DoneMark
  <2> QED BY <1>1, <1>2, <2>1, <2>3 DEF ProcAside, SyncInv, AlarmInv, MaxRequired, Nothing
<1>8. CASE raised
  <2>1. pc' = "failed" /\ lost # {} /\ ~Syncing
    BY <1>1, <1>5, <1>8 DEF SyncInv, EndInv, StillInv
  <2>2. PhaseInv'
    BY <1>1, <1>2, <2>1 DEF ProcAside, SyncInv, PhaseInv, Copy, Syncing
  <2>3. Counted' = Counted /\ Ready' = Ready /\ Mark' = 1
    BY <1>1, <1>2, <2>1, SameCounts DEF ProcAside, Mark, EndSites
  <2>4. StillInv'
    BY <1>1, <2>1 DEF StillInv
  <2>5. CounterInv'
    <3>1. ~Uncounted
      BY <2>1 DEF Syncing, Uncounted
    <3>2. /\ Counted + Mark + Round + 1 <= staleness /\ staleness <= MaxRequired /\ cancelQ = <<>>
      BY <1>1, <1>8, <3>1 DEF SyncInv, CounterInv, Raise
    <3>3. Mark \in {0, 1} /\ Counted \in Nat /\ Round \in Nat /\ staleness \in Nat /\ MaxRequired \in Nat
      BY <1>2, Numbers
    <3>4. Counted + 1 + Round + 0 <= staleness
      BY <3>2, <3>3
    <3>5. Raise' = 0
      BY <1>2 DEF Raise
    <3> QED BY <1>1, <1>2, <2>3, <3>1, <3>2, <3>4, <3>5 DEF CounterInv, MaxRequired
  <2>6. EndInv'
    BY <1>1, <1>2, <2>1, <2>3 DEF ProcAside, SyncInv, EndInv, Finish
  <2>7. WholeInv'
    BY <1>1, <2>1 DEF ProcAside, WholeInv
  <2> QED BY <1>6, <1>7, <2>2, <2>4, <2>5, <2>6, <2>7 DEF SyncInv
<1>9. CASE ~raised
  <2>1. Mark' = Mark /\ raised' = raised
    BY <1>2, <1>4, <1>5, <1>9 DEF Mark, EndSites, DoneMark
  <2>2. pc' = "finished" => Live = {} /\ hand' = Nothing
    <3>1. pc' = "finished" => Cardinality(Live) = 0 /\ pc = "end"
      BY <1>5, <1>9
    <3>2. pc = "end" => hand = Nothing
      BY <1>1 DEF SyncInv, PhaseInv
    <3> QED BY <1>2, <1>4, <3>1, <3>2, FS_EmptySet
  <2>3. CounterInv' /\ EndInv'
    BY <1>2, <1>5, <1>9, <2>1, ProcStays
  <2>4. StillInv'
    <3>1. Syncing => pc = "drain"
      BY <1>1, <1>2 DEF SyncInv, StillInv, Idle
    <3> QED BY <1>2, <1>5, <1>9, <2>1, <3>1, ProcStays DEF Idle
  <2>5. WholeInv'
    <3>1. CASE lost = {}
      <4>1. pc' \in EndSites => Drawn = DoneMark
        BY <1>5, <1>9, <3>1 DEF SyncInv, WholeInv, EndSites
      <4> QED BY <1>2, <1>5, <1>9, <2>1, <2>2, <4>1, ProcStays
    <3>2. CASE lost # {}
      BY <1>1, <3>2 DEF WholeInv, ProcAside
    <3> QED BY <3>1, <3>2
  <2>6. PhaseInv'
    <3>1. sync \in Copy => pc = "drain"
      BY <1>1, <1>2 DEF SyncInv, PhaseInv, Idle
    <3> QED BY <1>1, <1>2, <1>5, <1>9, <3>1 DEF ProcAside, SyncInv, PhaseInv, Idle, Copy, Nothing
  <2> QED BY <1>6, <1>7, <2>3, <2>4, <2>5, <2>6 DEF SyncInv
<1> QED BY <1>4, <1>8, <1>9


\* The processor goes to sleep until a notify, or goes on.
LEMMA SyncGoOn ==
  ASSUME BaseInv, BaseInv', SyncInv, QueueInv', Processor, ProcWait \/ ProcGoOn
  PROVE  SyncInv'
<1>1. /\ UNCHANGED ProcAside /\ ~ending /\ Syncing' = Syncing
  BY ProcessorAside
<1>2. /\ \/ pc \in {"wait", "submit"} /\ paused /\ pc' = IF pc = "wait" THEN "parked" ELSE "submitParked"
         \/ pc = "wait" /\ ~paused /\ pc' = "top"
      /\ Holds("proc") /\ lock' = Tail(lock)
      /\ UNCHANGED <<hand, cancelQ, pending, staleness, task, finished, raised, waited, paused>>
      /\ FlowInv /\ FlowInv' /\ TypeOK
  BY DEF ProcWait, ProcGoOn, Release, procOther, BaseInv, FlowInv, TypeInv
<1>3. Mark' = Mark
  BY <1>2 DEF Mark, EndSites, DoneMark
<1>4. Syncing => pc' \in Idle \cup {"top"}
  BY <1>1, <1>2 DEF SyncInv, StillInv, Idle
<1>5. CounterInv' /\ StillInv' /\ EndInv' /\ WholeInv'
  BY <1>2, <1>3, <1>4, ProcStays DEF EndSites
<1>6. PhaseInv'
  <2>1. sync \in Copy => pc' \in Idle
    BY <1>1, <1>2 DEF SyncInv, PhaseInv, Idle
  <2> QED BY <1>1, <1>2, <2>1 DEF ProcAside, SyncInv, PhaseInv, Copy
<1>7. AlarmInv'
  <2>1. Behind(lock) => Behind(lock')
    <3>1. Distinct(lock) /\ "proc" \in Lockers
      BY DEF SyncInv, QueueInv, Lockers
    <3> QED BY <1>2, <3>1, LockRelease
  <2> QED BY <1>1, <1>2, <1>3, <2>1 DEF ProcAside, SyncInv, AlarmInv, MaxRequired, Nothing
<1>8. FirstInv'
  <2>1. waited
    BY <1>2 DEF SyncInv, FirstInv
  <2> QED BY <1>2, <2>1 DEF FirstInv
<1> QED BY <1>5, <1>6, <1>7, <1>8 DEF SyncInv

\* The processor starts a task.
LEMMA SyncSubmit ==
  ASSUME BaseInv, BaseInv', SyncInv, QueueInv', Processor, ProcSubmit
  PROVE  SyncInv'
<1>1. /\ UNCHANGED ProcAside /\ ~ending /\ Syncing' = Syncing /\ Uncounted' = Uncounted /\ Round' = Round
  BY ProcessorAside
<1>2. /\ pc = "submit" /\ pc' = "top" /\ Holds("proc") /\ ~paused /\ lock' = Tail(lock)
      /\ task' = [task EXCEPT ![hand] = "new"] /\ hand' = Nothing
      /\ UNCHANGED <<cancelQ, pending, staleness, finished, raised, waited, paused>>
      /\ FlowInv /\ FlowInv' /\ TypeOK /\ hand \in Samples
  BY DEF ProcSubmit, Release, BaseInv, FlowInv, TypeInv
<1>3. ~Syncing /\ sync = "idle"
  BY <1>1, <1>2 DEF SyncInv, StillInv, Idle, Syncing
<1>4. /\ Nothing # DoneMark /\ Nothing \notin Samples /\ DoneMark \notin Samples
      /\ Active \in Nat /\ Active' \in Nat /\ staleness \in Nat /\ Cardinality(Live) \in Nat
      /\ Cardinality(Ready) \in Nat
  BY <1>2, Numbers
<1>5. Mark = 0 /\ Mark' = 0 /\ hand # Nothing
  BY <1>2, <1>4 DEF Mark, EndSites, DoneMark, Samples
<1>6. /\ Live' = Live \cup {hand} /\ hand \notin Live /\ Ready' = Ready
      /\ InHand = {hand} /\ InHand' = {} /\ Cancelled' = Cancelled /\ InBatch' = InBatch
  <2>1. Live' = Live \cup {hand}
    BY <1>2 DEF Live, TypeOK, Samples
  <2>2. InHand = {hand} /\ InHand' = {}
    BY <1>2, <1>4 DEF InHand, Samples
  <2> QED BY <1>1, <1>2, <2>1, <2>2
          DEF ProcAside, BaseInv, PlaceInv, OnceInv, Apart, Ready, Cancelled, InBatch
<1>7. Cardinality(Live') = Cardinality(Live) + 1
  BY <1>2, <1>6, ActiveTyped, FS_AddElement
<1>8. Active' = Active + 1
  <2>1. finished \in Nat
    BY <1>2 DEF TypeOK
  <2> QED BY <1>2, <1>4, <1>7, <2>1 DEF Active
<1>9. Counted' = Counted
  <2>1. InHands = 1 /\ InHands' = 0
    BY <1>2, <1>4 DEF InHands, Samples
  <2>2. Len(cancelQ) \in Nat
    BY <1>2, Sets
  <2>3. Waits' = Waits + 1 /\ Waits \in Nat
    BY <1>2, <1>4, <1>7, <2>2 DEF Waits
  <2> QED BY <1>4, <1>6, <2>1, <2>3 DEF Counted
<1>10. PhaseInv'
  BY <1>1, <1>2, <1>3 DEF ProcAside, SyncInv, PhaseInv, Copy
<1>11. StillInv'
  BY <1>1, <1>3 DEF StillInv
<1>12. CounterInv'
  BY <1>1, <1>2, <1>5, <1>9 DEF ProcAside, SyncInv, CounterInv, Raise, MaxRequired
<1>13. AlarmInv'
  <2>1. Behind(lock) => mon # "resume"
    <3>1. Distinct(lock) /\ "proc" \in Lockers
      BY DEF SyncInv, QueueInv, Lockers
    <3> QED BY <1>2, <3>1, LockRelease DEF SyncInv, QueueInv
  <2> QED BY <1>1, <1>2, <2>1 DEF ProcAside, SyncInv, AlarmInv, MaxRequired
<1>14. FirstInv'
  <2> SUFFICES ASSUME ~waited PROVE FirstInv'
    BY <1>2 DEF FirstInv
  <2>1. staleness <= Active + 1 + 0
    BY <1>2, <1>5 DEF SyncInv, FirstInv
  <2>2. staleness' <= Active' + 0 + 0
    BY <1>2, <1>4, <1>8, <2>1
  <2> QED BY <1>1, <1>2, <1>3, <2>2 DEF ProcAside, FirstInv
<1>15. EndInv'
  BY <1>1, <1>2, <1>6 DEF ProcAside, SyncInv, EndInv, Finish
<1>16. WholeInv'
  <2>1. Drawn' = Drawn /\ UnderWay' = UnderWay /\ Samples' = Samples /\ DoneMark' = DoneMark
    BY <1>1, <1>2, <1>6 DEF ProcAside, Drawn, UnderWay, Outstanding, Cancelled, Samples, DoneMark
  <2> QED BY <1>1, <1>2, <1>4, <2>1 DEF ProcAside, SyncInv, WholeInv, EndSites
<1> QED BY <1>10, <1>11, <1>12, <1>13, <1>14, <1>15, <1>16 DEF SyncInv

LEMMA SyncProcessor ==
  ASSUME BaseInv, BaseInv', SyncInv, QueueInv', Processor
  PROVE  SyncInv'
<1>1. ~ending /\ cancelQ = <<>>
  BY ProcessorAside DEF SyncInv, CounterInv
<1>2. staleness \in Nat /\ MaxRequired \in Nat
  BY Numbers DEF BaseInv
<1>3. CASE ProcTop
  <2>1. CASE paused \/ ShouldPause
    BY <1>3, <2>1, SyncTopPause
  <2>2. CASE ~(paused \/ ShouldPause)
    <3>1. /\ pc = "top" /\ staleness < MaxRequired
          /\ UNCHANGED <<cancelQ, lock, finished, raised, waited, paused, task>>
          /\ \/ pending # <<>> /\ TakePending
             \/ pc' = "take" /\ UNCHANGED <<hand, pending, staleness>>
      BY <1>1, <1>2, <1>3, <2>2 DEF ProcTop, ShouldPause, procOther
    <3> QED BY <3>1, SyncTake, SyncTopTake
  <2> QED BY <2>1, <2>2
<1>4. CASE ProcTake
  <2>1. /\ pc = "take" /\ pending # <<>> /\ TakePending
        /\ UNCHANGED <<cancelQ, lock, finished, raised, waited, paused, task>>
    BY <1>4 DEF ProcTake, procOther
  <2>2. staleness < MaxRequired
    BY <2>1 DEF BaseInv, LimitInv
  <2> QED BY <2>1, <2>2, SyncTake
<1> QED BY <1>3, <1>4, SyncAdmit, SyncPause, SyncReap, SyncGoOn, SyncSubmit
        DEF Processor, _processor_worker

-----------------------------------------------------------------------------
(* The other coroutines of the rollouter                                   *)

Places == <<queue, dropped, cancelQ, hand, batch, trained, step, lost, ending, waited>>

\* A step that moves no sample; what is parked may go on.
LEMMA SamplesStay ==
  ASSUME SyncInv, UNCHANGED Places, Live' = Live, Drawn' = Drawn, raised' = raised \/ raised' = FALSE,
         pc' = pc \/ (pc = "parked" /\ pc' = "wait") \/ (pc = "submitParked" /\ pc' = "submit")
  PROVE  /\ Counted' = Counted /\ Mark' = Mark /\ Round' = Round
         /\ finished' = finished => Active' = Active
         /\ WholeInv'
         /\ (ending => tpc' # "collect") /\ (tpc' \in {"last", "closing", "done"} => ending) => EndInv'
<1>1. /\ Counted' = Counted /\ Ready' = Ready /\ UnderWay' = UnderWay
      /\ finished' = finished => Active' = Active
  BY DEF Places, Counted, Waits, Ready, InHands, UnderWay, Outstanding, InHand, InBatch, Active, Samples
<1>2. Mark' = Mark /\ Round' = Round
  BY DEF Places, Mark, EndSites, Round, DoneMark
<1>3. /\ pc' \in EndSites <=> pc \in EndSites
      /\ \A p \in {"finished", "failed", "ended"} : pc' = p <=> pc = p
  BY DEF EndSites
<1>4. Samples' = Samples /\ DoneMark' = DoneMark
  BY DEF Samples, DoneMark
<1>5. WholeInv'
  BY <1>1, <1>3, <1>4 DEF SyncInv, WholeInv, Places
<1>6. ASSUME ending => tpc' # "collect", tpc' \in {"last", "closing", "done"} => ending PROVE EndInv'
  BY <1>1, <1>3, <1>6 DEF SyncInv, EndInv, Places, Finish, MaxRequired
<1> QED BY <1>1, <1>2, <1>5, <1>6

\* Once the loop of fit has ended, only the queue and what was used matter.
LEMMA SyncEnded == ASSUME QueueInv', ending', EndInv', WholeInv' PROVE SyncInv'
<1>1. pc' = "ended"
  BY DEF EndInv
<1> QED BY <1>1 DEF SyncInv, PhaseInv, StillInv, CounterInv, AlarmInv, FirstInv

Turns == <<pc, mon, lock, sync, tpc, paused, trigger, serversPaused, finished, raised, counted, staleness>>

LEMMA SyncAside ==
  ASSUME SyncInv, QueueInv', UNCHANGED Places, UNCHANGED Turns, Live' = Live, Drawn' = Drawn
  PROVE  SyncInv'
<1>1. /\ Counted' = Counted /\ Mark' = Mark /\ Round' = Round /\ Active' = Active
      /\ WholeInv' /\ EndInv'
  <2>1. raised' = raised /\ pc' = pc /\ tpc' = tpc /\ finished' = finished
    BY DEF Turns
  <2> QED BY <2>1, SamplesStay DEF SyncInv, EndInv
<1>2. Syncing' = Syncing /\ Uncounted' = Uncounted /\ Raise' = Raise
  BY DEF Turns, Syncing, Uncounted, Raise
<1>3. PhaseInv' /\ StillInv'
  BY <1>1, <1>2 DEF SyncInv, PhaseInv, StillInv, Turns, Places, Nothing
<1>4. CounterInv' /\ AlarmInv'
  BY <1>1, <1>2 DEF SyncInv, CounterInv, AlarmInv, Turns, Places, Nothing, MaxRequired, Behind
<1>5. FirstInv'
  BY <1>1 DEF SyncInv, FirstInv, Turns, Places, Nothing, Holds
<1> QED BY <1>1, <1>3, <1>4, <1>5 DEF SyncInv

LEMMA SyncFeeder == ASSUME BaseInv, SyncInv, QueueInv', Feeder PROVE SyncInv'
<1>1. UNCHANGED Places /\ UNCHANGED Turns /\ Live' = Live
  BY DEF Feeder, _feed_samples, Own, mqVars, trainVars, Places, Turns, Live, Samples
<1>2. Drawn' = Drawn
  BY PlaceFeeder DEF BaseInv
<1> QED BY <1>1, <1>2, SyncAside

\* What the step of a task does to the counts.
TaskAside == <<fed, pending, hand, waited, pc, mon, lock, paused, trigger, staleness, serversPaused,
               batch, trained, step, tpc, ending, sync, counted>>

LEMMA TaskMoves ==
  ASSUME FlowInv, NEW s \in Samples, Task(s)
  PROVE  /\ UNCHANGED TaskAside /\ s \in Live
         /\ \/ Live' = Live /\ UNCHANGED <<queue, dropped, cancelQ, finished, raised, lost>>
            \/ /\ Live' = Live \ {s} /\ finished' = finished + 1
               /\ \/ /\ serversPaused /\ cancelQ' = Append(cancelQ, s)
                     /\ UNCHANGED <<queue, dropped, raised, lost>>
                  \/ put_sample(s) /\ UNCHANGED <<cancelQ, raised, lost>>
                  \/ /\ raised' = TRUE /\ lost' = lost \cup {s}
                     /\ UNCHANGED <<queue, dropped, cancelQ>>
<1>1. UNCHANGED TaskAside /\ task[s] # "none" /\ TypeOK
  BY TaskEffect DEF FlowInv, TypeInv, taskOther, trainVars, TaskAside
<1>2. s \in Live
  BY <1>1 DEF Live
<1>3. /\ task' = [task EXCEPT ![s] = "none"] => Live' = Live \ {s}
      /\ task' = [task EXCEPT ![s] = "gen"] \/ task' = [task EXCEPT ![s] = "put"] => Live' = Live
  BY <1>1 DEF Live, TypeOK, Samples
<1>4. ASSUME Interrupted(s), serversPaused, UNCHANGED mqVars
      PROVE  /\ Live' = Live \ {s} /\ finished' = finished + 1
             /\ serversPaused /\ cancelQ' = Append(cancelQ, s)
             /\ UNCHANGED <<queue, dropped, raised, lost>>
  BY <1>3, <1>4 DEF Interrupted, mqVars
<1>5. CASE TaskReachesServer(s) \/ TaskCancelled(s)
  <2>1. \/ Interrupted(s) /\ serversPaused /\ UNCHANGED mqVars
        \/ /\ task' = [task EXCEPT ![s] = "gen"]
           /\ UNCHANGED <<queue, dropped, cancelQ, finished, raised, lost>>
    BY <1>5 DEF TaskReachesServer, TaskCancelled, mqVars
  <2> QED BY <1>1, <1>2, <1>3, <1>4, <2>1
<1>6. CASE TaskGenerated(s)
  <2>1. /\ task' = [task EXCEPT ![s] = "put"]
        /\ UNCHANGED <<queue, dropped, cancelQ, finished, raised, lost>>
    BY <1>6 DEF TaskGenerated, mqVars
  <2> QED BY <1>1, <1>2, <1>3, <2>1
<1>7. CASE TaskPuts(s)
  <2>1. /\ task' = [task EXCEPT ![s] = "none"] /\ finished' = finished + 1 /\ put_sample(s)
        /\ UNCHANGED <<cancelQ, raised, lost>>
    BY <1>7 DEF TaskPuts
  <2> QED BY <1>1, <1>2, <1>3, <2>1
<1>8. CASE TaskRaises(s)
  <2>1. /\ task' = [task EXCEPT ![s] = "none"] /\ finished' = finished + 1 /\ raised' = TRUE
        /\ lost' = lost \cup {s} /\ UNCHANGED <<queue, dropped, cancelQ>>
    BY <1>8 DEF TaskRaises, mqVars
  <2> QED BY <1>1, <1>2, <1>3, <2>1
<1> QED BY <1>5, <1>6, <1>7, <1>8 DEF Task, _process_single_sample_streaming

\* A queue with room takes what it is given.
LEMMA PutFits ==
  ASSUME TypeOK, NEW x \in Samples \cup {Finish}, put_sample(x), Len(queue) < MaxRequired
  PROVE  /\ queue' = Append(queue, x) /\ dropped' = dropped
         /\ Len(queue') = Len(queue) + 1 /\ Len(queue) \in Nat
         /\ ToSet(queue') = ToSet(queue) \cup {x}
         /\ queue'[Len(queue')] = x
<1>1. queue \in Seq(Samples \cup {Finish}) /\ Len(queue) \in Nat /\ MaxQueueSize \in Nat
  BY Sizes DEF TypeOK
<1>2. queue' = Append(queue, x) /\ dropped' = dropped
  BY <1>1 DEF put_sample, MaxRequired
<1>3. Len(queue') = Len(queue) + 1 /\ ToSet(queue') = ToSet(queue) \cup {x}
  BY <1>1, <1>2, SetOfAppend
<1>4. queue'[Len(queue) + 1] = x
  BY <1>1, <1>2
<1> QED BY <1>1, <1>2, <1>3, <1>4

\* While a task is left there is room for its sample; none is left during a
\* synchronisation, so none is interrupted.
LEMMA SyncTask ==
  ASSUME BaseInv, BaseInv', SyncInv, QueueInv', NEW s \in Samples, Task(s)
  PROVE  SyncInv'
<1>1. UNCHANGED TaskAside /\ s \in Live /\ FlowInv /\ FlowInv' /\ TypeOK
  BY TaskMoves DEF BaseInv, FlowInv, TypeInv
<1>2. Drawn' = Drawn /\ Round' = Round /\ Mark' = Mark /\ Syncing' = Syncing /\ Uncounted' = Uncounted
      /\ InHand' = InHand /\ InHands' = InHands /\ InBatch' = InBatch
  BY <1>1 DEF TaskAside, Drawn, Round, Mark, EndSites, DoneMark, Syncing, Uncounted, InHand, InHands,
              InBatch, Samples
<1>3. /\ Cardinality(Ready) \in Nat /\ Cardinality(Ready') \in Nat /\ Cardinality(Live) \in Nat
      /\ IsFiniteSet(Live) /\ IsFiniteSet(Ready)
      /\ Len(cancelQ) \in Nat /\ InHands \in {0, 1} /\ Waits \in Nat
      /\ Counted \in Nat /\ Counted' \in Nat /\ Mark \in {0, 1} /\ Raise \in {0, 1} /\ Round \in Nat
      /\ staleness \in Nat /\ MaxRequired \in Nat \ {0} /\ finished \in Nat
  <2>1. finished \in Nat
    BY <1>1 DEF TypeOK
  <2>2. /\ Cardinality(Ready) \in Nat /\ Cardinality(Ready') \in Nat /\ Cardinality(Live) \in Nat
        /\ IsFiniteSet(Live) /\ IsFiniteSet(Ready)
        /\ Len(cancelQ) \in Nat /\ InHands \in {0, 1} /\ Waits \in Nat
    BY <1>1, Sets, SetsNext DEF FlowInv, TypeInv
  <2> QED BY <1>1, <2>1, <2>2, Numbers
<1>4. Cardinality(Live \ {s}) = Cardinality(Live) - 1 /\ Cardinality(Live) > 0 /\ Live # {}
  <2>1. Cardinality(Live \ {s}) = Cardinality(Live) - 1 /\ Cardinality(Live \ {s}) \in Nat
    BY <1>1, <1>3, FS_RemoveElement, FS_CardinalityType
  <2> QED BY <1>1, <1>3, <2>1
<1>5. lost = {} => ~ending /\ pc \notin {"finished", "ended"}
  BY <1>1 DEF SyncInv, WholeInv, EndInv
<1>6. ~ending => ~Syncing /\ sync = "idle" /\ ~serversPaused
  <2>1. ~ending => ~Syncing
    BY <1>1, <1>4, Emptied DEF SyncInv, StillInv
  <2> QED BY <2>1 DEF SyncInv, PhaseInv, Syncing, Copy
<1>7. Len(queue) < MaxRequired
  <2>1. Cardinality(Ready) + Cardinality(Live) <= Counted
    BY <1>3 DEF Counted, Waits
  <2>2. CASE ~ending
    <3>1. staleness <= MaxRequired /\ Counted + Mark + Raise <= staleness
      BY <2>2, InRound
    <3>2. Len(queue) = Cardinality(Ready) + (IF pc = "ended" THEN 1 ELSE 0)
      BY <2>2 DEF SyncInv, EndInv
    <3>3. CASE pc = "ended"
      <4>1. Mark = 1 /\ Len(queue) = Cardinality(Ready) + 1
        BY <3>2, <3>3 DEF Mark, EndSites
      <4> QED BY <1>3, <1>4, <2>1, <3>1, <4>1
    <3>4. CASE pc # "ended"
      <4>1. Len(queue) = Cardinality(Ready)
        BY <1>3, <3>2, <3>4
      <4> QED BY <1>3, <1>4, <2>1, <3>1, <4>1
    <3> QED BY <3>3, <3>4
  <2>3. CASE ending
    <3>1. Len(queue) = Cardinality(Ready) /\ Counted <= MaxRequired
      BY <1>3, <2>3 DEF SyncInv, EndInv
    <3> QED BY <1>3, <1>4, <2>1, <3>1
  <2> QED BY <2>2, <2>3
<1>8. CASE Live' = Live /\ UNCHANGED <<queue, dropped, cancelQ, finished, raised, lost>>
  <2>1. UNCHANGED Places /\ UNCHANGED Turns
    BY <1>1, <1>8 DEF TaskAside, Places, Turns
  <2> QED BY <1>2, <1>8, <2>1, SyncAside
\* What the other three have in common.
<1>9. ASSUME Live' = Live \ {s}, finished' = finished + 1, dropped' = dropped,
             Counted' = Counted \/ (Counted' = Counted - 1 /\ Raise' = 1),
             Counted' = Counted => raised' = raised, raised' => lost' # {}, lost \subseteq lost',
             ~ending => cancelQ' = cancelQ,
             Len(queue') - Cardinality(Ready') = Len(queue) - Cardinality(Ready),
             Len(queue) \in Nat, Len(queue') \in Nat,
             Finish \in ToSet(queue') <=> Finish \in ToSet(queue),
             lost' = {} => UnderWay' = UnderWay
      PROVE  SyncInv'
  <2>1. Cardinality(Live') = Cardinality(Live) - 1
    BY <1>4, <1>9
  <2>2. Active' = Active
    BY <1>3, <1>9, <2>1 DEF Active
  <2>3. EndInv'
    <3>1. Counted' <= Counted
      BY <1>3, <1>9
    <3>2. Len(queue') = Cardinality(Ready') + (IF pc' = "ended" /\ ~ending' THEN 1 ELSE 0)
      <4>1. pc' = pc /\ ending' = ending
        BY <1>1 DEF TaskAside
      <4>2. CASE pc = "ended" /\ ~ending
        <5>1. Len(queue) = Cardinality(Ready) + 1
          BY <4>2 DEF SyncInv, EndInv
        <5>2. Len(queue') = Cardinality(Ready') + 1
          BY <1>3, <1>9, <5>1
        <5> QED BY <4>1, <4>2, <5>2
      <4>3. CASE ~(pc = "ended" /\ ~ending)
        <5>1. Len(queue) = Cardinality(Ready)
          BY <1>3, <4>3 DEF SyncInv, EndInv
        <5>2. Len(queue') = Cardinality(Ready')
          BY <1>3, <1>9, <5>1
        <5> QED BY <1>3, <4>1, <4>3, <5>2
      <4> QED BY <4>2, <4>3
    <3>3. ending => Counted' <= MaxRequired
      BY <1>3, <3>1 DEF SyncInv, EndInv
    <3> QED BY <1>1, <1>9, <3>2, <3>3 DEF TaskAside, SyncInv, EndInv, Finish, MaxRequired
  <2>4. WholeInv'
    <3> SUFFICES ASSUME lost' = {} PROVE WholeInv'
      BY DEF WholeInv
    <3>1. lost = {} /\ ~ending /\ pc \notin {"finished", "ended"} /\ UnderWay' = UnderWay
      BY <1>5, <1>9
    <3> QED BY <1>1, <1>2, <3>1 DEF TaskAside, SyncInv, WholeInv, Samples, DoneMark
  <2>5. CASE ending
    <3>1. ending'
      BY <1>1, <2>5 DEF TaskAside
    <3> QED BY <2>3, <2>4, <3>1, SyncEnded
  <2>6. CASE ~ending
    <3>1. PhaseInv' /\ StillInv'
      BY <1>1, <1>2, <1>6, <2>6 DEF TaskAside, SyncInv, PhaseInv, StillInv, Nothing, Copy
    <3>2. CounterInv'
      <4>1. ~Uncounted /\ cancelQ = <<>> /\ Counted + Mark + Round + Raise <= staleness
            /\ staleness <= MaxRequired
        BY <1>6, <2>6 DEF Syncing, Uncounted, SyncInv, CounterInv
      <4>2. Counted' + Mark + Round + Raise' <= staleness
        <5>1. CASE Counted' = Counted
          <6>1. Raise' = Raise
            BY <1>9, <5>1 DEF Raise
          <6> QED BY <4>1, <5>1, <6>1
        <5>2. CASE Counted' = Counted - 1 /\ Raise' = 1
          BY <1>3, <4>1, <5>2
        <5> QED BY <1>9, <5>1, <5>2
      <4> QED BY <1>1, <1>2, <1>9, <2>6, <4>1, <4>2 DEF TaskAside, CounterInv, MaxRequired
    <3>3. AlarmInv'
      BY <1>1, <1>2 DEF TaskAside, SyncInv, AlarmInv, Behind, MaxRequired, Nothing
    <3>4. FirstInv'
      BY <1>1, <2>2 DEF TaskAside, SyncInv, FirstInv, Holds, Nothing
    <3> QED BY <2>3, <2>4, <3>1, <3>2, <3>3, <3>4 DEF SyncInv
  <2> QED BY <2>5, <2>6
<1>10. CASE /\ Live' = Live \ {s} /\ finished' = finished + 1
            /\ serversPaused /\ cancelQ' = Append(cancelQ, s) /\ UNCHANGED <<queue, dropped, raised, lost>>
  <2>1. ending /\ lost # {}
    BY <1>5, <1>6, <1>10
  <2>2. Ready' = Ready /\ Len(cancelQ') = Len(cancelQ) + 1 /\ Cardinality(Live') = Cardinality(Live) - 1
    <3>1. cancelQ \in Seq(Samples)
      BY <1>1 DEF TypeOK
    <3> QED BY <1>4, <1>10, <3>1, SetOfAppend DEF Ready
  <2>3. Counted' = Counted
    BY <1>2, <1>3, <1>10, <2>2 DEF Counted, Waits
  <2>4. raised => lost # {}
    BY DEF SyncInv, EndInv
  <2>5. Len(queue) \in Nat
    BY <1>1 DEF TypeOK
  <2> QED BY <1>3, <1>9, <1>10, <2>1, <2>2, <2>3, <2>4, <2>5
<1>11. CASE /\ Live' = Live \ {s} /\ finished' = finished + 1
            /\ put_sample(s) /\ UNCHANGED <<cancelQ, raised, lost>>
  <2>1. /\ dropped' = dropped /\ Len(queue') = Len(queue) + 1 /\ Len(queue) \in Nat
        /\ ToSet(queue') = ToSet(queue) \cup {s}
    BY <1>1, <1>7, <1>11, PutFits
  <2>2. s # Finish /\ s \notin Ready
    BY <1>1 DEF Finish, Samples, BaseInv, PlaceInv, OnceInv, Apart
  <2>3. Ready' = Ready \cup {s} /\ Cancelled' = Cancelled
    BY <1>11, <2>1, <2>2 DEF Ready, Finish, Cancelled
  <2>4. Cardinality(Ready') = Cardinality(Ready) + 1
    BY <1>3, <2>2, <2>3, FS_AddElement
  <2>5. Cardinality(Live') = Cardinality(Live) - 1
    BY <1>4, <1>11
  <2>6. Counted' = Counted
    BY <1>2, <1>3, <1>11, <2>4, <2>5 DEF Counted, Waits
  <2>7. UnderWay' = UnderWay
    BY <1>1, <1>2, <1>11, <2>3 DEF UnderWay, Outstanding, Cancelled
  <2>8. raised => lost # {}
    BY DEF SyncInv, EndInv
  <2>9. Len(queue') - Cardinality(Ready') = Len(queue) - Cardinality(Ready)
    BY <1>3, <2>1, <2>4
  <2>10. (Finish \in ToSet(queue') <=> Finish \in ToSet(queue)) /\ Len(queue') \in Nat
    BY <2>1, <2>2
  <2> QED BY <1>9, <1>11, <2>1, <2>6, <2>7, <2>8, <2>9, <2>10
<1>12. CASE /\ Live' = Live \ {s} /\ finished' = finished + 1
            /\ raised' = TRUE /\ lost' = lost \cup {s} /\ UNCHANGED <<queue, dropped, cancelQ>>
  <2>1. Ready' = Ready /\ Cardinality(Live') = Cardinality(Live) - 1
    BY <1>4, <1>12 DEF Ready
  <2>2. Counted' = Counted - 1 /\ Raise' = 1
    <3>1. Waits' = Waits - 1
      BY <1>3, <1>4, <1>12, <2>1 DEF Waits
    <3>2. Counted = Cardinality(Ready) + Waits + InHands /\ Counted' = Cardinality(Ready) + Waits' + InHands
      BY <1>2, <2>1 DEF Counted
    <3>3. Cardinality(Ready) \in Nat /\ Waits \in Nat /\ InHands \in Nat
      BY <1>3
    <3>4. Raise' = 1
      BY <1>12 DEF Raise
    <3> QED BY <3>1, <3>2, <3>3, <3>4
  <2>3. Len(queue) \in Nat
    BY <1>1 DEF TypeOK
  <2>4. Counted' # Counted /\ lost' # {} /\ lost \subseteq lost'
    BY <1>3, <1>12, <2>2
  <2> QED BY <1>3, <1>9, <1>12, <2>1, <2>2, <2>3, <2>4
<1> QED BY <1>8, <1>10, <1>11, <1>12, TaskMoves DEF BaseInv

\* There is room for the end mark, which the counter counts.
LEMMA SyncMain ==
  ASSUME BaseInv, BaseInv', SyncInv, QueueInv', Main
  PROVE  SyncInv'
<1>1. /\ pc \in {"finished", "failed"} /\ pc' = "ended" /\ put_sample(Finish)
      /\ FlowInv /\ FlowInv' /\ TypeOK
      /\ UNCHANGED <<fed, pending, cancelQ, hand, task, finished, raised, mon, lock, paused, trigger,
                     staleness, serversPaused, lost, sync, counted, tpc, batch, trained, step, ending>>
  BY DEF Main, SendFinish, Own, trainVars, BaseInv, FlowInv, TypeInv
<1>2. ~ending /\ ~Syncing /\ sync = "idle" /\ Mark = 1 /\ Mark' = 1
  BY <1>1 DEF SyncInv, EndInv, StillInv, Idle, Syncing, Mark, EndSites
<1>3. Len(queue) = Cardinality(Ready) /\ Len(queue) < MaxRequired /\ Finish \notin ToSet(queue)
  <2>1. /\ Counted \in Nat /\ Raise \in {0, 1} /\ staleness \in Nat /\ MaxRequired \in Nat
        /\ Cardinality(Ready) \in Nat /\ Cardinality(Ready) <= Counted
    BY <1>1, Numbers
  <2>2. staleness <= MaxRequired /\ Counted + Mark + Raise <= staleness
    BY <1>2, InRound
  <2>3. Len(queue) = Cardinality(Ready) /\ Finish \notin ToSet(queue)
    BY <1>1, <2>1 DEF SyncInv, EndInv
  <2> QED BY <1>2, <2>1, <2>2, <2>3
<1>4. /\ dropped' = dropped /\ Len(queue') = Len(queue) + 1 /\ ToSet(queue') = ToSet(queue) \cup {Finish}
      /\ queue'[Len(queue')] = Finish
  BY <1>1, <1>3, PutFits
<1>5. /\ Ready' = Ready /\ Live' = Live /\ Counted' = Counted /\ UnderWay' = UnderWay /\ Drawn' = Drawn
      /\ Round' = Round /\ Samples' = Samples /\ DoneMark' = DoneMark
  <2>1. Ready' = Ready
    BY <1>4 DEF Ready
  <2> QED BY <1>1, <2>1 DEF Live, Counted, Waits, InHands, UnderWay, Outstanding, InHand, InBatch, Drawn,
                           Round, Samples, DoneMark
<1>6. PhaseInv' /\ StillInv'
  BY <1>1, <1>2 DEF SyncInv, PhaseInv, StillInv, Syncing, Copy
<1>7. CounterInv' /\ AlarmInv' /\ FirstInv'
  BY <1>1, <1>2, <1>5 DEF SyncInv, CounterInv, AlarmInv, FirstInv, Uncounted, Raise, Behind, MaxRequired
<1>8. EndInv'
  <2>1. Len(queue') = Cardinality(Ready') + 1
    BY <1>3, <1>4, <1>5
  <2> QED BY <1>1, <1>2, <1>4, <1>5, <2>1 DEF SyncInv, EndInv, Finish
<1>9. WholeInv'
  BY <1>1, <1>2, <1>4, <1>5 DEF SyncInv, WholeInv, EndInv, EndSites, Finish
<1> QED BY <1>6, <1>7, <1>8, <1>9 DEF SyncInv

LEMMA SyncMonitor ==
  ASSUME BaseInv, BaseInv', SyncInv, QueueInv', Monitor
  PROVE  SyncInv'
<1>1. /\ FlowInv /\ FlowInv' /\ TypeOK
      /\ UNCHANGED Places /\ UNCHANGED <<fed, pending, task, finished, raised, staleness, trigger,
                                        serversPaused, sync, counted, tpc>>
      /\ pc' = pc \/ (pc = "parked" /\ pc' = "wait") \/ (pc = "submitParked" /\ pc' = "submit")
  BY DEF Monitor, _async_monitor_loop, MonitorCheck, MonitorResume, NotifyAndRelease, Own, mqVars,
         trainVars, Places, BaseInv, FlowInv, TypeInv
<1>2. /\ Counted' = Counted /\ Mark' = Mark /\ Round' = Round /\ Active' = Active
      /\ WholeInv' /\ EndInv'
      /\ Syncing' = Syncing /\ Uncounted' = Uncounted /\ Raise' = Raise
  <2>1. Live' = Live /\ Drawn' = Drawn /\ Syncing' = Syncing /\ Uncounted' = Uncounted /\ Raise' = Raise
    BY <1>1 DEF Live, Drawn, Syncing, Uncounted, Raise, Samples
  <2> QED BY <1>1, <2>1, SamplesStay DEF SyncInv, EndInv
<1>3. CASE ending
  <2>1. ending'
    BY <1>1, <1>3 DEF Places
  <2> QED BY <1>2, <2>1, SyncEnded
<1>4. CASE ~ending
  <2>1. ~Syncing /\ sync = "idle"
    <3>1. CASE MonitorResume
      BY <1>4, <3>1 DEF MonitorResume, SyncInv, StillInv, Syncing
    <3>2. CASE MonitorCheck
      <4>1. trigger /\ staleness < MaxRequired /\ staleness \in Nat /\ MaxRequired \in Nat
        <5>1. staleness \in Nat /\ MaxRequired \in Nat
          BY <1>1, Numbers
        <5> QED BY <3>2, <5>1 DEF MonitorCheck, ShouldPause
      <4>2. ~Uncounted
        BY <1>4, <4>1 DEF SyncInv, CounterInv
      <4>3. sync # "resume"
        BY <1>4, <4>1 DEF SyncInv, PhaseInv, Copy
      <4> QED BY <4>2, <4>3 DEF Uncounted, Syncing
    <3> QED BY <3>1, <3>2 DEF Monitor, _async_monitor_loop
  <2>2. PhaseInv' /\ StillInv' /\ CounterInv'
    BY <1>1, <1>2, <1>4, <2>1
       DEF SyncInv, PhaseInv, StillInv, CounterInv, Places, Nothing, Copy, MaxRequired
  <2>3. CASE MonitorCheck
    <3>1. /\ mon' = "resume" /\ lock' = Append(lock, "monitor") /\ mon = "sleep"
          /\ UNCHANGED <<pc, paused>> /\ LoopFree /\ staleness < MaxRequired
      <4>1. staleness \in Nat /\ MaxRequired \in Nat
        BY <1>1, Numbers
      <4> QED BY <2>3, <4>1 DEF MonitorCheck, ShouldPause
    <3>2. AlarmInv'
      BY <1>1, <3>1, Numbers DEF AlarmInv, MaxRequired
    <3>3. \A q : Holds(q) => Holds(q)'
      <4>1. Distinct(lock) /\ "monitor" \in Lockers /\ "monitor" \notin ToSet(lock)
        BY <3>1 DEF SyncInv, QueueInv, Lockers
      <4> QED BY <1>1, <3>1, <4>1, LockAppend
    <3>4. FirstInv'
      <4> SUFFICES ASSUME ~waited, pc \notin {"finished", "failed", "ended"} PROVE FirstInv'
        BY <1>1, <3>1 DEF FirstInv, Places
      <4>1. pc # "pause"
        BY <3>1 DEF SyncInv, FirstInv, Holds, LoopFree
      <4>2. (pc = "drain" => Holds("proc")) => (pc = "drain" => Holds("proc")')
        BY <3>3
      <4> QED BY <1>1, <1>2, <3>1, <4>1, <4>2 DEF Places, SyncInv, FirstInv, Nothing
    <3> QED BY <1>2, <2>2, <3>2, <3>4 DEF SyncInv
  <2>4. CASE MonitorResume
    <3>1. mon' = "sleep" /\ paused' = FALSE /\ Holds("monitor") /\ NotifyAndRelease
      BY <2>4 DEF MonitorResume
    <3>2. AlarmInv'
      BY <3>1 DEF AlarmInv
    <3>3. FirstInv'
      <4> SUFFICES ASSUME ~waited, pc' \notin {"finished", "failed", "ended"} PROVE FirstInv'
        BY <1>1 DEF FirstInv, Places
      <4>1. pc \notin {"pause", "drain", "parked", "submitParked"}
        <5>1. pc \notin {"finished", "failed", "ended"}
          BY <1>1
        <5> QED BY <3>1, <5>1 DEF SyncInv, FirstInv, Holds
      <4>2. pc' = pc
        BY <1>1, <4>1
      <4> QED BY <1>1, <1>2, <3>1, <4>1, <4>2 DEF Places, SyncInv, FirstInv, Nothing
    <3> QED BY <1>2, <2>2, <3>2, <3>3 DEF SyncInv
  <2> QED BY <2>3, <2>4 DEF Monitor, _async_monitor_loop
<1> QED BY <1>3, <1>4

-----------------------------------------------------------------------------
(* The trainer                                                             *)

\* After the loop of fit, a step that leaves the samples where they are.
LEMMA EndedAside ==
  ASSUME SyncInv, QueueInv', ending,
         UNCHANGED <<queue, dropped, cancelQ, hand, task, lost, ending, fed, pending, trained, pc>>,
         raised' = raised \/ raised' = FALSE, tpc' # "collect"
  PROVE  SyncInv'
<1>1. Counted' = Counted /\ Ready' = Ready /\ Live' = Live /\ Drawn' = Drawn /\ DoneMark' = DoneMark
  BY DEF Counted, Waits, Ready, Live, InHands, Drawn, Samples, DoneMark
<1>2. EndInv' /\ WholeInv'
  BY <1>1 DEF SyncInv, EndInv, WholeInv, Finish, MaxRequired
<1> QED BY <1>2, SyncEnded

TrainAside == <<dropped, rollVars, syncVars>>

LEMMA TrainerAside ==
  ASSUME UNCHANGED TrainAside
  PROVE  /\ Live' = Live /\ Cancelled' = Cancelled /\ InHand' = InHand /\ Waits' = Waits
         /\ InHands' = InHands /\ Drawn' = Drawn /\ Mark' = Mark /\ Raise' = Raise /\ Active' = Active
         /\ Samples' = Samples /\ DoneMark' = DoneMark
         /\ SyncInv => FirstInv'
         /\ SyncInv /\ ending' = ending => AlarmInv'
<1>1. /\ Live' = Live /\ Cancelled' = Cancelled /\ InHand' = InHand /\ InHands' = InHands /\ Drawn' = Drawn
      /\ Mark' = Mark /\ Raise' = Raise /\ Samples' = Samples /\ DoneMark' = DoneMark
  BY DEF TrainAside, rollVars, Live, Cancelled, InHand, InHands, Drawn, Mark, EndSites, Raise, Samples, DoneMark
<1>2. Waits' = Waits /\ Active' = Active
  BY <1>1 DEF TrainAside, rollVars, Waits, Active
<1>3. ASSUME SyncInv PROVE FirstInv'
  BY <1>2, <1>3 DEF TrainAside, rollVars, syncVars, SyncInv, FirstInv, Nothing, Holds
<1>4. ASSUME SyncInv, ending' = ending PROVE AlarmInv'
  BY <1>1, <1>4 DEF TrainAside, rollVars, SyncInv, AlarmInv, Nothing, Behind, MaxRequired
<1> QED BY <1>1, <1>2, <1>3, <1>4

\* The trainer gets a sample: none is there during a synchronisation.
LEMMA SyncCollect ==
  ASSUME BaseInv, BaseInv', SyncInv, QueueInv', UNCHANGED TrainAside, UNCHANGED <<trained, step>>,
         tpc = "collect", UNCHANGED <<tpc, ending>>, queue # <<>>, queue' = Tail(queue),
         NEW x \in Samples, x = Head(queue), batch' = Append(batch, x)
  PROVE  SyncInv'
<1>1. FlowInv /\ FlowInv' /\ TypeOK /\ ~ending /\ x # Finish
  BY DEF BaseInv, FlowInv, TypeInv, SyncInv, EndInv, Samples, Finish
<1>2. /\ Len(queue') = Len(queue) - 1 /\ Len(queue) \in Nat \ {0}
      /\ ToSet(queue) = ToSet(queue') \cup {x} /\ x \notin ToSet(queue')
      /\ \A i \in 1 .. (Len(queue) - 1) : queue'[i] = queue[i + 1]
  <2>1. queue \in Seq(Samples \cup {Finish}) /\ Once(queue)
    BY <1>1 DEF TypeOK, BaseInv, PlaceInv, OnceInv
  <2>2. \A i \in 1 .. (Len(queue) - 1) : Tail(queue)[i] = queue[i + 1]
    BY <2>1
  <2> QED BY <1>1, <2>1, <2>2, SetOfTail
<1>3. Len(batch') = Len(batch) + 1 /\ Len(batch) \in Nat /\ InBatch' = InBatch \cup {x}
  <2>1. batch \in Seq(Samples)
    BY <1>1 DEF TypeOK
  <2> QED BY <2>1, SetOfAppend DEF InBatch
<1>4. Ready = Ready' \cup {x} /\ x \notin Ready' /\ x \in Ready
  BY <1>1, <1>2 DEF Ready, Finish
<1>5. /\ Cardinality(Ready) \in Nat /\ Cardinality(Ready') \in Nat /\ IsFiniteSet(Ready')
      /\ Counted \in Nat /\ Counted' \in Nat /\ Waits \in Nat /\ InHands \in {0, 1}
      /\ Mark \in {0, 1} /\ Raise \in {0, 1} /\ Round \in Nat /\ staleness \in Nat /\ MaxRequired \in Nat
  <2>1. /\ Cardinality(Ready) \in Nat /\ Cardinality(Ready') \in Nat /\ IsFiniteSet(Ready')
        /\ Waits \in Nat /\ InHands \in {0, 1}
    BY <1>1, Sets, SetsNext DEF FlowInv, TypeInv
  <2> QED BY <1>1, <2>1, Numbers
<1>6. Cardinality(Ready) = Cardinality(Ready') + 1
  <2>1. Cardinality(Ready' \cup {x}) = Cardinality(Ready') + 1
    BY <1>4, <1>5, FS_AddElement
  <2> QED BY <1>4, <2>1
<1>7. Counted' = Counted - 1 /\ Counted > 0
  <2>1. Waits' = Waits /\ InHands' = InHands
    BY TrainerAside
  <2>2. /\ Counted = Cardinality(Ready) + Waits + InHands
        /\ Counted' = Cardinality(Ready') + Waits + InHands
    BY <2>1 DEF Counted
  <2>3. Cardinality(Ready') \in Nat /\ Waits \in Nat /\ InHands \in Nat
    BY <1>5
  <2> QED BY <1>6, <2>2, <2>3
<1>8. Round' = Round + 1
  <2> DEFINE before == (step - 1) * Required
  <2>1. before \in Nat
    <3>1. step \in Nat \ {0} /\ Required \in Nat
      BY <1>1, Sizes DEF TypeOK
    <3> QED BY <3>1
  <2>2. Round' = before + Len(batch') /\ Round = before + Len(batch)
    BY DEF Round
  <2> HIDE DEF before
  <2> QED BY <1>3, <2>1, <2>2
<1>9. ~Syncing /\ ~Uncounted /\ sync = "idle"
  <2>1. Counted # 0
    BY <1>5, <1>7
  <2>2. ~Syncing
    BY <1>1, <2>1 DEF SyncInv, StillInv
  <2> QED BY <2>2 DEF Syncing, Uncounted
<1>10. sync' = sync /\ ~Syncing' /\ ~Uncounted'
  BY <1>9 DEF TrainAside, syncVars, Syncing, Uncounted
<1>11. PhaseInv' /\ StillInv'
  BY <1>1, <1>9, <1>10 DEF TrainAside, rollVars, SyncInv, PhaseInv, StillInv, Copy, Nothing
<1>12. CounterInv'
  <2>1. cancelQ = <<>> /\ Counted + Mark + Round + Raise <= staleness /\ staleness <= MaxRequired
    BY <1>1, <1>9 DEF SyncInv, CounterInv
  <2>2. Mark' = Mark /\ Raise' = Raise
    BY TrainerAside
  <2>3. (Counted - 1) + Mark + (Round + 1) + Raise <= staleness
    BY <1>5, <2>1
  <2> QED BY <1>7, <1>8, <1>10, <2>1, <2>2, <2>3 DEF TrainAside, rollVars, CounterInv, MaxRequired
<1>13. EndInv'
  <2>1. Len(queue') = Cardinality(Ready') + (IF pc = "ended" THEN 1 ELSE 0)
    <3>1. CASE pc = "ended"
      <4>1. Len(queue) = Cardinality(Ready) + 1
        BY <1>1, <3>1 DEF SyncInv, EndInv
      <4> QED BY <1>2, <1>5, <1>6, <3>1, <4>1
    <3>2. CASE pc # "ended"
      <4>1. Len(queue) = Cardinality(Ready)
        BY <1>5, <3>2 DEF SyncInv, EndInv
      <4> QED BY <1>2, <1>5, <1>6, <3>2, <4>1
    <3> QED BY <3>1, <3>2
  <2> QED BY <1>1, <1>2, <2>1 DEF TrainAside, rollVars, SyncInv, EndInv, Finish
<1>14. WholeInv'
  <2>1. UnderWay' = UnderWay
    BY <1>3, <1>4, TrainerAside DEF UnderWay, Outstanding, Cancelled
  <2>2. ASSUME lost = {}, pc = "ended" PROVE queue'[Len(queue')] = Finish
    <3>1. Finish \in ToSet(queue') /\ queue[Len(queue)] = Finish
      BY <1>1, <1>2, <2>2 DEF SyncInv, EndInv, WholeInv
    <3>2. Len(queue') # 0
      <4>1. queue' \in Seq(Samples \cup {Finish})
        BY <1>1 DEF FlowInv, TypeInv, TypeOK, Samples, Finish
      <4>2. DOMAIN queue' = 1 .. Len(queue')
        BY <4>1
      <4> QED BY <3>1, <4>2 DEF ToSet
    <3>3. Len(queue') \in 1 .. (Len(queue) - 1) /\ Len(queue') + 1 = Len(queue)
      BY <1>2, <3>2
    <3> QED BY <1>2, <3>1, <3>3
  <2>3. Live' = Live /\ Drawn' = Drawn /\ Samples' = Samples /\ DoneMark' = DoneMark
    BY TrainerAside
  <2> QED BY <1>1, <2>1, <2>2, <2>3 DEF TrainAside, rollVars, SyncInv, WholeInv, Finish, Nothing
<1> QED BY <1>11, <1>12, <1>13, <1>14, TrainerAside DEF SyncInv

\* The trainer gets the end mark: it is the last entry, so that unless a
\* generation raised, what was not used is in the batch it discards.
LEMMA SyncStop ==
  ASSUME BaseInv, BaseInv', SyncInv, QueueInv', UNCHANGED TrainAside, UNCHANGED <<trained, step>>,
         tpc = "collect", Len(batch) < Required, queue # <<>>, queue' = Tail(queue),
         Head(queue) = Finish, ending' = TRUE, tpc' = "last"
  PROVE  SyncInv'
<1>1. FlowInv /\ FlowInv' /\ TypeOK /\ ~ending
  BY DEF BaseInv, FlowInv, TypeInv, SyncInv, EndInv
<1>2. /\ Len(queue') = Len(queue) - 1 /\ Len(queue) \in Nat \ {0} /\ ToSet(queue) = ToSet(queue') \cup {Finish}
      /\ queue \in Seq(Samples \cup {Finish}) /\ queue' \in Seq(Samples \cup {Finish})
      /\ \A i \in 1 .. (Len(queue) - 1) : queue'[i] = queue[i + 1] /\ i \in DOMAIN queue'
  <2>1. queue \in Seq(Samples \cup {Finish})
    BY <1>1 DEF TypeOK
  <2>2. \A i \in 1 .. (Len(queue) - 1) : Tail(queue)[i] = queue[i + 1] /\ i \in DOMAIN Tail(queue)
    BY <2>1
  <2> QED BY <2>1, <2>2, SetOfTail
<1>3. /\ Cardinality(Ready) \in Nat /\ IsFiniteSet(Ready)
      /\ Counted \in Nat /\ Mark \in {0, 1} /\ Raise \in {0, 1} /\ staleness \in Nat /\ MaxRequired \in Nat
  BY <1>1, Numbers, Sets
<1>4. pc = "ended" /\ Len(queue) = Cardinality(Ready) + 1 /\ Len(queue') = Cardinality(Ready)
  <2>1. pc = "ended"
    BY <1>2 DEF SyncInv, EndInv
  <2>2. Len(queue) = Cardinality(Ready) + 1
    BY <1>1, <2>1 DEF SyncInv, EndInv
  <2> QED BY <1>2, <1>3, <2>1, <2>2
<1>5. Finish \notin ToSet(queue') /\ Ready' = Ready
  <2>1. SUFFICES ASSUME Finish \in ToSet(queue') PROVE FALSE
    BY <1>2 DEF Ready
  <2>2. ToSet(queue') = Ready \cup {Finish} /\ Finish \notin Ready
    BY <1>2, <2>1 DEF Ready
  <2>3. Cardinality(ToSet(queue')) = Cardinality(Ready) + 1
    BY <1>3, <2>2, FS_AddElement
  <2>4. Cardinality(ToSet(queue')) <= Len(queue')
    BY <1>2, SetOfSize
  <2> QED BY <1>3, <1>4, <2>3, <2>4
<1>6. /\ Counted' = Counted /\ Counted <= MaxRequired
  <2>1. staleness <= MaxRequired /\ Counted + Mark + Raise <= staleness
    BY <1>1, InRound
  <2>2. Counted' = Counted
    BY <1>5, TrainerAside DEF Counted
  <2> QED BY <1>3, <2>1, <2>2
<1>7. EndInv'
  BY <1>1, <1>4, <1>5, <1>6 DEF TrainAside, rollVars, SyncInv, EndInv, Finish, MaxRequired
<1>8. ASSUME lost = {} PROVE Total - Len(trained) < Required
  <2>1. queue[Len(queue)] = Finish /\ Live = {} /\ hand = Nothing /\ cancelQ = <<>> /\ Drawn = DoneMark
    BY <1>1, <1>4, <1>8 DEF SyncInv, WholeInv, CounterInv, EndSites
  <2>2. Len(queue) = 1
    <3>1. SUFFICES ASSUME Len(queue) # 1 PROVE FALSE
      OBVIOUS
    <3>2. Len(queue) - 1 \in 1 .. (Len(queue) - 1) /\ (Len(queue) - 1) + 1 = Len(queue)
      BY <1>2, <3>1
    <3>3. Finish \in ToSet(queue')
      BY <1>2, <2>1, <3>2 DEF ToSet
    <3> QED BY <1>5, <3>3
  <2>3. UnderWay = InBatch
    <3>1. Ready = {}
      <4>1. Cardinality(Ready) \in Nat /\ 1 = Cardinality(Ready) + 1
        BY <1>3, <1>4, <2>2
      <4>2. Cardinality(Ready) = 0
        BY <4>1
      <4> QED BY <1>3, <4>2, FS_EmptySet
    <3>2. ToSet(cancelQ) = {}
      BY <2>1 DEF ToSet
    <3> QED BY <2>1, <3>1, <3>2 DEF UnderWay, Outstanding, InHand, Samples, Nothing
  <2>4. Samples \subseteq ToSet(batch) \cup ToSet(trained)
    <3>1. \A s \in Samples : s <= Drawn
      BY <2>1, Sizes DEF Samples, DoneMark
    <3> QED BY <1>1, <1>8, <2>3, <3>1 DEF SyncInv, WholeInv, InBatch
  <2>5. /\ batch \in Seq(Samples) /\ trained \in Seq(Samples)
        /\ Len(batch) \in Nat /\ Len(trained) \in Nat
        /\ Total \in Nat /\ Required \in Nat
    BY <1>1, Sizes DEF TypeOK
  <2> DEFINE B == ToSet(batch)
             T == ToSet(trained)
  <2>6. /\ IsFiniteSet(B) /\ IsFiniteSet(T) /\ Cardinality(B) <= Len(batch)
        /\ Cardinality(T) <= Len(trained)
    BY <2>5, SetOfSize
  <2>7. Cardinality(Samples) = Total
    BY <2>5, FS_Interval DEF Samples
  <2> HIDE DEF B, T
  <2>8. /\ IsFiniteSet(B \cup T) /\ Cardinality(B \cup T) \in Nat
        /\ Cardinality(B \cup T) <= Cardinality(B) + Cardinality(T)
        /\ Cardinality(B) \in Nat /\ Cardinality(T) \in Nat
    BY <2>6, UnionAtMost, FS_CardinalityType
  <2>9. Cardinality(Samples) <= Cardinality(B \cup T)
    BY <2>4, <2>8, FS_Subset DEF B, T
  <2> QED BY <2>5, <2>6, <2>7, <2>8, <2>9
<1>9. WholeInv'
  <2>1. Live' = Live /\ Drawn' = Drawn /\ DoneMark' = DoneMark
    BY TrainerAside
  <2> QED BY <1>4, <1>8, <2>1 DEF TrainAside, rollVars, SyncInv, WholeInv, Nothing
<1> QED BY <1>7, <1>9, SyncEnded

\* A full batch is used.  With the last of a round the counter's limit is
\* spent: nothing else is counted, and the processor has nothing in its hand.
LEMMA SyncTrain ==
  ASSUME StalePercent = 0, BaseInv, BaseInv', SyncInv, QueueInv', Train
  PROVE  SyncInv'
<1>1. /\ FlowInv /\ FlowInv' /\ TypeOK
      /\ tpc = "collect" /\ Len(batch) = Required /\ trained' = trained \o batch /\ batch' = <<>>
      /\ UNCHANGED TrainAside /\ UNCHANGED <<queue, dropped, ending>>
      /\ \/ step < Trigger /\ step' = step + 1 /\ tpc' = "collect"
         \/ ~(step < Trigger) /\ step' = 1 /\ tpc' = "valid"
  BY DEF BaseInv, FlowInv, TypeInv, Train, AfterStep, mqVars, TrainAside
<1>2. ~ending /\ ~Syncing /\ ~Uncounted /\ sync = "idle"
  <2>1. batch # <<>>
    <3>1. Len(<<>>) = 0 /\ Required # 0
      BY Sizes
    <3> QED BY <1>1, <3>1
  <2> QED BY <1>1, <2>1 DEF SyncInv, EndInv, StillInv, Syncing, Uncounted
<1>3. /\ Required \in Nat \ {0} /\ Trigger \in Nat \ {0} /\ step \in 1 .. Trigger
      /\ Counted \in Nat /\ Mark \in {0, 1} /\ Raise \in {0, 1} /\ Round \in Nat
      /\ staleness \in Nat /\ MaxRequired \in Nat
  <2>1. Required \in Nat \ {0} /\ Trigger \in Nat \ {0} /\ step \in 1 .. Trigger
    BY <1>1, Sizes DEF TypeOK
  <2> QED BY <1>1, <2>1, Numbers
<1>4. /\ Counted' = Counted /\ Ready' = Ready /\ Live' = Live /\ Drawn' = Drawn /\ Mark' = Mark /\ Raise' = Raise
      /\ Samples' = Samples /\ DoneMark' = DoneMark /\ FirstInv' /\ AlarmInv'
  <2>1. Ready' = Ready
    BY <1>1 DEF Ready
  <2> QED BY <1>1, <2>1, TrainerAside DEF Counted
<1>5. Round = step * Required
  <2>1. step \in Nat /\ Round = (step - 1) * Required + Required
    BY <1>1, <1>3 DEF Round
  <2> QED BY <1>3, <2>1
<1>6. cancelQ = <<>> /\ Counted + Mark + Round + Raise <= staleness /\ staleness <= MaxRequired
  BY <1>2 DEF SyncInv, CounterInv
<1>7. EndInv'
  BY <1>1, <1>2, <1>4 DEF TrainAside, rollVars, SyncInv, EndInv, Finish, MaxRequired
<1>8. WholeInv'
  <2>1. InBatch' = {} /\ ToSet(trained') = ToSet(trained) \cup InBatch
    <3>1. ToSet(<<>>) = {}
      BY DEF ToSet
    <3>2. trained \in Seq(Samples) /\ batch \in Seq(Samples)
      BY <1>1 DEF TypeOK
    <3>3. ToSet(trained') = ToSet(trained) \cup InBatch
      BY <1>1, <3>2, SetOfConcat DEF InBatch
    <3> QED BY <1>1, <3>1, <3>3 DEF InBatch
  <2>2. UnderWay \subseteq UnderWay' \cup InBatch
    BY <1>1, <1>4, TrainerAside DEF UnderWay, Outstanding, Cancelled
  <2> QED BY <1>1, <1>2, <1>4, <2>1, <2>2 DEF TrainAside, rollVars, SyncInv, WholeInv, Finish, Nothing
<1>9. CASE step < Trigger
  <2>1. Round' = Round
    <3>1. step' = step + 1 /\ Len(batch') = 0
      BY <1>1, <1>9
    <3>2. Round' = step * Required
      <4>1. step \in Nat /\ step' - 1 = step /\ step * Required \in Nat
        BY <1>3, <3>1
      <4> QED BY <3>1, <4>1 DEF Round
    <3> QED BY <1>5, <3>2
  <2>2. PhaseInv' /\ StillInv' /\ CounterInv'
    BY <1>1, <1>2, <1>4, <1>6, <1>9, <2>1
       DEF TrainAside, rollVars, syncVars, SyncInv, PhaseInv, StillInv, CounterInv, Syncing, Uncounted,
           Copy, Nothing, MaxRequired
  <2> QED BY <1>4, <1>7, <1>8, <2>2 DEF SyncInv
<1>10. CASE ~(step < Trigger)
  <2>1. Round = MaxRequired
    <3>1. step = Trigger
      BY <1>3, <1>10
    <3>2. MaxRequired = Required * Trigger
      BY SyncSizes
    <3> QED BY <1>3, <1>5, <3>1, <3>2
  <2>2. Counted = 0 /\ Mark = 0 /\ Raise = 0 /\ staleness = MaxRequired
    <3>1. Mark \in Nat /\ Raise \in Nat
      BY <1>3
    <3> QED BY <1>3, <1>6, <2>1, <3>1
  <2>3. hand = Nothing /\ pc \in Idle \cup {"top"} /\ mon = "sleep" /\ ~raised
    <3>1. hand \in 0 .. DoneMark /\ hand \notin Samples /\ hand # DoneMark
      BY <1>1, <2>2, Emptied DEF TypeOK, Mark
    <3>2. hand = Nothing
      BY <3>1, Sizes DEF Samples, DoneMark, Nothing
    <3>3. pc \notin {"full", "submit", "submitParked", "admit"} \cup EndSites /\ pc # "take"
      <4>1. pc \notin EndSites
        BY <2>2 DEF Mark
      <4>2. pc # "take"
        BY <1>3, <2>2 DEF BaseInv, LimitInv
      <4>3. pc \notin {"full", "submit", "submitParked"}
        BY <1>1, <3>1 DEF FlowInv, TypeInv
      <4>4. pc # "admit"
        BY <1>1, <3>2 DEF FlowInv, TypeInv, Nothing
      <4> QED BY <4>1, <4>2, <4>3, <4>4
    <3>4. pc \in Idle \cup {"top"}
      BY <1>1, <3>3 DEF TypeOK, Idle, EndSites
    <3>5. mon = "sleep"
      BY <1>1, <1>2, <2>2, <3>2 DEF SyncInv, AlarmInv, TypeOK
    <3>6. ~raised
      BY <2>2 DEF Raise
    <3> QED BY <3>2, <3>4, <3>5, <3>6
  <2>4. PhaseInv' /\ StillInv' /\ CounterInv'
    <3>1. Uncounted'
      BY <1>1, <1>10 DEF Uncounted
    <3> QED BY <1>1, <1>2, <1>4, <1>6, <1>10, <2>2, <2>3, <3>1
            DEF TrainAside, rollVars, syncVars, SyncInv, PhaseInv, StillInv, CounterInv, Copy, Nothing,
                MaxRequired
  <2> QED BY <1>4, <1>7, <1>8, <2>4 DEF SyncInv
<1> QED BY <1>9, <1>10

LEMMA SyncTrainer ==
  ASSUME StalePercent = 0, BaseInv, BaseInv', SyncInv, QueueInv', Trainer \/ Done
  PROVE  SyncInv'
<1>1. CASE Collect
  <2>1. /\ tpc = "collect" /\ Len(batch) < Required /\ UNCHANGED TrainAside /\ UNCHANGED <<trained, step>>
        /\ queue # <<>> /\ queue' = Tail(queue)
        /\ \/ Head(queue) = Finish /\ ending' = TRUE /\ tpc' = "last"
           \/ Head(queue) \in Samples /\ batch' = Append(batch, Head(queue)) /\ UNCHANGED <<ending, tpc>>
    BY <1>1 DEF Collect, get_sample, TrainAside
  <2> QED BY <2>1, SyncCollect, SyncStop
<1>2. CASE FinalSync \/ Closing
  <2>1. /\ ending /\ tpc' # "collect" /\ raised' = raised
        /\ UNCHANGED <<queue, dropped, cancelQ, hand, task, lost, ending, fed, pending, trained, pc>>
    BY <1>2 DEF FinalSync, Closing, AfterStep, mqVars, rollVars, SyncInv, EndInv
  <2> QED BY <2>1, EndedAside
<1>3. CASE Done
  <2>1. UNCHANGED Places /\ UNCHANGED Turns /\ Live' = Live /\ Drawn' = Drawn
    BY <1>3 DEF Done, vars, mqVars, rollVars, trainVars, syncVars, Places, Turns, Live, Drawn, Samples
  <2> QED BY <2>1, SyncAside
<1> QED BY <1>1, <1>2, <1>3, SyncTrain DEF Trainer

-----------------------------------------------------------------------------
(* The synchroniser                                                        *)

\* No step of it moves a sample, and before the end the monitor sleeps and the
\* processor is out of the way.
LEMMA SynchronizerAside ==
  ASSUME SyncInv, Synchronizer, ~ending
  PROVE  /\ UNCHANGED Places /\ UNCHANGED <<mon, fed, pending, task>> /\ Live' = Live
         /\ Counted' = Counted /\ Mark' = Mark /\ Round' = Round
         /\ WholeInv' /\ EndInv'
         /\ mon = "sleep" /\ Syncing /\ Counted = 0 /\ Mark = 0 /\ batch = <<>> /\ step = 1
         /\ ~raised /\ ~raised' /\ pc \in Idle /\ cancelQ = <<>>
<1>0. UNCHANGED Places /\ UNCHANGED <<mon, fed, pending, task>>
  BY DEF Synchronizer, SyncStart, PauseBegin, PauseEnd, WeightsCopied, UpdateBegin, UpdateEnd, ResumeCall,
         resume, notProc, mqVars, trainVars, syncVars, Places
<1>1. /\ raised' = raised \/ raised' = FALSE
      /\ tpc' \in {tpc, "sync", "collect"} /\ LoopFree
      /\ tpc = "valid" \/ sync # "idle"
      /\ pc' = pc \/ (pc = "parked" /\ pc' = "wait") \/ (pc = "submitParked" /\ pc' = "submit")
  BY DEF Synchronizer, SyncStart, PauseBegin, PauseEnd, WeightsCopied, UpdateBegin, UpdateEnd, ResumeCall,
         resume, NotifyAndRelease, trainVars
<1>2. Live' = Live /\ Drawn' = Drawn
  BY <1>0 DEF Live, Drawn, Samples
<1>3. tpc' \in {"last", "closing", "done"} => ending
  BY <1>1 DEF SyncInv, EndInv
<1>4. /\ mon = "sleep" /\ Syncing /\ Counted = 0 /\ Mark = 0 /\ batch = <<>> /\ step = 1
      /\ ~raised /\ pc \in Idle \cup {"top"} /\ cancelQ = <<>>
  BY <1>1 DEF Syncing, SyncInv, StillInv, CounterInv
<1>5. pc \in Idle
  BY <1>1, <1>4 DEF LoopFree, Idle
<1>6. /\ Counted' = Counted /\ Mark' = Mark /\ Round' = Round
      /\ WholeInv' /\ EndInv'
  BY <1>1, <1>2, <1>3, <1>0, SamplesStay DEF SyncInv, EndInv
<1>7. ~raised'
  BY <1>1, <1>4
<1> QED BY <1>2, <1>4, <1>5, <1>0, <1>6, <1>7

\* A synchronisation that goes on: what is left to show is whose turn it is.
LEMMA SyncGoes ==
  ASSUME SyncInv, QueueInv', Synchronizer, ~ending, PhaseInv', FirstInv',
         Syncing' => pc' \in Idle, staleness' = staleness, Uncounted' = Uncounted
  PROVE  SyncInv'
<1>1. /\ UNCHANGED Places /\ Counted' = Counted /\ Mark' = Mark /\ Round' = Round
      /\ WholeInv' /\ EndInv' /\ mon' = "sleep" /\ Counted = 0 /\ Mark = 0 /\ batch = <<>> /\ step = 1
      /\ ~raised /\ ~raised'
  BY SynchronizerAside
<1>2. StillInv' /\ AlarmInv'
  BY <1>1 DEF StillInv, AlarmInv, Places
<1>3. CounterInv'
  <2>1. Raise' = Raise
    BY <1>1 DEF Raise
  <2> QED BY <1>1, <2>1 DEF SyncInv, CounterInv, Places, MaxRequired
<1> QED BY <1>1, <1>2, <1>3 DEF SyncInv

LEMMA SyncPausing ==
  ASSUME BaseInv, SyncInv, QueueInv', Synchronizer, ~ending, SyncStart \/ PauseBegin
  PROVE  SyncInv'
<1>1. /\ UNCHANGED Places /\ mon' = "sleep" /\ pc \in Idle /\ Live' = Live
  BY SynchronizerAside
<1>2. /\ LoopFree /\ UNCHANGED <<pc, finished, staleness, trigger>> /\ TypeOK
  BY DEF SyncStart, PauseBegin, BaseInv, FlowInv, TypeInv
<1>3. CASE SyncStart
  <2>1. /\ tpc = "valid" /\ sync = "idle" /\ tpc' = "sync" /\ sync' = "pausing" /\ lock' = Append(lock, "pause")
        /\ UNCHANGED <<paused, serversPaused>>
    BY <1>3 DEF SyncStart
  <2>2. PhaseInv' /\ Uncounted' = Uncounted
    BY <1>1, <1>2, <2>1 DEF SyncInv, PhaseInv, Uncounted, Copy, Places, Nothing
  <2>3. FirstInv'
    <3> SUFFICES ASSUME ~waited PROVE FirstInv'
      BY <1>1 DEF FirstInv, Places
    <3>1. pc = "drain"
      <4>1. pc # "pause"
        <5>1. pc = "pause" => Holds("proc")
          BY DEF SyncInv, FirstInv, Holds
        <5> QED BY <1>2, <5>1 DEF LoopFree
      <4> QED BY <1>1, <4>1 DEF SyncInv, FirstInv, Idle
    <3>2. Holds("proc")'
      <4>1. Distinct(lock) /\ "pause" \in Lockers /\ "pause" \notin ToSet(lock)
        BY <2>1 DEF SyncInv, QueueInv, Lockers
      <4>2. Holds("proc")
        BY <3>1 DEF SyncInv, FirstInv
      <4> QED BY <1>2, <2>1, <4>1, <4>2, LockAppend
    <3>3. Active' = Active
      BY <1>1, <1>2 DEF Active
    <3> QED BY <1>1, <1>2, <2>1, <3>1, <3>2, <3>3 DEF SyncInv, FirstInv, Places, Nothing
  <2> QED BY <1>1, <1>2, <2>2, <2>3, SyncGoes
<1>4. CASE PauseBegin
  <2>1. /\ sync = "pausing" /\ sync' = "gather" /\ Holds("pause") /\ paused' = TRUE /\ UNCHANGED tpc
        /\ tpc = "sync"
    BY <1>4 DEF PauseBegin, trainVars, SyncInv, PhaseInv
  <2>2. PhaseInv' /\ Uncounted' = Uncounted
    BY <1>1, <1>2, <2>1 DEF SyncInv, PhaseInv, Uncounted, Copy, Places, Nothing, Idle
  <2>3. FirstInv'
    <3>1. waited
      BY <1>1, <2>1 DEF SyncInv, FirstInv, Holds, Idle
    <3> QED BY <1>1, <3>1 DEF FirstInv, Places
  <2> QED BY <1>1, <1>2, <2>2, <2>3, SyncGoes
<1> QED BY <1>3, <1>4

\* From the gather on the first wait of the processor is over.
LEMMA SyncCopying ==
  ASSUME BaseInv, BaseInv', SyncInv, QueueInv', Synchronizer, ~ending, ~SyncStart, ~PauseBegin
  PROVE  SyncInv'
<1>1. /\ UNCHANGED Places /\ mon' = "sleep" /\ pc \in Idle /\ Live' = Live
      /\ Counted' = Counted /\ Mark' = Mark /\ Round' = Round /\ WholeInv' /\ EndInv'
      /\ Counted = 0 /\ Mark = 0 /\ batch = <<>> /\ step = 1 /\ ~raised /\ ~raised' /\ cancelQ = <<>>
  BY SynchronizerAside
<1>2. PauseEnd \/ WeightsCopied \/ UpdateBegin \/ UpdateEnd \/ ResumeCall \/ resume
  BY DEF Synchronizer
<1>3. FirstInv'
  <2>1. sync \notin {"idle", "pausing"}
    BY <1>2 DEF PauseEnd, WeightsCopied, UpdateBegin, UpdateEnd, ResumeCall, resume
  <2>2. waited
    BY <1>1, <2>1 DEF SyncInv, FirstInv, Idle
  <2> QED BY <1>1, <2>2 DEF FirstInv, Places
<1>4. CASE PauseEnd \/ WeightsCopied
  <2>1. /\ UNCHANGED <<pc, paused, serversPaused, staleness>> /\ tpc = "sync" /\ paused
        /\ \/ /\ sync = "gather" /\ sync' = "weights" /\ finished' = 0 /\ ~trigger' /\ tpc' = tpc
           \/ /\ sync = "weights" /\ sync' = "update" /\ finished' = finished /\ finished = 0
              /\ ~trigger' /\ tpc' = "collect"
    BY <1>4 DEF PauseEnd, WeightsCopied, trainVars, SyncInv, PhaseInv, Copy
  <2>2. PhaseInv' /\ Uncounted' = Uncounted
    BY <1>1, <2>1 DEF PhaseInv, Uncounted, Copy, Idle
  <2> QED BY <1>1, <1>3, <2>1, <2>2, SyncGoes
<1>5. CASE UpdateBegin
  <2>1. /\ sync = "update" /\ sync' = "updating" /\ counted' = Active + Len(cancelQ)
        /\ UNCHANGED <<pc, paused, serversPaused, staleness, finished, trigger, tpc>>
    BY <1>5 DEF UpdateBegin, trainVars
  <2>2. counted' = 0
    <3>1. finished = 0
      BY <2>1 DEF SyncInv, PhaseInv
    <3>2. Cardinality(Live) = 0
      BY <1>1, Emptied DEF BaseInv
    <3>3. Len(cancelQ) = 0
      BY <1>1
    <3> QED BY <2>1, <3>1, <3>2, <3>3 DEF Active
  <2>3. PhaseInv' /\ Uncounted' = Uncounted
    BY <1>1, <2>1, <2>2 DEF SyncInv, PhaseInv, Uncounted, Copy, Idle
  <2> QED BY <1>1, <1>3, <2>1, <2>3, SyncGoes
<1>6. CASE UpdateEnd
  <2>1. /\ sync = "updating" /\ sync' = "resume" /\ staleness' = counted + Len(queue) /\ counted = 0
        /\ UNCHANGED <<pc, paused, serversPaused, finished, trigger, tpc, counted>>
        /\ tpc \notin {"valid", "sync"}
    BY <1>6 DEF UpdateEnd, trainVars, SyncInv, PhaseInv
  <2>2. staleness' = 0
    <3>1. Cardinality(Ready) = 0
      <4>1. Ready = {}
        BY <1>1, Emptied DEF BaseInv
      <4> QED BY <4>1, FS_EmptySet
    <3>2. Len(queue) = 0
      BY <1>1, <3>1 DEF SyncInv, EndInv, Idle
    <3> QED BY <2>1, <3>2
  <2>3. Round = 0
    <3>1. Len(batch) = 0 /\ step - 1 = 0 /\ Required \in Nat
      BY <1>1, Sizes
    <3> QED BY <3>1 DEF Round
  <2>4. PhaseInv'
    BY <1>1, <2>1 DEF SyncInv, PhaseInv, Copy, Idle
  <2>5. CounterInv'
    <3>1. ~Uncounted' /\ Raise' = 0 /\ MaxRequired \in Nat
      BY <1>1, <2>1, Sizes DEF Uncounted, Raise, MaxRequired
    <3>2. Counted' = 0 /\ Mark' = 0 /\ Round' = 0
      BY <1>1, <2>3
    <3> QED BY <1>1, <2>2, <3>1, <3>2 DEF CounterInv, Places, MaxRequired
  <2>6. StillInv' /\ AlarmInv'
    BY <1>1, <2>1 DEF StillInv, AlarmInv, Places
  <2> QED BY <1>1, <1>3, <2>4, <2>5, <2>6 DEF SyncInv
<1>7. CASE ResumeCall
  <2>1. UNCHANGED <<sync, counted, pc, paused, serversPaused, finished, trigger, tpc, staleness>>
    BY <1>7 DEF ResumeCall, trainVars, syncVars
  <2>2. PhaseInv' /\ Uncounted' = Uncounted
    BY <1>1, <2>1 DEF SyncInv, PhaseInv, Uncounted, Nothing, Places
  <2> QED BY <1>1, <1>3, <2>1, <2>2, SyncGoes
<1>8. CASE resume
  <2>1. /\ sync = "resume" /\ sync' = "idle" /\ serversPaused' = FALSE /\ paused' = FALSE
        /\ UNCHANGED <<tpc, staleness>> /\ pc' \in {pc, "wait"} /\ tpc = "collect"
    BY <1>1, <1>8 DEF resume, NotifyAndRelease, trainVars, SyncInv, PhaseInv, Idle
  <2>2. PhaseInv' /\ Uncounted' = Uncounted /\ ~Syncing'
    BY <1>1, <2>1 DEF PhaseInv, Uncounted, Syncing, Copy, Idle
  <2> QED BY <1>1, <1>3, <2>1, <2>2, SyncGoes
<1> QED BY <1>2, <1>4, <1>5, <1>6, <1>7, <1>8

LEMMA SyncSynchronizer ==
  ASSUME BaseInv, BaseInv', SyncInv, QueueInv', Synchronizer
  PROVE  SyncInv'
<1>1. CASE ~ending
  BY <1>1, SyncPausing, SyncCopying
<1>2. CASE ending
  <2>1. pc = "ended" /\ tpc # "collect"
    BY <1>2 DEF SyncInv, EndInv
  <2>2. UNCHANGED <<queue, dropped, cancelQ, hand, task, lost, ending, fed, pending, trained>>
    BY DEF Synchronizer, SyncStart, PauseBegin, PauseEnd, WeightsCopied, UpdateBegin, UpdateEnd,
           ResumeCall, resume, notProc, mqVars, trainVars, syncVars
  <2>3. /\ raised' = raised \/ raised' = FALSE
        /\ tpc' # "collect" /\ pc' = pc
    BY <1>2, <2>1 DEF Synchronizer, SyncStart, PauseBegin, PauseEnd, WeightsCopied, UpdateBegin, UpdateEnd,
           ResumeCall, resume, NotifyAndRelease, trainVars
  <2> QED BY <1>2, <2>2, <2>3, EndedAside
<1> QED BY <1>1, <1>2

LEMMA SyncInit == ASSUME Init PROVE SyncInv
<1>1. /\ queue = <<>> /\ dropped = {} /\ lost = {} /\ cancelQ = <<>> /\ hand = Nothing /\ pending = <<>>
      /\ fed = 0 /\ task = [s \in Samples |-> "none"] /\ finished = 0 /\ ~raised /\ pc = "top"
      /\ mon = "sleep" /\ lock = <<>> /\ ~paused /\ trigger /\ staleness = 0 /\ ~serversPaused
      /\ tpc = "collect" /\ batch = <<>> /\ step = 1 /\ ~ending /\ sync = "idle"
  BY DEF Init, QueueInit, RollInit
<1>2. Len(<<>>) = 0 /\ ToSet(<<>>) = {} /\ DOMAIN <<>> = {}
  BY DEF ToSet
<1>3. FlowInv /\ TypeOK
  BY FlowInit DEF FlowInv, TypeInv
<1>4. /\ Ready = {} /\ Live = {} /\ InHands = 0 /\ Mark = 0 /\ Raise = 0
  <2>1. DoneMark \in Nat \ {0} /\ Nothing \notin Samples
    BY Sizes DEF DoneMark, Nothing, Samples
  <2>2. Live = {}
    BY <1>1 DEF Live
  <2> QED BY <1>1, <1>2, <2>1, <2>2 DEF Ready, InHands, Mark, EndSites, Raise, Nothing
<1>5. Cardinality(Ready) = 0 /\ Cardinality(Live) = 0 /\ Len(cancelQ) = 0 /\ Len(queue) = 0 /\ Len(batch) = 0
  BY <1>1, <1>2, <1>4, FS_EmptySet
<1>6. Counted = 0 /\ Active = 0 /\ Round = 0 /\ Drawn = 0
  <2>1. Counted = 0
    BY <1>4, <1>5 DEF Counted, Waits
  <2>2. Active = 0
    BY <1>1, <1>5 DEF Active
  <2>3. Round = 0
    <3>1. Required \in Nat /\ step - 1 = 0
      BY <1>1, Sizes
    <3> QED BY <1>5, <3>1 DEF Round
  <2>4. Drawn = 0
    <3>1. fed = 0 /\ Len(pending) = 0
      BY <1>1, <1>2
    <3> QED BY <3>1 DEF Drawn
  <2> QED BY <2>1, <2>2, <2>3, <2>4
<1>7. QueueInv
  BY <1>1, <1>2 DEF QueueInv, Distinct
<1>8. PhaseInv /\ StillInv /\ AlarmInv
  BY <1>1 DEF PhaseInv, StillInv, AlarmInv, Syncing, Copy
<1>9. CounterInv
  BY <1>1, <1>4, <1>6, Sizes DEF CounterInv, Uncounted, MaxRequired
<1>10. FirstInv
  BY <1>1, <1>6 DEF FirstInv
<1>11. EndInv
  BY <1>1, <1>2, <1>5 DEF EndInv
<1>12. WholeInv
  <2>1. hand # DoneMark
    BY <1>1, Sizes DEF DoneMark, Nothing
  <2>2. \A s \in Samples : ~(s <= Drawn)
    BY <1>6 DEF Samples
  <2> QED BY <1>1, <2>1, <2>2 DEF WholeInv, EndSites
<1> QED BY <1>7, <1>8, <1>9, <1>10, <1>11, <1>12 DEF SyncInv

LEMMA SyncStep ==
  ASSUME StalePercent = 0, BaseInv, BaseInv', SyncInv, [Next]_vars
  PROVE  SyncInv'
<1>1. QueueInv'
  BY QueueStep DEF BaseInv, SyncInv
<1>2. CASE UNCHANGED vars
  <2>1. UNCHANGED Places /\ UNCHANGED Turns /\ Live' = Live /\ Drawn' = Drawn
    BY <1>2 DEF vars, mqVars, rollVars, trainVars, syncVars, Places, Turns, Live, Drawn, Samples
  <2> QED BY <1>1, <2>1, SyncAside
<1> QED
  BY <1>1, <1>2, SyncFeeder, SyncProcessor, SyncMonitor, SyncMain, SyncTask, SyncTrainer, SyncSynchronizer
  DEF Next

\* With a staleness threshold of zero no sample is dropped, and unless a
\* generation raised every sample is trained on, but for the incomplete batch
\* that the end of the stream leaves (fully_async_trainer.py discards it).
THEOREM UsedTheorem ==
  ASSUME StalePercent = 0
  PROVE  Spec => []EverySampleUsed
<1>1. Init => BaseInv /\ SyncInv
  BY FlowInit, LimitInit, PlaceInit, SyncInit DEF BaseInv
<1>2. BaseInv /\ SyncInv /\ [Next]_vars => (BaseInv /\ SyncInv)'
  <2>1. BaseInv /\ [Next]_vars => BaseInv'
    BY FlowStep, LimitStep, PlaceStep DEF BaseInv
  <2> QED BY <2>1, SyncStep
<1>3. BaseInv /\ SyncInv => EverySampleUsed
  BY DEF SyncInv, EndInv, WholeInv, EverySampleUsed
<1> QED BY <1>1, <1>2, <1>3, PTL DEF Spec

-----------------------------------------------------------------------------
(* The end mark.  A full queue loses its oldest entry, whatever that is.     *)
(* The mark is never the oldest entry of a full queue: when it is put no     *)
(* sample is started any more, and the tasks that still run are fewer than   *)
(* the queue has places, because one has raised.                             *)

SlotsInv ==
  /\ Active <= MaxConcurrent
  /\ pc \in {"submit", "submitParked"} => Active < MaxConcurrent
  /\ raised => finished > 0
  /\ pc \in {"finished", "failed"} => Cardinality(Live) < MaxConcurrent

MarkInv ==
  /\ \A p \in 1 .. Len(queue) : queue[p] = Finish => Len(queue) - p + Cardinality(Live) < MaxConcurrent
  /\ pc # "ended" => \A p \in 1 .. Len(queue) : queue[p] # Finish
  /\ pc = "ended" /\ ~ending => \E p \in 1 .. Len(queue) : queue[p] = Finish
  /\ Finish \notin dropped

LEMMA SlotNumbers ==
  ASSUME FlowInv, FlowInv'
  PROVE  /\ Cardinality(Live) \in Nat /\ Cardinality(Live') \in Nat /\ IsFiniteSet(Live) /\ Live \subseteq Samples
         /\ finished \in Nat /\ finished' \in Nat /\ Active \in Nat /\ Active' \in Nat
         /\ MaxConcurrent \in Nat \ {0} /\ MaxConcurrent <= MaxQueueSize /\ MaxConcurrent' = MaxConcurrent
         /\ Cardinality(Live) <= Active /\ Finish \notin Samples
<1>1. TypeOK /\ TypeOK'
  BY DEF FlowInv, TypeInv
<1>2. /\ Cardinality(Live) \in Nat /\ Cardinality(Live') \in Nat /\ IsFiniteSet(Live) /\ Live \subseteq Samples
      /\ finished \in Nat /\ finished' \in Nat
  BY <1>1, Sets, SetsNext DEF TypeOK
<1>3. MaxConcurrent \in Nat \ {0} /\ MaxConcurrent <= MaxQueueSize /\ MaxConcurrent' = MaxConcurrent
  BY Sizes, RolloutAssumption DEF MaxConcurrent, MaxRequired
<1>4. Finish \notin Samples
  BY DEF Finish, Samples
<1> QED BY <1>2, <1>3, <1>4 DEF Active

LEMMA SlotsProcessor == ASSUME FlowInv, FlowInv', SlotsInv, Processor PROVE SlotsInv'
<1>1. /\ Cardinality(Live) \in Nat /\ IsFiniteSet(Live) /\ finished \in Nat /\ Active \in Nat
      /\ MaxConcurrent \in Nat \ {0} /\ MaxConcurrent' = MaxConcurrent /\ Cardinality(Live) <= Active
  BY SlotNumbers
<1>2. CASE ProcTop \/ ProcTake \/ ProcAdmit \/ ProcPause \/ ProcWait \/ ProcGoOn
  <2>1. UNCHANGED <<task, finished, raised>>
    BY <1>2 DEF ProcTop, ProcTake, ProcAdmit, ProcPause, ProcWait, ProcGoOn, procOther
  <2>2. Live' = Live /\ Active' = Active
    BY <2>1 DEF Live, Active
  <2>3. /\ pc' \in {"submit", "submitParked"} => Active < MaxConcurrent
        /\ pc' \in {"finished", "failed"} => Cardinality(Live) < MaxConcurrent
    <3>1. CASE ProcAdmit
      BY <1>1, <3>1 DEF ProcAdmit
    <3>2. CASE ProcWait
      BY <1>1, <3>2 DEF ProcWait, SlotsInv
    <3>3. CASE ProcTop \/ ProcTake \/ ProcPause \/ ProcGoOn
      BY <3>3 DEF ProcTop, ProcTake, TakePending, ProcPause, ProcGoOn
    <3> QED BY <1>2, <3>1, <3>2, <3>3
  <2> QED BY <1>1, <2>1, <2>2, <2>3 DEF SlotsInv
<1>3. CASE ProcReap
  <2>1. /\ pc \in {"drain", "full", "end"} /\ finished' = 0 /\ raised' = FALSE /\ task' = task
        /\ waited' = (waited \/ Active > 0)
        /\ \/ (raised \/ ~waited') /\ pc' = "failed"
           \/ AfterWait(Cardinality(Live))
    BY <1>3 DEF ProcReap, procOther
  <2>2. Live' = Live /\ Active' = Cardinality(Live) + 0
    BY <2>1 DEF Live, Active
  <2>3. Active' = Cardinality(Live)
    BY <1>1, <2>2
  <2>4. CASE (raised \/ ~waited') /\ pc' = "failed"
    <3>1. Cardinality(Live) < MaxConcurrent
      <4>1. CASE raised
        <5>1. finished > 0 /\ Active <= MaxConcurrent /\ Active = Cardinality(Live) + finished
          BY <4>1 DEF SlotsInv, Active
        <5>2. MaxConcurrent \in Nat
          BY <1>1
        <5> QED BY <1>1, <5>1, <5>2
      <4>2. CASE ~waited'
        <5>1. ~(Active > 0)
          BY <2>1, <4>2
        <5>2. Active \in Nat /\ Cardinality(Live) \in Nat /\ Cardinality(Live) <= Active
              /\ MaxConcurrent \in Nat \ {0}
          BY <1>1
        <5> QED BY <5>1, <5>2
      <4> QED BY <2>4, <4>1, <4>2
    <3> QED BY <1>1, <2>1, <2>2, <2>3, <2>4, <3>1 DEF SlotsInv
  <2>5. CASE AfterWait(Cardinality(Live))
    <3>1. /\ pc' = "submit" => Cardinality(Live) < MaxConcurrent
          /\ pc' = "finished" => Cardinality(Live) = 0
          /\ pc' \notin {"submitParked", "failed"}
      <4>1. Cardinality(Live) \in Nat /\ MaxConcurrent \in Nat
        BY <1>1
      <4>2. CASE pc = "drain"
        BY <2>5, <4>2 DEF AfterWait
      <4>3. CASE pc = "full"
        BY <2>5, <4>1, <4>3 DEF AfterWait
      <4>4. CASE pc = "end"
        BY <2>5, <4>1, <4>4 DEF AfterWait
      <4> QED BY <2>1, <4>2, <4>3, <4>4
    <3>2. Active' <= MaxConcurrent
      BY <1>1, <2>3 DEF SlotsInv
    <3> QED BY <1>1, <2>1, <2>2, <2>3, <3>1, <3>2 DEF SlotsInv
  <2> QED BY <2>1, <2>4, <2>5
<1>4. CASE ProcSubmit
  <2>1. /\ pc = "submit" /\ pc' = "top" /\ UNCHANGED <<finished, raised>>
        /\ task' = [task EXCEPT ![hand] = "new"]
    BY <1>4 DEF ProcSubmit
  <2>2. hand \in Samples
    BY <2>1 DEF FlowInv, TypeInv
  <2>3. Live' = Live \cup {hand}
    BY <2>1, <2>2 DEF Live, FlowInv, TypeInv, TypeOK
  <2>4. Cardinality(Live') \in Nat /\ Cardinality(Live') <= Cardinality(Live) + 1
    <3>1. Cardinality(Live \cup {hand}) = IF hand \in Live THEN Cardinality(Live)
                                                         ELSE Cardinality(Live) + 1
      BY <1>1, FS_AddElement
    <3> QED BY <1>1, <2>3, <3>1
  <2>5. Active' <= Active + 1 /\ Active < MaxConcurrent /\ Active' \in Nat
    <3>1. Active' = Cardinality(Live') + finished
      BY <2>1 DEF Active
    <3>2. Active = Cardinality(Live) + finished
      BY DEF Active
    <3> QED BY <1>1, <2>1, <2>4, <3>1, <3>2 DEF SlotsInv
  <2> QED BY <1>1, <2>1, <2>5 DEF SlotsInv
<1> QED BY <1>2, <1>3, <1>4 DEF Processor, _processor_worker

\* A task that ends leaves active_tasks as full as it was.
LEMMA SlotsTask ==
  ASSUME FlowInv, FlowInv', NEW s \in Samples, Task(s)
  PROVE  /\ UNCHANGED pc /\ Active' = Active /\ Cardinality(Live') <= Cardinality(Live)
         /\ Cardinality(Live) > 0
         /\ task'[s] = "none" => Cardinality(Live') = Cardinality(Live) - 1
         /\ SlotsInv => SlotsInv'
<1>1. /\ Cardinality(Live) \in Nat /\ IsFiniteSet(Live) /\ finished \in Nat /\ Active \in Nat
      /\ MaxConcurrent \in Nat \ {0} /\ MaxConcurrent' = MaxConcurrent /\ Cardinality(Live') \in Nat
  BY SlotNumbers
<1>2. /\ pc' = pc /\ task[s] # "none" /\ task \in [Samples -> {"none", "new", "gen", "put"}]
      /\ \/ /\ task' = [task EXCEPT ![s] = "gen"] \/ task' = [task EXCEPT ![s] = "put"]
            /\ UNCHANGED <<finished, raised>>
         \/ task' = [task EXCEPT ![s] = "none"] /\ finished' = finished + 1
  <2>1. pc' = pc /\ task[s] # "none" /\ task \in [Samples -> {"none", "new", "gen", "put"}]
    BY TaskEffect DEF taskOther, FlowInv, TypeInv, TypeOK
  <2> QED BY <2>1 DEF Task, _process_single_sample_streaming, TaskReachesServer, TaskCancelled,
                    TaskGenerated, TaskPuts, TaskRaises, Interrupted
<1>3. /\ s \in Live
      /\ Cardinality(Live \ {s}) = Cardinality(Live) - 1
  <2>1. s \in Live
    BY <1>2 DEF Live
  <2> QED BY <1>1, <2>1, FS_RemoveElement
<1>4. Cardinality(Live) > 0
  <2>1. Live # {}
    BY <1>3
  <2> QED BY <1>1, <2>1, FS_EmptySet
<1>5. CASE task' = [task EXCEPT ![s] = "none"] /\ finished' = finished + 1
  <2>1. Live' = Live \ {s}
    BY <1>2, <1>5 DEF Live
  <2>2. Active' = Active
    BY <1>1, <1>3, <1>5, <2>1 DEF Active
  <2>3. finished' > 0
    BY <1>1, <1>5
  <2> QED BY <1>1, <1>2, <1>3, <1>4, <2>1, <2>2, <2>3 DEF SlotsInv
<1>6. CASE /\ task' = [task EXCEPT ![s] = "gen"] \/ task' = [task EXCEPT ![s] = "put"]
           /\ UNCHANGED <<finished, raised>>
  <2>1. Live' = Live /\ task'[s] # "none"
    BY <1>2, <1>6 DEF Live
  <2>2. Active' = Active
    BY <1>6, <2>1 DEF Active
  <2> QED BY <1>1, <1>2, <1>4, <1>6, <2>1, <2>2 DEF SlotsInv
<1> QED BY <1>2, <1>5, <1>6

LEMMA SlotsAside ==
  ASSUME FlowInv, FlowInv', SlotsInv, task' = task,
         UNCHANGED <<finished, raised>> \/ (finished' = 0 /\ raised' = FALSE),
         \/ pc' = pc \/ (pc = "parked" /\ pc' = "wait") \/ (pc = "submitParked" /\ pc' = "submit")
         \/ pc' = "ended"
  PROVE  SlotsInv'
<1>1. /\ Cardinality(Live) \in Nat /\ finished \in Nat /\ Active \in Nat
      /\ MaxConcurrent \in Nat \ {0} /\ MaxConcurrent' = MaxConcurrent
  BY SlotNumbers
<1>2. Live' = Live
  BY DEF Live
<1>3. Active' <= Active /\ Active' \in Nat
  BY <1>1, <1>2 DEF Active
<1> QED BY <1>1, <1>2, <1>3 DEF SlotsInv

LEMMA SlotsStep == ASSUME FlowInv, FlowInv', SlotsInv, [Next]_vars PROVE SlotsInv'
<1>1. CASE Feeder \/ Main
  <2>1. UNCHANGED <<task, finished, raised>> /\ (pc' = pc \/ pc' = "ended")
    BY <1>1 DEF Feeder, _feed_samples, Main, SendFinish
  <2> QED BY <2>1, SlotsAside
<1>2. CASE Monitor
  <2>1. /\ UNCHANGED <<task, finished, raised>>
        /\ pc' = pc \/ (pc = "parked" /\ pc' = "wait") \/ (pc = "submitParked" /\ pc' = "submit")
    BY <1>2 DEF Monitor, _async_monitor_loop, MonitorCheck, MonitorResume, NotifyAndRelease
  <2> QED BY <2>1, SlotsAside
<1>3. CASE Trainer \/ Done \/ UNCHANGED vars
  <2>1. UNCHANGED <<task, finished, raised, pc>>
    BY <1>3 DEF Trainer, Collect, Train, FinalSync, Closing, Done, vars, rollVars
  <2> QED BY <2>1, SlotsAside
<1>4. CASE Synchronizer
  <2>1. /\ task' = task
        /\ UNCHANGED <<finished, raised>> \/ (finished' = 0 /\ raised' = FALSE)
        /\ pc' = pc \/ (pc = "parked" /\ pc' = "wait") \/ (pc = "submitParked" /\ pc' = "submit")
    BY <1>4 DEF Synchronizer, SyncStart, PauseBegin, PauseEnd, WeightsCopied, UpdateBegin, UpdateEnd,
           ResumeCall, resume, notProc, NotifyAndRelease
  <2> QED BY <2>1, SlotsAside
<1> QED BY <1>1, <1>2, <1>3, <1>4, SlotsProcessor, SlotsTask DEF Next

\* put_sample moves every entry up by one place when the queue is full.
LEMMA PutAt ==
  ASSUME TypeOK, NEW x \in Samples \cup {Finish}, put_sample(x)
  PROVE  \E d \in {0, 1} :
           /\ Len(queue) \in Nat /\ Len(queue') = Len(queue) + 1 - d
           /\ \A i \in 1 .. (Len(queue) - d) : queue'[i] = queue[i + d]
           /\ queue'[Len(queue')] = x
           /\ d = 0 => dropped' = dropped
           /\ d = 1 => Len(queue) = MaxQueueSize /\ dropped' = dropped \cup {queue[1]}
<1>1. /\ queue \in Seq(Samples \cup {Finish}) /\ Len(queue) \in Nat /\ Len(queue) <= MaxQueueSize
      /\ MaxQueueSize \in Nat \ {0}
  BY Sizes DEF TypeOK
<1>2. CASE Len(queue) >= MaxQueueSize
  <2> DEFINE t == Tail(queue)
  <2>1. /\ queue' = Append(t, x) /\ dropped' = dropped \cup {queue[1]} /\ Len(queue) = MaxQueueSize
        /\ t \in Seq(Samples \cup {Finish}) /\ Len(t) = Len(queue) - 1
        /\ \A i \in 1 .. (Len(queue) - 1) : t[i] = queue[i + 1]
    BY <1>1, <1>2 DEF put_sample
  <2> HIDE DEF t
  <2>2. /\ Len(queue') = Len(queue) /\ queue'[Len(queue')] = x
        /\ \A i \in 1 .. (Len(queue) - 1) : queue'[i] = queue[i + 1]
    BY <1>1, <2>1
  <2> WITNESS 1 \in {0, 1}
  <2> QED BY <1>1, <2>1, <2>2
<1>3. CASE ~(Len(queue) >= MaxQueueSize)
  <2>1. queue' = Append(queue, x) /\ dropped' = dropped
    BY <1>3 DEF put_sample
  <2>2. /\ Len(queue') = Len(queue) + 1 /\ queue'[Len(queue')] = x
        /\ \A i \in 1 .. Len(queue) : queue'[i] = queue[i]
    BY <1>1, <2>1
  <2>3. Len(queue) - 0 = Len(queue) /\ (\A i \in 1 .. Len(queue) : i + 0 = i)
        /\ Len(queue) + 1 - 0 = Len(queue) + 1
    BY <1>1
  <2> WITNESS 0 \in {0, 1}
  <2> QED BY <1>1, <2>1, <2>2, <2>3
<1> QED BY <1>2, <1>3

\* The same for an entry that is put while n tasks, one of them its own or none,
\* run: what an end mark has behind it, running or waiting, does not grow.
LEMMA MarkPut ==
  ASSUME FlowInv, FlowInv', SlotsInv, MarkInv, NEW x \in Samples \cup {Finish}, put_sample(x),
         x # Finish => Cardinality(Live) > 0 /\ Cardinality(Live') = Cardinality(Live) - 1 /\ pc' = pc,
         x = Finish => Cardinality(Live') = Cardinality(Live) /\ pc \in {"finished", "failed"}
                       /\ pc' = "ended",
         ending' = ending
  PROVE  MarkInv'
<1>1. /\ Cardinality(Live) \in Nat /\ Cardinality(Live') \in Nat
      /\ MaxConcurrent \in Nat /\ MaxConcurrent <= MaxQueueSize /\ MaxConcurrent' = MaxConcurrent
      /\ MaxQueueSize \in Nat \ {0}
  BY SlotNumbers, Sizes
<1>2. PICK d \in {0, 1} :
        /\ Len(queue) \in Nat /\ Len(queue') = Len(queue) + 1 - d
        /\ \A i \in 1 .. (Len(queue) - d) : queue'[i] = queue[i + d]
        /\ queue'[Len(queue')] = x
        /\ d = 0 => dropped' = dropped
        /\ d = 1 => Len(queue) = MaxQueueSize /\ dropped' = dropped \cup {queue[1]}
  BY PutAt DEF FlowInv, TypeInv
<1> DEFINE n == Len(queue)
           L == Cardinality(Live)
<1>3. /\ \A p \in 1 .. n : queue[p] = Finish => n - p + L < MaxConcurrent
      /\ pc # "ended" => \A p \in 1 .. n : queue[p] # Finish
      /\ pc = "ended" /\ ~ending => \E p \in 1 .. n : queue[p] = Finish
      /\ Finish \notin dropped
  BY DEF MarkInv
<1>4. n \in Nat /\ L \in Nat
  BY <1>1, <1>2
<1> HIDE DEF n, L
<1>5. ASSUME d = 1 PROVE queue[1] # Finish
  <2>1. n = MaxQueueSize /\ 1 \in 1 .. n
    BY <1>1, <1>2, <1>5 DEF n
  <2>2. CASE x = Finish
    BY <1>3, <2>1, <2>2
  <2>3. CASE x # Finish
    <3>1. L > 0
      BY <2>3 DEF L
    <3>2. ~(n - 1 + L < MaxConcurrent)
      BY <1>1, <1>4, <2>1, <3>1
    <3> QED BY <1>3, <2>1, <3>2
  <2> QED BY <2>2, <2>3
<1>6. Finish \notin dropped'
  BY <1>2, <1>3, <1>5
<1>7. /\ Len(queue') \in Nat /\ Len(queue') = n + 1 - d /\ Len(queue') > 0
      /\ \A i \in 1 .. Len(queue') : i = Len(queue') \/ (i \in 1 .. (n - d) /\ i + d \in 1 .. n)
  <2>1. n + 1 - d > 0
    BY <1>1, <1>2, <1>4 DEF n
  <2> QED BY <1>2, <1>4, <2>1 DEF n
<1>8. ASSUME NEW p \in 1 .. Len(queue'), queue'[p] = Finish
      PROVE  Len(queue') - p + Cardinality(Live') < MaxConcurrent /\ pc' = "ended"
  <2>1. CASE p = Len(queue')
    <3>1. x = Finish
      BY <1>2, <1>8, <2>1
    <3>2. Cardinality(Live') < MaxConcurrent /\ pc' = "ended"
      BY <3>1 DEF SlotsInv
    <3> QED BY <1>1, <1>7, <2>1, <3>2
  <2>2. CASE p # Len(queue')
    <3>1. p \in 1 .. (n - d) /\ p + d \in 1 .. n /\ queue[p + d] = Finish
      BY <1>2, <1>7, <1>8, <2>2 DEF n
    <3>2. n - (p + d) + L < MaxConcurrent /\ pc = "ended" /\ x # Finish
      BY <1>3, <3>1
    <3>3. Cardinality(Live') = L - 1 /\ pc' = "ended"
      BY <3>2 DEF L
    <3> QED BY <1>1, <1>4, <1>7, <3>1, <3>2, <3>3
  <2> QED BY <2>1, <2>2
<1>9. ASSUME pc' = "ended", ~ending' PROVE \E p \in 1 .. Len(queue') : queue'[p] = Finish
  <2>1. CASE x = Finish
    BY <1>2, <1>7, <2>1
  <2>2. CASE x # Finish
    <3>1. PICK p \in 1 .. n : queue[p] = Finish
      BY <1>3, <1>9, <2>2
    <3>2. p - d \in 1 .. (n - d) /\ p - d \in 1 .. Len(queue') /\ (p - d) + d = p
      <4>1. d = 1 => p # 1
        BY <1>5, <3>1
      <4> QED BY <1>4, <1>7, <3>1, <4>1
    <3>3. queue'[p - d] = Finish
      BY <1>2, <3>1, <3>2 DEF n
    <3> QED BY <3>2, <3>3
  <2> QED BY <2>1, <2>2
<1> QED BY <1>1, <1>6, <1>8, <1>9 DEF MarkInv

LEMMA MarkAside ==
  ASSUME FlowInv, FlowInv', MarkInv, UNCHANGED <<queue, dropped, ending>>,
         Cardinality(Live') <= Cardinality(Live) \/ pc # "ended",
         pc' = "ended" <=> pc = "ended"
  PROVE  MarkInv'
<1>1. /\ Cardinality(Live) \in Nat /\ Cardinality(Live') \in Nat
      /\ MaxConcurrent \in Nat /\ MaxConcurrent' = MaxConcurrent
  BY SlotNumbers
<1>2. Len(queue) \in Nat
  <2>1. queue \in Seq(Samples \cup {Finish})
    BY DEF FlowInv, TypeInv, TypeOK
  <2> QED BY <2>1
<1>3. ASSUME NEW p \in 1 .. Len(queue), queue[p] = Finish
      PROVE  Len(queue) - p + Cardinality(Live') < MaxConcurrent
  <2>1. Len(queue) - p + Cardinality(Live) < MaxConcurrent /\ pc = "ended"
    BY <1>3 DEF MarkInv
  <2> QED BY <1>1, <1>2, <2>1
<1> QED BY <1>1, <1>3 DEF MarkInv

\* What the trainer takes is the oldest entry.
LEMMA MarkTrainer == ASSUME FlowInv, FlowInv', MarkInv, Trainer \/ Done PROVE MarkInv'
<1>1. UNCHANGED <<pc, task, dropped>>
  BY DEF Trainer, Collect, get_sample, Train, FinalSync, Closing, Done, vars, mqVars, rollVars
<1>2. Live' = Live
  BY <1>1 DEF Live
<1>3. Cardinality(Live) \in Nat /\ MaxConcurrent \in Nat /\ MaxConcurrent' = MaxConcurrent
  BY SlotNumbers
<1>4. CASE Collect
  <2>1. /\ queue # <<>> /\ queue' = Tail(queue)
        /\ Head(queue) = Finish => ending'
        /\ Head(queue) # Finish => ending' = ending
    BY <1>4 DEF Collect, get_sample
  <2>2. /\ Len(queue) \in Nat \ {0} /\ Len(queue') = Len(queue) - 1 /\ Head(queue) = queue[1]
        /\ \A i \in 1 .. Len(queue') : queue'[i] = queue[i + 1] /\ i + 1 \in 1 .. Len(queue)
    <3>1. queue \in Seq(Samples \cup {Finish})
      BY DEF FlowInv, TypeInv, TypeOK
    <3> QED BY <2>1, <3>1
  <2>3. ASSUME NEW p \in 1 .. Len(queue'), queue'[p] = Finish
        PROVE  Len(queue') - p + Cardinality(Live') < MaxConcurrent /\ pc = "ended"
    <3>1. Len(queue) - (p + 1) + Cardinality(Live) < MaxConcurrent /\ pc = "ended"
      BY <2>2, <2>3 DEF MarkInv
    <3> QED BY <1>2, <1>3, <2>2, <3>1
  <2>4. ASSUME pc = "ended", ~ending' PROVE \E p \in 1 .. Len(queue') : queue'[p] = Finish
    <3>1. PICK p \in 1 .. Len(queue) : queue[p] = Finish
      BY <2>1, <2>4 DEF MarkInv
    <3>2. p # 1
      BY <2>1, <2>2, <2>4, <3>1
    <3>3. p - 1 \in 1 .. Len(queue') /\ (p - 1) + 1 = p
      BY <2>2, <3>1, <3>2
    <3> QED BY <2>2, <3>1, <3>3
  <2> QED BY <1>1, <1>2, <1>3, <2>3, <2>4 DEF MarkInv
<1>5. CASE Train \/ FinalSync \/ Closing \/ Done
  <2>1. UNCHANGED <<queue, dropped, ending>>
    BY <1>5 DEF Train, FinalSync, Closing, Done, vars, mqVars, trainVars
  <2> QED BY <1>1, <1>2, <1>3, <2>1, MarkAside
<1> QED BY <1>4, <1>5 DEF Trainer

LEMMA MarkStep == ASSUME FlowInv, FlowInv', SlotsInv, MarkInv, [Next]_vars PROVE MarkInv'
<1>0. Cardinality(Live) \in Nat
  BY SlotNumbers
<1>1. CASE Main
  <2>1. /\ pc \in {"finished", "failed"} /\ pc' = "ended" /\ put_sample(Finish)
        /\ task' = task /\ ending' = ending
    BY <1>1 DEF Main, SendFinish, Own, trainVars
  <2>2. Live' = Live
    BY <2>1 DEF Live
  <2> QED BY <2>1, <2>2, MarkPut
<1>2. ASSUME NEW s \in Samples, Task(s) PROVE MarkInv'
  <2>1. /\ pc' = pc /\ Cardinality(Live') <= Cardinality(Live) /\ Cardinality(Live) > 0
        /\ task'[s] = "none" => Cardinality(Live') = Cardinality(Live) - 1
    BY <1>2, SlotsTask
  <2>2. ending' = ending /\ s # Finish /\ s \in Samples \cup {Finish}
    <3>1. ending' = ending
      BY <1>2, TaskEffect DEF FlowInv, trainVars
    <3>2. Finish \notin Samples
      BY SlotNumbers
    <3> QED BY <3>1, <3>2
  <2>3. CASE TaskPuts(s)
    <3>1. put_sample(s) /\ task' = [task EXCEPT ![s] = "none"] /\ task \in [Samples -> {"none", "new", "gen", "put"}]
      BY <2>3 DEF TaskPuts, FlowInv, TypeInv, TypeOK
    <3>2. task'[s] = "none"
      BY <3>1
    <3> QED BY <2>1, <2>2, <3>1, <3>2, MarkPut
  <2>4. CASE ~TaskPuts(s)
    <3>1. UNCHANGED <<queue, dropped>>
      BY <1>2, <2>4 DEF Task, _process_single_sample_streaming, TaskReachesServer, TaskCancelled,
                        TaskGenerated, TaskRaises, mqVars
    <3> QED BY <2>1, <2>2, <3>1, MarkAside
  <2> QED BY <2>3, <2>4
<1>3. CASE Processor
  <2>1. UNCHANGED <<queue, dropped, ending>> /\ pc # "ended" /\ pc' # "ended"
    <3>1. UNCHANGED <<queue, dropped, ending>> /\ pc # "ended"
      BY <1>3 DEF Processor, Own, mqVars, trainVars, _processor_worker, ProcTop, ProcTake, ProcAdmit,
             ProcPause, ProcReap, ProcWait, ProcGoOn, ProcSubmit
    <3>2. CASE ProcReap
      <4>1. pc \in {"drain", "full", "end"} /\ (pc' = "failed" \/ AfterWait(Cardinality(Live)))
        BY <3>2 DEF ProcReap
      <4>2. pc' \in {"failed", "drain", "wait", "full", "submit", "end", "finished"}
        BY <4>1 DEF AfterWait
      <4> QED BY <3>1, <4>2
    <3>3. CASE ~ProcReap
      BY <1>3, <3>1, <3>3 DEF Processor, _processor_worker, ProcTop, ProcTake, TakePending, ProcAdmit,
             ProcPause, ProcWait, ProcGoOn, ProcSubmit
    <3> QED BY <3>2, <3>3
  <2> QED BY <2>1, MarkAside
<1>4. CASE Feeder \/ Monitor \/ Synchronizer \/ UNCHANGED vars
  <2>1. /\ UNCHANGED <<queue, dropped, ending, task>>
        /\ pc' = "ended" <=> pc = "ended"
    BY <1>4 DEF Feeder, _feed_samples, Own, mqVars, trainVars, Monitor, _async_monitor_loop, MonitorCheck,
           MonitorResume, NotifyAndRelease, Synchronizer, SyncStart, PauseBegin, PauseEnd, WeightsCopied,
           UpdateBegin, UpdateEnd, ResumeCall, resume, notProc, vars, rollVars
  <2>2. Live' = Live
    BY <2>1 DEF Live
  <2> QED BY <1>0, <2>1, <2>2, MarkAside
<1> QED BY <1>1, <1>2, <1>3, <1>4, MarkTrainer DEF Next

LEMMA MarkInit == ASSUME Init PROVE SlotsInv /\ MarkInv
<1>1. /\ queue = <<>> /\ dropped = {} /\ task = [s \in Samples |-> "none"] /\ finished = 0 /\ ~raised
      /\ pc = "top"
  BY DEF Init, RollInit, QueueInit
<1>2. Live = {} /\ Len(queue) = 0
  BY <1>1 DEF Live
<1>3. Active = 0 /\ MaxConcurrent > 0 /\ MaxConcurrent \in Nat
  BY <1>1, <1>2, FS_EmptySet, Sizes, RolloutAssumption DEF Active, MaxConcurrent, MaxRequired
<1> QED BY <1>1, <1>2, <1>3 DEF SlotsInv, MarkInv

\* The end mark, once _streaming_generation_main has put it, waits in the queue
\* until the trainer takes it: no overflow of the queue loses it, although
\* put_sample drops whatever is oldest and, after a failure, tasks put behind it.
THEOREM EndMarkTheorem == Spec => []EndMarkKept
<1>1. Init => FlowInv /\ SlotsInv /\ MarkInv
  BY FlowInit, MarkInit
<1>2. FlowInv /\ SlotsInv /\ MarkInv /\ [Next]_vars => (FlowInv /\ SlotsInv /\ MarkInv)'
  BY FlowStep, SlotsStep, MarkStep
<1>3. FlowInv /\ SlotsInv /\ MarkInv => EndMarkKept
  <2>1. ASSUME FlowInv, NEW p \in 1 .. Len(queue), queue[p] = Finish PROVE Finish \in ToSet(queue)
    <3>1. p \in DOMAIN queue
      BY <2>1 DEF FlowInv, TypeInv, TypeOK
    <3> QED BY <2>1, <3>1 DEF ToSet
  <2> QED BY <2>1 DEF MarkInv, EndMarkKept
<1> QED BY <1>1, <1>2, <1>3, PTL DEF Spec

-----------------------------------------------------------------------------
(* How old a sample can be.  A version stands for the samples of Trigger     *)
(* steps.  What the trainer has received of its versions, and what is held   *)
(* for it, is bounded by the version of the rollouter and the counter        *)
(* (HeldInv): a sample taken from the feed counts, a sample the trainer      *)
(* receives moves from one side to the other, and the counter starts again   *)
(* while the trainer is still within the version that follows the            *)
(* rollouter's.  A sample that enters the queue has therefore only so much   *)
(* ahead of it, and keeps its place (LateInv).                               *)

PerVersion == Required * Trigger
Due(v) == (v + 1) * PerVersion
Received == tversion * PerVersion + (step - 1) * Required + Len(batch)
Held == Len(queue) + Waits + InHands

\* Which version everyone is at: the trainer is one ahead of the synchroniser
\* while it waits for it, the synchroniser one ahead of the rollouter until
\* update_param_version.
VersionInv ==
  /\ tversion = IF tpc = "valid" THEN synced + 1 ELSE synced
  /\ synced = IF sync \in {"idle", "updating", "resume"} THEN version ELSE version + 1
  /\ tpc \in {"valid", "sync"} => step = 1 /\ batch = <<>>
  /\ sync \in {"pausing", "gather", "weights"} => tpc = "sync"
  /\ ending => tpc # "collect" /\ batch = <<>> /\ pc = "ended"
  /\ tpc \in {"last", "closing", "done"} => ending

LEMMA VersionInit == ASSUME Init PROVE VersionInv
BY DEF Init, RollInit, VersionInv

LEMMA VersionAside ==
  ASSUME VersionInv, UNCHANGED trainVars, UNCHANGED <<sync, synced, version>>,
         pc = "ended" => pc' = "ended"
  PROVE  VersionInv'
BY DEF VersionInv, trainVars

LEMMA VersionTrainer == ASSUME FlowInv, MarkInv, VersionInv, Trainer PROVE VersionInv'
<1>1. UNCHANGED <<sync, synced, version, pc>>
  BY DEF Trainer, Collect, Train, FinalSync, Closing, rollVars, syncVars
<1>2. CASE Collect
  <2>1. /\ tpc = "collect" /\ UNCHANGED <<step, tversion>>
        /\ \/ Head(queue) = Finish /\ queue # <<>> /\ ending' = TRUE /\ tpc' = "last" /\ batch' = <<>>
           \/ UNCHANGED <<ending, tpc>>
    BY <1>2 DEF Collect, get_sample
  <2>2. ASSUME Head(queue) = Finish, queue # <<>> PROVE pc = "ended"
    <3>1. 1 \in 1 .. Len(queue) /\ queue[1] = Finish
      <4>1. queue \in Seq(Samples \cup {Finish})
        BY DEF FlowInv, TypeInv, TypeOK
      <4> QED BY <2>2, <4>1
    <3> QED BY <3>1 DEF MarkInv
  <2>3. CASE Head(queue) = Finish /\ queue # <<>> /\ ending' = TRUE /\ tpc' = "last" /\ batch' = <<>>
    BY <1>1, <2>1, <2>2, <2>3 DEF VersionInv
  <2>4. CASE UNCHANGED <<ending, tpc>>
    BY <1>1, <2>1, <2>4 DEF VersionInv
  <2> QED BY <2>1, <2>3, <2>4
<1>3. CASE Train
  <2>1. /\ tpc = "collect" /\ batch' = <<>> /\ UNCHANGED ending
        /\ \/ step' = step + 1 /\ tpc' = "collect" /\ tversion' = tversion
           \/ step' = 1 /\ tpc' = "valid" /\ tversion' = tversion + 1
    BY <1>3 DEF Train, AfterStep
  <2> QED BY <1>1, <2>1 DEF VersionInv
<1>4. CASE FinalSync
  <2>1. /\ tpc = "last" /\ sync = "idle" /\ UNCHANGED <<batch, ending>>
        /\ \/ step' = 1 /\ tpc' = "valid" /\ tversion' = tversion + 1
           \/ UNCHANGED <<step, tversion>> /\ tpc' = "done"
    BY <1>4 DEF FinalSync, AfterStep
  <2> QED BY <1>1, <2>1 DEF VersionInv
<1>5. CASE Closing
  BY <1>1, <1>5 DEF Closing, VersionInv
<1> QED BY <1>2, <1>3, <1>4, <1>5 DEF Trainer

LEMMA VersionSynchronizer == ASSUME FlowInv, VersionInv, Synchronizer PROVE VersionInv'
<1>1. UNCHANGED <<batch, step, tversion, ending>> /\ (pc = "ended" => pc' = "ended")
  BY DEF Synchronizer, SyncStart, PauseBegin, PauseEnd, WeightsCopied, UpdateBegin, UpdateEnd,
         ResumeCall, resume, NotifyAndRelease, trainVars
<1>2. CASE SyncStart
  BY <1>1, <1>2 DEF SyncStart, VersionInv
<1>3. CASE PauseBegin \/ PauseEnd \/ UpdateEnd \/ resume
  <2>1. /\ tpc' = tpc /\ UNCHANGED <<synced, version>>
        /\ \/ sync \in {"pausing", "gather"} /\ sync' \in {"gather", "weights"}
           \/ sync \in {"updating", "resume"} /\ sync' \in {"resume", "idle"}
    BY <1>3 DEF PauseBegin, PauseEnd, UpdateEnd, resume, trainVars
  <2> QED BY <1>1, <2>1 DEF VersionInv
<1>4. CASE WeightsCopied
  <2>1. sync = "weights" /\ sync' = "update" /\ tpc' = (IF ending THEN "closing" ELSE "collect")
        /\ UNCHANGED <<synced, version>>
    BY <1>4 DEF WeightsCopied
  <2> QED BY <1>1, <2>1 DEF VersionInv
<1>5. CASE UpdateBegin
  <2>1. sync = "update" /\ sync' = "updating" /\ version' = synced /\ UNCHANGED <<synced, tpc>>
    BY <1>5 DEF UpdateBegin, trainVars
  <2> QED BY <1>1, <2>1 DEF VersionInv
<1>6. CASE ResumeCall
  BY <1>1, <1>6 DEF ResumeCall, syncVars, trainVars, VersionInv
<1> QED BY <1>2, <1>3, <1>4, <1>5, <1>6 DEF Synchronizer

LEMMA VersionStep == ASSUME FlowInv, MarkInv, VersionInv, [Next]_vars PROVE VersionInv'
<1>1. CASE Feeder \/ Monitor \/ Main \/ Processor
  <2>1. UNCHANGED trainVars /\ UNCHANGED <<sync, synced>> /\ version' = version
    BY <1>1 DEF Feeder, Monitor, Main, Processor, Own, _feed_samples, _processor_worker, procOther,
           ProcTop, ProcTake, ProcAdmit, ProcPause, ProcReap, ProcWait, ProcGoOn, ProcSubmit,
           _async_monitor_loop, MonitorCheck, MonitorResume, SendFinish
  <2>2. pc = "ended" => pc' = "ended"
    BY <1>1 DEF Feeder, Monitor, Main, Processor, _feed_samples, _processor_worker,
           ProcTop, ProcTake, ProcAdmit, ProcPause, ProcReap, ProcWait, ProcGoOn, ProcSubmit,
           _async_monitor_loop, MonitorCheck, MonitorResume, NotifyAndRelease, SendFinish
  <2> QED BY <2>1, <2>2, VersionAside
<1>2. ASSUME NEW s \in Samples, Task(s) PROVE VersionInv'
  BY <1>2, TaskEffect, VersionAside DEF FlowInv, taskOther
<1>3. CASE Done \/ UNCHANGED vars
  BY <1>3, VersionAside DEF Done, vars, rollVars, syncVars
<1> QED BY <1>1, <1>2, <1>3, VersionTrainer, VersionSynchronizer DEF Next

\* The products, with which the rest is linear.
LEMMA Products ==
  /\ PerVersion \in Nat \ {0}
  /\ \A v \in Nat : v * PerVersion \in Nat /\ Due(v) \in Nat /\ Due(v) = v * PerVersion + PerVersion
                    /\ Due(v) = (v + 1) * PerVersion /\ Due(v) <= Due(v + 1)
  /\ \A st \in 1 .. Trigger : /\ (st - 1) * Required \in Nat
                              /\ (st - 1) * Required + Required <= PerVersion
                              /\ (st - 1) * Required + Required = st * Required
  /\ Trigger * Required = PerVersion /\ 0 * Required = 0 /\ (1 - 1) * Required = 0
<1>1. Required \in Nat \ {0} /\ Trigger \in Nat \ {0}
  BY Sizes
<1> DEFINE P == PerVersion
<1>2. P \in Nat \ {0} /\ Trigger * Required = P /\ 0 * Required = 0 /\ (1 - 1) * Required = 0
  BY <1>1 DEF PerVersion
<1>3. ASSUME NEW v \in Nat
      PROVE  /\ v * P \in Nat /\ Due(v) \in Nat /\ Due(v) = v * P + P
             /\ Due(v) = (v + 1) * P /\ Due(v) <= Due(v + 1)
  <2> HIDE DEF P
  <2>1. v * P \in Nat /\ (v + 1) * P = v * P + P /\ (v + 1 + 1) * P = v * P + P + P
    BY <1>2
  <2>2. Due(v) = (v + 1) * P /\ Due(v + 1) = (v + 1 + 1) * P
    BY DEF Due, P
  <2> QED BY <1>2, <2>1, <2>2
<1>4. ASSUME NEW st \in 1 .. Trigger
      PROVE  /\ (st - 1) * Required \in Nat /\ (st - 1) * Required + Required <= P
             /\ (st - 1) * Required + Required = st * Required
  <2>1. st \in Nat /\ st - 1 \in Nat /\ Trigger - st \in Nat
    BY <1>1
  <2>2. (st - 1) * Required \in Nat /\ st * Required \in Nat /\ (Trigger - st) * Required \in Nat
    BY <1>1, <2>1
  <2>3. (st - 1) * Required + Required = st * Required
    BY <1>1, <2>1
  <2>4. st * Required + (Trigger - st) * Required = Trigger * Required
    BY <1>1, <2>1
  <2> QED BY <1>2, <2>2, <2>3, <2>4
<1> QED BY <1>2, <1>3, <1>4

LEMMA ReceivedTyped ==
  ASSUME TypeOK
  PROVE  /\ Received \in Nat /\ tversion * PerVersion \in Nat /\ (step - 1) * Required \in Nat
         /\ Len(batch) \in Nat /\ Len(queue) \in Nat /\ tversion \in Nat /\ version \in Nat
         /\ Due(version) \in Nat /\ Held \in Nat /\ staleness \in Nat /\ MaxRequired \in Nat \ {0}
         /\ step \in 1 .. Trigger
<1>1. /\ tversion \in Nat /\ version \in Nat /\ step \in 1 .. Trigger /\ staleness \in Nat
      /\ batch \in Seq(Samples) /\ queue \in Seq(Samples \cup {Finish})
  BY DEF TypeOK
<1>2. Len(batch) \in Nat /\ Len(queue) \in Nat
  BY <1>1
<1>3. tversion * PerVersion \in Nat /\ (step - 1) * Required \in Nat /\ Due(version) \in Nat
  BY <1>1, Products
<1>4. Received \in Nat
  BY <1>2, <1>3 DEF Received
<1>5. Held \in Nat
  BY <1>2, Sets DEF Held
<1> QED BY <1>1, <1>2, <1>3, <1>4, <1>5, Sizes DEF MaxRequired

LEMMA ReceivedTypedNext ==
  ASSUME TypeOK'
  PROVE  /\ Received' \in Nat /\ Len(batch') \in Nat /\ Len(queue') \in Nat /\ version' \in Nat
         /\ Due(version') \in Nat /\ Held' \in Nat /\ staleness' \in Nat /\ MaxRequired \in Nat
<1>1. (TypeOK =>
         /\ Received \in Nat /\ Len(batch) \in Nat /\ Len(queue) \in Nat /\ version \in Nat
         /\ Due(version) \in Nat /\ Held \in Nat /\ staleness \in Nat)'
  BY ReceivedTyped, PTL
<1> QED BY <1>1, Sizes DEF Due, PerVersion, MaxRequired

\* A batch that is trained on was received already, the next sample was not.
LEMMA ReceivedTrain == ASSUME TypeOK, TypeOK', Train PROVE Received' = Received
<1>1. /\ Len(batch) = Required /\ batch' = <<>>
      /\ \/ step < Trigger /\ step' = step + 1 /\ tversion' = tversion
         \/ ~(step < Trigger) /\ step' = 1 /\ tversion' = tversion + 1
  BY DEF Train, AfterStep
<1>2. /\ step \in 1 .. Trigger /\ tversion \in Nat /\ Trigger \in Nat \ {0} /\ Len(<<>>) = 0
      /\ tversion * PerVersion \in Nat /\ (step - 1) * Required \in Nat /\ Required \in Nat
  BY ReceivedTyped, Sizes
<1>3. Received = tversion * PerVersion + step * Required
  <2>1. (step - 1) * Required + Required = step * Required
    BY <1>2, Products
  <2> QED BY <1>1, <1>2, <2>1 DEF Received
<1>4. CASE step < Trigger /\ step' = step + 1 /\ tversion' = tversion
  <2>1. step' - 1 = step /\ step * Required \in Nat
    BY <1>2, <1>4
  <2>2. Received' = tversion * PerVersion + step * Required + 0
    BY <1>1, <1>2, <1>4, <2>1 DEF Received, PerVersion
  <2> QED BY <1>2, <1>3, <2>1, <2>2
<1>5. CASE ~(step < Trigger) /\ step' = 1 /\ tversion' = tversion + 1
  <2>1. step * Required = PerVersion
    <3>1. step = Trigger
      BY <1>2, <1>5
    <3> QED BY <3>1, Products
  <2>2. Received' = (tversion + 1) * PerVersion + (1 - 1) * Required + 0
    BY <1>1, <1>2, <1>5 DEF Received, PerVersion
  <2>3. (tversion + 1) * PerVersion = tversion * PerVersion + PerVersion /\ PerVersion \in Nat
    BY <1>2, Products
  <2>4. (1 - 1) * Required = 0
    BY Products
  <2> QED BY <1>2, <1>3, <2>1, <2>2, <2>3, <2>4
<1> QED BY <1>1, <1>4, <1>5

LEMMA ReceivedCollect ==
  ASSUME TypeOK, UNCHANGED <<step, tversion>>, NEW x \in Samples, batch' = Append(batch, x)
  PROVE  Received' = Received + 1 /\ Len(batch') = Len(batch) + 1
<1>1. Len(batch') = Len(batch) + 1
  <2>1. batch \in Seq(Samples)
    BY DEF TypeOK
  <2> QED BY <2>1, SetOfAppend
<1>2. Received' = tversion * PerVersion + (step - 1) * Required + (Len(batch) + 1)
  BY <1>1 DEF Received, PerVersion
<1>3. tversion * PerVersion \in Nat /\ (step - 1) * Required \in Nat /\ Len(batch) \in Nat
  BY ReceivedTyped
<1> QED BY <1>1, <1>2, <1>3 DEF Received

\* While the rollouter counts, the trainer is within the version that follows
\* the rollouter's, or waits at its end.
LEMMA ReceivedAtUpdate ==
  ASSUME FlowInv, PlaceInv, VersionInv, sync = "updating"
  PROVE  Received <= Due(version)
<1>1. /\ tversion * PerVersion \in Nat /\ (step - 1) * Required \in Nat /\ Len(batch) \in Nat
      /\ version \in Nat /\ tversion \in Nat /\ step \in 1 .. Trigger
  BY ReceivedTyped DEF FlowInv, TypeInv
<1>2. Len(batch) <= Required /\ Required \in Nat
  BY Sizes DEF PlaceInv, OnceInv
<1>3. CASE tpc = "valid"
  <2>1. tversion = version + 1 /\ step = 1 /\ batch = <<>>
    BY <1>3 DEF VersionInv
  <2>2. Len(batch) = 0 /\ (step - 1) * Required = 0
    BY <2>1, Products
  <2>3. Received = (version + 1) * PerVersion + 0 + 0
    BY <2>1, <2>2 DEF Received
  <2> QED BY <1>1, <2>3, Products
<1>4. CASE tpc # "valid"
  <2>1. tversion = version
    BY <1>4 DEF VersionInv
  <2>2. (step - 1) * Required + Required <= PerVersion /\ PerVersion \in Nat
        /\ Due(version) = version * PerVersion + PerVersion
    BY <1>1, Products
  <2> QED BY <1>1, <1>2, <2>1, <2>2 DEF Received
<1> QED BY <1>3, <1>4

\* Until the end mark is sent.
HeldInv ==
  pc # "ended" =>
  /\ Held <= staleness + 1
  /\ Held <= MaxRequired + 1
  /\ Received + Held <= Due(version) + staleness + 1
  /\ Received + Held <= Due(version) + MaxRequired + 1

LEMMA HeldInit == ASSUME Init PROVE HeldInv
<1>1. /\ queue = <<>> /\ cancelQ = <<>> /\ hand = 0 /\ batch = <<>> /\ staleness = 0 /\ step = 1
      /\ tversion = 0 /\ version = 0 /\ task = [s \in Samples |-> "none"]
  BY DEF Init, RollInit, QueueInit, Nothing
<1>2. Len(queue) = 0 /\ Len(batch) = 0 /\ Len(cancelQ) = 0 /\ InHands = 0 /\ Cardinality(Live) = 0
  <2>1. Live = {} /\ 0 \notin Samples
    BY <1>1 DEF Live, Samples
  <2> QED BY <1>1, <2>1, FS_EmptySet DEF InHands
<1>3. Held = 0
  BY <1>2 DEF Held, Waits
<1>4. Received = 0
  <2>1. Received = 0 * PerVersion + (1 - 1) * Required + 0
    BY <1>1, <1>2 DEF Received
  <2>2. 0 * PerVersion = 0 /\ (1 - 1) * Required = 0
    BY Products
  <2> QED BY <2>1, <2>2
<1>5. Due(version) \in Nat /\ MaxRequired \in Nat
  BY <1>1, Products, Sizes DEF MaxRequired
<1> QED BY <1>1, <1>3, <1>4, <1>5 DEF HeldInv

LEMMA HeldArithmetic ==
  ASSUME NEW h \in Nat, NEW hn \in Nat, NEW r \in Nat, NEW rn \in Nat, NEW d \in Nat, NEW dn \in Nat,
         NEW b \in Nat, hn <= h, rn + hn <= r + h, d <= dn, h <= b + 1, r + h <= d + b + 1
  PROVE  hn <= b + 1 /\ rn + hn <= dn + b + 1
OBVIOUS

LEMMA SumKeepsOrder == \A r, h, hn \in Nat : hn <= h => r + hn <= r + h
OBVIOUS

\* A step that adds nothing to what is held or received, and counts the same.
NoMoreHeld ==
  /\ Held' <= Held /\ Received' + Held' <= Received + Held
  /\ staleness' = staleness /\ Due(version) <= Due(version') /\ (pc = "ended" => pc' = "ended")

LEMMA HeldFrame == ASSUME FlowInv, FlowInv', HeldInv, NoMoreHeld PROVE HeldInv'
<1>1. /\ Received \in Nat /\ Held \in Nat /\ Due(version) \in Nat /\ staleness \in Nat /\ MaxRequired \in Nat
      /\ Received' \in Nat /\ Held' \in Nat /\ Due(version') \in Nat
  BY ReceivedTyped, ReceivedTypedNext DEF FlowInv, TypeInv
<1>2. Due(version)' = Due(version') /\ MaxRequired' = MaxRequired
  BY DEF Due, PerVersion, MaxRequired
<1>3. ASSUME NEW b \in Nat, Held <= b + 1, Received + Held <= Due(version) + b + 1
      PROVE  Held' <= b + 1 /\ Received' + Held' <= Due(version') + b + 1
  <2>1. /\ Held' <= Held /\ Received' + Held' <= Received + Held /\ Due(version) <= Due(version')
    BY DEF NoMoreHeld
  <2> QED BY <1>1, <1>3, <2>1, HeldArithmetic
<1>4. staleness' = staleness /\ (pc = "ended" => pc' = "ended")
  BY DEF NoMoreHeld
<1> QED BY <1>1, <1>2, <1>3, <1>4 DEF HeldInv

\* The steps that move no sample.
LEMMA HeldAside ==
  ASSUME FlowInv, FlowInv', HeldInv, UNCHANGED <<queue, task, cancelQ, hand, batch, step, tversion>>,
         staleness' = staleness, version' \in {version, version + 1}, pc = "ended" => pc' = "ended"
  PROVE  HeldInv'
<1>1. Held' = Held /\ Received' = Received
  BY DEF Held, Waits, InHands, Live, Samples, Received, PerVersion
<1>2. Due(version) <= Due(version')
  <2>1. version \in Nat
    BY DEF FlowInv, TypeInv, TypeOK
  <2>2. Due(version) \in Nat /\ Due(version) <= Due(version + 1)
    BY <2>1, Products
  <2> QED BY <2>2
<1>3. Received \in Nat /\ Held \in Nat
  BY ReceivedTyped DEF FlowInv, TypeInv
<1> QED BY <1>1, <1>2, <1>3, HeldFrame DEF NoMoreHeld

LEMMA HeldProcessor == ASSUME FlowInv, FlowInv', LimitInv, HeldInv, Processor PROVE HeldInv'
<1>1. /\ UNCHANGED <<queue, version, batch, step, tversion>> /\ pc # "ended" /\ Received' = Received
      /\ Due(version') = Due(version)
  BY DEF Processor, Own, mqVars, trainVars, procOther, _processor_worker, ProcTop, ProcTake, ProcAdmit,
         ProcPause, ProcReap, ProcWait, ProcGoOn, ProcSubmit, Received, PerVersion, Due
<1>2. /\ Received \in Nat /\ Held \in Nat /\ Due(version) \in Nat /\ staleness \in Nat /\ MaxRequired \in Nat
      /\ Held' \in Nat /\ staleness' \in Nat /\ Len(queue) \in Nat
  BY ReceivedTyped, ReceivedTypedNext DEF FlowInv, TypeInv
<1>3. /\ Cardinality(Live) \in Nat /\ Len(cancelQ) \in Nat /\ InHands \in {0, 1} /\ InHands' \in {0, 1}
      /\ Cardinality(Live') \in Nat /\ Len(cancelQ') \in Nat /\ 0 \notin Samples /\ IsFiniteSet(Live)
  BY Sets, SetsNext DEF FlowInv, TypeInv
<1>4. ASSUME pc \in {"top", "take"}, TakePending, UNCHANGED <<cancelQ, task>>, staleness < MaxRequired
      PROVE  HeldInv'
  <2>1. hand = 0 /\ InHands = 0 /\ Live' = Live /\ staleness' = staleness + 1
    BY <1>3, <1>4 DEF LimitInv, Waiting, Nothing, InHands, Live, TakePending
  <2>2. Held' <= Held + 1
    BY <1>1, <1>2, <1>3, <1>4, <2>1 DEF Held, Waits
  <2>3. /\ Held <= staleness + 1 /\ Held <= MaxRequired + 1
        /\ Received + Held <= Due(version) + staleness + 1
    BY <1>1 DEF HeldInv
  <2>4. /\ Held' <= staleness' + 1 /\ Held' <= MaxRequired + 1
        /\ Received' + Held' <= Due(version) + staleness' + 1
        /\ Received' + Held' <= Due(version) + MaxRequired + 1
    BY <1>1, <1>2, <1>4, <2>1, <2>2, <2>3
  <2>5. Due(version)' = Due(version) /\ MaxRequired' = MaxRequired
    BY <1>1 DEF Due, PerVersion, MaxRequired
  <2> QED BY <2>4, <2>5, Zenon DEF HeldInv
<1>5. ASSUME Held' <= Held, staleness' = staleness PROVE HeldInv'
  <2>1. Received' + Held' <= Received + Held
    <3>1. Received + Held' <= Received + Held
      BY <1>2, <1>5, SumKeepsOrder, Zenon
    <3> QED BY <1>1, <3>1, Zenon
  <2>3. Due(version) <= Due(version')
    BY <1>1, <1>2
  <2>2. NoMoreHeld
    BY <1>1, <1>5, <2>1, <2>3 DEF NoMoreHeld
  <2> QED BY <2>2, HeldFrame
<1>6. CASE ProcTop
  <2>1. pc = "top" /\ task' = task /\ hand = Nothing
    BY <1>6 DEF ProcTop, procOther, LimitInv, Waiting
  <2>2. CASE paused \/ ShouldPause
    <3>1. UNCHANGED <<hand, cancelQ, staleness>>
      BY <1>6, <2>2 DEF ProcTop
    <3>2. Held' = Held
      BY <1>1, <2>1, <3>1 DEF Held, Waits, InHands, Live
    <3> QED BY <1>2, <1>5, <3>1, <3>2
  <2>3. CASE ~(paused \/ ShouldPause) /\ cancelQ # <<>>
    <3>1. hand' = Head(cancelQ) /\ cancelQ' = Tail(cancelQ) /\ staleness' = staleness
      BY <1>6, <2>3 DEF ProcTop
    <3>2. Len(cancelQ') = Len(cancelQ) - 1
      <4>1. cancelQ \in Seq(Samples)
        BY DEF FlowInv, TypeInv, TypeOK
      <4> QED BY <2>3, <3>1, <4>1, SetOfTail
    <3>3. InHands = 0 /\ Live' = Live
      BY <1>3, <2>1 DEF InHands, Nothing, Live
    <3>4. Held' <= Held
      BY <1>1, <1>2, <1>3, <3>2, <3>3 DEF Held, Waits
    <3> QED BY <1>5, <3>1, <3>4
  <2>4. CASE ~(paused \/ ShouldPause) /\ cancelQ = <<>> /\ pending # <<>>
    <3>1. TakePending /\ UNCHANGED cancelQ /\ staleness < MaxRequired
      BY <1>2, <1>6, <2>4 DEF ProcTop, ShouldPause, MaxRequired
    <3> QED BY <1>4, <2>1, <3>1
  <2>5. CASE ~(paused \/ ShouldPause) /\ cancelQ = <<>> /\ pending = <<>>
    <3>1. UNCHANGED <<hand, cancelQ, staleness>>
      BY <1>6, <2>5 DEF ProcTop
    <3>2. Held' = Held
      BY <1>1, <2>1, <3>1 DEF Held, Waits, InHands, Live
    <3> QED BY <1>2, <1>5, <3>1, <3>2
  <2> QED BY <2>2, <2>3, <2>4, <2>5
<1>7. CASE ProcTake
  <2>1. TakePending /\ UNCHANGED <<cancelQ, task>> /\ pc = "take"
    BY <1>7 DEF ProcTake, procOther
  <2> QED BY <1>4, <2>1 DEF LimitInv
<1>8. CASE ProcAdmit \/ ProcPause \/ ProcWait \/ ProcGoOn \/ ProcReap
  <2>1. UNCHANGED <<cancelQ, staleness, task>> /\ (hand' = hand \/ hand' = Nothing)
    BY <1>8 DEF ProcAdmit, ProcPause, ProcWait, ProcGoOn, ProcReap, procOther
  <2>2. InHands' <= InHands /\ Live' = Live
    BY <1>3, <2>1 DEF InHands, Nothing, Live
  <2>3. Held' <= Held
    BY <1>1, <1>2, <1>3, <2>1, <2>2 DEF Held, Waits
  <2> QED BY <1>5, <2>1, <2>3
<1>9. CASE ProcSubmit
  <2>1. /\ pc = "submit" /\ hand' = Nothing /\ task' = [task EXCEPT ![hand] = "new"]
        /\ UNCHANGED <<cancelQ, staleness>>
    BY <1>9 DEF ProcSubmit
  <2>2. hand \in Samples /\ InHands = 1 /\ InHands' = 0
    BY <1>3, <2>1 DEF FlowInv, TypeInv, InHands, Nothing
  <2>3. Live' = Live \cup {hand}
    BY <2>1, <2>2 DEF Live, FlowInv, TypeInv, TypeOK
  <2>4. Cardinality(Live') <= Cardinality(Live) + 1
    <3>1. Cardinality(Live \cup {hand}) = IF hand \in Live THEN Cardinality(Live)
                                                         ELSE Cardinality(Live) + 1
      BY <1>3, FS_AddElement
    <3> QED BY <1>3, <2>3, <3>1
  <2>5. Held' <= Held
    BY <1>1, <1>2, <1>3, <2>1, <2>2, <2>4 DEF Held, Waits
  <2> QED BY <1>5, <2>1, <2>5
<1> QED BY <1>6, <1>7, <1>8, <1>9 DEF Processor, _processor_worker

\* A task that ends leaves its sample in one place at most.
LEMMA HeldTask == ASSUME FlowInv, FlowInv', HeldInv, NEW s \in Samples, Task(s) PROVE HeldInv'
<1>1. /\ UNCHANGED <<pc, hand, staleness, version, batch, step, tversion>> /\ Received' = Received
      /\ InHands' = InHands /\ Due(version') = Due(version)
  BY TaskEffect DEF FlowInv, taskOther, trainVars, Received, PerVersion, InHands, Samples, Due
<1>2. /\ Received \in Nat /\ Held \in Nat /\ Due(version) \in Nat /\ Len(queue) \in Nat /\ Len(queue') \in Nat
      /\ Held' \in Nat
  BY ReceivedTyped, ReceivedTypedNext DEF FlowInv, TypeInv
<1>3. /\ Cardinality(Live) \in Nat /\ Len(cancelQ) \in Nat /\ InHands \in {0, 1}
      /\ Cardinality(Live') \in Nat /\ Len(cancelQ') \in Nat
  BY Sets, SetsNext DEF FlowInv, TypeInv
<1>4. /\ Cardinality(Live') <= Cardinality(Live)
      /\ task'[s] = "none" => Cardinality(Live') = Cardinality(Live) - 1
  BY SlotsTask
<1>5. /\ task' = [task EXCEPT ![s] = "none"] => task'[s] = "none"
      /\ cancelQ' = Append(cancelQ, s) => Len(cancelQ') = Len(cancelQ) + 1
      /\ put_sample(s) => Len(queue') <= Len(queue) + 1
  <2>1. task \in [Samples -> {"none", "new", "gen", "put"}] /\ cancelQ \in Seq(Samples)
    BY DEF FlowInv, TypeInv, TypeOK
  <2>2. put_sample(s) => Len(queue') <= Len(queue) + 1
    <3>1. ASSUME put_sample(s) PROVE Len(queue') <= Len(queue) + 1
      <4>1. PICK d \in {0, 1} : Len(queue') = Len(queue) + 1 - d
        BY <3>1, PutAt DEF FlowInv, TypeInv
      <4> QED BY <1>2, <4>1
    <3> QED BY <3>1
  <2> QED BY <2>1, <2>2, SetOfAppend
<1>6. Held' <= Held
  <2>1. \/ UNCHANGED <<cancelQ, queue>>
        \/ task'[s] = "none" /\ Len(cancelQ') = Len(cancelQ) + 1 /\ UNCHANGED queue
        \/ task'[s] = "none" /\ Len(queue') <= Len(queue) + 1 /\ UNCHANGED cancelQ
    BY <1>5, TaskEffect DEF FlowInv
  <2>2. CASE UNCHANGED <<cancelQ, queue>>
    BY <1>1, <1>2, <1>3, <1>4, <2>2 DEF Held, Waits
  <2>3. CASE task'[s] = "none" /\ Len(cancelQ') = Len(cancelQ) + 1 /\ UNCHANGED queue
    BY <1>1, <1>2, <1>3, <1>4, <2>3 DEF Held, Waits
  <2>4. CASE task'[s] = "none" /\ Len(queue') <= Len(queue) + 1 /\ UNCHANGED cancelQ
    <3>1. Cardinality(Live') = Cardinality(Live) - 1 /\ Len(cancelQ') = Len(cancelQ)
      BY <1>4, <2>4
    <3>2. Waits' = Waits - 1 /\ Waits \in Nat
      BY <1>3, <3>1 DEF Waits
    <3>3. Held = Len(queue) + Waits + InHands /\ Held' = Len(queue') + (Waits - 1) + InHands
      BY <1>1, <3>2 DEF Held
    <3>4. (Waits - 1) \in Int /\ Len(queue') + (Waits - 1) <= Len(queue) + Waits
      BY <1>2, <2>4, <3>2
    <3> QED BY <1>2, <1>3, <3>2, <3>3, <3>4
  <2> QED BY <2>1, <2>2, <2>3, <2>4
<1>7. Received' + Held' <= Received + Held
  <2>1. Received + Held' <= Received + Held
    BY <1>2, <1>6, SumKeepsOrder, Zenon
  <2> QED BY <1>1, <2>1, Zenon
<1>8. Due(version) <= Due(version')
  BY <1>1, <1>2
<1>9. NoMoreHeld
  BY <1>1, <1>6, <1>7, <1>8 DEF NoMoreHeld
<1> QED BY <1>9, HeldFrame

\* What the trainer receives leaves the queue.
LEMMA HeldTrainer ==
  ASSUME FlowInv, FlowInv', VersionInv, VersionInv', HeldInv, Trainer
  PROVE  HeldInv'
<1>1. UNCHANGED <<hand, task, cancelQ, staleness, version, pc>> /\ Waits' = Waits /\ InHands' = InHands
      /\ Due(version') = Due(version)
  BY DEF Trainer, Collect, Train, FinalSync, Closing, rollVars, Waits, InHands, Live, Samples, Due, PerVersion
<1>2. /\ Received \in Nat /\ Held \in Nat /\ Due(version) \in Nat /\ Len(queue) \in Nat /\ Held' \in Nat
      /\ Waits \in Nat /\ InHands \in {0, 1}
  BY ReceivedTyped, ReceivedTypedNext, Sets DEF FlowInv, TypeInv
<1>3. CASE ending \/ ending'
  <2>1. pc' = "ended"
    BY <1>1, <1>3 DEF VersionInv
  <2> QED BY <2>1 DEF HeldInv
<1>4. CASE Collect /\ ~ending /\ ~ending'
  <2>1. /\ queue # <<>> /\ queue' = Tail(queue) /\ UNCHANGED <<step, tversion>>
        /\ \E x \in Samples : batch' = Append(batch, x)
    BY <1>4 DEF Collect, get_sample
  <2>2. Received' = Received + 1
    BY <2>1, ReceivedCollect DEF FlowInv, TypeInv
  <2>3. Len(queue') = Len(queue) - 1
    <3>1. queue \in Seq(Samples \cup {Finish})
      BY DEF FlowInv, TypeInv, TypeOK
    <3> QED BY <2>1, <3>1
  <2>4. Held' = Held - 1
    BY <1>1, <1>2, <2>3 DEF Held
  <2> QED BY <1>1, <1>2, <2>2, <2>4, HeldFrame DEF NoMoreHeld
<1>5. CASE Train
  <2>1. Received' = Received /\ queue' = queue
    BY <1>5, ReceivedTrain DEF FlowInv, TypeInv, Train, mqVars
  <2>2. Held' = Held
    BY <1>1, <2>1 DEF Held
  <2> QED BY <1>1, <1>2, <2>1, <2>2, HeldFrame DEF NoMoreHeld
<1>6. CASE (FinalSync \/ Closing) /\ ~ending
  <2>1. UNCHANGED <<queue, batch>> /\ tpc \in {"last", "closing"}
    BY <1>6 DEF FinalSync, Closing, mqVars
  <2> QED BY <1>6, <2>1 DEF VersionInv
<1> QED BY <1>3, <1>4, <1>5, <1>6 DEF Trainer

LEMMA HeldSynchronizer ==
  ASSUME FlowInv, FlowInv', LimitInv, PlaceInv, VersionInv, HeldInv, Synchronizer
  PROVE  HeldInv'
<1>1. UNCHANGED <<queue, task, cancelQ, hand, batch, step, tversion>> /\ (pc = "ended" => pc' = "ended")
  BY DEF Synchronizer, SyncStart, PauseBegin, PauseEnd, WeightsCopied, UpdateBegin, UpdateEnd,
         ResumeCall, resume, NotifyAndRelease, notProc, mqVars, trainVars
<1>2. CASE SyncStart \/ PauseBegin \/ PauseEnd \/ WeightsCopied \/ ResumeCall \/ resume
  <2>1. UNCHANGED <<staleness, version>>
    BY <1>2 DEF SyncStart, PauseBegin, PauseEnd, WeightsCopied, ResumeCall, resume
  <2> QED BY <1>1, <2>1, HeldAside
<1>3. CASE UpdateBegin
  <2>1. staleness' = staleness /\ version' = version + 1
    BY <1>3 DEF UpdateBegin, VersionInv
  <2> QED BY <1>1, <2>1, HeldAside
<1>4. CASE UpdateEnd
  <2>1. /\ sync = "updating" /\ staleness' = counted + Len(queue) /\ UNCHANGED <<version, pc>>
    BY <1>4 DEF UpdateEnd
  <2>2. Held' = Held /\ Received' = Received /\ Due(version') = Due(version)
    BY <1>1, <2>1 DEF Held, Waits, InHands, Live, Samples, Received, PerVersion, Due
  <2>3. Received <= Due(version) /\ Waits <= counted
    BY <2>1, ReceivedAtUpdate DEF LimitInv
  <2>4. /\ Received \in Nat /\ Held \in Nat /\ Due(version) \in Nat /\ Len(queue) \in Nat
        /\ Waits \in Nat /\ InHands \in {0, 1} /\ counted \in Nat /\ MaxRequired \in Nat
    <3>1. counted \in Nat
      BY DEF FlowInv, TypeInv, TypeOK
    <3> QED BY <3>1, ReceivedTyped, Sets DEF FlowInv, TypeInv
  <2>5. Held <= staleness' + 1
    BY <2>1, <2>3, <2>4 DEF Held
  <2> QED BY <2>1, <2>2, <2>3, <2>4, <2>5 DEF HeldInv, MaxRequired
<1> QED BY <1>2, <1>3, <1>4 DEF Synchronizer

LEMMA HeldStep ==
  ASSUME FlowInv, FlowInv', LimitInv, PlaceInv, VersionInv, VersionInv', HeldInv, [Next]_vars
  PROVE  HeldInv'
<1>1. CASE Feeder \/ Monitor \/ Done \/ UNCHANGED vars
  <2>1. /\ UNCHANGED <<queue, task, cancelQ, hand, batch, step, tversion, staleness, version>>
        /\ pc = "ended" => pc' = "ended"
    BY <1>1 DEF Feeder, _feed_samples, Own, mqVars, trainVars, Monitor, _async_monitor_loop, MonitorCheck,
           MonitorResume, NotifyAndRelease, Done, vars, rollVars
  <2> QED BY <2>1, HeldAside
<1>2. CASE Main
  BY <1>2 DEF Main, SendFinish, HeldInv
<1> QED BY <1>1, <1>2, HeldProcessor, HeldTask, HeldTrainer, HeldSynchronizer DEF Next

\* In partial mode a complete sample was completed under the rollouter's present
\* version: no task is left when the servers' weights are overwritten.
StampInv ==
  \A s \in Samples : task[s] = "put" => ver[s] = version /\ sync \notin Copying

LEMMA StampInit == ASSUME Init PROVE StampInv
BY DEF Init, RollInit, StampInv

LEMMA StampStep == ASSUME Partial, FlowInv, QuietInv, StampInv, [Next]_vars PROVE StampInv'
<1>1. CASE Feeder \/ Monitor \/ Main \/ Trainer \/ Done \/ UNCHANGED vars
  <2>1. UNCHANGED <<task, ver, version, sync>>
    BY <1>1 DEF Feeder, Monitor, Main, Own, _feed_samples, _async_monitor_loop, MonitorCheck, MonitorResume,
           SendFinish, Trainer, Collect, Train, FinalSync, Closing, Done, vars, rollVars, syncVars
  <2> QED BY <2>1 DEF StampInv
<1>2. CASE Processor
  <2>1. UNCHANGED <<ver, version, sync>> /\ (task' = task \/ task' = [task EXCEPT ![hand] = "new"])
    BY <1>2 DEF Processor, Own, _processor_worker, procOther, ProcTop, ProcTake, ProcAdmit, ProcPause,
           ProcReap, ProcWait, ProcGoOn, ProcSubmit
  <2>2. \A s \in Samples : task'[s] = task[s] \/ task'[s] = "new"
    BY <2>1 DEF QuietInv
  <2> QED BY <2>1, <2>2 DEF StampInv
<1>3. ASSUME NEW s \in Samples, Task(s) PROVE StampInv'
  <2>1. UNCHANGED <<version, sync>>
    BY <1>3, TaskEffect DEF FlowInv, taskOther
  <2>2. CASE TaskGenerated(s)
    <3>1. task[s] = "gen" /\ task' = [task EXCEPT ![s] = "put"] /\ ver' = [ver EXCEPT ![s] = version]
      BY <2>2 DEF TaskGenerated
    <3>2. ver \in [Samples -> Nat] /\ task \in [Samples -> TaskStates] /\ sync \notin Copying
      BY <3>1 DEF FlowInv, TypeInv, TypeOK, QuietInv
    <3> QED BY <2>1, <3>1, <3>2 DEF StampInv
  <2>3. CASE ~TaskGenerated(s)
    <3>1. ver' = ver /\ (task' = [task EXCEPT ![s] = "none"] \/ task' = [task EXCEPT ![s] = "gen"])
      BY <1>3, <2>3 DEF Task, _process_single_sample_streaming, TaskReachesServer, TaskCancelled,
             TaskPuts, TaskRaises, Interrupted
    <3>2. \A t \in Samples : task'[t] = "put" => task[t] = "put"
      BY <3>1 DEF QuietInv
    <3> QED BY <2>1, <3>1, <3>2 DEF StampInv
  <2> QED BY <2>2, <2>3
<1>4. CASE Synchronizer
  <2>1. UNCHANGED <<task, ver>>
    BY <1>4 DEF Synchronizer, SyncStart, PauseBegin, PauseEnd, WeightsCopied, UpdateBegin, UpdateEnd,
           ResumeCall, resume, notProc
  <2>2. CASE PauseEnd
    BY <2>1, <2>2 DEF PauseEnd, Live, StampInv
  <2>3. CASE UpdateBegin
    BY <2>1, <2>3 DEF UpdateBegin, StampInv, Copying
  <2>4. CASE ~PauseEnd /\ ~UpdateBegin
    <3>1. version' = version /\ (sync' \in Copying => sync \in Copying)
      BY <1>4, <2>4 DEF Synchronizer, SyncStart, PauseBegin, WeightsCopied, UpdateEnd, ResumeCall, resume,
             syncVars, Copying
    <3> QED BY <2>1, <3>1 DEF StampInv
  <2> QED BY <2>2, <2>3, <2>4
<1> QED BY <1>1, <1>2, <1>3, <1>4 DEF Next

LEMMA QuietStep == ASSUME Partial, QuietInv, [Next]_vars PROVE QuietInv'
<1>1. CASE UNCHANGED vars
  BY <1>1 DEF QuietInv, vars, rollVars, syncVars
<1> QED BY <1>1, QuietOwn, QuietTask, QuietTrainer, QuietSynchronizer DEF Next

\* How many samples the trainer may have received when it receives s, and how
\* many it had trained on or was to train on before the batch it collects.
Deadline(s) == Due(ver[s]) + MaxRequired + 1
Before == tversion * PerVersion + (step - 1) * Required

\* The place of every sample in the batch and in the queue, up to the end mark.
LateInv ==
  ~ending =>
    /\ \A j \in 1 .. Len(batch) : Before + j <= Deadline(batch[j])
    /\ \A j \in 1 .. Len(queue) :
         (\A i \in 1 .. j : queue[i] # Finish) => Received + j <= Deadline(queue[j])

LEMMA LateInit == ASSUME Init PROVE LateInv
<1>1. Len(queue) = 0 /\ Len(batch) = 0
  BY DEF Init, QueueInit
<1> QED BY <1>1 DEF LateInv

LEMMA DeadlineTyped == ASSUME TypeOK, NEW s \in Samples PROVE Deadline(s) \in Nat /\ ver[s] \in Nat
<1>1. ver[s] \in Nat
  BY DEF TypeOK
<1>2. Due(ver[s]) \in Nat /\ MaxRequired \in Nat
  BY <1>1, Products, Sizes DEF MaxRequired
<1> QED BY <1>1, <1>2 DEF Deadline

LEMMA BeforeTyped ==
  ASSUME TypeOK
  PROVE  Before \in Nat /\ Received = Before + Len(batch) /\ Received \in Nat /\ Len(batch) \in Nat
BY ReceivedTyped DEF Received, Before

\* Where a batch and the queue stand, and what is in them is not stamped anew.
LEMMA LateFrame ==
  ASSUME FlowInv, LateInv, UNCHANGED <<queue, batch, step, tversion, ending>>,
         \A s \in Ready \cup InBatch : ver'[s] = ver[s]
  PROVE  LateInv'
<1>1. Before' = Before /\ Received' = Received
  BY DEF Before, Received, PerVersion
<1>2. \A j \in 1 .. Len(batch) : Deadline(batch[j])' = Deadline(batch[j])
  <2>1. \A j \in 1 .. Len(batch) : batch[j] \in InBatch
    BY DEF InBatch, ToSet, FlowInv, TypeInv, TypeOK
  <2>2. \A j \in 1 .. Len(batch) : ver'[batch[j]] = ver[batch[j]]
    BY <2>1
  <2> QED BY <2>2 DEF Deadline, Due, PerVersion, MaxRequired
<1>3. \A j \in 1 .. Len(queue) : queue[j] # Finish => Deadline(queue[j])' = Deadline(queue[j])
  <2>1. \A j \in 1 .. Len(queue) : queue[j] # Finish => queue[j] \in Ready
    BY DEF Ready, ToSet, FlowInv, TypeInv, TypeOK
  <2>2. \A j \in 1 .. Len(queue) : queue[j] # Finish => ver'[queue[j]] = ver[queue[j]]
    BY <2>1
  <2> QED BY <2>2 DEF Deadline, Due, PerVersion, MaxRequired
<1> QED BY <1>1, <1>2, <1>3 DEF LateInv


LEMMA OneLess == \A r, j, dl \in Nat : r + (j + 1) <= dl => r + j <= dl /\ (r + 1) + j <= dl
OBVIOUS

\* The last place of the queue: the entry must be in time there, or be behind
\* the end mark.
LEMMA LatePut ==
  ASSUME FlowInv, FlowInv', LateInv, MarkInv', NEW x \in Samples \cup {Finish}, put_sample(x),
         UNCHANGED <<batch, step, tversion, ending, ver>>,
         pc' # "ended" => x # Finish /\ Received + Len(queue') <= Deadline(x)
  PROVE  LateInv'
<1>1. Before' = Before /\ Received' = Received
  BY DEF Before, Received, PerVersion
<1>2. PICK d \in {0, 1} :
        /\ Len(queue) \in Nat /\ Len(queue') = Len(queue) + 1 - d
        /\ \A i \in 1 .. (Len(queue) - d) : queue'[i] = queue[i + d]
        /\ queue'[Len(queue')] = x
        /\ d = 0 => dropped' = dropped
        /\ d = 1 => Len(queue) = MaxQueueSize /\ dropped' = dropped \cup {queue[1]}
  BY PutAt DEF FlowInv, TypeInv
<1>3. /\ \A j \in 1 .. Len(batch') : Deadline(batch[j])' = Deadline(batch[j])
      /\ \A j \in 1 .. Len(queue') : Deadline(queue[j])' = Deadline(queue'[j])
  BY DEF Deadline, Due, PerVersion, MaxRequired
<1>4. /\ queue \in Seq(Samples \cup {Finish}) /\ batch \in Seq(Samples) /\ Received \in Nat
      /\ queue' \in Seq(Samples \cup {Finish}) /\ Len(queue') \in Nat
  <2>1. Received \in Nat
    BY BeforeTyped DEF FlowInv, TypeInv
  <2> QED BY <2>1 DEF FlowInv, TypeInv, TypeOK, Samples
<1>5. SUFFICES ASSUME ~ending
               PROVE  LateInv'
  BY DEF LateInv
<1>6. ASSUME NEW j \in 1 .. Len(batch') PROVE Before + j <= Deadline(batch[j])'
  <2>1. j \in 1 .. Len(batch) /\ Deadline(batch[j])' = Deadline(batch[j])
    BY <1>3, <1>6
  <2>2. Before + j <= Deadline(batch[j])
    BY <1>5, <2>1 DEF LateInv
  <2> QED BY <2>1, <2>2, Zenon
<1>7. ASSUME NEW j \in 1 .. Len(queue'), \A i \in 1 .. j : queue'[i] # Finish
      PROVE  Received + j <= Deadline(queue[j])'
  <2>1. queue'[j] \in Samples /\ j \in Nat
    <3>1. j \in 1 .. j
      BY <1>4
    <3>2. queue'[j] # Finish
      BY <1>7, <3>1
    <3> QED BY <1>4, <3>2
  <2>4. Deadline(queue[j])' = Deadline(queue'[j])
    BY <1>3, <1>7
  <2>2. CASE j = Len(queue')
    <3>1. ASSUME pc' = "ended" PROVE FALSE
      <4>1. \E p \in 1 .. Len(queue') : queue'[p] = Finish
        BY <1>5, <3>1 DEF MarkInv
      <4> QED BY <1>7, <2>2, <4>1
    <3>2. Received + j <= Deadline(queue'[j])
      BY <1>2, <2>2, <3>1
    <3> QED BY <2>4, <3>2, Zenon
  <2>3. CASE j # Len(queue')
    <3>1. j \in 1 .. (Len(queue) - d) /\ j + d \in 1 .. Len(queue) /\ queue'[j] = queue[j + d]
      BY <1>2, <1>7, <2>3
    <3>2. ASSUME NEW i \in 1 .. (j + d) PROVE queue[i] # Finish
      <4>1. CASE d = 1 /\ i = 1
        BY <1>2, <4>1 DEF MarkInv
      <4>2. CASE ~(d = 1 /\ i = 1)
        <5>1. i - d \in 1 .. j /\ i - d \in 1 .. (Len(queue) - d) /\ (i - d) + d = i
          BY <1>2, <2>1, <3>1, <3>2, <4>2
        <5> QED BY <1>2, <1>7, <5>1
      <4> QED BY <4>1, <4>2
    <3>3. Received + (j + d) <= Deadline(queue[j + d])
      BY <1>5, <3>1, <3>2 DEF LateInv
    <3>4. Deadline(queue'[j]) \in Nat /\ Received + (j + d) <= Deadline(queue'[j])
      BY <2>1, <3>1, <3>3, DeadlineTyped DEF FlowInv, TypeInv
    <3>5. Received + j <= Deadline(queue'[j])
      <4>1. CASE d = 0
        <5>1. j + d = j
          BY <2>1, <4>1
        <5> QED BY <3>4, <5>1
      <4>2. CASE d = 1
        <5>1. Received + (j + 1) <= Deadline(queue'[j])
          BY <3>4, <4>2, Zenon
        <5>2. Deadline(queue'[j]) \in Nat
          BY <3>4
        <5> QED BY <1>4, <2>1, <5>1, <5>2, OneLess, Zenon
      <4> QED BY <4>1, <4>2
    <3> QED BY <2>4, <3>5, Zenon
  <2> QED BY <2>2, <2>3
<1> QED BY <1>1, <1>6, <1>7 DEF LateInv

LEMMA LateTask ==
  ASSUME FlowInv, FlowInv', PlaceInv, MarkInv', HeldInv, StampInv, LateInv, NEW s \in Samples, Task(s)
  PROVE  LateInv'
<1>1. UNCHANGED <<batch, step, tversion, ending, pc>> /\ task[s] # "none"
  BY TaskEffect DEF FlowInv, taskOther, trainVars
<1>2. CASE TaskGenerated(s)
  <2>1. ver' = [ver EXCEPT ![s] = version] /\ queue' = queue
    BY <1>2 DEF TaskGenerated, mqVars
  <2>2. ver \in [Samples -> Nat]
    BY DEF FlowInv, TypeInv, TypeOK
  <2>3. s \in Live
    BY <1>1 DEF Live
  <2>4. s \notin Ready \cup InBatch
    BY <2>3 DEF PlaceInv, OnceInv, Apart
  <2>5. \A t \in Ready \cup InBatch : ver'[t] = ver[t]
    BY <2>1, <2>2, <2>4
  <2> QED BY <1>1, <2>1, <2>5, LateFrame
<1>3. CASE TaskPuts(s)
  <2>1. put_sample(s) /\ ver' = ver /\ task[s] = "put" /\ s # Finish
    BY <1>3, SlotNumbers DEF TaskPuts
  <2>2. ASSUME pc # "ended" PROVE Received + Len(queue') <= Deadline(s)
    <3>1. ver[s] = version
      BY <2>1 DEF StampInv
    <3>2. Received + Held <= Due(version) + MaxRequired + 1
      BY <2>2 DEF HeldInv
    <3>3. Len(queue') <= Len(queue) + 1 /\ Len(queue') \in Nat /\ Len(queue) \in Nat
      <4>1. PICK d \in {0, 1} : Len(queue) \in Nat /\ Len(queue') = Len(queue) + 1 - d
        BY <2>1, PutAt DEF FlowInv, TypeInv
      <4> QED BY <4>1, ReceivedTypedNext DEF FlowInv, TypeInv
    <3>4. Cardinality(Live) > 0 /\ Cardinality(Live) \in Nat /\ Len(cancelQ) \in Nat /\ InHands \in {0, 1}
          /\ Received \in Nat
      BY SlotsTask, Sets, BeforeTyped DEF FlowInv, TypeInv
    <3>5. Len(queue) + 1 <= Held /\ Held \in Nat
      BY <3>3, <3>4 DEF Held, Waits
    <3>6. Len(queue') <= Held
      BY <3>3, <3>5
    <3>7. Received + Len(queue') <= Received + Held
      BY <3>3, <3>4, <3>5, <3>6, SumKeepsOrder, Zenon
    <3>8. Due(version) + MaxRequired + 1 = Deadline(s)
      BY <3>1 DEF Deadline
    <3>9. Deadline(s) \in Nat
      BY DeadlineTyped DEF FlowInv, TypeInv
    <3>10. Received + Len(queue') \in Nat /\ Received + Held \in Nat
      BY <3>3, <3>4, <3>5
    <3> QED BY <3>2, <3>7, <3>8, <3>9, <3>10
  <2> QED BY <1>1, <2>1, <2>2, LatePut
<1>4. CASE ~TaskGenerated(s) /\ ~TaskPuts(s)
  <2>1. UNCHANGED <<ver, queue>>
    BY <1>4 DEF Task, _process_single_sample_streaming, TaskReachesServer, TaskCancelled,
             TaskRaises, Interrupted, mqVars
  <2> QED BY <1>1, <2>1, LateFrame
<1> QED BY <1>2, <1>3, <1>4

\* What the trainer receives keeps its place: the first of the queue becomes the
\* last of the batch.
LEMMA LateCollect == ASSUME FlowInv, FlowInv', LateInv, Collect PROVE LateInv'
<1>1. SUFFICES ASSUME ~ending' PROVE LateInv'
  BY DEF LateInv
<1>2. /\ queue # <<>> /\ queue' = Tail(queue) /\ UNCHANGED <<step, tversion, ending, ver>>
      /\ Head(queue) # Finish /\ batch' = Append(batch, Head(queue)) /\ ~ending
  BY <1>1 DEF Collect, get_sample, rollVars
<1>3. /\ queue \in Seq(Samples \cup {Finish}) /\ batch \in Seq(Samples)
  BY DEF FlowInv, TypeInv, TypeOK
<1>4. /\ Len(queue) \in Nat \ {0} /\ Len(queue') = Len(queue) - 1 /\ Head(queue) = queue[1]
      /\ \A i \in 1 .. Len(queue') : queue'[i] = queue[i + 1] /\ i + 1 \in 1 .. Len(queue)
      /\ queue[1] \in Samples
  BY <1>2, <1>3
<1>5. /\ Len(batch) \in Nat /\ Len(batch') = Len(batch) + 1 /\ batch'[Len(batch) + 1] = queue[1]
      /\ \A i \in 1 .. Len(batch) : batch'[i] = batch[i]
  BY <1>2, <1>3, <1>4
<1>6. Received' = Received + 1 /\ Received = Before + Len(batch) /\ Received \in Nat /\ Before \in Nat
  <2>1. Received' = Received + 1
    BY <1>2, <1>4, ReceivedCollect DEF FlowInv, TypeInv
  <2> QED BY <2>1, BeforeTyped DEF FlowInv, TypeInv
<1>7. Before' = Before
  BY <1>2 DEF Before, PerVersion
<1>8. /\ \A j \in 1 .. Len(batch') : Deadline(batch[j])' = Deadline(batch'[j])
      /\ \A j \in 1 .. Len(queue') : Deadline(queue[j])' = Deadline(queue'[j])
  BY <1>2 DEF Deadline, Due, PerVersion, MaxRequired
<1>9. ASSUME NEW j \in 1 .. Len(batch') PROVE Before' + j <= Deadline(batch[j])'
  <2>1. CASE j = Len(batch) + 1
    <3>1. 1 \in 1 .. Len(queue) /\ \A i \in 1 .. 1 : queue[i] # Finish
      BY <1>2, <1>4
    <3>2. Received + 1 <= Deadline(queue[1])
      BY <1>2, <3>1 DEF LateInv
    <3>3. Before + j = Received + 1
      BY <1>5, <1>6, <2>1
    <3>4. Deadline(batch[j])' = Deadline(queue[1])
      BY <1>5, <1>8, <2>1
    <3> QED BY <1>7, <3>2, <3>3, <3>4, Zenon
  <2>2. CASE j # Len(batch) + 1
    <3>1. j \in 1 .. Len(batch) /\ batch'[j] = batch[j]
      BY <1>5, <2>2
    <3>2. Before + j <= Deadline(batch[j])
      BY <1>2, <3>1 DEF LateInv
    <3> QED BY <1>7, <1>8, <3>1, <3>2, Zenon
  <2> QED BY <2>1, <2>2
<1>10. ASSUME NEW j \in 1 .. Len(queue'), \A i \in 1 .. j : queue'[i] # Finish
       PROVE  Received' + j <= Deadline(queue[j])'
  <2>1. j \in Nat /\ j + 1 \in 1 .. Len(queue) /\ queue'[j] = queue[j + 1] /\ queue'[j] \in Samples
    <3>1. j \in 1 .. j /\ j \in Nat
      BY <1>4
    <3>2. queue[j + 1] # Finish
      BY <1>4, <1>10, <3>1
    <3> QED BY <1>3, <1>4, <3>1, <3>2
  <2>2. ASSUME NEW i \in 1 .. (j + 1) PROVE queue[i] # Finish
    <3>1. CASE i = 1
      BY <1>2, <1>4, <3>1
    <3>2. CASE i # 1
      <4>1. i - 1 \in 1 .. j /\ i - 1 \in 1 .. Len(queue') /\ (i - 1) + 1 = i
        BY <1>4, <2>1, <3>2
      <4> QED BY <1>4, <1>10, <4>1
    <3> QED BY <3>1, <3>2
  <2>3. Received + (j + 1) <= Deadline(queue[j + 1])
    BY <1>2, <2>1, <2>2 DEF LateInv
  <2>4. Deadline(queue'[j]) \in Nat
    BY <2>1, DeadlineTyped DEF FlowInv, TypeInv
  <2>5. Received + (j + 1) <= Deadline(queue'[j])
    BY <2>1, <2>3, Zenon
  <2>6. (Received + 1) + j <= Deadline(queue'[j])
    BY <1>6, <2>1, <2>4, <2>5, OneLess, Zenon
  <2> QED BY <1>6, <1>8, <2>6, Zenon
<1> QED BY <1>9, <1>10 DEF LateInv

LEMMA LateStep ==
  ASSUME FlowInv, FlowInv', PlaceInv, MarkInv', VersionInv, HeldInv, StampInv, LateInv, [Next]_vars
  PROVE  LateInv'
<1>1. CASE Feeder \/ Processor \/ Monitor \/ Synchronizer \/ Done \/ UNCHANGED vars
  <2>1. UNCHANGED <<queue, batch, step, tversion, ending, ver>>
    BY <1>1 DEF Feeder, _feed_samples, Processor, _processor_worker, procOther, ProcTop, ProcTake, ProcAdmit,
           ProcPause, ProcReap, ProcWait, ProcGoOn, ProcSubmit, Own, mqVars, trainVars, Monitor,
           _async_monitor_loop, MonitorCheck, MonitorResume, Synchronizer, SyncStart, PauseBegin, PauseEnd,
           WeightsCopied, UpdateBegin, UpdateEnd, ResumeCall, resume, notProc, Done, vars, rollVars
  <2> QED BY <2>1, LateFrame
<1>2. CASE Main
  <2>1. put_sample(Finish) /\ pc' = "ended" /\ UNCHANGED <<batch, step, tversion, ending, ver>>
    BY <1>2 DEF Main, SendFinish, Own, trainVars
  <2> QED BY <2>1, LatePut
<1>3. CASE Train
  <2>1. /\ UNCHANGED <<queue, ver, ending>> /\ batch' = <<>> /\ Received' = Received
    BY <1>3, ReceivedTrain DEF Train, mqVars, rollVars, FlowInv, TypeInv
  <2>2. \A j \in 1 .. Len(queue) : Deadline(queue[j])' = Deadline(queue[j])
    BY <2>1 DEF Deadline, Due, PerVersion, MaxRequired
  <2>3. Len(batch') = 0
    BY <2>1
  <2> QED BY <2>1, <2>2, <2>3 DEF LateInv
<1>4. CASE FinalSync \/ Closing
  <2>1. ending /\ ending' = ending
    BY <1>4 DEF FinalSync, Closing, VersionInv
  <2> QED BY <2>1 DEF LateInv
<1> QED BY <1>1, <1>2, <1>3, <1>4, LateTask, LateCollect DEF Next, Trainer

\* A version that is a versions behind, when what is ahead of a sample is less
\* than a versions and Required * Trigger, or MaxRequired, samples more.
LEMMA LagArithmetic ==
  ASSUME NEW t \in Nat, NEW v \in Nat, NEW P \in Nat \ {0}, NEW M \in Nat, t * P <= (v + 1) * P + M
  PROVE  t - v <= M \div P + 1
<1> DEFINE q == M \div P
           e == t - v - 1
<1>1. q \in Nat /\ M < (q + 1) * P
  <2>1. q \in Nat /\ M = P * q + (M % P) /\ M % P < P /\ M % P \in Nat
    OBVIOUS
  <2> HIDE DEF q
  <2>2. (q + 1) * P = P * q + P /\ P * q \in Nat
    BY <2>1
  <2> QED BY <2>1, <2>2
<1> HIDE DEF q
<1>2. e \in Int /\ t = (v + 1) + e
  OBVIOUS
<1> HIDE DEF e
<1>3. e * P <= M
  <2>1. t * P = (v + 1) * P + e * P /\ e * P \in Int /\ (v + 1) * P \in Int /\ t * P \in Int
    BY <1>2
  <2> QED BY <2>1
<1>4. ~(e >= q + 1)
  <2>1. ASSUME e >= q + 1 PROVE FALSE
    <3> DEFINE f == e - (q + 1)
    <3>1. f \in Nat /\ e = (q + 1) + f
      BY <1>1, <1>2, <2>1
    <3> HIDE DEF f
    <3>2. e * P = (q + 1) * P + f * P /\ f * P \in Nat /\ (q + 1) * P \in Nat
      BY <1>1, <3>1
    <3> QED BY <1>1, <1>3, <3>2
  <2> QED BY <2>1
<1> QED BY <1>1, <1>2, <1>4 DEF q

\* Where the samples that a step trains on come from.
LEMMA OnlyTrainTrains == ASSUME FlowInv, [Next]_vars, trained' # trained PROVE Train
<1>1. ASSUME NEW s \in Samples, Task(s) PROVE FALSE
  BY <1>1, TaskEffect DEF FlowInv, trainVars
<1> QED BY <1>1 DEF Next, Feeder, Processor, Monitor, Main, Own, trainVars, Trainer, Collect, FinalSync,
           Closing, Done, vars, Synchronizer, SyncStart, PauseBegin, PauseEnd, WeightsCopied,
           UpdateBegin, UpdateEnd, ResumeCall, resume

LEMMA TrainedFromBatch ==
  ASSUME FlowInv, Train, NEW i \in DOMAIN trained' \ DOMAIN trained
  PROVE  tpc = "collect" /\ \E j \in 1 .. Len(batch) : trained'[i] = batch[j]
<1>1. /\ tpc = "collect" /\ trained' = trained \o batch
      /\ batch \in Seq(Samples) /\ trained \in Seq(Samples)
  BY DEF Train, FlowInv, TypeInv, TypeOK
<1>2. Len(trained) \in Nat /\ Len(batch) \in Nat /\ DOMAIN trained = 1 .. Len(trained)
      /\ DOMAIN trained' = 1 .. (Len(trained) + Len(batch))
  BY <1>1
<1>3. i - Len(trained) \in 1 .. Len(batch) /\ trained'[i] = batch[i - Len(trained)]
  BY <1>1, <1>2
<1> QED BY <1>1, <1>3

LEMMA LagTrain ==
  ASSUME FlowInv, VersionInv, LateInv, Train, NEW i \in DOMAIN trained' \ DOMAIN trained
  PROVE  tversion - ver[trained'[i]] <= MaxLag + 1
<1>1. tpc = "collect" /\ batch \in Seq(Samples)
  BY TrainedFromBatch DEF FlowInv, TypeInv, TypeOK
<1>2. PICK j \in 1 .. Len(batch) : trained'[i] = batch[j]
  BY TrainedFromBatch
<1>3. Before + j <= Deadline(batch[j])
  BY <1>1 DEF VersionInv, LateInv
<1>4. batch[j] \in Samples /\ j \in Nat /\ j >= 1
  BY <1>1
<1> DEFINE v == ver[batch[j]]
<1>5. v \in Nat /\ tversion \in Nat /\ PerVersion \in Nat \ {0} /\ MaxRequired \in Nat
      /\ tversion * PerVersion \in Nat /\ (step - 1) * Required \in Nat /\ Due(v) \in Nat
      /\ Due(v) = (v + 1) * PerVersion
  <2>1. TypeOK
    BY DEF FlowInv, TypeInv
  <2>2. v \in Nat
    BY <1>4, <2>1, DeadlineTyped
  <2> HIDE DEF v
  <2> QED BY <2>1, <2>2, ReceivedTyped, Products
<1>6. Deadline(batch[j]) = Due(v) + MaxRequired + 1
  BY DEF Deadline
<1> HIDE DEF v
<1>7. tversion * PerVersion <= Due(v) + MaxRequired
  BY <1>3, <1>4, <1>5, <1>6 DEF Before
<1>8. tversion - v <= MaxRequired \div PerVersion + 1
  <2>1. tversion * PerVersion <= (v + 1) * PerVersion + MaxRequired
    BY <1>5, <1>7, Zenon
  <2> QED BY <1>5, <2>1, LagArithmetic
<1> QED BY <1>2, <1>8 DEF v, MaxLag, PerVersion

\* In partial mode no sample is trained on more than one version later than the
\* staleness threshold says: what was ahead of it in the queue when it was put
\* there, and what the trainer had received by then of the samples that were
\* due, is bounded by the counter.
THEOREM LagTheorem == ASSUME Partial PROVE Spec => LagBounded
<1> DEFINE Inv == /\ FlowInv /\ QuietInv /\ LimitInv /\ PlaceInv /\ SlotsInv /\ MarkInv
                  /\ VersionInv /\ HeldInv /\ StampInv /\ LateInv
<1>1. Init => Inv
  BY FlowInit, QuietInit, LimitInit, PlaceInit, MarkInit, VersionInit, HeldInit, StampInit, LateInit
<1>2. Inv /\ [Next]_vars => Inv'
  <2> SUFFICES ASSUME Inv, [Next]_vars PROVE Inv'
    OBVIOUS
  <2>1. FlowInv'
    BY FlowStep
  <2>2. QuietInv' /\ LimitInv' /\ PlaceInv' /\ SlotsInv' /\ StampInv'
    BY <2>1, QuietStep, LimitStep, PlaceStep, SlotsStep, StampStep
  <2>3. MarkInv' /\ VersionInv'
    BY <2>1, MarkStep, VersionStep
  <2>4. HeldInv'
    BY <2>1, <2>3, HeldStep
  <2>5. LateInv'
    BY <2>1, <2>3, LateStep
  <2> QED BY <2>1, <2>2, <2>3, <2>4, <2>5
<1>3. Inv /\ [Next]_vars
      => [\A i \in DOMAIN trained' \ DOMAIN trained : tversion - ver[trained'[i]] <= MaxLag + 1]_trained
  <2> SUFFICES ASSUME Inv, [Next]_vars, trained' # trained
               PROVE  \A i \in DOMAIN trained' \ DOMAIN trained :
                        tversion - ver[trained'[i]] <= MaxLag + 1
    OBVIOUS
  <2>1. Train
    BY OnlyTrainTrains
  <2> QED BY <2>1, LagTrain
<1> QED BY <1>1, <1>2, <1>3, PTL DEF Spec, LagBounded

-----------------------------------------------------------------------------
(* Synchronous training is on-policy.  Nothing is outstanding while the      *)
(* version changes (StillInv), so whatever is complete was completed under   *)
(* the present version, and the trainer that has a batch is at that version. *)

PolicyInv ==
  ~ending => \A s \in Samples : task[s] = "put" \/ s \in Ready \cup InBatch => ver[s] = version

LEMMA PolicyInit == ASSUME Init PROVE PolicyInv
<1>1. queue = <<>> /\ batch = <<>> /\ task = [s \in Samples |-> "none"]
  BY DEF Init, QueueInit, RollInit
<1>2. Ready = {} /\ InBatch = {}
  BY <1>1 DEF Ready, InBatch, ToSet
<1> QED BY <1>1, <1>2 DEF PolicyInv

\* A step after which no sample is complete that was not complete before.
LEMMA PolicyFrame ==
  ASSUME PolicyInv, UNCHANGED <<ver, version>>, ending => ending',
         \A s \in Samples : task'[s] = "put" => task[s] = "put",
         \A s \in Samples : s \in Ready' \cup InBatch' => task[s] = "put" \/ s \in Ready \cup InBatch
  PROVE  PolicyInv'
BY DEF PolicyInv

LEMMA PolicyTask == ASSUME FlowInv, PolicyInv, NEW s \in Samples, Task(s) PROVE PolicyInv'
<1>1. UNCHANGED <<batch, version, ending>> /\ task \in [Samples -> TaskStates] /\ ver \in [Samples -> Nat]
  BY TaskEffect DEF FlowInv, TypeInv, TypeOK, TaskStates, taskOther, trainVars
<1>2. InBatch' = InBatch
  BY <1>1 DEF InBatch
<1>3. CASE TaskGenerated(s)
  <2>1. task' = [task EXCEPT ![s] = "put"] /\ ver' = [ver EXCEPT ![s] = version] /\ queue' = queue
    BY <1>3 DEF TaskGenerated, mqVars
  <2>2. Ready' = Ready
    BY <2>1 DEF Ready
  <2> QED BY <1>1, <1>2, <2>1, <2>2 DEF PolicyInv
<1>4. CASE TaskPuts(s)
  <2>1. task[s] = "put" /\ ver' = ver /\ task' = [task EXCEPT ![s] = "none"] /\ put_sample(s)
    BY <1>4 DEF TaskPuts
  <2>2. Ready' \subseteq Ready \cup {s}
    BY <2>1, PutTypes DEF FlowInv, TypeInv, TypeOK, Ready
  <2>3. \A t \in Samples : task'[t] = "put" => task[t] = "put"
    BY <1>1, <2>1
  <2> QED BY <1>1, <1>2, <2>1, <2>2, <2>3, PolicyFrame
<1>5. CASE ~TaskGenerated(s) /\ ~TaskPuts(s)
  <2>1. UNCHANGED <<ver, queue>> /\ (task' = [task EXCEPT ![s] = "none"] \/ task' = [task EXCEPT ![s] = "gen"])
    BY <1>5 DEF Task, _process_single_sample_streaming, TaskReachesServer, TaskCancelled,
             TaskRaises, Interrupted, mqVars
  <2>2. Ready' = Ready
    BY <2>1 DEF Ready
  <2>3. \A t \in Samples : task'[t] = "put" => task[t] = "put"
    BY <1>1, <2>1
  <2> QED BY <1>1, <1>2, <2>1, <2>2, <2>3, PolicyFrame
<1> QED BY <1>3, <1>4, <1>5

LEMMA PolicyTrainer == ASSUME FlowInv, PolicyInv, Trainer PROVE PolicyInv'
<1>1. UNCHANGED <<ver, version, task>>
  BY DEF Trainer, Collect, Train, FinalSync, Closing, rollVars
<1>2. CASE Collect
  <2>1. /\ queue # <<>> /\ queue' = Tail(queue)
        /\ \/ batch' = <<>> /\ ending'
           \/ Head(queue) \in Samples /\ batch' = Append(batch, Head(queue)) /\ ending' = ending
    BY <1>2, SlotNumbers DEF Collect, get_sample, Finish, Samples
  <2>2. queue \in Seq(Samples \cup {Finish}) /\ batch \in Seq(Samples)
    BY DEF FlowInv, TypeInv, TypeOK
  <2>3. ToSet(queue') \subseteq ToSet(queue) /\ Head(queue) \in ToSet(queue)
    BY <2>1, <2>2, SetOfTail
  <2>4. Ready' \subseteq Ready
    BY <2>3 DEF Ready
  <2>5. CASE Head(queue) \in Samples /\ batch' = Append(batch, Head(queue)) /\ ending' = ending
    <3>1. InBatch' = InBatch \cup {Head(queue)} /\ Head(queue) \in Ready
      <4>1. Head(queue) # Finish
        BY <2>5 DEF Samples, Finish
      <4> QED BY <2>2, <2>3, <2>5, <4>1, SetOfAppend DEF InBatch, Ready
    <3> QED BY <1>1, <2>4, <2>5, <3>1, PolicyFrame
  <2>6. CASE ending'
    BY <2>6 DEF PolicyInv
  <2> QED BY <2>1, <2>5, <2>6
<1>3. CASE Train \/ FinalSync \/ Closing
  <2>1. queue' = queue /\ ending' = ending /\ (batch' = batch \/ batch' = <<>>)
    BY <1>3 DEF Train, FinalSync, Closing, mqVars
  <2>2. Ready' = Ready /\ InBatch' \subseteq InBatch
    BY <2>1 DEF Ready, InBatch, ToSet
  <2> QED BY <1>1, <2>1, <2>2, PolicyFrame
<1> QED BY <1>2, <1>3 DEF Trainer

LEMMA PolicyStep == ASSUME FlowInv, SyncInv, PolicyInv, [Next]_vars PROVE PolicyInv'
<1>1. CASE Feeder \/ Processor \/ Monitor \/ (Synchronizer /\ ~UpdateBegin) \/ Done \/ UNCHANGED vars
  <2>1. UNCHANGED <<queue, batch, ending, ver, version>>
        /\ (task' = task \/ task' = [task EXCEPT ![hand] = "new"])
    BY <1>1 DEF Feeder, _feed_samples, Processor, _processor_worker, procOther, ProcTop, ProcTake, ProcAdmit,
           ProcPause, ProcReap, ProcWait, ProcGoOn, ProcSubmit, Own, mqVars, trainVars, Monitor,
           _async_monitor_loop, MonitorCheck, MonitorResume, Synchronizer, SyncStart, PauseBegin, PauseEnd,
           WeightsCopied, UpdateEnd, ResumeCall, resume, notProc, Done, vars, rollVars
  <2>2. \A s \in Samples : task'[s] = "put" => task[s] = "put"
    BY <2>1 DEF FlowInv, TypeInv, TypeOK
  <2>3. Ready' = Ready /\ InBatch' = InBatch
    BY <2>1 DEF Ready, InBatch
  <2> QED BY <2>1, <2>2, <2>3, PolicyFrame
<1>2. CASE Main
  <2>1. put_sample(Finish) /\ UNCHANGED <<batch, ending, ver, version, task>>
    BY <1>2 DEF Main, SendFinish, Own, trainVars
  <2>2. Ready' \subseteq Ready /\ InBatch' = InBatch
    BY <2>1, PutTypes DEF FlowInv, TypeInv, TypeOK, Ready, InBatch
  <2> QED BY <2>1, <2>2, PolicyFrame
<1>3. CASE UpdateBegin
  <2>1. sync = "update" /\ UNCHANGED <<queue, batch, ending, task>>
    BY <1>3 DEF UpdateBegin, mqVars, trainVars, notProc
  <2>2. ASSUME ~ending PROVE Ready = {} /\ Live = {} /\ InBatch = {}
    <3>1. Counted = 0 /\ batch = <<>>
      BY <2>1, <2>2 DEF SyncInv, StillInv, Syncing
    <3>2. Cardinality(Ready) = 0 /\ Cardinality(Live) = 0 /\ IsFiniteSet(Ready) /\ IsFiniteSet(Live)
      BY <3>1, Sets DEF Counted, Waits, FlowInv, TypeInv
    <3> QED BY <3>1, <3>2, FS_EmptySet DEF InBatch, ToSet
  <2>3. Ready' = Ready /\ InBatch' = InBatch
    BY <2>1 DEF Ready, InBatch
  <2> QED BY <2>1, <2>2, <2>3 DEF PolicyInv, Live
<1> QED BY <1>1, <1>2, <1>3, PolicyTask, PolicyTrainer DEF Next

\* With a staleness threshold of zero ("synchronous training", README.md:133)
\* every sample is trained on under the version that completed it, in both
\* modes of interruption and with generations that raise.
THEOREM OnPolicyTheorem == ASSUME StalePercent = 0 PROVE Spec => OnPolicy
<1> DEFINE Inv == BaseInv /\ SyncInv /\ SlotsInv /\ MarkInv /\ VersionInv /\ PolicyInv
<1>1. Init => Inv
  BY FlowInit, LimitInit, PlaceInit, SyncInit, MarkInit, VersionInit, PolicyInit DEF BaseInv
<1>2. Inv /\ [Next]_vars => Inv'
  <2> SUFFICES ASSUME Inv, [Next]_vars PROVE Inv'
    OBVIOUS
  <2>1. BaseInv'
    BY FlowStep, LimitStep, PlaceStep DEF BaseInv
  <2>2. SyncInv'
    BY <2>1, SyncStep
  <2>3. SlotsInv' /\ MarkInv' /\ VersionInv' /\ PolicyInv'
    BY <2>1, SlotsStep, MarkStep, VersionStep, PolicyStep DEF BaseInv
  <2> QED BY <2>1, <2>2, <2>3
<1>3. Inv /\ [Next]_vars
      => [\A i \in DOMAIN trained' \ DOMAIN trained : ver[trained'[i]] = tversion]_trained
  <2> SUFFICES ASSUME Inv, [Next]_vars, trained' # trained,
                      NEW i \in DOMAIN trained' \ DOMAIN trained
               PROVE  ver[trained'[i]] = tversion
    OBVIOUS
  <2>1. Train
    BY OnlyTrainTrains DEF BaseInv
  <2>2. tpc = "collect" /\ \E j \in 1 .. Len(batch) : trained'[i] = batch[j]
    BY <2>1, TrainedFromBatch DEF BaseInv
  <2>3. PICK j \in 1 .. Len(batch) : trained'[i] = batch[j]
    BY <2>2
  <2>4. batch[j] \in Samples /\ batch[j] \in InBatch /\ batch # <<>>
    <3>1. batch \in Seq(Samples)
      BY DEF BaseInv, FlowInv, TypeInv, TypeOK
    <3> QED BY <3>1 DEF InBatch, ToSet
  <2>5. ~ending
    BY <2>2 DEF SyncInv, EndInv
  <2>6. sync = "idle"
    BY <2>4, <2>5 DEF SyncInv, StillInv, Syncing
  <2>7. tversion = version
    BY <2>2, <2>6 DEF VersionInv
  <2> QED BY <2>3, <2>4, <2>5, <2>7 DEF PolicyInv
<1> QED BY <1>1, <1>2, <1>3, PTL DEF Spec, OnPolicy

=============================================================================
