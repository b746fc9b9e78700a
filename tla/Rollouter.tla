------------------------------ MODULE Rollouter ------------------------------
(***************************************************************************)
(* FullyAsyncRollouter: the coroutines of the rollout actor and the calls  *)
(* it serves (fully_async_rollouter.py), with the part of the generation   *)
(* servers that a synchronisation stops (vllm_rollout/vllm_async_server).  *)
(*                                                                         *)
(* All coroutines run on one event loop.  A step here runs from one        *)
(* suspension to the next; LoopFree says that the processor, which between *)
(* two suspensions may pass several of the steps below, has suspended.     *)
(* The lock is an asyncio.Lock, which wakes its waiters in order: lock is  *)
(* the sequence of its owner and its waiters.                              *)
(***************************************************************************)
EXTENDS MessageQueue, SequencesExt

CONSTANTS
  Total,            \* samples the feed will produce (total_rollout_steps)
  PendingSize,      \* asyncio.Queue(maxsize=128) between feed and processor
  Slots,            \* 16 times the number of servers
  Required,         \* samples of a training step (required_samples)
  Trigger,          \* training steps between two synchronisations
  StalePercent,     \* 100 * staleness_threshold
  Partial,          \* async_training.partial_rollout
  MaxFailures       \* bound: generations that raise

ASSUME RolloutAssumption ==
  /\ Total \in Nat /\ PendingSize \in Nat \ {0} /\ Slots \in Nat \ {0}
  /\ Required \in Nat \ {0} /\ Trigger \in Nat \ {0}
  /\ StalePercent \in Nat /\ Partial \in BOOLEAN /\ MaxFailures \in Nat
  /\ MaxQueueSize = (Required * (StalePercent + 100) * Trigger) \div 100

VARIABLES
  fed,            \* samples the feed has put into pending_queue
  pending,        \* pending_queue
  cancelQ,        \* cancel_queue: interrupted samples
  hand,           \* what the processor took and has not started, 0 if nothing
  task,           \* of the started samples: how far their task is
  ver,            \* the version a sample was stamped with when it was complete
  finished,       \* tasks in active_tasks that are done
  raised,         \* one of those ended with an exception
  waited,         \* the processor has bound done_tasks once
  pc,             \* the processor coroutine, then the end of the main one
  mon,            \* the monitor coroutine
  lock,           \* owner and waiters of self.lock
  paused,         \* self.paused
  trigger,        \* self.monitor_loop_trigger
  staleness,      \* self.staleness_samples
  version,        \* self.current_param_version
  serversPaused,  \* the servers refuse new generations
  lost            \* samples whose generation raised

rollVars == <<fed, pending, cancelQ, hand, task, ver, finished, raised, waited,
              pc, mon, lock, paused, trigger, staleness, version,
              serversPaused, lost>>

Samples == 1..Total
DoneMark == Total + 1      \* the "DONE" the feed ends with
Nothing == 0

MaxRequired == MaxQueueSize
MaxConcurrent == IF Slots < MaxRequired THEN Slots ELSE MaxRequired

Live == {s \in Samples : task[s] # "none"}
Active == Cardinality(Live) + finished        \* len(self.active_tasks)

Holds(p) == lock # <<>> /\ Head(lock) = p
LoopFree ==
  /\ pc \notin {"top", "take", "admit"}
  /\ Holds("proc") => pc \in {"drain", "full", "end"} /\ Active > 0

\* The processor gives the lock up and queues for it again, or only gives up.
Requeue(p) == lock' = Append(Tail(lock), p)
Release == lock' = Tail(lock)

\* Mutant of ShouldPause: only the length of the queue counts.
MutQueueOnly == Len(queue) >= MaxRequired

ShouldPause == Len(queue) >= MaxRequired \/ staleness >= MaxRequired

RollInit ==
  /\ fed = 0 /\ pending = <<>> /\ cancelQ = <<>> /\ hand = Nothing
  /\ task = [s \in Samples |-> "none"]
  /\ ver = [s \in Samples |-> 0]
  /\ finished = 0 /\ raised = FALSE /\ waited = FALSE
  /\ pc = "top" /\ mon = "sleep" /\ lock = <<>>
  /\ paused = FALSE /\ trigger = TRUE
  /\ staleness = 0 /\ version = 0
  /\ serversPaused = FALSE /\ lost = {}

-----------------------------------------------------------------------------
(* The feed puts without suspending until the queue is full.               *)

_feed_samples ==
  LET n == IF PendingSize - Len(pending) < DoneMark - fed
           THEN PendingSize - Len(pending) ELSE DoneMark - fed
  IN  /\ LoopFree \/ fed = 0 \/ pc = "take"
      /\ n > 0
      /\ pending' = pending \o [i \in 1..n |-> fed + i]
      /\ fed' = fed + n
      /\ UNCHANGED <<cancelQ, hand, task, ver, finished, raised, waited, pc, mon,
                     lock, paused, trigger, staleness, version, serversPaused,
                     lost>>

-----------------------------------------------------------------------------
(* The processor                                                           *)

procOther == <<fed, ver, mon, trigger, version, serversPaused, lost, task>>

TakePending ==
  /\ hand' = Head(pending) /\ pending' = Tail(pending)
  /\ staleness' = staleness + 1
  /\ pc' = "admit"

\* The top of the loop: pause, or take the next sample (interrupted ones
\* first), or wait for the feed, whose task was created first.
ProcTop ==
  /\ pc = "top" /\ fed > 0
  /\ IF paused \/ ShouldPause
     THEN /\ lock' = Append(lock, "proc")
          /\ pc' = "pause"
          /\ UNCHANGED <<hand, cancelQ, pending, staleness>>
     ELSE IF cancelQ # <<>>
     THEN /\ hand' = Head(cancelQ) /\ cancelQ' = Tail(cancelQ)
          /\ pc' = "admit"
          /\ UNCHANGED <<pending, staleness, lock>>
     ELSE /\ IF pending # <<>>
             THEN TakePending
             ELSE pc' = "take" /\ UNCHANGED <<hand, pending, staleness>>
          /\ UNCHANGED <<cancelQ, lock>>
  /\ UNCHANGED <<finished, raised, waited, paused>>
  /\ UNCHANGED procOther

\* await self.pending_queue.get()
ProcTake ==
  /\ pc = "take" /\ pending # <<>>
  /\ TakePending
  /\ UNCHANGED <<cancelQ, lock, finished, raised, waited, paused>>
  /\ UNCHANGED procOther

\* What is in hand decides where the lock is asked for.
ProcAdmit ==
  /\ pc = "admit"
  /\ IF hand = DoneMark
     THEN /\ hand' = Nothing
          /\ IF Active = 0
             THEN pc' = "finished" /\ UNCHANGED lock
             ELSE pc' = "end" /\ lock' = Append(lock, "proc")
     ELSE /\ pc' = IF Active >= MaxConcurrent THEN "full" ELSE "submit"
          /\ lock' = Append(lock, "proc")
          /\ UNCHANGED hand
  /\ UNCHANGED <<cancelQ, pending, staleness, finished, raised, waited, paused>>
  /\ UNCHANGED procOther

ProcPause ==
  /\ pc = "pause" /\ Holds("proc")
  /\ paused' = TRUE
  /\ Requeue("proc")
  /\ pc' = IF Active > 0 THEN "drain" ELSE "wait"
  /\ UNCHANGED <<hand, cancelQ, pending, staleness, finished, raised, waited>>
  /\ UNCHANGED procOther

\* What follows the body of one of the three waits for active tasks, when n of
\* them are left.
AfterWait(n) ==
  CASE pc = "drain" -> /\ Requeue("proc")
                       /\ pc' = IF n > 0 THEN "drain" ELSE "wait"
    [] pc = "full" -> /\ Requeue("proc")
                      /\ pc' = IF n >= MaxConcurrent THEN "full" ELSE "submit"
    [] pc = "end" -> IF n > 0 THEN Requeue("proc") /\ pc' = "end"
                              ELSE Release /\ pc' = "finished"

\* asyncio.wait(FIRST_COMPLETED) under the lock: every task that is done
\* leaves active_tasks; awaiting it raises what it raised.
ProcReap ==
  /\ pc \in {"drain", "full", "end"} /\ Holds("proc")
  /\ Active > 0 => finished > 0
  /\ finished' = 0 /\ raised' = FALSE
  /\ waited' = (waited \/ Active > 0)
  /\ IF raised \/ ~waited'
     THEN Release /\ pc' = "failed"
     ELSE AfterWait(Cardinality(Live))
  /\ UNCHANGED <<hand, cancelQ, pending, staleness, paused>>
  /\ UNCHANGED procOther

\* while self.paused: await self.condition.wait()
ProcWait ==
  /\ pc \in {"wait", "submit"} /\ Holds("proc") /\ paused
  /\ Release
  /\ pc' = IF pc = "wait" THEN "parked" ELSE "submitParked"
  /\ UNCHANGED <<hand, cancelQ, pending, staleness, finished, raised, waited, paused>>
  /\ UNCHANGED procOther

ProcGoOn ==
  /\ pc = "wait" /\ Holds("proc") /\ ~paused
  /\ Release
  /\ pc' = "top"
  /\ UNCHANGED <<hand, cancelQ, pending, staleness, finished, raised, waited, paused>>
  /\ UNCHANGED procOther

\* create_task and active_tasks.add
ProcSubmit ==
  /\ pc = "submit" /\ Holds("proc") /\ ~paused
  /\ task' = [task EXCEPT ![hand] = "new"]
  /\ hand' = Nothing
  /\ Release
  /\ pc' = "top"
  /\ UNCHANGED <<cancelQ, pending, staleness, finished, raised, waited, paused, fed,
                 ver, mon, trigger, version, serversPaused, lost>>

_processor_worker ==
  \/ ProcTop \/ ProcTake \/ ProcAdmit \/ ProcPause
  \/ ProcReap \/ ProcWait \/ ProcGoOn \/ ProcSubmit

-----------------------------------------------------------------------------
(* The task of a sample (_process_single_sample_streaming)                 *)

taskOther == <<fed, pending, hand, waited, pc, mon, lock, paused, trigger,
               staleness, version, serversPaused>>

\* The interrupted sample goes back, with what was generated so far.
Interrupted(s) ==
  /\ task' = [task EXCEPT ![s] = "none"]
  /\ cancelQ' = Append(cancelQ, s)
  /\ finished' = finished + 1
  /\ UNCHANGED <<ver, raised, lost>>

\* generate_for_partial: a server that was paused returns at once.
TaskReachesServer(s) ==
  /\ LoopFree /\ task[s] = "new"
  /\ IF serversPaused
     THEN Interrupted(s)
     ELSE /\ task' = [task EXCEPT ![s] = "gen"]
          /\ UNCHANGED <<cancelQ, finished, ver, raised, lost>>
  /\ UNCHANGED taskOther
  /\ UNCHANGED mqVars

\* cancel() stops the generations under way.
TaskCancelled(s) ==
  /\ LoopFree /\ task[s] = "gen" /\ serversPaused
  /\ Interrupted(s)
  /\ UNCHANGED taskOther
  /\ UNCHANGED mqVars

\* A complete generation is stamped with the version of that moment.
TaskGenerated(s) ==
  /\ LoopFree /\ task[s] = "gen"
  /\ task' = [task EXCEPT ![s] = "put"]
  /\ ver' = [ver EXCEPT ![s] = version]
  /\ UNCHANGED <<cancelQ, finished, raised, lost>>
  /\ UNCHANGED taskOther
  /\ UNCHANGED mqVars

TaskPuts(s) ==
  /\ LoopFree /\ task[s] = "put"
  /\ put_sample(s)
  /\ task' = [task EXCEPT ![s] = "none"]
  /\ finished' = finished + 1
  /\ UNCHANGED <<cancelQ, ver, raised, lost>>
  /\ UNCHANGED taskOther

TaskRaises(s) ==
  /\ LoopFree /\ task[s] = "gen" /\ Cardinality(lost) < MaxFailures
  /\ task' = [task EXCEPT ![s] = "none"]
  /\ finished' = finished + 1
  /\ raised' = TRUE
  /\ lost' = lost \cup {s}
  /\ UNCHANGED <<cancelQ, ver>>
  /\ UNCHANGED taskOther
  /\ UNCHANGED mqVars

_process_single_sample_streaming(s) ==
  \/ TaskReachesServer(s) \/ TaskCancelled(s) \/ TaskGenerated(s)
  \/ TaskPuts(s) \/ TaskRaises(s)

\* _streaming_generation_main, whether the processor ended or failed: the end
\* mark is put into the queue like a sample.
SendFinish ==
  /\ pc \in {"finished", "failed"}
  /\ put_sample(Finish)
  /\ pc' = "ended"
  /\ UNCHANGED <<fed, pending, cancelQ, hand, task, ver, finished, raised, waited,
                 mon, lock, paused, trigger, staleness, version, serversPaused,
                 lost>>

-----------------------------------------------------------------------------
(* The monitor, and what a notify does                                     *)

\* Mutant of NotifyAndRelease: nobody is notified.
MutNoNotify == Release /\ UNCHANGED pc

\* notify_all by the owner of the lock, who then releases it.
NotifyAndRelease ==
  CASE pc = "parked" -> Requeue("proc") /\ pc' = "wait"
    [] pc = "submitParked" -> Requeue("proc") /\ pc' = "submit"
    [] OTHER -> Release /\ UNCHANGED pc

\* Every check interval: the decision is taken before the lock is asked for.
MonitorCheck ==
  /\ LoopFree /\ mon = "sleep" /\ pc # "ended"
  /\ trigger /\ ~ShouldPause
  /\ mon' = "resume"
  /\ lock' = Append(lock, "monitor")
  /\ UNCHANGED <<fed, pending, cancelQ, hand, task, ver, finished, raised, waited,
                 pc, paused, trigger, staleness, version, serversPaused, lost>>

MonitorResume ==
  /\ mon = "resume" /\ Holds("monitor")
  /\ paused' = FALSE
  /\ mon' = "sleep"
  /\ NotifyAndRelease
  /\ UNCHANGED <<fed, pending, cancelQ, hand, task, ver, finished, raised, waited,
                 trigger, staleness, version, serversPaused, lost>>

_async_monitor_loop == MonitorCheck \/ MonitorResume

=============================================================================
