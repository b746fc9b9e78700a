----------------------------- MODULE FullyAsync -----------------------------
(***************************************************************************)
(* The fully asynchronous training mode: the rollouter generates samples   *)
(* one by one (module Rollouter), the trainer collects Required of them    *)
(* for a step (fully_async_trainer.py), and after Trigger steps the        *)
(* synchroniser pauses the rollouter, copies the weights and lets it go    *)
(* on under the next version (param_sync.py).                              *)
(***************************************************************************)
EXTENDS Rollouter

CONSTANT TestFreq    \* rollout.test_freq: versions between two validations

ASSUME TrainAssumption == TestFreq \in Nat \ {0}

VARIABLES
  tpc,          \* the trainer: "collect", "valid" (waits for the last
                \* synchronisation), "sync", "last", "closing" and "done"
  batch,        \* queue_samples
  trained,      \* the samples trained on, in order
  step,         \* local_trigger_step
  tversion,     \* the trainer's current_param_version
  ending,       \* the loop of fit has ended
  sync,         \* the synchronisation: "idle", "pausing", "gather", "weights",
                \* "update", "updating", "resume"
  synced,       \* current_version of the synchroniser: the one it passes on
  counted,      \* active and interrupted samples update_param_version counted
  begun,        \* the last sample whose generation was begun; only properties
                \* read this and the next two
  begunAtUpdate,\* begun when the rollouter's version was last updated
  leftOver      \* samples that were interrupted or ready at that moment

trainVars == <<tpc, batch, trained, step, tversion, ending>>
syncVars == <<sync, synced, counted, begun, begunAtUpdate, leftOver>>
vars == <<mqVars, rollVars, trainVars, syncVars>>

Init ==
  /\ QueueInit /\ RollInit
  /\ tpc = "collect" /\ batch = <<>> /\ trained = <<>> /\ step = 1
  /\ tversion = 0 /\ ending = FALSE
  /\ sync = "idle" /\ synced = 0 /\ counted = 0 /\ begun = 0 /\ begunAtUpdate = 0
  /\ leftOver = 0

-----------------------------------------------------------------------------
(* The trainer                                                             *)

\* _get_samples_from_queue up to a full batch, or up to the end mark: what was
\* collected by then is discarded.
Collect ==
  /\ tpc = "collect" /\ Len(batch) < Required
  /\ \E x \in Samples \cup {Finish} :
       /\ get_sample(x)
       /\ IF x = Finish
          THEN /\ batch' = <<>> /\ ending' = TRUE
               /\ tpc' = "last"
          ELSE /\ batch' = Append(batch, x)
               /\ UNCHANGED <<ending, tpc>>
  /\ UNCHANGED <<trained, step, tversion>>
  /\ UNCHANGED rollVars
  /\ UNCHANGED syncVars

\* Mutant of AfterStep: one step more before the synchronisation.
MutOneStepMore(validate) ==
  IF step <= Trigger /\ ~validate
  THEN /\ step' = step + 1 /\ tpc' = "collect"
       /\ UNCHANGED tversion
  ELSE /\ step' = 1 /\ tpc' = "valid"
       /\ tversion' = tversion + 1

\* Mutant of AfterStep: every step is followed by a synchronisation.
MutEveryStep(validate) == step' = 1 /\ tpc' = "valid" /\ tversion' = tversion + 1

\* _trigger_parameter_sync_after_step
AfterStep(validate) ==
  IF step < Trigger /\ ~validate
  THEN /\ step' = step + 1 /\ tpc' = "collect"
       /\ UNCHANGED tversion
  ELSE /\ step' = 1 /\ tpc' = "valid"
       /\ tversion' = tversion + 1

Train ==
  /\ tpc = "collect" /\ Len(batch) = Required
  /\ trained' = trained \o batch
  /\ batch' = <<>>
  /\ AfterStep(FALSE)
  /\ UNCHANGED ending
  /\ UNCHANGED <<mqVars, rollVars, syncVars>>

\* After the loop: once the last synchronisation is over, one more if the
\* version was not validated or steps were trained since.
FinalSync ==
  /\ tpc = "last" /\ sync = "idle"
  /\ IF tversion % TestFreq # 0 \/ step > 1
     THEN AfterStep(TRUE)
     ELSE tpc' = "done" /\ UNCHANGED <<step, tversion>>
  /\ UNCHANGED <<batch, trained, ending>>
  /\ UNCHANGED <<mqVars, rollVars, syncVars>>

\* wait_last_valid of that one; fit returns.
Closing ==
  /\ tpc = "closing" /\ sync = "idle"
  /\ tpc' = "done"
  /\ UNCHANGED <<batch, trained, step, tversion, ending>>
  /\ UNCHANGED <<mqVars, rollVars, syncVars>>

Done == tpc = "done" /\ UNCHANGED vars

-----------------------------------------------------------------------------
(* The synchronisation                                                     *)

notProc == <<fed, pending, cancelQ, hand, task, ver, waited, mon, lost>>

\* wait_last_valid, then sync_weights calls pause.
SyncStart ==
  /\ LoopFree /\ tpc = "valid" /\ sync = "idle"
  /\ tpc' = "sync" /\ sync' = "pausing"
  /\ synced' = tversion
  /\ lock' = Append(lock, "pause")
  /\ UNCHANGED <<batch, trained, step, tversion, ending>>
  /\ UNCHANGED <<counted, begun, begunAtUpdate, leftOver, finished, raised, pc, paused, trigger,
                 staleness, version, serversPaused>>
  /\ UNCHANGED notProc
  /\ UNCHANGED mqVars

\* pause: the flag, then cancel() of every server in partial mode ...
PauseBegin ==
  /\ LoopFree /\ sync = "pausing" /\ Holds("pause")
  /\ paused' = TRUE
  /\ serversPaused' = (serversPaused \/ Partial)
  /\ sync' = "gather"
  /\ UNCHANGED <<synced, counted, begun, begunAtUpdate, leftOver, finished, raised, pc, lock, trigger,
                 staleness, version>>
  /\ UNCHANGED notProc
  /\ UNCHANGED <<mqVars, trainVars>>

\* Mutant of PauseEnd: the active tasks are not waited for.
MutNoGather ==
  /\ LoopFree /\ sync = "gather"
  /\ finished' = 0 /\ raised' = FALSE
  /\ trigger' = FALSE
  /\ Release
  /\ sync' = "weights"
  /\ UNCHANGED <<synced, counted, begun, begunAtUpdate, leftOver, pc, paused, staleness, version,
                 serversPaused>>
  /\ UNCHANGED notProc
  /\ UNCHANGED <<mqVars, trainVars>>

\* ... then gather(return_exceptions=True) of the active tasks, which are
\* forgotten.
PauseEnd ==
  /\ LoopFree /\ sync = "gather" /\ Live = {}
  /\ finished' = 0 /\ raised' = FALSE
  /\ trigger' = FALSE
  /\ Release
  /\ sync' = "weights"
  /\ UNCHANGED <<synced, counted, begun, begunAtUpdate, leftOver, pc, paused, staleness, version,
                 serversPaused>>
  /\ UNCHANGED notProc
  /\ UNCHANGED <<mqVars, trainVars>>

\* The weights are copied; the trainer goes on, and the version update and the
\* resume after it are left to run.
WeightsCopied ==
  /\ LoopFree /\ sync = "weights"
  /\ sync' = "update"
  /\ lock' = Append(lock, "update")
  /\ tpc' = IF ending THEN "closing" ELSE "collect"
  /\ UNCHANGED <<batch, trained, step, tversion, ending>>
  /\ UNCHANGED <<synced, counted, begun, begunAtUpdate, leftOver, finished, raised, pc, paused, trigger,
                 staleness, version, serversPaused>>
  /\ UNCHANGED notProc
  /\ UNCHANGED mqVars

\* update_param_version up to the call of the message queue ...
UpdateBegin ==
  /\ LoopFree /\ sync = "update" /\ Holds("update")
  /\ version' = synced
  /\ counted' = Active + Len(cancelQ)
  /\ sync' = "updating"
  /\ UNCHANGED <<synced, begun, begunAtUpdate, leftOver, finished, raised, pc, lock, paused, trigger,
                 staleness, serversPaused>>
  /\ UNCHANGED notProc
  /\ UNCHANGED <<mqVars, trainVars>>

\* ... and from its answer on; validation happens under the lock.
UpdateEnd ==
  /\ LoopFree /\ sync = "updating"
  /\ staleness' = counted + Len(queue)
  /\ begunAtUpdate' = begun
  /\ leftOver' = counted + Len(queue)
  /\ Release
  /\ sync' = "resume"
  /\ UNCHANGED <<synced, counted, begun, finished, raised, pc, paused, trigger, version,
                 serversPaused>>
  /\ UNCHANGED notProc
  /\ UNCHANGED <<mqVars, trainVars>>

ResumeCall ==
  /\ LoopFree /\ sync = "resume" /\ ~\E i \in DOMAIN lock : lock[i] = "resume"
  /\ lock' = Append(lock, "resume")
  /\ UNCHANGED syncVars
  /\ UNCHANGED <<finished, raised, pc, paused, trigger, staleness, version, serversPaused>>
  /\ UNCHANGED notProc
  /\ UNCHANGED <<mqVars, trainVars>>

resume ==
  /\ LoopFree /\ sync = "resume" /\ Holds("resume")
  /\ serversPaused' = FALSE
  /\ paused' = FALSE
  /\ trigger' = TRUE
  /\ NotifyAndRelease
  /\ sync' = "idle"
  /\ UNCHANGED <<synced, counted, begun, begunAtUpdate, leftOver, finished, raised, staleness, version>>
  /\ UNCHANGED notProc
  /\ UNCHANGED <<mqVars, trainVars>>

-----------------------------------------------------------------------------
(* The processes side by side                                              *)

\* A step of the rollouter's own coroutines; the last sample begun is recorded.
Own ==
  /\ begun' = IF pc = "submit" /\ pc' = "top" /\ hand > begun THEN hand ELSE begun
  /\ UNCHANGED <<sync, synced, counted, begunAtUpdate, leftOver>>
  /\ UNCHANGED trainVars

Feeder == _feed_samples /\ UNCHANGED mqVars /\ Own
Processor == _processor_worker /\ UNCHANGED mqVars /\ Own
Monitor == _async_monitor_loop /\ UNCHANGED mqVars /\ Own
Main == SendFinish /\ Own
Task(s) == _process_single_sample_streaming(s) /\ Own
Trainer == Collect \/ Train \/ FinalSync \/ Closing
Synchronizer ==
  \/ SyncStart \/ PauseBegin \/ PauseEnd \/ WeightsCopied
  \/ UpdateBegin \/ UpdateEnd \/ ResumeCall \/ resume

Next ==
  \/ Feeder \/ Processor \/ Monitor \/ Main
  \/ \E s \in Samples : Task(s)
  \/ Trainer \/ Done
  \/ Synchronizer

Spec == Init /\ [][Next]_vars

\* The event loop and the actors run whatever can run, every generation ends,
\* and the monitor wakes up every ten seconds.
Fairness ==
  /\ WF_vars(Feeder) /\ WF_vars(Processor) /\ WF_vars(Monitor) /\ WF_vars(Main)
  /\ \A s \in Samples : WF_vars(Task(s))
  /\ WF_vars(Trainer) /\ WF_vars(Synchronizer)

FairSpec == Spec /\ Fairness

-----------------------------------------------------------------------------
(* Properties                                                              *)

\* Type invariant.
TypeOK ==
  /\ queue \in Seq(Samples \cup {Finish}) /\ Len(queue) <= MaxQueueSize
  /\ dropped \subseteq Samples \cup {Finish} /\ lost \subseteq Samples
  /\ fed \in 0..DoneMark /\ pending \in Seq(1..DoneMark) /\ cancelQ \in Seq(Samples)
  /\ hand \in 0..DoneMark
  /\ task \in [Samples -> {"none", "new", "gen", "put"}]
  /\ ver \in [Samples -> Nat]
  /\ finished \in Nat /\ staleness \in Nat /\ version \in Nat /\ tversion \in Nat
  /\ {raised, waited, paused, trigger, serversPaused, ending} \subseteq BOOLEAN
  /\ pc \in {"top", "take", "admit", "pause", "drain", "wait", "parked", "full",
             "submit", "submitParked", "end", "finished", "failed", "ended"}
  /\ mon \in {"sleep", "resume"}
  /\ lock \in Seq({"proc", "monitor", "pause", "update", "resume"})
  /\ tpc \in {"collect", "valid", "sync", "last", "closing", "done"}
  /\ batch \in Seq(Samples) /\ trained \in Seq(Samples)
  /\ step \in 1..Trigger
  /\ sync \in {"idle", "pausing", "gather", "weights", "update", "updating", "resume"}
  /\ synced \in Nat /\ counted \in Nat /\ begun \in 0..Total /\ begunAtUpdate \in 0..Total
  /\ leftOver \in Nat

\* The samples taken from the feed that no training step has received: waiting
\* in the queue, in a task, interrupted, or in the processor's hand.
Ready == ToSet(queue) \ {Finish}
InHand == {hand} \cap Samples
Outstanding == Ready \cup Live \cup ToSet(cancelQ) \cup InHand

\* The staleness limit, counted over samples instead of by the counter that
\* enforces it (_should_pause_generation, update_param_version): at most one
\* sample more than the limit is outstanding, and that one because the reset of
\* the counter misses the sample in the processor's hand.
OutstandingBounded == Cardinality(Outstanding) <= MaxRequired + 1

\* Nothing generates while the weights of the servers are overwritten
\* (sync_weights between pause and update_param_version).
QuietDuringCopy == sync = "weights" => \A s \in Samples : task[s] # "gen"

\* The processor never reads done_tasks before a wait has bound it, although
\* three loops do so when another coroutine has emptied active_tasks.
ProcessorSurvives == lost = {} => pc # "failed"

\* README.md:139: "Rollouter will generate at most the following number of
\* samples between two parameter updates: rollout_num = (1+staleness_threshold)
\* * (...) - num_staleness_sample".
AtMostRolloutNum == begun - begunAtUpdate <= MaxRequired - leftOver

\* With staleness_threshold = 0 ("synchronous training", README.md:133) every
\* sample is trained on, but for an incomplete last batch, under the version it
\* was generated with.
EverySampleUsed ==
  /\ dropped = {}
  /\ tpc = "done" /\ lost = {} => Total - Len(trained) < Required
OnPolicy == [][\A i \in DOMAIN trained' \ DOMAIN trained :
                 ver[trained'[i]] = tversion]_trained

\* The versions between the one that completed a sample and the one it is
\* trained on: one more than the 1 + staleness_threshold of README.md:131 ("the
\* maximum proportion of stale samples") that bounds what is outstanding.  The
\* trainer consumes a version's samples between the copy of the weights and the
\* reset of the counter, which is set to what is outstanding by then.
MaxLag == MaxRequired \div (Required * Trigger)
LagBounded == [][\A i \in DOMAIN trained' \ DOMAIN trained :
                   tversion - ver[trained'[i]] <= MaxLag + 1]_trained

\* Samples the processor has taken from the feed.
Taken == IF fed - Len(pending) < Total THEN fed - Len(pending) ELSE Total

\* The stream of samples as SampleStream promises it.  A sample whose task
\* raised, that the full queue dropped, or that the end of the processor left
\* in cancelQ or in hand, is lost at the end if not before.
Stream == INSTANCE SampleStream WITH
  Batch <- Required,
  Bound <- MaxRequired + Required + 1,
  next <- Taken,
  underWay <- Outstanding \cup ToSet(batch),
  used <- ToSet(trained),
  steps <- step - 1,
  published <- tversion
ImplementsSampleStream == Stream!Spec

\* The end mark, once sent, waits in the queue until the trainer takes it: no
\* overflow loses it, although put_sample drops whatever entry is the oldest
\* and, after a failure, the tasks still running put theirs behind it.
EndMarkKept ==
  /\ Finish \notin dropped
  /\ pc = "ended" /\ ~ending => Finish \in ToSet(queue)

\* Training ends, whatever was interrupted, dropped or raised.
TrainingEnds == <>(tpc = "done")

\* README.md:245: "The interrupted samples will continue to be generated after
\* synchronization."
InterruptedGoOn == \A s \in Samples : (s \in ToSet(cancelQ)) ~> (s \notin ToSet(cancelQ))

=============================================================================
