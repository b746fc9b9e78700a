------------------------------ MODULE Trainer ------------------------------
(***************************************************************************)
(* RayPPOTrainer.fit, _save_checkpoint and _load_checkpoint of             *)
(* verl/trainer/ppo/ray_trainer.py: one epoch of training that is killed   *)
(* and launched again on the same checkpoint directory.                    *)
(***************************************************************************)
EXTENDS CheckpointManager

CONSTANTS
  EpochLens,    \* values of len(train_dataloader)
  SaveFreq,     \* trainer.save_freq; 0 stands for a value that is not positive
  Esi,          \* TRUE: the elastic instance may be about to expire
  EmaTeacher,   \* TRUE: teacher_model_source "legacy", regularization "ema"
  Modes,        \* the resume modes training is launched with
  Rerun         \* TRUE: a training that ended is launched again

ASSUME TrainerAssumption ==
  /\ EpochLens \subseteq Nat \ {0}
  /\ SaveFreq \in Nat
  /\ Esi \in BOOLEAN
  /\ EmaTeacher \in BOOLEAN
  /\ Rerun \in BOOLEAN
  /\ Modes \subseteq {"auto", "disable", "resume_path"}

VARIABLES
  epochLen,   \* len(train_dataloader)
  dataPt,     \* dataPt[s]: batches consumed according to global_step_<s>/data.pt
  tracker,    \* latest_checkpointed_iteration.txt: NoFile, Torn or a step
  pc,         \* where the driver is; "down": no process
  run,        \* how many times training was launched
  steps,      \* global_steps
  weights,    \* the state of actor and critic
  teacher,    \* how many updates the EMA teacher has absorbed
  pos,        \* batches taken from the dataloader
  role,       \* the role being saved
  wrote       \* wrote[ra]: files rank ra has opened and closed for that role

trainerVars == <<epochLen, dataPt, tracker, pc, run, steps, weights, teacher, pos, role, wrote>>
vars == <<managerVars, trainerVars>>

Initial == [n |-> 0, run |-> 0]

\* Weights put together from files of different saves.
Mixed == [n |-> 0, run |-> MaxRuns]

Fresh ==
  /\ NewManager
  /\ steps' = 0
  /\ weights' = Initial
  /\ teacher' = 0
  /\ pos' = 0
  /\ role' = "actor"
  /\ wrote' = [ra \in Rank |-> 0]

PCs == {"down", "load", "train", "ensure", "make_room", "files", "rotate", "data", "data_close", "tracker", "tracker_close", "next", "exit"}

TypeOK ==
  /\ ManagerTypeOK
  /\ epochLen \in EpochLens
  /\ dataPt \in [Step -> (0 .. epochLen) \cup {NoFile, Torn}]
  /\ tracker \in Step \cup {NoFile, Torn}
  /\ pc \in PCs
  /\ run \in 0 .. MaxRuns
  /\ steps \in 0 .. MaxStep
  /\ weights \in State
  /\ teacher \in 0 .. MaxStep
  /\ pos \in 0 .. epochLen
  /\ role \in Role
  /\ wrote \in [Rank -> 0 .. 2 * Files]

Init ==
  /\ ManagerInit
  /\ epochLen \in EpochLens
  /\ dataPt = [s \in Step |-> NoFile]
  /\ tracker = NoFile
  /\ pc = "down"
  /\ run = 0
  /\ steps = 0
  /\ weights = Initial
  /\ teacher = 0
  /\ pos = 0
  /\ role = "actor"
  /\ wrote = [ra \in Rank |-> 0]

----------------------------------------------------------------------------
(***************************************************************************)
(* Launch and _load_checkpoint                                             *)
(***************************************************************************)

Launch ==
  /\ pc = "down" \/ (pc = "exit" /\ Rerun)
  /\ run < MaxRuns
  /\ pc' = "load"
  /\ run' = run + 1
  /\ Fresh
  /\ UNCHANGED <<epochLen, dataPt, tracker>>

\* Mutant of StartAt: "we start from step 1" is forgotten.
MutSameStepAgain(k) ==
  /\ pc' = "train"
  /\ steps' = k
  /\ UNCHANGED <<managerVars, epochLen, dataPt, tracker, run, teacher, role, wrote>>

\* The epoch loop is entered only when current_epoch < total_epochs.
StartAt(k) ==
  /\ IF k \div epochLen < 1
     THEN pc' = "train" /\ steps' = k + 1
     ELSE pc' = "exit" /\ steps' = k
  /\ UNCHANGED <<managerVars, epochLen, dataPt, tracker, run, teacher, role, wrote>>

FromScratch == StartAt(0) /\ UNCHANGED <<weights, pos>>

\* Mutant of LoadFrom: global_steps is not taken from the folder.
MutStepNotRestored(k) ==
  /\ Loadable(k)
  /\ dataPt[k] # Torn
  /\ weights' = CHOOSE w \in Contents(k) : TRUE
  /\ pos' = 0
  /\ StartAt(0)

\* Actor, critic and data.pt of one folder; a missing data.pt is a warning.
LoadFrom(k) ==
  /\ Loadable(k)
  /\ dataPt[k] # Torn
  /\ weights' = IF Cardinality(Contents(k)) = 1 THEN CHOOSE w \in Contents(k) : TRUE
                ELSE Mixed
  /\ pos' = IF dataPt[k] = NoFile THEN 0 ELSE dataPt[k]
  /\ StartAt(k)

\* An exception nothing catches ends the process.
LoadFails ==
  /\ pc' = "down"
  /\ UNCHANGED <<managerVars, epochLen, dataPt, tracker, run, steps, weights, teacher,
                 pos, role, wrote>>

\* The folders an operator can name in resume_from_path.
Folders == {s \in Step : Contents(s) # {NoFile}}

\* int("") of a truncated tracker raises in every mode but "disable", the
\* tracker being read before the mode is looked at.
Load(mode) ==
  /\ pc = "load"
  /\ \/ /\ mode = "disable"
        /\ FromScratch
     \/ /\ mode # "disable"
        /\ tracker = Torn
        /\ LoadFails
     \/ /\ mode = "auto"
        /\ tracker = NoFile
        /\ FromScratch
     \/ /\ mode # "disable"
        /\ tracker # Torn
        /\ \E k \in IF mode = "auto" THEN {tracker} \cap Step ELSE Folders :
              IF Loadable(k) /\ dataPt[k] # Torn THEN LoadFrom(k) ELSE LoadFails

----------------------------------------------------------------------------
(***************************************************************************)
(* The training loop                                                       *)
(***************************************************************************)

IsLastStep == steps >= TotalSteps

Trained(w) == IF w = Mixed THEN Mixed ELSE [n |-> w.n + 1, run |-> run]

\* Mutant of SaveDue: the last step is saved only when its turn has come.
MutLastNotSpecial(expiring) ==
  SaveFreq > 0 /\ (steps % SaveFreq = 0 \/ expiring)

SaveDue(expiring) ==
  \/ IsLastStep
  \/ SaveFreq > 0 /\ (steps % SaveFreq = 0 \/ expiring)

\* One batch: rollout, advantage, actor update (and with it the teacher).
TrainStep ==
  /\ pc = "train"
  /\ pos < epochLen
  /\ weights' = Trained(weights)
  /\ teacher' = IF EmaTeacher THEN teacher + 1 ELSE teacher
  /\ pos' = pos + 1
  /\ \E expiring \in {FALSE, Esi} :
        pc' = IF SaveDue(expiring) THEN "ensure" ELSE "next"
  /\ UNCHANGED <<managerVars, epochLen, dataPt, tracker, run, steps, role, wrote>>

\* The dataloader has no more batches, and there is no further epoch.
EpochEnd ==
  /\ pc = "train"
  /\ pos = epochLen
  /\ pc' = "exit"
  /\ UNCHANGED <<managerVars, epochLen, dataPt, tracker, run, steps, weights, teacher,
                 pos, role, wrote>>

NextStep ==
  /\ pc = "next"
  /\ IF IsLastStep
     THEN pc' = "exit" /\ steps' = steps
     ELSE pc' = "train" /\ steps' = steps + 1
  /\ UNCHANGED <<managerVars, epochLen, dataPt, tracker, run, weights, teacher,
                 pos, role, wrote>>

----------------------------------------------------------------------------
(***************************************************************************)
(* _save_checkpoint: actor, critic, data.pt, tracker                       *)
(***************************************************************************)

Go(from, to) ==
  /\ pc = from
  /\ pc' = to
  /\ UNCHANGED <<epochLen, run, steps, weights, teacher, pos>>

SaveEnsure ==
  /\ Go("ensure", "make_room")
  /\ EnsureCapacity(role)
  /\ UNCHANGED <<dataPt, tracker, role, wrote>>

\* Rank 0 removes before it reaches the barrier the other ranks wait at.
SaveMakeRoom ==
  /\ IF Remaining(role) # {}
     THEN Go("make_room", "make_room") /\ RemoveOne(role) /\ wrote' = wrote
     ELSE /\ Go("make_room", "files")
          /\ wrote' = [ra \in Rank |-> 0]
          /\ UNCHANGED managerVars
  /\ UNCHANGED <<dataPt, tracker, role>>

\* Every rank writes its files at its own pace.
SaveFile(ra) ==
  /\ Go("files", "files")
  /\ wrote[ra] < 2 * Files
  /\ LET x == <<role, ra, wrote[ra] \div 2 + 1>>
     IN  IF wrote[ra] % 2 = 0 THEN OpenFile(steps, x) ELSE CloseFile(steps, x, weights)
  /\ wrote' = [wrote EXCEPT ![ra] = @ + 1]
  /\ UNCHANGED <<dataPt, tracker, role>>

\* The barrier after the files; then rank 0 registers the directory.
SaveRegister ==
  /\ Go("files", "rotate")
  /\ \A ra \in Rank : wrote[ra] = 2 * Files
  /\ RegisterCheckpoint(role, steps)
  /\ UNCHANGED <<dataPt, tracker, role, wrote>>

SaveRotate ==
  /\ IF Remaining(role) # {}
     THEN Go("rotate", "rotate") /\ RemoveOne(role) /\ role' = role
     ELSE /\ UNCHANGED managerVars
          /\ IF role = "actor" /\ UseCritic
             THEN Go("rotate", "ensure") /\ role' = "critic"
             ELSE Go("rotate", "data") /\ role' = "actor"
  /\ UNCHANGED <<dataPt, tracker, wrote>>

\* torch.save of the dataloader state.
SaveData ==
  /\ \/ Go("data", "data_close") /\ dataPt' = [dataPt EXCEPT ![steps] = Torn]
     \/ Go("data_close", "tracker") /\ dataPt' = [dataPt EXCEPT ![steps] = pos]
  /\ UNCHANGED <<managerVars, tracker, role, wrote>>

\* open(..., "w") truncates the tracker, write() and close() fill it.
SaveTracker ==
  /\ \/ Go("tracker", "tracker_close") /\ tracker' = Torn
     \/ Go("tracker_close", "next") /\ tracker' = steps
  /\ UNCHANGED <<managerVars, dataPt, role, wrote>>

----------------------------------------------------------------------------
\* The job is killed: everything in memory is lost.  The last launch is spared.
Kill ==
  /\ pc \notin {"down", "exit"}
  /\ run < MaxRuns
  /\ pc' = "down"
  /\ Fresh
  /\ UNCHANGED <<epochLen, dataPt, tracker, run>>

Progress ==
  \/ Launch
  \/ \E mode \in Modes : Load(mode)
  \/ TrainStep
  \/ EpochEnd
  \/ NextStep
  \/ SaveEnsure
  \/ SaveMakeRoom
  \/ \E ra \in Rank : SaveFile(ra)
  \/ SaveRegister
  \/ SaveRotate
  \/ SaveData
  \/ SaveTracker

Next == Progress \/ Kill

Spec == Init /\ [][Next]_vars

\* A launched job keeps running and a dead one is launched again.
LiveSpec == Spec /\ WF_vars(Progress)

----------------------------------------------------------------------------
(***************************************************************************)
(* What checkpointing promises                                             *)
(***************************************************************************)

\* The folder the tracker names holds one complete checkpoint: all roles, all
\* ranks, from the same launch and step, and the matching dataloader state.
TrackedCheckpointWhole ==
  tracker \in Step =>
     /\ \E w \in State : Contents(tracker) = {w} /\ w.n = tracker
     /\ dataPt[tracker] = tracker

\* Training never goes on from files of two different saves.
WeightsFromOneSave == weights # Mixed

\* Each step trains on the batch an uninterrupted run would give it, from
\* weights with every earlier update in them.
StepsFollowOneAnother ==
  pc = "train" /\ pos < epochLen => pos = steps - 1 /\ weights.n = steps - 1

\* With a limit of two or more, one launch never has more directories of a
\* role on disk than the limit, not even while it saves.
Written(ro) ==
  {s \in Step : \E x \in Slot : x[1] = ro /\ shard[s][x] \in State
                                 /\ shard[s][x].run = run}
LaunchKeepsAtMostMax ==
  \A ro \in Role : Keep[ro] > 1 /\ run > 0 => Cardinality(Written(ro)) <= Keep[ro]

\* A checkpoint is announced only once all of it is on disk.
AnnouncedWhenWhole ==
  [][tracker' # tracker /\ tracker' \in Step =>
       /\ Loadable(tracker')
       /\ Cardinality(Contents(tracker')) = 1
       /\ dataPt[tracker'] \notin {NoFile, Torn}]_vars

\* Training that ended has left its last step behind as a checkpoint, unless
\* the batches ran out before total_training_steps.
FinishedRunIsSaved ==
  pc = "exit" /\ epochLen >= TotalSteps => tracker = steps /\ Loadable(steps)

\* Resuming neither repeats a step that was announced nor costs more than the
\* SaveFreq steps since then.
Announced == IF tracker = NoFile THEN 0 ELSE tracker
ResumeLosesAtMostSaveFreq ==
  pc = "train" /\ SaveFreq > 0 =>
     tracker # Torn /\ steps - Announced \in 1 .. SaveFreq

\* However often the job dies, training ends, unless a kill fell into the two
\* instructions between truncating and writing the tracker.
EndsUnlessTrackerTorn == <>(pc = "exit") \/ <>[](tracker = Torn)

\* The EMA teacher of a resumed run has followed the student from the start.
TeacherSurvivesResume == pc = "train" => teacher = steps - 1

\* No step is trained beyond total_training_steps.
StepsStayWithinTotal == pc = "train" => steps <= TotalSteps

\* "a mandatory condition ...: The save frequency is set to a positive value".
SavedOnlyWithFrequency == SaveFreq = 0 => \A s \in Step : Contents(s) = {NoFile}

\* All directories together respect the limit.
AtMostMaxOnDisk ==
  \A ro \in Role :
     Keep[ro] > 0 /\ pc = "train" =>
        Cardinality({s \in Step : \E x \in Slot : x[1] = ro /\ shard[s][x] # NoFile})
          <= Keep[ro]

\* A relaunch finds a tracker it can read.
TrackerIsAtomic == pc = "load" => tracker # Torn

=============================================================================
