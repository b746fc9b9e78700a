---------------------------- MODULE TrainerProofs ----------------------------
(***************************************************************************)
(* Theorems about Trainer, for any number of ranks, files, steps, launches *)
(* and batches, with or without a critic and at any save frequency, when   *)
(* training is launched in the mode "auto" and no role keeps exactly one   *)
(* directory.  Both are needed: TLC refutes the first theorem in the mode  *)
(* "resume_path" (ckpt_overwrite.cfg) and with a limit of one              *)
(* (ckpt_keep_one.cfg).                                                    *)
(***************************************************************************)
EXTENDS Trainer, FiniteSetTheorems, TLAPS

Conditions == Modes \subseteq {"auto"} /\ \A ro \in Role : Keep[ro] # 1

Content == State \cup {NoFile, Torn}

Types ==
  /\ shard \in [Step -> [Slot -> Content]]
  /\ saved \in [Role -> Seq(Step)]
  /\ doomed \in [Role -> SUBSET Step]
  /\ epochLen \in Nat \ {0}
  /\ dataPt \in [Step -> Nat \cup {NoFile, Torn}]
  /\ tracker \in Step \cup {NoFile, Torn}
  /\ pc \in PCs
  /\ run \in 0 .. MaxRuns
  /\ steps \in Nat
  /\ weights \in State
  /\ pos \in Nat
  /\ role \in Role
  /\ wrote \in [Rank -> 0 .. 2 * Files]

BeforeTracker == {"ensure", "make_room", "files", "rotate"}
AfterFiles == {"data", "data_close", "tracker", "tracker_close"}
Saving == BeforeTracker \cup AfterFiles
Training == Saving \cup {"train", "next"}

\* Where the loop is: steps, batches and updates go together, and the folder
\* the tracker names is behind the step being trained or saved.
LoopInv ==
  /\ pc = "train" => steps >= 1 /\ pos = steps - 1 /\ weights.n = steps - 1
  /\ pc \in Saving \cup {"next"} => steps >= 1 /\ pos = steps /\ weights.n = steps
  /\ pc \in Training => run >= 1 /\ steps <= TotalSteps + run
  /\ pc \notin BeforeTracker => role = "actor"
  /\ weights # Mixed
  /\ tracker \in Step => tracker <= TotalSteps + run
  /\ pc = "load" => weights = Initial /\ pos = 0
  /\ pc = "load" => run >= 1 /\ (tracker \in Step => tracker <= TotalSteps + run - 1)
  /\ pc \in Saving \cup {"train"} => (tracker \in Step => tracker < steps)
  /\ pc = "next" => (tracker \in Step => tracker <= steps)

\* How training ends: the last step was saved, or the batches ran out.
ExitInv ==
  /\ pc = "train" => steps <= TotalSteps \/ steps <= epochLen
  /\ pc = "next" /\ steps >= TotalSteps => tracker = steps
  /\ pc = "exit" /\ epochLen >= TotalSteps => tracker = steps

\* The role's part of the save in progress is on disk and registered.
Registered(ro) ==
  \/ pc \in AfterFiles
  \/ role = "critic" /\ ro = "actor"
  \/ role = ro /\ pc = "rotate"

Written_(ro, ra, f) == Registered(ro) \/ (role = ro /\ pc = "files" /\ 2 * f <= wrote[ra])

\* The files written so far hold the state that is being saved.
FilesInv ==
  /\ pc \in Saving =>
       \A ro \in Role, ra \in Rank, f \in 1 .. Files :
         Written_(ro, ra, f) => shard[steps][<<ro, ra, f>>] = weights
  /\ pc \in {"tracker", "tracker_close"} => dataPt[steps] = steps

Increasing(seq) == \A i, j \in 1 .. Len(seq) : i < j => seq[i] < seq[j]
Under(seq, n) == \A i \in 1 .. Len(seq) : seq[i] < n

\* The manager's list: in the order of the steps, with nothing between the
\* folder the tracker names and the step being saved.
ListInv(ro) ==
  /\ pc = "load" => saved[ro] = <<>> /\ doomed[ro] = {}
  /\ pc \in Training =>
       /\ Increasing(saved[ro])
       /\ Under(saved[ro], steps + 1)
       /\ pc = "train" \/ (pc \in Saving /\ ~Registered(ro)) => Under(saved[ro], steps)
       /\ tracker \in Step =>
            /\ tracker \notin doomed[ro]
            /\ \A i \in 1 .. Len(saved[ro]) : saved[ro][i] <= tracker \/ saved[ro][i] = steps
            /\ pc = "next" => Under(saved[ro], tracker + 1)
       /\ \A s \in doomed[ro] : s < steps

ResumeInv ==
  /\ LoopInv
  /\ ExitInv
  /\ FilesInv
  /\ \A ro \in Role : ListInv(ro)
  /\ TrackedCheckpointWhole

----------------------------------------------------------------------------
(***************************************************************************)
(* Sequences of steps                                                      *)
(***************************************************************************)

LEMMA SuffixFacts ==
  ASSUME NEW S, NEW seq \in Seq(S), NEW n \in 0 .. Len(seq)
  PROVE  /\ Suffix(seq, n) \in Seq(S)
         /\ Len(Suffix(seq, n)) = Len(seq) - n
         /\ \A i \in 1 .. Len(seq) - n : Suffix(seq, n)[i] = seq[n + i]
BY SMT DEF Suffix

LEMMA PrefixIn ==
  ASSUME NEW S, NEW seq \in Seq(S), NEW n \in 0 .. Len(seq)
  PROVE  Prefix(seq, n) \subseteq S
BY SMT DEF Prefix

LEMMA ConstantFacts ==
  /\ MaxStep \in Nat /\ MaxRuns \in Nat /\ MaxRuns >= 1 /\ TotalSteps \in Nat /\ TotalSteps >= 1
  /\ MaxStep = TotalSteps + MaxRuns
  /\ Step \subseteq Nat \ {0}
  /\ NoFile \notin Nat /\ Torn \notin Nat /\ NoFile \notin State /\ Torn \notin State
  /\ Files \in Nat /\ Files >= 1
  /\ 0 \in Rank
  /\ "actor" \in Role /\ Role \subseteq {"actor", "critic"}
  /\ UseCritic => "critic" \in Role
  /\ ~UseCritic => Role = {"actor"}
<1>1. MaxStep \in Nat /\ MaxRuns \in Nat /\ MaxRuns >= 1 /\ TotalSteps \in Nat /\ TotalSteps >= 1
      /\ MaxStep = TotalSteps + MaxRuns /\ Files \in Nat /\ Files >= 1 /\ 0 \in Rank
  BY ManagerAssumption DEF MaxStep
<1>2. Step \subseteq Nat \ {0}
  BY <1>1 DEF Step
<1>3. NoFile \notin Nat /\ Torn \notin Nat /\ NoFile \notin State /\ Torn \notin State
  BY ManagerAssumption, Zenon
<1>4. "actor" \in Role /\ Role \subseteq {"actor", "critic"} /\ (UseCritic => "critic" \in Role)
      /\ (~UseCritic => Role = {"actor"})
  BY DEF Role
<1> QED
  BY <1>1, <1>2, <1>3, <1>4

\* A folder at the end of the list is not among those removed.
LEMMA LastIsKept ==
  ASSUME NEW seq \in Seq(Step), Increasing(seq), NEW t \in Step, NEW top \in Nat,
         Under(seq, top),
         \A i \in 1 .. Len(seq) : seq[i] <= t \/ seq[i] = top,
         NEW n \in Nat, n < Len(seq)
  PROVE  t \notin Prefix(seq, n)
<1>a. \A i \in 1 .. Len(seq) : seq[i] \in Step
  OBVIOUS
<1>1. \A i \in 1 .. Len(seq) : seq[i] \in Nat
  BY <1>a, ConstantFacts
<1>2. SUFFICES ASSUME NEW i \in 1 .. n, seq[i] = t PROVE FALSE
  BY DEF Prefix
<1>3. seq[i] < seq[Len(seq)] /\ seq[Len(seq)] < top /\ (seq[Len(seq)] <= t \/ seq[Len(seq)] = top)
  BY SMT DEF Increasing, Under
<1> QED
  BY <1>1, <1>2, <1>3, ConstantFacts, SMT

----------------------------------------------------------------------------
(***************************************************************************)
(* Types                                                                   *)
(***************************************************************************)

ManagerTypes ==
  /\ shard \in [Step -> [Slot -> Content]]
  /\ saved \in [Role -> Seq(Step)]
  /\ doomed \in [Role -> SUBSET Step]

TrainerTypes ==
  /\ epochLen \in Nat \ {0}
  /\ dataPt \in [Step -> Nat \cup {NoFile, Torn}]
  /\ tracker \in Step \cup {NoFile, Torn}
  /\ pc \in PCs
  /\ run \in 0 .. MaxRuns
  /\ steps \in Nat
  /\ weights \in State
  /\ pos \in Nat
  /\ role \in Role
  /\ wrote \in [Rank -> 0 .. 2 * Files]

LEMMA TypesSplit == (Types <=> ManagerTypes /\ TrainerTypes) /\ (Types' <=> ManagerTypes' /\ TrainerTypes')
BY DEF Types, ManagerTypes, TrainerTypes

LEMMA NewManagerTypes == ASSUME ManagerTypes, NewManager PROVE ManagerTypes'
BY SMT DEF ManagerTypes, NewManager

LEMMA ForgetTypes ==
  ASSUME ManagerTypes, NEW ro \in Role, NEW n \in 0 .. Len(saved[ro]), Forget(ro, n)
  PROVE  ManagerTypes'
<1>1. saved[ro] \in Seq(Step)
  BY DEF ManagerTypes
<1>2. Suffix(saved[ro], n) \in Seq(Step) /\ Prefix(saved[ro], n) \subseteq Step
  BY <1>1, SuffixFacts, PrefixIn
<1> QED
  BY <1>2, Zenon DEF ManagerTypes, Forget

LEMMA RegisterTypes ==
  ASSUME ManagerTypes, NEW ro \in Role, NEW s \in Step, RegisterCheckpoint(ro, s), Keep[ro] \in Nat
  PROVE  ManagerTypes'
<1> DEFINE all  == Append(saved[ro], s)
           over == IF Keep[ro] > 0 /\ Len(all) > Keep[ro] THEN Len(all) - Keep[ro] ELSE 0
<1>1. all \in Seq(Step)
  BY DEF ManagerTypes
<1>2. over \in 0 .. Len(all)
  BY <1>1, SMT
<1>3. Suffix(all, over) \in Seq(Step) /\ Prefix(all, over) \subseteq Step
  <2> HIDE DEF all, over
  <2> QED BY <1>1, <1>2, SuffixFacts, PrefixIn
<1>4. /\ saved' = [saved EXCEPT ![ro] = Suffix(all, over)]
      /\ doomed' = [doomed EXCEPT ![ro] = Prefix(all, over)]
      /\ shard' = shard
  BY DEF RegisterCheckpoint
<1> HIDE DEF all, over
<1> QED
  BY <1>3, <1>4, Zenon DEF ManagerTypes

LEMMA PutFileTypes ==
  ASSUME ManagerTypes, NEW s, NEW x, NEW c \in Content,
         shard' = [shard EXCEPT ![s][x] = c], UNCHANGED <<saved, doomed>>
  PROVE  ManagerTypes'
<1>1. ASSUME NEW y \in Step PROVE shard'[y] \in [Slot -> Content]
  <2>1. shard[y] \in [Slot -> Content]
    BY DEF ManagerTypes
  <2>2. [shard[y] EXCEPT ![x] = c] \in [Slot -> Content]
    BY <2>1
  <2>3. shard'[y] = IF y = s THEN [shard[y] EXCEPT ![x] = c] ELSE shard[y]
    BY DEF ManagerTypes
  <2> QED BY <2>1, <2>2, <2>3
<1>2. shard' = [y \in Step |-> shard'[y]]
  BY DEF ManagerTypes
<1>3. shard' \in [Step -> [Slot -> Content]]
  BY <1>1, <1>2
<1> QED
  BY <1>3 DEF ManagerTypes

LEMMA SameManagerTypes == ASSUME ManagerTypes, UNCHANGED managerVars PROVE ManagerTypes'
BY DEF ManagerTypes, managerVars

LEMMA StepOK == ASSUME LoopInv, TrainerTypes, pc \in Saving PROVE steps \in Step
<1>1. steps >= 1 /\ steps <= TotalSteps + run /\ run \in 0 .. MaxRuns /\ steps \in Nat
  BY DEF LoopInv, TrainerTypes, Saving, BeforeTracker, AfterFiles, Training
<1> QED
  BY <1>1, ConstantFacts, SMT DEF Step

LEMMA TypesInit == ASSUME Init PROVE Types
<1>1. ManagerTypes
  <2>1. NoFile \in Content
    BY DEF Content
  <2> QED BY <2>1, SMT DEF Init, ManagerInit, ManagerTypes
<1>2. Initial \in State
  BY ConstantFacts, SMT DEF Initial, State
<1>3. epochLen \in Nat \ {0}
  BY TrainerAssumption DEF Init
<1>4. wrote \in [Rank -> 0 .. 2 * Files] /\ run \in 0 .. MaxRuns
  BY ConstantFacts, SMT DEF Init
<1>5. TrainerTypes
  BY <1>2, <1>3, <1>4, ConstantFacts DEF Init, TrainerTypes, PCs
<1> QED
  BY <1>1, <1>5, TypesSplit

LEMMA LoadTypes ==
  ASSUME Types, ResumeInv, Conditions, NEW mode \in Modes, Load(mode)
  PROVE  Types'
<1> USE DEF Conditions
<1>1. mode = "auto"
  OBVIOUS
<1>2. TrainerTypes /\ ManagerTypes
  BY TypesSplit
<1>3. CASE UNCHANGED <<managerVars, epochLen, dataPt, tracker, run, steps, weights, teacher, pos, role, wrote>>
           /\ pc' = "down"
  <2>1. ManagerTypes'
    BY <1>2, <1>3, SameManagerTypes
  <2>2. TrainerTypes'
    BY <1>2, <1>3 DEF TrainerTypes, PCs
  <2> QED BY <2>1, <2>2, TypesSplit
<1>4. CASE FromScratch
  <2>1. ManagerTypes'
    BY <1>2, <1>4, SameManagerTypes DEF FromScratch, StartAt
  <2>2. pc' \in PCs /\ steps' \in Nat
    BY <1>4 DEF FromScratch, StartAt, PCs
  <2>3. TrainerTypes'
    BY <1>2, <1>4, <2>2 DEF TrainerTypes, FromScratch, StartAt
  <2> QED BY <2>1, <2>3, TypesSplit
<1>5. CASE \E k \in {tracker} \cap Step : LoadFrom(k)
  <2>1. tracker \in Step /\ LoadFrom(tracker)
    BY <1>5
  <2>2. ManagerTypes'
    BY <1>2, <2>1, SameManagerTypes DEF LoadFrom, StartAt
  <2>3. pc' \in PCs /\ steps' \in Nat
    BY <2>1, ConstantFacts DEF LoadFrom, StartAt, PCs
  <2>4. dataPt[tracker] = tracker /\ tracker \in Nat
    BY <2>1, ConstantFacts DEF ResumeInv, TrackedCheckpointWhole
  <2>5. pos' \in Nat
    BY <2>1, <2>4, ConstantFacts DEF LoadFrom
  <2>6. PICK w \in State : Contents(tracker) = {w}
    BY <2>1 DEF ResumeInv, TrackedCheckpointWhole
  <2>7. Cardinality(Contents(tracker)) = 1
    BY <2>6, FS_Singleton
  <2>8. weights' \in State
    <3>1. weights' = CHOOSE v \in Contents(tracker) : TRUE
      BY <2>1, <2>7 DEF LoadFrom
    <3> QED BY <2>6, <3>1
  <2>9. TrainerTypes'
    BY <1>2, <2>1, <2>3, <2>5, <2>8 DEF TrainerTypes, LoadFrom, StartAt
  <2> QED BY <2>2, <2>9, TypesSplit
<1> QED
  BY <1>1, <1>3, <1>4, <1>5 DEF Load, LoadFails

LEMMA TypesNext == ASSUME Types, ResumeInv, Conditions, Next PROVE Types'
<1>1. TrainerTypes /\ ManagerTypes /\ LoopInv
  BY TypesSplit DEF ResumeInv
<1>2. CASE Launch
  <2>1. ManagerTypes'
    BY <1>1, <1>2, NewManagerTypes DEF Launch, Fresh
  <2>2. Initial \in State
    BY ConstantFacts, SMT DEF Initial, State
  <2>3. run' \in 0 .. MaxRuns /\ wrote' \in [Rank -> 0 .. 2 * Files]
    BY <1>1, <1>2, ConstantFacts, SMT DEF Launch, Fresh, TrainerTypes
  <2>4. TrainerTypes'
    BY <1>1, <1>2, <2>2, <2>3, ConstantFacts DEF Launch, Fresh, TrainerTypes, PCs
  <2> QED BY <2>1, <2>4, TypesSplit
<1>3. CASE Kill
  <2>1. ManagerTypes'
    BY <1>1, <1>3, NewManagerTypes DEF Kill, Fresh
  <2>2. Initial \in State
    BY ConstantFacts, SMT DEF Initial, State
  <2>3. wrote' \in [Rank -> 0 .. 2 * Files]
    BY <1>1, <1>3, ConstantFacts, SMT DEF Kill, Fresh, TrainerTypes
  <2>4. TrainerTypes'
    BY <1>1, <1>3, <2>2, <2>3, ConstantFacts DEF Kill, Fresh, TrainerTypes, PCs
  <2> QED BY <2>1, <2>4, TypesSplit
<1>4. CASE \E mode \in Modes : Load(mode)
  BY <1>4, LoadTypes
<1>5. CASE TrainStep
  <2>1. ManagerTypes'
    BY <1>1, <1>5, SameManagerTypes DEF TrainStep
  <2>2. weights.n = steps - 1 /\ steps >= 1 /\ steps <= TotalSteps + run /\ weights # Mixed
    BY <1>1, <1>5 DEF TrainStep, LoopInv, Training
  <2>3. weights' = [n |-> weights.n + 1, run |-> run]
    BY <1>5, <2>2 DEF TrainStep, Trained
  <2>4. weights.n + 1 \in 0 .. MaxStep /\ run \in 0 .. MaxRuns
    BY <1>1, <2>2, ConstantFacts, SMT DEF TrainerTypes
  <2>5. weights' \in State
    BY <2>3, <2>4 DEF State
  <2>6. pc' \in PCs
    BY <1>5 DEF TrainStep, PCs
  <2>7. TrainerTypes'
    BY <1>1, <1>5, <2>5, <2>6 DEF TrainerTypes, TrainStep
  <2> QED BY <2>1, <2>7, TypesSplit
<1>6. CASE EpochEnd
  <2>1. ManagerTypes'
    BY <1>1, <1>6, SameManagerTypes DEF EpochEnd
  <2>2. TrainerTypes'
    BY <1>1, <1>6 DEF TrainerTypes, EpochEnd, PCs
  <2> QED BY <2>1, <2>2, TypesSplit
<1>7. CASE NextStep
  <2>1. ManagerTypes'
    BY <1>1, <1>7, SameManagerTypes DEF NextStep
  <2>2. TrainerTypes'
    BY <1>1, <1>7 DEF TrainerTypes, NextStep, PCs
  <2> QED BY <2>1, <2>2, TypesSplit
<1>8. CASE SaveEnsure
  <2>1. ManagerTypes'
    <3>1. role \in Role /\ EnsureCapacity(role) /\ saved[role] \in Seq(Step) /\ Keep[role] \in Nat
      BY <1>1, <1>8, ManagerAssumption DEF SaveEnsure, TrainerTypes, ManagerTypes
    <3>2. CASE Keep[role] > 1 /\ Len(saved[role]) >= Keep[role]
      <4>1. Len(saved[role]) - Keep[role] + 1 \in 0 .. Len(saved[role])
        BY <3>1, <3>2, SMT
      <4> QED BY <1>1, <3>1, <3>2, <4>1, ForgetTypes DEF EnsureCapacity
    <3>3. CASE ~(Keep[role] > 1 /\ Len(saved[role]) >= Keep[role])
      BY <1>1, <3>1, <3>3, SameManagerTypes DEF EnsureCapacity
    <3> QED BY <3>2, <3>3
  <2>2. TrainerTypes'
    BY <1>1, <1>8 DEF TrainerTypes, SaveEnsure, Go, PCs
  <2> QED BY <2>1, <2>2, TypesSplit
<1>9. CASE SaveMakeRoom
  <2>1. ManagerTypes'
    BY <1>1, <1>9, SameManagerTypes, PutFileTypes DEF SaveMakeRoom, RemoveOne, Content
  <2>2. wrote' \in [Rank -> 0 .. 2 * Files]
    BY <1>1, <1>9, ConstantFacts, SMT DEF SaveMakeRoom, TrainerTypes
  <2>3. TrainerTypes'
    BY <1>1, <1>9, <2>2 DEF TrainerTypes, SaveMakeRoom, Go, PCs
  <2> QED BY <2>1, <2>3, TypesSplit
<1>10. CASE \E ra \in Rank : SaveFile(ra)
  <2>1. PICK ra \in Rank : SaveFile(ra)
    BY <1>10
  <2>2. ManagerTypes'
    BY <1>1, <2>1, PutFileTypes DEF SaveFile, OpenFile, CloseFile, Content, TrainerTypes
  <2>3. wrote' \in [Rank -> 0 .. 2 * Files]
    <3>1. wrote \in [Rank -> 0 .. 2 * Files] /\ wrote[ra] < 2 * Files
          /\ wrote' = [wrote EXCEPT ![ra] = @ + 1]
      BY <1>1, <2>1 DEF SaveFile, TrainerTypes
    <3>2. wrote[ra] + 1 \in 0 .. 2 * Files
      BY <3>1, ConstantFacts, SMT
    <3> QED BY <3>1, <3>2
  <2>4. TrainerTypes'
    BY <1>1, <2>1, <2>3 DEF TrainerTypes, SaveFile, Go, PCs
  <2> QED BY <2>2, <2>4, TypesSplit
<1>11. CASE SaveRegister
  <2>1. ManagerTypes'
    <3>1. role \in Role /\ steps \in Step /\ RegisterCheckpoint(role, steps) /\ Keep[role] \in Nat
      BY <1>1, <1>11, StepOK, ManagerAssumption
         DEF SaveRegister, Go, TrainerTypes, Saving, BeforeTracker
    <3> QED BY <1>1, <3>1, RegisterTypes
  <2>2. TrainerTypes'
    BY <1>1, <1>11 DEF TrainerTypes, SaveRegister, Go, PCs
  <2> QED BY <2>1, <2>2, TypesSplit
<1>12. CASE SaveRotate
  <2>1. ManagerTypes'
    BY <1>1, <1>12, SameManagerTypes, PutFileTypes DEF SaveRotate, RemoveOne, Content
  <2>2. role' \in Role /\ pc' \in PCs
    BY <1>1, <1>12, ConstantFacts DEF SaveRotate, Go, TrainerTypes, PCs
  <2>3. TrainerTypes'
    BY <1>1, <1>12, <2>2 DEF TrainerTypes, SaveRotate, Go
  <2> QED BY <2>1, <2>3, TypesSplit
<1>13. CASE SaveData
  <2>1. ManagerTypes'
    BY <1>1, <1>13, SameManagerTypes DEF SaveData
  <2>2. dataPt' \in [Step -> Nat \cup {NoFile, Torn}]
    BY <1>1, <1>13 DEF SaveData, TrainerTypes
  <2>3. TrainerTypes'
    BY <1>1, <1>13, <2>2 DEF TrainerTypes, SaveData, Go, PCs
  <2> QED BY <2>1, <2>3, TypesSplit
<1>14. CASE SaveTracker
  <2>1. ManagerTypes'
    BY <1>1, <1>14, SameManagerTypes DEF SaveTracker
  <2>2. tracker' \in Step \cup {NoFile, Torn}
    BY <1>1, <1>14, StepOK DEF SaveTracker, Go, Saving, AfterFiles
  <2>3. TrainerTypes'
    BY <1>1, <1>14, <2>2 DEF TrainerTypes, SaveTracker, Go, PCs
  <2> QED BY <2>1, <2>3, TypesSplit
<1> QED
  BY <1>2, <1>3, <1>4, <1>5, <1>6, <1>7, <1>8, <1>9, <1>10, <1>11, <1>12, <1>13, <1>14
     DEF Next, Progress

----------------------------------------------------------------------------
(***************************************************************************)
(* What leaves a part of the invariant alone                               *)
(***************************************************************************)

LEMMA WholeKept ==
  ASSUME TrackedCheckpointWhole, tracker' = tracker,
         tracker \in Step => shard'[tracker] = shard[tracker] /\ dataPt'[tracker] = dataPt[tracker]
  PROVE  TrackedCheckpointWhole'
BY DEF TrackedCheckpointWhole, Contents

LEMMA NotSaving == ASSUME pc' \notin Saving PROVE FilesInv'
BY DEF FilesInv, Saving, AfterFiles

LEMMA NotTraining == ASSUME pc' \notin Training, pc' # "load" PROVE \A ro \in Role : ListInv(ro)'
BY DEF ListInv

LEMMA LoopKept ==
  ASSUME Types, LoopInv, pc \in Saving, pc' \in Saving,
         UNCHANGED <<epochLen, run, steps, weights, pos>>,
         tracker' = tracker \/ tracker' = Torn,
         pc' \notin BeforeTracker => role' = "actor"
  PROVE  LoopInv' /\ ExitInv'
<1>1. Torn \notin Step
  BY ConstantFacts
<1>2. LoopInv'
  BY <1>1 DEF LoopInv, Saving, BeforeTracker, AfterFiles, Training
<1>3. ExitInv'
  BY DEF ExitInv, Saving, BeforeTracker, AfterFiles
<1> QED
  BY <1>2, <1>3

LEMMA FilesKept ==
  ASSUME FilesInv, pc \in Saving, pc' \in Saving,
         UNCHANGED <<steps, weights>>, shard'[steps] = shard[steps],
         \A ro \in Role, ra \in Rank, f \in 1 .. Files : Written_(ro, ra, f)' => Written_(ro, ra, f),
         pc' \in {"tracker", "tracker_close"} => dataPt'[steps] = steps
  PROVE  FilesInv'
BY DEF FilesInv

LEMMA ListKept ==
  ASSUME NEW ro \in Role, ListInv(ro), pc \in Saving, pc' \in Saving,
         UNCHANGED steps, tracker' = tracker \/ tracker' = Torn,
         saved'[ro] = saved[ro], doomed'[ro] = doomed[ro],
         Registered(ro) => Registered(ro)'
  PROVE  ListInv(ro)'
<1>1. Torn \notin Step /\ pc \in Training /\ pc' \in Training
      /\ pc' # "load" /\ pc' # "next" /\ pc' # "train"
  BY ConstantFacts DEF Training, Saving, BeforeTracker, AfterFiles
<1>2. Increasing(saved[ro])' /\ Under(saved[ro], steps + 1)'
  BY <1>1 DEF ListInv, Increasing, Under
<1>3. ~Registered(ro)' => Under(saved[ro], steps)'
  BY <1>1 DEF ListInv, Under
<1>4. \A s \in doomed'[ro] : s < steps'
  BY <1>1 DEF ListInv
<1>5. tracker' \in Step =>
         /\ tracker' \notin doomed'[ro]
         /\ \A i \in 1 .. Len(saved'[ro]) : saved'[ro][i] <= tracker' \/ saved'[ro][i] = steps'
  BY <1>1 DEF ListInv
<1> QED
  BY <1>1, <1>2, <1>3, <1>4, <1>5 DEF ListInv

\* A directory being removed is neither the one being saved nor the tracked one.
LEMMA RemovalIsElsewhere ==
  ASSUME Types, ResumeInv, pc \in Saving, RemoveOne(role)
  PROVE  /\ shard'[steps] = shard[steps]
         /\ tracker \in Step => shard'[tracker] = shard[tracker]
         /\ UNCHANGED <<saved, doomed>>
<1>1. PICK d \in Remaining(role) : shard' = [shard EXCEPT ![d[1]][d[2]] = NoFile]
  BY DEF RemoveOne
<1>2. role \in Role /\ steps \in Step /\ doomed[role] \subseteq Step
      /\ shard \in [Step -> [Slot -> Content]]
  BY StepOK, TypesSplit DEF TrainerTypes, ManagerTypes, ResumeInv
<1>3. d[1] \in doomed[role]
  BY <1>1 DEF Remaining
<1>4. d[1] < steps /\ (tracker \in Step => d[1] # tracker)
  BY <1>2, <1>3 DEF ResumeInv, ListInv, Training
<1>5. d[1] # steps
  BY <1>2, <1>4, ConstantFacts
<1>6. \A s \in Step : s # d[1] => shard'[s] = shard[s]
  BY <1>1, <1>2
<1> QED
  BY <1>2, <1>4, <1>5, <1>6 DEF RemoveOne

----------------------------------------------------------------------------
(***************************************************************************)
(* Every action preserves the invariant                                    *)
(***************************************************************************)

LEMMA InitResume == ASSUME Init PROVE ResumeInv
<1> USE DEF Init, ManagerInit
<1>a. weights = [n |-> 0, run |-> 0] /\ Mixed = [n |-> 0, run |-> MaxRuns]
  BY DEF Initial, Mixed
<1>b. weights # Mixed
  <2>1. weights.run = 0 /\ Mixed.run = MaxRuns
    BY <1>a
  <2> QED BY <2>1, ConstantFacts
<1>1. NoFile \notin Step /\ weights # Mixed
  BY <1>b, ConstantFacts
<1>2. LoopInv /\ ExitInv
  BY <1>1 DEF LoopInv, ExitInv, Saving, BeforeTracker, AfterFiles, Training
<1>3. FilesInv
  BY DEF FilesInv, Saving, BeforeTracker, AfterFiles
<1>4. \A ro \in Role : ListInv(ro)
  BY DEF ListInv, Saving, BeforeTracker, AfterFiles, Training
<1>5. TrackedCheckpointWhole
  BY <1>1 DEF TrackedCheckpointWhole
<1> QED
  BY <1>2, <1>3, <1>4, <1>5 DEF ResumeInv

LEMMA LaunchResume ==
  ASSUME Types, ResumeInv, Launch \/ Kill
  PROVE  ResumeInv'
<1>1. /\ weights' = Initial /\ pos' = 0 /\ role' = "actor" /\ NewManager
      /\ UNCHANGED <<epochLen, dataPt, tracker>>
      /\ shard' = shard
  BY DEF Launch, Kill, Fresh, NewManager
<1>2. \/ pc' = "load" /\ run' = run + 1
      \/ pc' = "down" /\ run' = run
  BY DEF Launch, Kill
<1>3. run \in Nat /\ (tracker \in Step => tracker \in Nat)
  BY ConstantFacts DEF Types
<1>4. weights' # Mixed'
  <2>1. weights'.run = 0 /\ Mixed.run = MaxRuns
    BY <1>1 DEF Initial, Mixed
  <2> QED BY <2>1, ConstantFacts
<1>5. LoopInv'
  <2>1. tracker \in Step => tracker <= TotalSteps + run
    BY DEF ResumeInv, LoopInv
  <2>2. tracker' \in Step => tracker' <= TotalSteps + run'
    BY <1>1, <1>2, <1>3, <2>1, ConstantFacts, SMT
  <2>3. pc' = "load" => run' >= 1 /\ (tracker' \in Step => tracker' <= TotalSteps + run' - 1)
    BY <1>1, <1>2, <1>3, <2>1, ConstantFacts, SMT
  <2> QED
    BY <1>1, <1>2, <1>4, <2>2, <2>3
       DEF LoopInv, Saving, BeforeTracker, AfterFiles, Training
<1>6. ExitInv'
  BY <1>2 DEF ExitInv
<1>7. FilesInv'
  BY <1>2, NotSaving DEF Saving, BeforeTracker, AfterFiles
<1>8. \A ro \in Role : ListInv(ro)'
  <2>1. \A ro \in Role : saved'[ro] = <<>> /\ doomed'[ro] = {}
    BY <1>1 DEF NewManager
  <2> QED
    BY <1>2, <2>1 DEF ListInv, Saving, BeforeTracker, AfterFiles, Training
<1>9. TrackedCheckpointWhole'
  BY <1>1, WholeKept DEF ResumeInv
<1> QED
  BY <1>5, <1>6, <1>7, <1>8, <1>9 DEF ResumeInv

\* A resume takes the step, the batches and the updates of one folder.
LEMMA LoadResume ==
  ASSUME Types, ResumeInv, Conditions, NEW mode \in Modes, Load(mode)
  PROVE  ResumeInv'
<1>1. mode = "auto" /\ pc = "load"
  BY DEF Load, Conditions
<1>2. /\ epochLen \in Nat \ {0} /\ steps \in Nat /\ run \in Nat
      /\ tracker \in Step \cup {NoFile, Torn}
  BY ConstantFacts DEF Types
<1>3. role = "actor" /\ run >= 1 /\ weights # Mixed
      /\ (tracker \in Step => tracker <= TotalSteps + run - 1 /\ tracker <= TotalSteps + run)
  BY <1>1 DEF ResumeInv, LoopInv, BeforeTracker
<1>4. \A ro \in Role : saved[ro] = <<>> /\ doomed[ro] = {}
  BY <1>1 DEF ResumeInv, ListInv
<1>5. CASE LoadFails
  <2>1. LoopInv' /\ ExitInv'
    BY <1>3, <1>5 DEF LoadFails, LoopInv, ExitInv, Saving, BeforeTracker, AfterFiles, Training
  <2>2. FilesInv' /\ \A ro \in Role : ListInv(ro)'
    BY <1>5, NotSaving, NotTraining DEF LoadFails, Saving, BeforeTracker, AfterFiles, Training
  <2>3. TrackedCheckpointWhole'
    BY <1>5, WholeKept DEF ResumeInv, LoadFails, managerVars
  <2> QED BY <2>1, <2>2, <2>3 DEF ResumeInv
<1>6. ASSUME NEW k \in Nat, StartAt(k), weights'.n = k, weights' # Mixed, pos' = k,
             tracker \in Step => tracker = k, k = 0 \/ (k \in Step /\ tracker = k)
      PROVE  ResumeInv'
  <2>1. /\ UNCHANGED <<managerVars, epochLen, dataPt, tracker, run, role>>
        /\ k < epochLen => pc' = "train" /\ steps' = k + 1
        /\ k >= epochLen => pc' = "exit" /\ steps' = k
    <3>1. k < epochLen <=> k \div epochLen < 1
      BY <1>2, SMT
    <3>2. k < epochLen \/ k >= epochLen
      BY <1>2
    <3> QED BY <1>2, <3>1, <3>2, <1>6 DEF StartAt
  <2>2. CASE k < epochLen
    <3>1. LoopInv'
      <4>1. k + 1 <= TotalSteps + run
        BY <1>2, <1>3, <1>6, ConstantFacts, SMT
      <4>2. steps' >= 1 /\ pos' = steps' - 1 /\ weights'.n = steps' - 1 /\ pc' = "train"
            /\ steps' = k + 1
        BY <1>6, <2>1, <2>2
      <4>3. tracker' \in Step => tracker' < steps' /\ tracker' <= TotalSteps + run'
        BY <1>3, <1>6, <2>1, <4>2
      <4> QED
        BY <1>3, <1>6, <2>1, <4>1, <4>2, <4>3
           DEF LoopInv, Saving, BeforeTracker, AfterFiles, Training, Mixed
    <3>2. ExitInv'
      BY <1>2, <2>1, <2>2 DEF ExitInv
    <3>3. FilesInv'
      BY <2>1, <2>2, NotSaving DEF Saving, BeforeTracker, AfterFiles
    <3>4. ASSUME NEW ro \in Role PROVE ListInv(ro)'
      <4>1. saved'[ro] = <<>> /\ doomed'[ro] = {} /\ pc' = "train"
        BY <1>4, <2>1, <2>2 DEF managerVars
      <4> QED
        BY <4>1 DEF ListInv, Increasing, Under
    <3>5. TrackedCheckpointWhole'
      BY <2>1, WholeKept DEF ResumeInv, managerVars
    <3> QED BY <3>1, <3>2, <3>3, <3>4, <3>5 DEF ResumeInv
  <2>3. CASE k >= epochLen
    <3>1. LoopInv'
      BY <1>3, <1>6, <2>1, <2>3 DEF LoopInv, Saving, BeforeTracker, AfterFiles, Training, Mixed
    <3>2. ExitInv'
      BY <1>2, <1>6, <2>1, <2>3 DEF ExitInv
    <3>3. FilesInv' /\ \A ro \in Role : ListInv(ro)'
      BY <2>1, <2>3, NotSaving, NotTraining DEF Saving, BeforeTracker, AfterFiles, Training
    <3>4. TrackedCheckpointWhole'
      BY <2>1, WholeKept DEF ResumeInv, managerVars
    <3> QED BY <3>1, <3>2, <3>3, <3>4 DEF ResumeInv
  <2> QED BY <1>2, <2>2, <2>3
<1>7. CASE tracker = NoFile /\ FromScratch
  <2>1. tracker \notin Step
    BY <1>7, ConstantFacts
  <2>2. weights' = Initial /\ pos' = 0 /\ StartAt(0)
    BY <1>1, <1>7 DEF FromScratch, ResumeInv, LoopInv
  <2>3. weights'.n = 0 /\ weights' # Mixed
    BY <1>1, <1>3, <2>2 DEF Initial, ResumeInv, LoopInv
  <2> QED BY <1>6, <2>1, <2>2, <2>3
<1>8. CASE \E k \in {tracker} \cap Step : LoadFrom(k)
  <2>1. tracker \in Step /\ LoadFrom(tracker)
    BY <1>8
  <2>2. PICK w \in State : Contents(tracker) = {w} /\ w.n = tracker
    BY <2>1 DEF ResumeInv, TrackedCheckpointWhole
  <2>3. Cardinality(Contents(tracker)) = 1
    BY <2>2, FS_Singleton
  <2>4. weights' = w
    <3>1. weights' = CHOOSE v \in Contents(tracker) : TRUE
      BY <2>1, <2>3 DEF LoadFrom
    <3> QED BY <2>2, <3>1
  <2>5. tracker \in Nat /\ tracker # 0 /\ tracker # NoFile
    BY <2>1, ConstantFacts
  <2>6. pos' = tracker
    BY <2>1, <2>5 DEF LoadFrom, ResumeInv, TrackedCheckpointWhole
  <2>7. weights' # Mixed
    BY <2>2, <2>4, <2>5 DEF Mixed
  <2>8. StartAt(tracker)
    BY <2>1 DEF LoadFrom
  <2> QED BY <1>6, <2>1, <2>2, <2>4, <2>5, <2>6, <2>7, <2>8
<1> QED
  BY <1>1, <1>5, <1>7, <1>8 DEF Load

LEMMA TrainStepResume ==
  ASSUME Types, ResumeInv, TrainStep
  PROVE  ResumeInv'
<1>1. /\ pc = "train" /\ pc' \in {"ensure", "next"}
      /\ UNCHANGED <<managerVars, epochLen, dataPt, tracker, run, steps, role, wrote>>
      /\ pos' = pos + 1
      /\ pc' = "next" => steps < TotalSteps
  <2>1. steps \in Nat /\ TotalSteps \in Nat
    BY ConstantFacts DEF Types
  <2> QED BY <2>1 DEF TrainStep, SaveDue, IsLastStep
<1>2. /\ steps >= 1 /\ pos = steps - 1 /\ weights.n = steps - 1
      /\ run >= 1 /\ steps <= TotalSteps + run /\ role = "actor" /\ weights # Mixed
      /\ (tracker \in Step => tracker < steps /\ tracker <= TotalSteps + run)
  BY <1>1 DEF ResumeInv, LoopInv, Training, Saving, BeforeTracker
<1>3. steps \in Nat
  BY DEF Types
<1>4. weights' = [n |-> weights.n + 1, run |-> run]
  BY <1>2 DEF TrainStep, Trained
<1>5. weights'.n = steps /\ pos' = steps
  BY <1>1, <1>2, <1>3, <1>4
<1>6. weights' # Mixed
  BY <1>2, <1>3, <1>5 DEF Mixed
<1>7. LoopInv'
  <2>1. tracker' \in Step => tracker' < steps' /\ tracker' <= steps' /\ tracker' <= TotalSteps + run'
    BY <1>1, <1>2, <1>3, ConstantFacts
  <2> QED BY <1>1, <1>2, <1>5, <1>6, <2>1 DEF LoopInv, Saving, BeforeTracker, AfterFiles, Training
<1>8. ExitInv'
  BY <1>1, <1>3, ConstantFacts DEF ExitInv
<1>9. FilesInv'
  BY <1>1, <1>2 DEF FilesInv, Saving, BeforeTracker, AfterFiles, Written_, Registered
<1>10. ASSUME NEW ro \in Role PROVE ListInv(ro)'
  <2>1. saved'[ro] = saved[ro] /\ doomed'[ro] = doomed[ro] /\ tracker' = tracker /\ steps' = steps
    BY <1>1 DEF managerVars
  <2>2. /\ Increasing(saved[ro]) /\ Under(saved[ro], steps + 1) /\ Under(saved[ro], steps)
        /\ tracker \in Step =>
             /\ tracker \notin doomed[ro]
             /\ \A j \in 1 .. Len(saved[ro]) : saved[ro][j] <= tracker \/ saved[ro][j] = steps
        /\ \A s \in doomed[ro] : s < steps
    BY <1>1 DEF ResumeInv, ListInv, Training
  <2>3. tracker \in Step => Under(saved[ro], tracker + 1)
    <3>1. saved[ro] \in Seq(Step)
      BY DEF Types
    <3>2. \A j \in 1 .. Len(saved[ro]) : saved[ro][j] \in Step
      BY <3>1
    <3>3. \A j \in 1 .. Len(saved[ro]) : saved[ro][j] \in Nat
      BY <3>2, ConstantFacts
    <3>4. ASSUME tracker \in Step, NEW j \in 1 .. Len(saved[ro]) PROVE saved[ro][j] < tracker + 1
      <4>1. saved[ro][j] < steps /\ (saved[ro][j] <= tracker \/ saved[ro][j] = steps)
        BY <2>2, <3>4 DEF Under
      <4>2. saved[ro][j] \in Nat /\ tracker \in Nat
        BY <3>3, <3>4, ConstantFacts
      <4> QED BY <1>3, <4>1, <4>2
    <3> QED BY <3>4 DEF Under
  <2> QED
    BY <1>1, <2>1, <2>2, <2>3 DEF ListInv, Increasing, Under, Saving, AfterFiles, BeforeTracker
<1>11. TrackedCheckpointWhole'
  BY <1>1, WholeKept DEF ResumeInv, managerVars
<1> QED
  BY <1>7, <1>8, <1>9, <1>10, <1>11 DEF ResumeInv

LEMMA EpochEndResume ==
  ASSUME Types, ResumeInv, EpochEnd
  PROVE  ResumeInv'
<1>1. /\ pc = "train" /\ pc' = "exit" /\ pos = epochLen
      /\ UNCHANGED <<managerVars, epochLen, dataPt, tracker, run, steps, weights, pos, role>>
  BY DEF EpochEnd
<1>2. /\ pos = steps - 1 /\ weights # Mixed /\ role = "actor"
      /\ (tracker \in Step => tracker <= TotalSteps + run)
      /\ steps <= TotalSteps \/ steps <= epochLen
  BY <1>1 DEF ResumeInv, LoopInv, ExitInv, BeforeTracker
<1>3. steps \in Nat /\ epochLen \in Nat /\ TotalSteps \in Nat
  BY ConstantFacts DEF Types
<1>4. LoopInv' /\ ExitInv'
  BY <1>1, <1>2, <1>3 DEF LoopInv, ExitInv, Saving, BeforeTracker, AfterFiles, Training
<1>5. FilesInv' /\ \A ro \in Role : ListInv(ro)'
  BY <1>1, NotSaving, NotTraining DEF Saving, BeforeTracker, AfterFiles, Training
<1>6. TrackedCheckpointWhole'
  BY <1>1, WholeKept DEF ResumeInv, managerVars
<1> QED
  BY <1>4, <1>5, <1>6 DEF ResumeInv

LEMMA NextStepResume ==
  ASSUME Types, ResumeInv, NextStep
  PROVE  ResumeInv'
<1>1. /\ pc = "next"
      /\ UNCHANGED <<managerVars, epochLen, dataPt, tracker, run, weights, pos, role>>
      /\ \/ steps >= TotalSteps /\ pc' = "exit" /\ steps' = steps
         \/ ~(steps >= TotalSteps) /\ pc' = "train" /\ steps' = steps + 1
  BY DEF NextStep, IsLastStep
<1>2. /\ steps >= 1 /\ pos = steps /\ weights.n = steps /\ weights # Mixed /\ role = "actor"
      /\ run >= 1 /\ (tracker \in Step => tracker <= TotalSteps + run /\ tracker <= steps)
      /\ steps >= TotalSteps => tracker = steps
  BY <1>1 DEF ResumeInv, LoopInv, ExitInv, BeforeTracker, Training
<1>3. steps \in Nat /\ TotalSteps \in Nat /\ run \in Nat
  BY ConstantFacts DEF Types
<1>4. TrackedCheckpointWhole'
  BY <1>1, WholeKept DEF ResumeInv, managerVars
<1>5. CASE pc' = "exit"
  <2>1. steps >= TotalSteps /\ steps' = steps
    BY <1>1, <1>5
  <2>2. LoopInv' /\ ExitInv'
    BY <1>1, <1>2, <1>3, <1>5, <2>1 DEF LoopInv, ExitInv, Saving, BeforeTracker, AfterFiles, Training
  <2>3. FilesInv' /\ \A ro \in Role : ListInv(ro)'
    BY <1>5, NotSaving, NotTraining DEF Saving, BeforeTracker, AfterFiles, Training
  <2> QED BY <1>4, <2>2, <2>3 DEF ResumeInv
<1>6. CASE pc' = "train"
  <2>1. steps < TotalSteps /\ steps' = steps + 1
    BY <1>1, <1>3, <1>6
  <2>2. /\ steps' >= 1 /\ pos' = steps' - 1 /\ weights'.n = steps' - 1
        /\ steps' <= TotalSteps + run' /\ steps' <= TotalSteps
    BY <1>1, <1>2, <1>3, <2>1
  <2>a. tracker' \in Step => tracker' < steps' /\ tracker' <= TotalSteps + run'
    <3>1. tracker \in Step => tracker \in Nat
      BY ConstantFacts
    <3> QED BY <1>1, <1>2, <1>3, <2>1, <3>1
  <2>3. LoopInv' /\ ExitInv'
    BY <1>1, <1>2, <1>6, <2>2, <2>a DEF LoopInv, ExitInv, Saving, BeforeTracker, AfterFiles, Training
  <2>4. FilesInv'
    BY <1>6, NotSaving DEF Saving, BeforeTracker, AfterFiles
  <2>5. ASSUME NEW ro \in Role PROVE ListInv(ro)'
    <3>1. saved'[ro] = saved[ro] /\ doomed'[ro] = doomed[ro] /\ tracker' = tracker
      BY <1>1 DEF managerVars
    <3>2. /\ Increasing(saved[ro]) /\ Under(saved[ro], steps + 1)
          /\ tracker \in Step => tracker \notin doomed[ro] /\ Under(saved[ro], tracker + 1)
          /\ \A s \in doomed[ro] : s < steps
      BY <1>1 DEF ResumeInv, ListInv, Training
    <3>3. saved[ro] \in Seq(Step) /\ doomed[ro] \subseteq Step
      BY DEF Types
    <3>4. (\A j \in 1 .. Len(saved[ro]) : saved[ro][j] \in Nat) /\ \A s \in doomed[ro] : s \in Nat
      <4>1. \A j \in 1 .. Len(saved[ro]) : saved[ro][j] \in Step
        BY <3>3
      <4> QED BY <3>3, <4>1, ConstantFacts
    <3>5. Under(saved[ro], steps' + 1) /\ Under(saved[ro], steps') /\ \A s \in doomed[ro] : s < steps'
      <4>1. \A j \in 1 .. Len(saved[ro]) : saved[ro][j] < steps + 1
        BY <3>2 DEF Under
      <4>2. \A x \in Nat : x < steps + 1 => x < steps' /\ x < steps' + 1
        BY <1>3, <2>1
      <4>3. \A j \in 1 .. Len(saved[ro]) : saved[ro][j] < steps' /\ saved[ro][j] < steps' + 1
        BY <3>4, <4>1, <4>2
      <4>4. \A s \in doomed[ro] : s < steps + 1
        BY <1>3, <3>2, <3>4
      <4>5. \A s \in doomed[ro] : s < steps'
        BY <3>4, <4>2, <4>4
      <4> QED BY <4>3, <4>5 DEF Under
    <3>6. tracker \in Step =>
            \A j \in 1 .. Len(saved[ro]) : saved[ro][j] <= tracker \/ saved[ro][j] = steps'
      <4>1. tracker \in Step => tracker \in Nat
        BY ConstantFacts
      <4>2. ASSUME NEW x \in Nat, NEW y \in Nat, x < y + 1 PROVE x <= y
        BY <4>2
      <4> QED BY <3>2, <3>4, <4>1, <4>2 DEF Under
    <3> QED
      BY <1>6, <3>1, <3>2, <3>5, <3>6 DEF ListInv, Increasing, Under
  <2> QED BY <1>4, <2>3, <2>4, <2>5 DEF ResumeInv
<1> QED
  BY <1>1, <1>5, <1>6

LEMMA DropFromFront ==
  ASSUME NEW seq \in Seq(Step), Increasing(seq), NEW n \in 0 .. Len(seq)
  PROVE  /\ Increasing(Suffix(seq, n))
         /\ \A i \in 1 .. Len(Suffix(seq, n)) :
              \E j \in 1 .. Len(seq) : Suffix(seq, n)[i] = seq[j]
<1>1. /\ Len(Suffix(seq, n)) = Len(seq) - n
      /\ \A i \in 1 .. Len(seq) - n : Suffix(seq, n)[i] = seq[n + i]
  BY SuffixFacts
<1>2. ASSUME NEW i \in 1 .. Len(seq) - n PROVE n + i \in 1 .. Len(seq)
  OBVIOUS
<1>3. ASSUME NEW i \in 1 .. Len(seq) - n, NEW j \in 1 .. Len(seq) - n, i < j
      PROVE  Suffix(seq, n)[i] < Suffix(seq, n)[j]
  <2>1. n + i \in 1 .. Len(seq) /\ n + j \in 1 .. Len(seq) /\ n + i < n + j
    BY <1>2, <1>3
  <2>2. seq[n + i] < seq[n + j]
    BY <2>1 DEF Increasing
  <2> QED BY <1>1, <2>2
<1> QED
  BY <1>1, <1>2, <1>3 DEF Increasing

LEMMA EnsureResume ==
  ASSUME Types, ResumeInv, SaveEnsure
  PROVE  ResumeInv'
<1>1. /\ pc = "ensure" /\ pc' = "make_room" /\ EnsureCapacity(role)
      /\ UNCHANGED <<epochLen, run, steps, weights, pos, dataPt, tracker, role, wrote>>
  BY DEF SaveEnsure, Go
<1>2. pc \in Saving /\ pc' \in Saving /\ pc' \in BeforeTracker /\ pc' \notin AfterFiles
      /\ pc \notin AfterFiles
  BY <1>1 DEF Saving, BeforeTracker, AfterFiles
<1>3. shard' = shard /\ \A ro \in Role \ {role} : saved'[ro] = saved[ro] /\ doomed'[ro] = doomed[ro]
  BY <1>1 DEF EnsureCapacity, Forget, managerVars, Types
<1>4. LoopInv' /\ ExitInv'
  BY <1>1, <1>2, LoopKept DEF ResumeInv
<1>5. FilesInv'
  <2>1. \A ro \in Role, ra \in Rank, f \in 1 .. Files : Written_(ro, ra, f)' => Written_(ro, ra, f)
    BY <1>1, <1>2 DEF Written_, Registered
  <2> QED BY <1>1, <1>2, <1>3, <2>1, FilesKept DEF ResumeInv
<1>6. ASSUME NEW ro \in Role, saved'[ro] = saved[ro], doomed'[ro] = doomed[ro] PROVE ListInv(ro)'
  <2>1. Registered(ro) => Registered(ro)'
    BY <1>1, <1>2 DEF Registered
  <2> QED BY <1>1, <1>2, <1>6, <2>1, ListKept DEF ResumeInv
<1>7. ListInv(role)'
  <2>1. CASE ~(Keep[role] > 1 /\ Len(saved[role]) >= Keep[role])
    <3>1. role \in Role
      BY DEF Types
    <3> QED BY <1>1, <1>6, <2>1, <3>1 DEF EnsureCapacity, managerVars
  <2>2. CASE Keep[role] > 1 /\ Len(saved[role]) >= Keep[role]
    <3> DEFINE seq == saved[role]
               n   == Len(seq) - Keep[role] + 1
    <3>1. seq \in Seq(Step) /\ Keep[role] \in Nat /\ role \in Role /\ steps \in Nat
      BY ManagerAssumption DEF Types
    <3>2. n \in 0 .. Len(seq) /\ n \in Nat /\ n < Len(seq)
      BY <2>2, <3>1, SMT
    <3>3. saved'[role] = Suffix(seq, n) /\ doomed'[role] = Prefix(seq, n)
      BY <1>1, <2>2, <3>1 DEF EnsureCapacity, Forget, Types
    <3>4. /\ Increasing(seq) /\ Under(seq, steps) /\ Under(seq, steps + 1)
          /\ tracker \in Step => \A i \in 1 .. Len(seq) : seq[i] <= tracker \/ seq[i] = steps
      <4>1. ~Registered(role) /\ pc \in Training /\ pc # "train"
        BY <1>1, <1>2 DEF Registered, Training
      <4> QED BY <1>2, <3>1, <4>1 DEF ResumeInv, ListInv
    <3>5. tracker \in Step => tracker \notin Prefix(seq, n)
      <4> HIDE DEF seq, n
      <4> QED BY <3>1, <3>2, <3>4, LastIsKept
    <3>6. \A s \in Prefix(seq, n) : s < steps
      BY <3>1, <3>2, <3>4 DEF Prefix, Under
    <3>7. /\ Increasing(Suffix(seq, n))
          /\ \A i \in 1 .. Len(Suffix(seq, n)) : \E j \in 1 .. Len(seq) : Suffix(seq, n)[i] = seq[j]
      <4> HIDE DEF seq, n
      <4> QED BY <3>1, <3>2, <3>4, DropFromFront
    <3> HIDE DEF seq, n
    <3>8. Under(Suffix(seq, n), steps) /\ Under(Suffix(seq, n), steps + 1)
      BY <3>4, <3>7 DEF Under
    <3>9. tracker \in Step => \A i \in 1 .. Len(Suffix(seq, n)) :
                                 Suffix(seq, n)[i] <= tracker \/ Suffix(seq, n)[i] = steps
      BY <3>4, <3>7
    <3>10. /\ Increasing(saved[role])' /\ Under(saved[role], steps)' /\ Under(saved[role], steps + 1)'
           /\ tracker' \in Step =>
                /\ tracker' \notin doomed'[role]
                /\ \A i \in 1 .. Len(saved'[role]) : saved'[role][i] <= tracker' \/ saved'[role][i] = steps'
           /\ \A s \in doomed'[role] : s < steps'
      BY <1>1, <3>3, <3>5, <3>6, <3>7, <3>8, <3>9 DEF Increasing, Under
    <3> QED BY <1>1, <3>10 DEF ListInv, Increasing, Under
  <2> QED BY <2>1, <2>2
<1>8. ASSUME NEW ro \in Role PROVE ListInv(ro)'
  <2>1. CASE ro = role
    <3>1. role' = ro
      BY <1>1, <2>1
    <3> QED BY <1>7, <3>1, Zenon
  <2>2. CASE ro # role
    <3>1. saved'[ro] = saved[ro] /\ doomed'[ro] = doomed[ro]
      BY <1>3, <2>2
    <3> QED BY <1>6, <3>1
  <2> QED BY <2>1, <2>2
<1>9. TrackedCheckpointWhole'
  BY <1>1, <1>3, WholeKept DEF ResumeInv
<1> QED
  BY <1>4, <1>5, <1>8, <1>9 DEF ResumeInv

LEMMA MakeRoomResume ==
  ASSUME Types, ResumeInv, SaveMakeRoom
  PROVE  ResumeInv'
<1>1. /\ pc = "make_room" /\ pc' \in {"make_room", "files"}
      /\ UNCHANGED <<epochLen, run, steps, weights, pos, dataPt, tracker, role>>
      /\ pc' = "files" => \A ra \in Rank : wrote'[ra] = 0
  BY DEF SaveMakeRoom, Go
<1>2. pc \in Saving /\ pc' \in BeforeTracker /\ pc' \in Saving /\ pc' \notin AfterFiles
      /\ pc \notin AfterFiles
  BY <1>1 DEF Saving, BeforeTracker, AfterFiles
<1>3. /\ shard'[steps] = shard[steps]
      /\ tracker \in Step => shard'[tracker] = shard[tracker]
      /\ UNCHANGED <<saved, doomed>>
  BY <1>2, RemovalIsElsewhere DEF SaveMakeRoom, managerVars
<1>4. LoopInv' /\ ExitInv'
  BY <1>1, <1>2, LoopKept DEF ResumeInv
<1>5. FilesInv'
  <2>1. ASSUME NEW ro \in Role, NEW ra \in Rank, NEW f \in 1 .. Files, Written_(ro, ra, f)'
        PROVE  Written_(ro, ra, f)
    <3>1. ~(pc' = "files" /\ 2 * f <= wrote'[ra])
      BY <1>1
    <3> QED BY <1>1, <1>2, <2>1, <3>1 DEF Written_, Registered
  <2> QED BY <1>1, <1>2, <1>3, <2>1, FilesKept DEF ResumeInv
<1>6. ASSUME NEW ro \in Role PROVE ListInv(ro)'
  <2>1. Registered(ro) => Registered(ro)'
    BY <1>1, <1>2 DEF Registered
  <2> QED BY <1>1, <1>2, <1>3, <2>1, ListKept DEF ResumeInv
<1>7. TrackedCheckpointWhole'
  BY <1>1, <1>3, WholeKept DEF ResumeInv
<1> QED
  BY <1>4, <1>5, <1>6, <1>7 DEF ResumeInv

LEMMA FileResume ==
  ASSUME Types, ResumeInv, NEW ra \in Rank, SaveFile(ra)
  PROVE  ResumeInv'
<1> DEFINE x == <<role, ra, wrote[ra] \div 2 + 1>>
           c == IF wrote[ra] % 2 = 0 THEN Torn ELSE weights
<1>1. /\ pc = "files" /\ pc' = "files" /\ wrote[ra] < 2 * Files
      /\ UNCHANGED <<epochLen, run, steps, weights, pos, dataPt, tracker, role, saved, doomed>>
      /\ shard' = [shard EXCEPT ![steps][x] = c]
      /\ wrote' = [wrote EXCEPT ![ra] = @ + 1]
  BY DEF SaveFile, Go, OpenFile, CloseFile
<1> HIDE DEF x, c
<1>2. pc \in Saving /\ pc' \in BeforeTracker /\ pc' \in Saving /\ pc \notin AfterFiles
  BY <1>1 DEF Saving, BeforeTracker, AfterFiles
<1>3. /\ steps \in Step /\ wrote \in [Rank -> 0 .. 2 * Files] /\ role \in Role
      /\ shard \in [Step -> [Slot -> Content]]
  BY <1>2, StepOK, TypesSplit DEF TrainerTypes, ManagerTypes, ResumeInv
<1>4. LoopInv' /\ ExitInv'
  BY <1>1, <1>2, LoopKept DEF ResumeInv
<1>5. FilesInv'
  <2>1. ASSUME NEW ro \in Role, NEW rb \in Rank, NEW f \in 1 .. Files, Written_(ro, rb, f)'
        PROVE  shard'[steps'][<<ro, rb, f>>] = weights'
    <3> DEFINE y == <<ro, rb, f>>
    <3>1. y \in Slot /\ shard[steps] \in [Slot -> Content]
      BY <1>3 DEF Slot
    <3>2. shard'[steps] = [shard[steps] EXCEPT ![x] = c]
      BY <1>1, <1>3
    <3>3. shard'[steps][y] = IF y = x THEN c ELSE shard[steps][y]
      BY <3>1, <3>2
    <3>4. Registered(ro)' => Registered(ro) /\ ro # role
      BY <1>1, <1>2 DEF Registered, AfterFiles
    <3>5. CASE Registered(ro)'
      <4>1. y # x
        BY <3>4, <3>5 DEF x
      <4>2. Written_(ro, rb, f)
        BY <3>4, <3>5 DEF Written_
      <4>3. shard[steps][y] = weights
        BY <1>2, <4>2 DEF ResumeInv, FilesInv
      <4> QED BY <1>1, <3>3, <4>1, <4>3
    <3>6. CASE ~Registered(ro)'
      <4>1. role = ro /\ 2 * f <= wrote'[rb]
        BY <1>1, <2>1, <3>6 DEF Written_
      <4>2. wrote'[rb] = IF rb = ra THEN wrote[ra] + 1 ELSE wrote[rb]
        BY <1>1, <1>3
      <4>3. CASE 2 * f <= wrote[rb]
        <5>1. Written_(ro, rb, f)
          BY <1>1, <4>1, <4>3 DEF Written_
        <5>2. shard[steps][y] = weights
          BY <1>2, <5>1 DEF ResumeInv, FilesInv
        <5>3. rb = ra => f # wrote[ra] \div 2 + 1
          <6>1. wrote[ra] \in Nat /\ f \in Nat
            BY <1>3, ConstantFacts
          <6> QED BY <4>3, <6>1, SMT
        <5>4. y # x
          BY <5>3 DEF x
        <5> QED BY <1>1, <3>3, <5>2, <5>4
      <4>4. CASE ~(2 * f <= wrote[rb])
        <5>1. rb = ra /\ wrote[ra] \in Nat /\ f \in Nat
          BY <1>3, <4>1, <4>2, <4>4, ConstantFacts
        <5>2. wrote[ra] + 1 = 2 * f
          <6>1. 2 * f <= wrote[ra] + 1 /\ ~(2 * f <= wrote[ra])
            BY <4>1, <4>2, <4>4, <5>1
          <6> QED BY <5>1, <6>1, SMT
        <5>3. wrote[ra] % 2 # 0 /\ wrote[ra] \div 2 + 1 = f
          BY <5>1, <5>2, SMT
        <5>4. y = x /\ c = weights
          BY <4>1, <5>1, <5>3 DEF x, c
        <5> QED BY <1>1, <3>3, <5>4
      <4> QED BY <4>3, <4>4
    <3> QED BY <3>5, <3>6
  <2> QED BY <1>1, <2>1 DEF FilesInv
<1>6. ASSUME NEW ro \in Role PROVE ListInv(ro)'
  <2>1. Registered(ro) => Registered(ro)'
    BY <1>1 DEF Registered
  <2> QED BY <1>1, <1>2, <2>1, ListKept DEF ResumeInv
<1>7. TrackedCheckpointWhole'
  <2>1. tracker \in Step => tracker # steps
    BY <1>2, <1>3, ConstantFacts DEF ResumeInv, LoopInv
  <2>2. tracker \in Step => shard'[tracker] = shard[tracker]
    BY <1>1, <1>3, <2>1
  <2> QED BY <1>1, <2>2, WholeKept DEF ResumeInv
<1> QED
  BY <1>4, <1>5, <1>6, <1>7 DEF ResumeInv

LEMMA RegisterResume ==
  ASSUME Types, ResumeInv, Conditions, SaveRegister
  PROVE  ResumeInv'
<1>1. /\ pc = "files" /\ pc' = "rotate" /\ RegisterCheckpoint(role, steps)
      /\ \A ra \in Rank : wrote[ra] = 2 * Files
      /\ UNCHANGED <<epochLen, run, steps, weights, pos, dataPt, tracker, role, wrote>>
  BY DEF SaveRegister, Go
<1>2. pc \in Saving /\ pc' \in Saving /\ pc' \in BeforeTracker /\ pc' \notin AfterFiles
      /\ pc \notin AfterFiles
  BY <1>1 DEF Saving, BeforeTracker, AfterFiles
<1>3. shard' = shard /\ \A ro \in Role \ {role} : saved'[ro] = saved[ro] /\ doomed'[ro] = doomed[ro]
  BY <1>1 DEF RegisterCheckpoint, Types
<1>4. LoopInv' /\ ExitInv'
  BY <1>1, <1>2, LoopKept DEF ResumeInv
<1>5. FilesInv'
  <2>1. ASSUME NEW ro \in Role, NEW ra \in Rank, NEW f \in 1 .. Files, Written_(ro, ra, f)'
        PROVE  Written_(ro, ra, f)
    <3>1. 2 * f <= wrote[ra]
      BY <1>1, ConstantFacts
    <3> QED BY <1>1, <1>2, <2>1, <3>1 DEF Written_, Registered
  <2> QED BY <1>1, <1>2, <1>3, <2>1, FilesKept DEF ResumeInv
<1>6. ASSUME NEW ro \in Role, ro # role PROVE ListInv(ro)'
  <2>1. Registered(ro) => Registered(ro)'
    BY <1>1, <1>2 DEF Registered
  <2> QED BY <1>1, <1>2, <1>3, <1>6, <2>1, ListKept DEF ResumeInv
<1>7. ASSUME NEW ro \in Role, ro = role PROVE ListInv(ro)'
  <2> DEFINE seq  == saved[ro]
             all  == Append(seq, steps)
             over == IF Keep[ro] > 0 /\ Len(all) > Keep[ro] THEN Len(all) - Keep[ro] ELSE 0
  <2>1. seq \in Seq(Step) /\ Keep[ro] \in Nat /\ Keep[ro] # 1 /\ steps \in Nat /\ steps \in Step
    BY <1>2, StepOK, TypesSplit, ManagerAssumption
       DEF TrainerTypes, ManagerTypes, Conditions, ResumeInv
  <2>2. /\ all \in Seq(Step) /\ Len(all) = Len(seq) + 1 /\ all[Len(all)] = steps
        /\ \A i \in 1 .. Len(seq) : all[i] = seq[i]
    BY <2>1
  <2>3. saved'[ro] = Suffix(all, over) /\ doomed'[ro] = Prefix(all, over)
    BY <1>1, <1>7 DEF RegisterCheckpoint, Types
  <2>4. over \in 0 .. Len(all) /\ over \in Nat /\ (over = 0 \/ over < Len(seq))
    BY <2>1, <2>2, SMT
  <2>5. /\ Increasing(seq) /\ Under(seq, steps)
        /\ tracker \in Step => \A i \in 1 .. Len(seq) : seq[i] <= tracker \/ seq[i] = steps
    <3>1. ~Registered(ro) /\ pc \in Training /\ pc # "train"
      BY <1>1, <1>2, <1>7 DEF Registered, Training
    <3> QED BY <1>2, <2>1, <3>1 DEF ResumeInv, ListInv
  <2>6. \A i \in 1 .. Len(seq) : seq[i] \in Step /\ seq[i] \in Nat
    <3>1. \A i \in 1 .. Len(seq) : seq[i] \in Step
      BY <2>1
    <3> QED BY <3>1, ConstantFacts
  <2> HIDE DEF seq, all, over
  <2>7. Increasing(all) /\ Under(all, steps + 1)
        /\ (tracker \in Step => \A i \in 1 .. Len(all) : all[i] <= tracker \/ all[i] = steps)
    <3>1. ASSUME NEW i \in 1 .. Len(all) PROVE (i \in 1 .. Len(seq) /\ all[i] = seq[i]) \/ (i = Len(all) /\ all[i] = steps)
      BY <2>1, <2>2
    <3>2. Increasing(all)
      <4>1. SUFFICES ASSUME NEW i \in 1 .. Len(all), NEW j \in 1 .. Len(all), i < j PROVE all[i] < all[j]
        BY DEF Increasing
      <4>2. i \in 1 .. Len(seq) /\ all[i] = seq[i]
        BY <2>1, <2>2, <4>1
      <4>3. CASE j \in 1 .. Len(seq) /\ all[j] = seq[j]
        BY <2>5, <4>1, <4>2, <4>3 DEF Increasing
      <4>4. CASE all[j] = steps
        BY <2>5, <4>2, <4>4 DEF Under
      <4> QED BY <3>1, <4>3, <4>4
    <3>3. Under(all, steps + 1)
      <4>1. SUFFICES ASSUME NEW i \in 1 .. Len(all) PROVE all[i] < steps + 1
        BY DEF Under
      <4>2. CASE i \in 1 .. Len(seq) /\ all[i] = seq[i]
        <5>1. seq[i] < steps /\ seq[i] \in Nat
          BY <2>5, <2>6, <4>2 DEF Under
        <5> QED BY <2>1, <4>2, <5>1
      <4>3. CASE all[i] = steps
        BY <2>1, <4>3
      <4> QED BY <3>1, <4>2, <4>3
    <3>4. tracker \in Step => \A i \in 1 .. Len(all) : all[i] <= tracker \/ all[i] = steps
      BY <2>5, <3>1
    <3> QED BY <3>2, <3>3, <3>4
  <2>8. tracker \in Step => tracker \notin Prefix(all, over)
    <3>1. CASE over = 0
      BY <3>1 DEF Prefix
    <3>2. CASE over < Len(seq)
      <4>1. tracker \in Step => tracker \notin Prefix(seq, over)
        BY <2>1, <2>4, <2>5, <3>2, LastIsKept
      <4>2. \A i \in 1 .. over : all[i] = seq[i]
        BY <2>1, <2>2, <2>4, <3>2
      <4> QED BY <4>1, <4>2 DEF Prefix
    <3> QED BY <2>4, <3>1, <3>2
  <2>9. \A s \in Prefix(all, over) : s < steps
    <3>1. ASSUME NEW i \in 1 .. over PROVE all[i] < steps
      <4>1. i \in 1 .. Len(seq) /\ all[i] = seq[i]
        BY <2>1, <2>2, <2>4
      <4> QED BY <2>5, <4>1 DEF Under
    <3> QED BY <3>1 DEF Prefix
  <2>10. /\ Increasing(Suffix(all, over))
         /\ \A i \in 1 .. Len(Suffix(all, over)) : \E j \in 1 .. Len(all) : Suffix(all, over)[i] = all[j]
    BY <2>2, <2>4, <2>7, DropFromFront
  <2>11. Under(Suffix(all, over), steps + 1)
    BY <2>7, <2>10 DEF Under
  <2>12. tracker \in Step => \A i \in 1 .. Len(Suffix(all, over)) :
                               Suffix(all, over)[i] <= tracker \/ Suffix(all, over)[i] = steps
    BY <2>7, <2>10
  <2>13. Registered(ro)'
    BY <1>1, <1>7 DEF Registered
  <2>14. /\ Increasing(saved[ro])' /\ Under(saved[ro], steps + 1)'
         /\ tracker' \in Step =>
              /\ tracker' \notin doomed'[ro]
              /\ \A i \in 1 .. Len(saved'[ro]) : saved'[ro][i] <= tracker' \/ saved'[ro][i] = steps'
         /\ \A s \in doomed'[ro] : s < steps'
    BY <1>1, <2>3, <2>8, <2>9, <2>10, <2>11, <2>12 DEF Increasing, Under
  <2> QED BY <1>1, <2>13, <2>14 DEF ListInv
<1>8. TrackedCheckpointWhole'
  BY <1>1, <1>3, WholeKept DEF ResumeInv
<1> QED
  BY <1>4, <1>5, <1>6, <1>7, <1>8 DEF ResumeInv

LEMMA RotateResume ==
  ASSUME Types, ResumeInv, SaveRotate
  PROVE  ResumeInv'
<1>1. /\ pc = "rotate"
      /\ UNCHANGED <<epochLen, run, steps, weights, pos, dataPt, tracker, wrote>>
      /\ \/ pc' = "rotate" /\ role' = role /\ RemoveOne(role)
         \/ pc' = "ensure" /\ role = "actor" /\ role' = "critic" /\ UNCHANGED managerVars
         \/ pc' = "data" /\ ~(role = "actor" /\ UseCritic) /\ role' = "actor" /\ UNCHANGED managerVars
  BY DEF SaveRotate, Go
<1>2. pc \in Saving /\ pc' \in Saving /\ pc' # "files" /\ pc \notin AfterFiles
      /\ pc' \notin {"tracker", "tracker_close"}
  BY <1>1 DEF Saving, BeforeTracker, AfterFiles
<1>3. role \in Role
  BY DEF Types
<1>4. /\ shard'[steps] = shard[steps]
      /\ tracker \in Step => shard'[tracker] = shard[tracker]
      /\ UNCHANGED <<saved, doomed>>
  BY <1>1, <1>2, RemovalIsElsewhere DEF managerVars
<1>5. pc' \notin BeforeTracker => role' = "actor"
  BY <1>1 DEF BeforeTracker
<1>6. LoopInv' /\ ExitInv'
  BY <1>1, <1>2, <1>5, LoopKept DEF ResumeInv
<1>7. ASSUME NEW ro \in Role PROVE Registered(ro)' <=> Registered(ro)
  <2>1. CASE pc' = "rotate"
    BY <1>1, <2>1 DEF Registered, AfterFiles
  <2>2. CASE pc' = "ensure"
    BY <1>1, <2>2, ConstantFacts DEF Registered, AfterFiles
  <2>3. CASE pc' = "data"
    <3>1. ro = role \/ (role = "critic" /\ ro = "actor")
      BY <1>1, <1>3, <2>3, ConstantFacts
    <3> QED BY <1>1, <2>3, <3>1 DEF Registered, AfterFiles
  <2> QED BY <1>1, <2>1, <2>2, <2>3
<1>8. FilesInv'
  <2>1. \A ro \in Role, ra \in Rank, f \in 1 .. Files : Written_(ro, ra, f)' => Written_(ro, ra, f)
    BY <1>2, <1>7 DEF Written_
  <2> QED BY <1>1, <1>2, <1>4, <2>1, FilesKept DEF ResumeInv
<1>9. ASSUME NEW ro \in Role PROVE ListInv(ro)'
  BY <1>1, <1>2, <1>4, <1>7, ListKept DEF ResumeInv
<1>10. TrackedCheckpointWhole'
  BY <1>1, <1>4, WholeKept DEF ResumeInv
<1> QED
  BY <1>6, <1>8, <1>9, <1>10 DEF ResumeInv

LEMMA DataResume ==
  ASSUME Types, ResumeInv, SaveData
  PROVE  ResumeInv'
<1>1. /\ \/ pc = "data" /\ pc' = "data_close" /\ dataPt' = [dataPt EXCEPT ![steps] = Torn]
         \/ pc = "data_close" /\ pc' = "tracker" /\ dataPt' = [dataPt EXCEPT ![steps] = pos]
      /\ UNCHANGED <<managerVars, epochLen, run, steps, weights, pos, tracker, role, wrote>>
  BY DEF SaveData, Go
<1>2. /\ pc \in AfterFiles /\ pc' \in AfterFiles /\ pc \in Saving /\ pc' \in Saving
      /\ pc \notin BeforeTracker /\ pc' \notin BeforeTracker
  BY <1>1 DEF Saving, AfterFiles, BeforeTracker
<1>3. /\ steps \in Step /\ role = "actor" /\ pos = steps
      /\ dataPt \in [Step -> Nat \cup {NoFile, Torn}]
      /\ tracker \in Step => tracker # steps
  <2>1. steps \in Step /\ dataPt \in [Step -> Nat \cup {NoFile, Torn}]
    BY <1>2, StepOK, TypesSplit DEF TrainerTypes, ResumeInv
  <2> QED BY <1>2, <2>1, ConstantFacts DEF ResumeInv, LoopInv
<1>4. LoopInv' /\ ExitInv'
  BY <1>1, <1>2, <1>3, LoopKept DEF ResumeInv
<1>5. FilesInv'
  <2>1. \A ro \in Role, ra \in Rank, f \in 1 .. Files : Written_(ro, ra, f)' => Written_(ro, ra, f)
    BY <1>2 DEF Written_, Registered
  <2>2. pc' \in {"tracker", "tracker_close"} => dataPt'[steps] = steps
    BY <1>1, <1>3
  <2> QED BY <1>1, <1>2, <2>1, <2>2, FilesKept DEF ResumeInv, managerVars
<1>6. ASSUME NEW ro \in Role PROVE ListInv(ro)'
  <2>1. Registered(ro)'
    BY <1>2 DEF Registered
  <2> QED BY <1>1, <1>2, <2>1, ListKept DEF ResumeInv, managerVars
<1>7. TrackedCheckpointWhole'
  <2>1. tracker \in Step => dataPt'[tracker] = dataPt[tracker]
    BY <1>1, <1>3
  <2> QED BY <1>1, <2>1, WholeKept DEF ResumeInv, managerVars
<1> QED
  BY <1>4, <1>5, <1>6, <1>7 DEF ResumeInv

LEMMA TrackerResume ==
  ASSUME Types, ResumeInv, SaveTracker
  PROVE  ResumeInv'
<1>1. UNCHANGED <<managerVars, epochLen, run, steps, weights, pos, dataPt, role, wrote>>
  BY DEF SaveTracker, Go
<1>2. pc \in {"tracker", "tracker_close"} /\ pc \in AfterFiles /\ pc \in Saving /\ pc \in Training
      /\ pc \notin BeforeTracker /\ pc # "train"
  BY DEF SaveTracker, Go, Saving, AfterFiles, BeforeTracker, Training
<1>3. steps \in Step /\ steps \in Nat /\ role = "actor" /\ run \in Nat
  <2>1. steps \in Step /\ run \in Nat
    BY <1>2, StepOK, TypesSplit, ConstantFacts DEF TrainerTypes, ResumeInv
  <2> QED BY <1>2, <2>1, ConstantFacts DEF ResumeInv, LoopInv
<1>4. CASE pc = "tracker" /\ pc' = "tracker_close" /\ tracker' = Torn
  <2>1. pc' \in AfterFiles /\ pc' \in Saving
    BY <1>4 DEF Saving, AfterFiles
  <2>2. LoopInv' /\ ExitInv'
    BY <1>1, <1>2, <1>3, <1>4, <2>1, LoopKept DEF ResumeInv
  <2>3. FilesInv'
    <3>1. \A ro \in Role, ra \in Rank, f \in 1 .. Files : Written_(ro, ra, f)' => Written_(ro, ra, f)
      BY <1>2 DEF Written_, Registered
    <3>2. dataPt'[steps] = steps
      BY <1>1, <1>2 DEF ResumeInv, FilesInv
    <3> QED BY <1>1, <1>2, <2>1, <3>1, <3>2, FilesKept DEF ResumeInv, managerVars
  <2>4. ASSUME NEW ro \in Role PROVE ListInv(ro)'
    <3>1. Registered(ro)'
      BY <2>1 DEF Registered
    <3> QED BY <1>1, <1>2, <1>4, <2>1, <3>1, ListKept DEF ResumeInv, managerVars
  <2>5. TrackedCheckpointWhole'
    <3>1. tracker' \notin Step
      BY <1>4, ConstantFacts
    <3> QED BY <3>1 DEF TrackedCheckpointWhole
  <2> QED BY <2>2, <2>3, <2>4, <2>5 DEF ResumeInv
<1>5. CASE pc = "tracker_close" /\ pc' = "next" /\ tracker' = steps
  <2>1. /\ steps >= 1 /\ pos = steps /\ weights.n = steps /\ run >= 1 /\ steps <= TotalSteps + run
        /\ weights # Mixed
    BY <1>2 DEF ResumeInv, LoopInv
  <2>2. LoopInv' /\ ExitInv'
    BY <1>1, <1>3, <1>5, <2>1
       DEF LoopInv, ExitInv, Saving, BeforeTracker, AfterFiles, Training
  <2>3. FilesInv'
    BY <1>5, NotSaving DEF Saving, BeforeTracker, AfterFiles
  <2>4. ASSUME NEW ro \in Role PROVE ListInv(ro)'
    <3>1. saved'[ro] = saved[ro] /\ doomed'[ro] = doomed[ro] /\ steps' = steps
      BY <1>1 DEF managerVars
    <3>2. Increasing(saved[ro]) /\ Under(saved[ro], steps + 1) /\ \A s \in doomed[ro] : s < steps
      BY <1>2 DEF ResumeInv, ListInv
    <3>3. saved[ro] \in Seq(Step)
      BY DEF Types
    <3>4. \A j \in 1 .. Len(saved[ro]) : saved[ro][j] \in Nat
      <4>1. \A j \in 1 .. Len(saved[ro]) : saved[ro][j] \in Step
        BY <3>3
      <4> QED BY <4>1, ConstantFacts
    <3>5. \A j \in 1 .. Len(saved[ro]) : saved[ro][j] <= steps
      BY <1>3, <3>2, <3>4 DEF Under
    <3>6. steps \notin doomed[ro]
      BY <1>3, <3>2
    <3> QED
      BY <1>5, <3>1, <3>2, <3>5, <3>6 DEF ListInv, Increasing, Under, Saving, BeforeTracker, AfterFiles
  <2>5. TrackedCheckpointWhole'
    <3>1. \A x \in Slot : shard[steps][x] = weights
      <4>1. ASSUME NEW ro \in Role, NEW ra \in Rank, NEW f \in 1 .. Files
            PROVE  shard[steps][<<ro, ra, f>>] = weights
        <5>1. Written_(ro, ra, f)
          BY <1>2 DEF Written_, Registered
        <5> QED BY <1>2, <5>1 DEF ResumeInv, FilesInv
      <4> QED BY <4>1 DEF Slot
    <3>2. <<"actor", 0, 1>> \in Slot
      BY ConstantFacts DEF Slot
    <3>3. Contents(steps) = {weights}
      BY <3>1, <3>2 DEF Contents
    <3>4. weights \in State /\ weights.n = steps /\ dataPt[steps] = steps
      BY <1>5, <2>1 DEF Types, ResumeInv, FilesInv
    <3> QED BY <1>1, <1>5, <3>3, <3>4 DEF TrackedCheckpointWhole, Contents, managerVars
  <2> QED BY <2>2, <2>3, <2>4, <2>5 DEF ResumeInv
<1> QED
  BY <1>4, <1>5 DEF SaveTracker, Go

LEMMA StutterResume == ASSUME Types, ResumeInv, UNCHANGED vars PROVE Types' /\ ResumeInv'
<1> USE DEF vars, managerVars, trainerVars
<1>1. Types'
  BY DEF Types
<1>2. LoopInv' /\ ExitInv' /\ TrackedCheckpointWhole'
  BY DEF ResumeInv, LoopInv, ExitInv, TrackedCheckpointWhole, Contents
<1>3. FilesInv'
  BY DEF ResumeInv, FilesInv, Written_, Registered
<1>4. \A ro \in Role : ListInv(ro)'
  BY DEF ResumeInv, ListInv, Registered, Increasing, Under
<1> QED
  BY <1>1, <1>2, <1>3, <1>4 DEF ResumeInv

----------------------------------------------------------------------------
(***************************************************************************)
(* The theorems                                                            *)
(***************************************************************************)

\* However often training is killed and launched again, the loop, the files on
\* disk, the managers' lists and the tracked folder agree as ResumeInv says.
THEOREM ResumeTheorem ==
  ASSUME Conditions
  PROVE  Spec => [](Types /\ ResumeInv)
<1>1. Init => Types /\ ResumeInv
  BY TypesInit, InitResume
<1>2. Types /\ ResumeInv /\ [Next]_vars => Types' /\ ResumeInv'
  <2>1. ASSUME Types, ResumeInv, Next PROVE Types' /\ ResumeInv'
    <3>1. Types'
      BY <2>1, TypesNext
    <3>2. ResumeInv'
      BY <2>1, LaunchResume, LoadResume, TrainStepResume, EpochEndResume, NextStepResume,
         EnsureResume, MakeRoomResume, FileResume, RegisterResume, RotateResume, DataResume,
         TrackerResume
         DEF Next, Progress
    <3> QED BY <3>1, <3>2
  <2> QED BY <2>1, StutterResume
<1> QED
  BY <1>1, <1>2, PTL DEF Spec

\* The folder latest_checkpointed_iteration.txt names is one whole checkpoint
\* of one launch (_save_checkpoint of ray_trainer.py and the checkpoint
\* managers), whatever the ranks, the limits on directories and the kills.
THEOREM TrackedTheorem ==
  ASSUME Conditions
  PROVE  Spec => []TrackedCheckpointWhole
<1>1. Types /\ ResumeInv => TrackedCheckpointWhole
  BY DEF ResumeInv
<1> QED
  BY <1>1, ResumeTheorem, PTL

\* A step of fit() never skips or repeats a batch or an update.
THEOREM StepsTheorem ==
  ASSUME Conditions
  PROVE  Spec => []StepsFollowOneAnother
<1>1. Types /\ ResumeInv => StepsFollowOneAnother
  BY DEF ResumeInv, LoopInv, StepsFollowOneAnother
<1> QED
  BY <1>1, ResumeTheorem, PTL

\* Training that ended with all its steps has saved the last one.
THEOREM FinishedTheorem ==
  ASSUME Conditions
  PROVE  Spec => []FinishedRunIsSaved
<1>1. ASSUME Types, ResumeInv, pc = "exit", epochLen >= TotalSteps
      PROVE  tracker = steps /\ Loadable(steps)
  <2>1. tracker = steps
    BY <1>1 DEF ResumeInv, ExitInv
  <2>2. tracker \in Step
    BY <1>1, <2>1, ConstantFacts DEF Types
  <2>3. PICK w \in State : Contents(tracker) = {w}
    BY <1>1, <2>2 DEF ResumeInv, TrackedCheckpointWhole
  <2> QED BY <2>1, <2>3 DEF Loadable
<1>2. Types /\ ResumeInv => FinishedRunIsSaved
  BY <1>1 DEF FinishedRunIsSaved
<1> QED
  BY <1>2, ResumeTheorem, PTL

----------------------------------------------------------------------------
(***************************************************************************)
(* What a resume can lose                                                  *)
(***************************************************************************)

Settled == Training \ {"tracker_close"}

\* No step was due for saving since the last announced one.
LossInv ==
  /\ pc \in Settled => tracker # Torn
  /\ pc \in Settled \ {"next"} =>
       \A m \in Nat : Announced < m /\ m < steps /\ SaveFreq > 0 => m % SaveFreq # 0
  /\ pc = "next" =>
       \A m \in Nat : Announced < m /\ m <= steps /\ SaveFreq > 0 => m % SaveFreq # 0

LEMMA MultipleDivides ==
  ASSUME NEW f \in Nat \ {0}, NEW q \in Nat PROVE (q * f) % f = 0
BY Z3

LEMMA DivisionParts ==
  ASSUME NEW f \in Nat \ {0}, NEW a \in Nat
  PROVE  a = f * (a \div f) + (a % f) /\ a % f \in 0 .. f - 1 /\ a \div f \in Nat
BY Z3

\* Among f consecutive numbers there is a multiple of f.
LEMMA MultipleWithin ==
  ASSUME NEW f \in Nat \ {0}, NEW a \in Nat
  PROVE  \E m \in a + 1 .. a + f : m % f = 0
<1> DEFINE q == a \div f
           m == (q + 1) * f
<1>1. a = f * q + (a % f) /\ a % f \in 0 .. f - 1 /\ q \in Nat
  BY DivisionParts
<1> HIDE DEF q
<1>2. m = f * q + f
  BY <1>1, Z3
<1>3. m % f = 0
  BY <1>1, MultipleDivides
<1>4. m \in a + 1 .. a + f
  <2>1. f * q \in Nat
    BY <1>1
  <2> QED BY <1>1, <1>2, <2>1
<1> HIDE DEF m
<1> QED
  BY <1>3, <1>4

LEMMA LossKept ==
  ASSUME LossInv, pc \in Settled \ {"next"}, pc' \in Settled \ {"next"}, UNCHANGED <<steps, tracker>>
  PROVE  LossInv'
BY DEF LossInv, Announced

LEMMA LossElsewhere == ASSUME pc' \notin Settled PROVE LossInv'
BY DEF LossInv, Settled, Training

LEMMA LossStarts ==
  ASSUME tracker' # Torn, pc' = "train", NEW a \in Nat, Announced' = a, steps' = a + 1
  PROVE  LossInv'
<1>1. \A m \in Nat : ~(a < m /\ m < a + 1)
  OBVIOUS
<1> QED
  BY <1>1 DEF LossInv

LEMMA LoadLoss ==
  ASSUME Types, ResumeInv, Conditions, NEW mode \in Modes, Load(mode)
  PROVE  LossInv'
<1>1. mode = "auto" /\ epochLen \in Nat \ {0}
  BY DEF Conditions, Types
<1>2. CASE pc' # "train"
  <2>1. pc' \in {"down", "exit"}
    BY <1>2 DEF Load, FromScratch, LoadFails, LoadFrom, StartAt
  <2> QED BY <2>1, LossElsewhere DEF Settled, Training, Saving, BeforeTracker, AfterFiles
<1>3. CASE pc' = "train" /\ tracker = NoFile
  <2>1. FromScratch
    BY <1>1, <1>3, ConstantFacts DEF Load, LoadFails
  <2>2. steps' = 1 /\ tracker' = NoFile
    BY <1>3, <2>1 DEF FromScratch, StartAt
  <2>3. NoFile # Torn
    BY ManagerAssumption
  <2> QED BY <1>3, <2>2, <2>3, LossStarts DEF Announced
<1>4. CASE pc' = "train" /\ tracker # NoFile
  <2>1. tracker \in Step /\ LoadFrom(tracker)
    BY <1>1, <1>4 DEF Load, LoadFails
  <2>2. tracker \in Nat /\ tracker # NoFile /\ tracker # Torn
    BY <2>1, ConstantFacts
  <2>3. steps' = tracker + 1 /\ tracker' = tracker
    BY <1>4, <2>1 DEF LoadFrom, StartAt
  <2> QED BY <1>4, <2>2, <2>3, LossStarts DEF Announced
<1> QED
  BY <1>2, <1>3, <1>4

LEMMA TrainStepLoss ==
  ASSUME Types, ResumeInv, LossInv, TrainStep
  PROVE  LossInv'
<1>1. pc = "train" /\ tracker' = tracker /\ steps' = steps /\ steps \in Nat
  BY DEF TrainStep, Types
<1>2. CASE pc' = "ensure"
  BY <1>1, <1>2, LossKept DEF Settled, Training, Saving, BeforeTracker
<1>3. CASE pc' = "next"
  <2>1. SaveFreq > 0 => steps % SaveFreq # 0
    BY <1>3 DEF TrainStep, SaveDue
  <2>2. /\ tracker # Torn
        /\ \A m \in Nat : Announced < m /\ m < steps /\ SaveFreq > 0 => m % SaveFreq # 0
    BY <1>1 DEF LossInv, Settled, Training
  <2>3. \A m \in Nat : m <= steps => m < steps \/ m = steps
    BY <1>1
  <2>4. Announced' = Announced
    BY <1>1 DEF Announced
  <2> QED BY <1>1, <1>3, <2>1, <2>2, <2>3, <2>4 DEF LossInv
<1> QED
  BY <1>2, <1>3 DEF TrainStep

LEMMA NextStepLoss ==
  ASSUME Types, ResumeInv, LossInv, NextStep
  PROVE  LossInv'
<1>1. pc = "next" /\ tracker' = tracker /\ steps \in Nat
  BY DEF NextStep, Types
<1>2. CASE pc' = "exit"
  BY <1>2, LossElsewhere DEF Settled, Training, Saving, BeforeTracker, AfterFiles
<1>3. CASE pc' = "train" /\ steps' = steps + 1
  <2>1. /\ tracker # Torn
        /\ \A m \in Nat : Announced < m /\ m <= steps /\ SaveFreq > 0 => m % SaveFreq # 0
    BY <1>1 DEF LossInv, Settled, Training
  <2>2. \A m \in Nat : m < steps + 1 => m <= steps
    BY <1>1
  <2>3. Announced' = Announced
    BY <1>1 DEF Announced
  <2> QED BY <1>1, <1>3, <2>1, <2>2, <2>3 DEF LossInv
<1> QED
  BY <1>2, <1>3 DEF NextStep

LEMMA TrackerLoss ==
  ASSUME Types, ResumeInv, LossInv, SaveTracker
  PROVE  LossInv'
<1>1. CASE pc' = "tracker_close"
  BY <1>1, LossElsewhere DEF Settled
<1>2. CASE pc = "tracker_close" /\ pc' = "next" /\ tracker' = steps /\ steps' = steps
  <2>1. steps \in Nat /\ steps # Torn /\ steps # NoFile
    BY ConstantFacts DEF Types
  <2>2. Announced' = steps
    BY <1>2, <2>1 DEF Announced
  <2> QED BY <1>2, <2>1, <2>2 DEF LossInv
<1> QED
  BY <1>1, <1>2 DEF SaveTracker, Go

LEMMA SavingLoss ==
  ASSUME Types, LossInv,
         \/ SaveEnsure \/ SaveMakeRoom \/ (\E ra \in Rank : SaveFile(ra))
         \/ SaveRegister \/ SaveRotate \/ SaveData
  PROVE  LossInv'
<1>1. UNCHANGED <<steps, tracker>>
  BY DEF SaveEnsure, SaveMakeRoom, SaveFile, SaveRegister, SaveRotate, SaveData, Go
<1>2. pc \in Settled \ {"next"} /\ pc' \in Settled \ {"next"}
  BY DEF SaveEnsure, SaveMakeRoom, SaveFile, SaveRegister, SaveRotate, SaveData, Go,
         Settled, Training, Saving, BeforeTracker, AfterFiles
<1> QED
  BY <1>1, <1>2, LossKept

\* Resuming costs at most SaveFreq steps, for any save frequency, and never
\* repeats a step that was announced (fit and _load_checkpoint).
THEOREM LossTheorem ==
  ASSUME Conditions
  PROVE  Spec => []ResumeLosesAtMostSaveFreq
<1> DEFINE Both == Types /\ ResumeInv
<1>1. Init => LossInv
  BY DEF Init, LossInv, Settled, Training, Saving, BeforeTracker, AfterFiles
<1>2. Both /\ LossInv /\ [Next]_vars => LossInv'
  <2>1. ASSUME Both, LossInv, Next PROVE LossInv'
    <3>1. CASE Launch \/ Kill \/ EpochEnd
      <4>1. pc' \in {"load", "down", "exit"}
        BY <3>1 DEF Launch, Kill, EpochEnd
      <4> QED BY <4>1, LossElsewhere DEF Settled, Training, Saving, BeforeTracker, AfterFiles
    <3>2. CASE \E mode \in Modes : Load(mode)
      BY <2>1, <3>2, LoadLoss
    <3> QED
      BY <2>1, <3>1, <3>2, TrainStepLoss, NextStepLoss, TrackerLoss, SavingLoss DEF Next, Progress
  <2>2. ASSUME LossInv, UNCHANGED vars PROVE LossInv'
    BY <2>2 DEF vars, trainerVars, LossInv, Announced
  <2> QED BY <2>1, <2>2
<1>3. Both /\ LossInv => ResumeLosesAtMostSaveFreq
  <2>1. SUFFICES ASSUME Both, LossInv, pc = "train", SaveFreq > 0
                 PROVE  tracker # Torn /\ steps - Announced \in 1 .. SaveFreq
    BY DEF ResumeLosesAtMostSaveFreq
  <2>2. /\ tracker # Torn
        /\ \A m \in Nat : Announced < m /\ m < steps => m % SaveFreq # 0
    BY <2>1 DEF LossInv, Settled, Training
  <2>3. SaveFreq \in Nat \ {0} /\ steps \in Nat
    BY <2>1, TrainerAssumption DEF Types
  <2>4. Announced \in Nat /\ Announced < steps
    <3>1. tracker \in Step \cup {NoFile, Torn} /\ steps >= 1 /\ (tracker \in Step => tracker < steps)
      BY <2>1 DEF Types, ResumeInv, LoopInv
    <3> QED BY <2>2, <2>3, <3>1, ConstantFacts DEF Announced
  <2>5. PICK m \in Announced + 1 .. Announced + SaveFreq : m % SaveFreq = 0
    BY <2>3, <2>4, MultipleWithin
  <2>6. m \in Nat /\ Announced < m
    BY <2>3, <2>4, <2>5
  <2>7. ~(m < steps)
    BY <2>2, <2>5, <2>6
  <2> HIDE DEF Announced
  <2> QED BY <2>2, <2>3, <2>4, <2>5, <2>6, <2>7
<1>4. Spec => []Both
  BY ResumeTheorem
<1> HIDE DEF Both
<1> QED
  BY <1>1, <1>2, <1>3, <1>4, PTL DEF Spec

----------------------------------------------------------------------------
(***************************************************************************)
(* How many directories a launch has on disk.  Whatever holds a file of    *)
(* this launch is in the manager's list, or is being removed, or is being  *)
(* written; and the list is one short of the limit while files are         *)
(* written.                                                                *)
(***************************************************************************)

Listed(ro) == Prefix(saved[ro], Len(saved[ro]))
Between(ro) ==
  IF role # ro THEN {}
  ELSE IF pc \in {"make_room", "rotate"} THEN doomed[ro]
  ELSE IF pc = "files" THEN {steps} ELSE {}

KeepInv(ro) ==
  /\ Cardinality(Written(ro)) <= Keep[ro]
  /\ pc = "load" => Written(ro) = {}
  /\ pc \in Training =>
       /\ Len(saved[ro]) <= Keep[ro]
       /\ role = ro /\ pc \in {"make_room", "files"} => Len(saved[ro]) < Keep[ro]
       /\ Written(ro) \subseteq Listed(ro) \cup Between(ro)

\* No file is of a later launch than this one.
RunsInv ==
  /\ \A s \in Step, x \in Slot : shard[s][x] \in State => shard[s][x].run <= run
  /\ weights.run <= run

RoomInv == RunsInv /\ \A ro \in Role : Keep[ro] > 1 => KeepInv(ro)

LEMMA PrefixSize ==
  ASSUME NEW seq \in Seq(Step)
  PROVE  IsFiniteSet(Prefix(seq, Len(seq))) /\ Cardinality(Prefix(seq, Len(seq))) <= Len(seq)
<1> DEFINE D == 1 .. Len(seq)
           T == Prefix(seq, Len(seq))
<1>1. Len(seq) \in Nat /\ seq = [i \in D |-> seq[i]] /\ T = {seq[i] : i \in D}
  BY DEF Prefix
<1>2. IsFiniteSet(D) /\ Cardinality(D) = Len(seq)
  <2>1. /\ IsFiniteSet(1 .. Len(seq))
        /\ Cardinality(1 .. Len(seq)) = IF 1 > Len(seq) THEN 0 ELSE Len(seq) - 1 + 1
    BY <1>1, FS_Interval
  <2> QED BY <1>1, <2>1
<1> HIDE DEF D, T
<1>3. seq \in Surjection(D, T)
  BY <1>1 DEF Surjection
<1> QED BY <1>2, <1>3, FS_Surjection DEF T

LEMMA WrittenSize == \A ro : IsFiniteSet(Written(ro)) /\ Cardinality(Written(ro)) \in Nat
<1>1. IsFiniteSet(Step)
  BY ConstantFacts, FS_Interval DEF Step
<1>2. \A ro : Written(ro) \in SUBSET Step
  BY DEF Written
<1> QED BY <1>1, <1>2, FS_Subset, FS_CardinalityType

LEMMA WrittenLess ==
  ASSUME NEW ro, Written(ro)' \subseteq Written(ro)
  PROVE  Cardinality(Written(ro)') <= Cardinality(Written(ro)) /\ Cardinality(Written(ro)') \in Nat
BY WrittenSize, FS_Subset, FS_CardinalityType

LEMMA WrittenSame ==
  ASSUME NEW ro, UNCHANGED <<shard, run>> PROVE Written(ro)' = Written(ro)
BY DEF Written

\* Steps that add no file, change no list and end no removal.
LEMMA KeepFrame ==
  ASSUME NEW ro \in Role, KeepInv(ro), Written(ro)' \subseteq Written(ro), pc' # "load",
         pc' \in Training =>
           /\ pc \in Training /\ saved'[ro] = saved[ro]
           /\ Between(ro) \cap Written(ro)' \subseteq Between(ro)'
           /\ role' = ro /\ pc' \in {"make_room", "files"}
                => role = ro /\ pc \in {"make_room", "files"}
  PROVE  KeepInv(ro)'
<1>1. Cardinality(Written(ro)') <= Cardinality(Written(ro)) /\ Cardinality(Written(ro)') \in Nat
      /\ Cardinality(Written(ro)) \in Nat /\ Keep[ro] \in Nat
  BY WrittenLess, WrittenSize, ManagerAssumption
<1>2. Cardinality(Written(ro)') <= Keep[ro]
  BY <1>1 DEF KeepInv
<1>3. ASSUME pc' \in Training
      PROVE  /\ Len(saved'[ro]) <= Keep[ro]
             /\ role' = ro /\ pc' \in {"make_room", "files"} => Len(saved'[ro]) < Keep[ro]
             /\ Written(ro)' \subseteq Listed(ro)' \cup Between(ro)'
  <2>1. Listed(ro)' = Listed(ro)
    BY <1>3 DEF Listed, Prefix
  <2>2. Written(ro)' \subseteq Listed(ro) \cup Between(ro)
    BY <1>3 DEF KeepInv
  <2> QED BY <1>3, <2>1, <2>2 DEF KeepInv
<1> QED BY <1>2, <1>3 DEF KeepInv

LEMMA RunsKept ==
  ASSUME RunsInv, UNCHANGED <<shard, weights, run>> PROVE RunsInv'
BY DEF RunsInv

LEMMA LaunchKeep == ASSUME Types, RoomInv, Launch \/ Kill PROVE RoomInv'
<1>1. /\ shard' = shard /\ weights' = Initial /\ run \in 0 .. MaxRuns /\ MaxRuns \in Nat
      /\ weights'.run = 0
  BY ConstantFacts DEF Launch, Kill, Fresh, NewManager, Initial, Types
<1>2. CASE Launch
  <2>1. run' = run + 1 /\ pc' = "load"
    BY <1>2 DEF Launch
  <2>2. \A s \in Step, x \in Slot : shard[s][x] \in State => shard[s][x].run \in Nat /\ shard[s][x].run <= run
    BY <1>1 DEF RoomInv, RunsInv, State
  <2>3. RunsInv'
    BY <1>1, <2>1, <2>2 DEF RunsInv
  <2>4. \A ro \in Role : Written(ro)' = {}
    <3>1. \A s \in Step, x \in Slot : shard[s][x] \in State => shard[s][x].run # run'
      BY <1>1, <2>1, <2>2
    <3> QED BY <1>1, <3>1 DEF Written
  <2>5. \A ro \in Role : KeepInv(ro)'
    <3>1. \A ro \in Role : Cardinality(Written(ro)') <= Keep[ro]
      BY <2>4, FS_EmptySet, ManagerAssumption
    <3> QED BY <2>1, <2>4, <3>1
        DEF KeepInv, Training, Saving, BeforeTracker, AfterFiles
  <2> QED BY <2>3, <2>5 DEF RoomInv
<1>3. CASE Kill
  <2>1. run' = run /\ pc' = "down"
    BY <1>3 DEF Kill
  <2>2. RunsInv'
    BY <1>1, <2>1 DEF RoomInv, RunsInv
  <2>3. \A ro \in Role : KeepInv(ro) => KeepInv(ro)'
    BY <1>1, <2>1, WrittenSame, KeepFrame DEF Training, Saving, BeforeTracker, AfterFiles
  <2> QED BY <2>2, <2>3 DEF RoomInv
<1> QED BY <1>2, <1>3

LEMMA LoadKeep ==
  ASSUME Types, ResumeInv, RoomInv, Conditions, NEW mode \in Modes, Load(mode)
  PROVE  RoomInv'
<1>0. mode = "auto"
  BY DEF Conditions
<1>1. /\ UNCHANGED <<shard, saved, doomed, run, role>> /\ pc = "load" /\ pc' \in {"train", "exit", "down"}
      /\ weights' = weights \/ \E s \in Step, x \in Slot : weights' = shard[s][x] /\ weights' \in State
  <2>1. CASE FromScratch \/ LoadFails
    BY <2>1 DEF Load, FromScratch, StartAt, LoadFails, managerVars
  <2>2. CASE tracker \in Step /\ LoadFrom(tracker)
    <3>1. PICK w \in State : Contents(tracker) = {w}
      BY <2>2 DEF ResumeInv, TrackedCheckpointWhole
    <3>2. Cardinality(Contents(tracker)) = 1
      BY <3>1, FS_Singleton
    <3>3. weights' = w
      <4>1. weights' = CHOOSE v \in Contents(tracker) : TRUE
        BY <2>2, <3>2 DEF LoadFrom
      <4> QED BY <3>1, <4>1
    <3>4. \E x \in Slot : w = shard[tracker][x]
      BY <3>1 DEF Contents
    <3> QED BY <2>2, <3>1, <3>3, <3>4 DEF Load, LoadFrom, StartAt, managerVars
  <2> QED BY <1>0, <2>1, <2>2 DEF Load
<1>2. RunsInv'
  BY <1>1 DEF RoomInv, RunsInv
<1>3. \A ro \in Role : Keep[ro] > 1 => Written(ro)' = {}
  BY <1>1, WrittenSame DEF RoomInv, KeepInv
<1>4. ASSUME NEW ro \in Role, Keep[ro] > 1 PROVE KeepInv(ro)'
  <2>1. Written(ro)' = {} /\ Cardinality(Written(ro)') = 0 /\ Keep[ro] \in Nat
    BY <1>3, <1>4, FS_EmptySet, ManagerAssumption
  <2>2. saved'[ro] = <<>>
    BY <1>1 DEF ResumeInv, ListInv
  <2> QED BY <1>1, <1>4, <2>1, <2>2 DEF KeepInv
<1> QED BY <1>2, <1>4 DEF RoomInv

\* The steps of the loop, and those of a save that touch neither files nor lists.
LEMMA AsideKeep ==
  ASSUME Types, ResumeInv, RoomInv, TrainStep \/ EpochEnd \/ NextStep \/ SaveData \/ SaveTracker
  PROVE  RoomInv'
<1>1. /\ UNCHANGED <<shard, saved, doomed, run, role>>
      /\ weights' = weights \/ weights'.run = run
      /\ pc \notin {"make_room", "rotate", "files"} /\ pc' \notin {"make_room", "rotate", "files", "load"}
      /\ pc \in Training
  <2>1. CASE TrainStep
    <3>1. weights # Mixed
      BY DEF ResumeInv, LoopInv
    <3> QED BY <2>1, <3>1 DEF TrainStep, Trained, managerVars, Training, Saving, BeforeTracker, AfterFiles
  <2>2. CASE EpochEnd \/ NextStep
    BY <2>2 DEF EpochEnd, NextStep, managerVars, Training, Saving, BeforeTracker, AfterFiles
  <2>3. CASE SaveData \/ SaveTracker
    BY <2>3 DEF SaveData, SaveTracker, Go, managerVars, Training, Saving, BeforeTracker, AfterFiles
  <2> QED BY <2>1, <2>2, <2>3
<1>2. RunsInv'
  <2>1. run \in 0 .. MaxRuns /\ MaxRuns \in Nat
    BY ConstantFacts DEF Types
  <2>2. weights'.run <= run
    BY <1>1, <2>1 DEF RoomInv, RunsInv
  <2> QED BY <1>1, <2>2 DEF RoomInv, RunsInv
<1>3. ASSUME NEW ro \in Role, KeepInv(ro) PROVE KeepInv(ro)'
  <2>1. Written(ro)' = Written(ro) /\ Between(ro) = {}
    BY <1>1, WrittenSame DEF Between
  <2> QED BY <1>1, <1>3, <2>1, KeepFrame
<1> QED BY <1>2, <1>3 DEF RoomInv

\* Before a save the list is cut to one less than the limit; what is cut off is
\* what SaveMakeRoom removes.
LEMMA EnsureKeep == ASSUME Types, RoomInv, SaveEnsure PROVE RoomInv'
<1>1. /\ UNCHANGED <<shard, weights, run, role>> /\ pc = "ensure" /\ pc' = "make_room" /\ role \in Role
      /\ EnsureCapacity(role)
  <2>1. UNCHANGED shard
    BY DEF SaveEnsure, EnsureCapacity, Forget, managerVars
  <2> QED BY <2>1 DEF SaveEnsure, Go, Types
<1>2. RunsInv'
  BY <1>1, RunsKept DEF RoomInv
<1>3. ASSUME NEW ro \in Role, Keep[ro] > 1, KeepInv(ro), ro # role PROVE KeepInv(ro)'
  <2>1. saved'[ro] = saved[ro] /\ Between(ro) = {} /\ Written(ro)' = Written(ro)
    BY <1>1, <1>3, WrittenSame DEF EnsureCapacity, Forget, managerVars, Between, Types
  <2> QED BY <1>1, <1>3, <2>1, KeepFrame
      DEF Training, Saving, BeforeTracker
<1>4. ASSUME Keep[role] > 1, KeepInv(role) PROVE KeepInv(role)'
  <2> DEFINE seq == saved[role]
  <2>1. /\ seq \in Seq(Step) /\ Keep[role] \in Nat /\ Written(role)' = Written(role)
        /\ Cardinality(Written(role)) <= Keep[role] /\ Len(seq) <= Keep[role]
        /\ Written(role) \subseteq Prefix(seq, Len(seq))
    BY <1>1, <1>4, WrittenSame, ManagerAssumption
       DEF Types, KeepInv, Training, Saving, BeforeTracker, Listed, Between
  <2>2. CASE Len(seq) >= Keep[role]
    <3> DEFINE n == Len(seq) - Keep[role] + 1
    <3>1. n \in 0 .. Len(seq) /\ saved'[role] = Suffix(seq, n) /\ doomed'[role] = Prefix(seq, n)
      BY <1>1, <1>4, <2>1, <2>2 DEF EnsureCapacity, Forget, Types
    <3>2. /\ Suffix(seq, n) \in Seq(Step) /\ Len(Suffix(seq, n)) = Len(seq) - n
          /\ \A i \in 1 .. Len(seq) - n : Suffix(seq, n)[i] = seq[n + i]
      <4> HIDE DEF n, seq
      <4> QED BY <2>1, <3>1, SuffixFacts
    <3>3. Len(saved'[role]) < Keep[role]
      BY <2>1, <2>2, <3>1, <3>2
    <3>4. Prefix(seq, Len(seq)) \subseteq Prefix(Suffix(seq, n), Len(Suffix(seq, n))) \cup Prefix(seq, n)
      <4>1. ASSUME NEW i \in 1 .. Len(seq), i > n
            PROVE  seq[i] \in Prefix(Suffix(seq, n), Len(Suffix(seq, n)))
        <5>1. i - n \in 1 .. Len(seq) - n /\ Suffix(seq, n)[i - n] = seq[i]
          <6>1. Len(seq) \in Nat
            BY <2>1
          <6>2. i - n \in 1 .. Len(seq) - n /\ n + (i - n) = i
            BY <3>1, <4>1, <6>1
          <6> QED BY <3>2, <6>2
        <5> QED BY <3>2, <5>1 DEF Prefix
      <4>2. \A i \in 1 .. Len(seq) : i > n \/ i \in 1 .. n
        BY <2>1, <3>1
      <4> QED BY <4>1, <4>2 DEF Prefix
    <3>5. Written(role)' \subseteq Listed(role)' \cup Between(role)'
      BY <1>1, <2>1, <3>1, <3>4 DEF Listed, Between
    <3> QED BY <1>1, <2>1, <3>3, <3>5 DEF KeepInv
  <2>3. CASE ~(Len(seq) >= Keep[role])
    <3>1. saved' = saved
      BY <1>1, <2>3 DEF EnsureCapacity, managerVars
    <3>2. Len(seq) < Keep[role]
      BY <2>1, <2>3
    <3>3. Listed(role)' = Prefix(seq, Len(seq))
      BY <1>1, <3>1 DEF Listed, Prefix
    <3> QED BY <1>1, <2>1, <3>1, <3>2, <3>3 DEF KeepInv
  <2> QED BY <2>2, <2>3
<1> QED BY <1>1, <1>2, <1>3, <1>4 DEF RoomInv

\* One file changes.
LEMMA PutWritten ==
  ASSUME Types, RunsInv, NEW s \in Step, NEW y \in Slot, NEW c \in Content,
         shard' = [shard EXCEPT ![s][y] = c], UNCHANGED <<run, weights>>,
         c \in State => c.run <= run
  PROVE  /\ RunsInv'
         /\ \A ro : Written(ro)' \subseteq Written(ro) \cup {s}
         /\ \A ro : c \notin State \/ y[1] # ro => Written(ro)' \subseteq Written(ro)
<1>1. \A t \in Step, x \in Slot : shard'[t][x] = IF t = s /\ x = y THEN c ELSE shard[t][x]
  BY DEF Types
<1>2. RunsInv'
  BY <1>1 DEF RunsInv
<1>3. \A ro : Written(ro)' \subseteq Written(ro) \cup {s}
  BY <1>1 DEF Written
<1>4. \A ro : c \notin State \/ y[1] # ro => Written(ro)' \subseteq Written(ro)
  BY <1>1 DEF Written
<1> QED BY <1>2, <1>3, <1>4

\* Removing: the files of this role in its doomed directories, until none is left.
LEMMA RemoveKeep == ASSUME Types, RoomInv, SaveMakeRoom \/ SaveRotate PROVE RoomInv'
<1>1. /\ UNCHANGED <<saved, doomed, steps, run, weights>> /\ pc \in {"make_room", "rotate"} /\ role \in Role
      /\ pc' # "load" /\ pc \in Training
  BY DEF SaveMakeRoom, SaveRotate, Go, RemoveOne, managerVars, Types, Training, Saving, BeforeTracker
<1>2. CASE Remaining(role) # {}
  <2>1. RemoveOne(role) /\ UNCHANGED <<pc, role>>
    BY <1>2 DEF SaveMakeRoom, SaveRotate, Go
  <2>2. PICK d \in Remaining(role) : shard' = [shard EXCEPT ![d[1]][d[2]] = NoFile]
    BY <2>1 DEF RemoveOne
  <2>3. PICK s \in Step, y \in Slot : shard' = [shard EXCEPT ![s][y] = NoFile]
    <3>1. d[1] \in Step /\ d[2] \in Slot
      BY <1>1 DEF Remaining, Types
    <3> QED BY <2>2, <3>1
  <2>4. NoFile \in Content /\ NoFile \notin State
    BY ConstantFacts DEF Content
  <2>5. RunsInv' /\ \A ro : Written(ro)' \subseteq Written(ro)
    <3>1. UNCHANGED <<run, weights>> /\ RunsInv
      BY <1>1 DEF RoomInv
    <3>2. NoFile \in Content /\ (NoFile \in State => NoFile.run <= run)
      BY <2>4
    <3>3. /\ RunsInv'
          /\ \A ro : NoFile \notin State \/ y[1] # ro => Written(ro)' \subseteq Written(ro)
      BY <2>3, <3>1, <3>2, PutWritten
    <3> QED BY <2>4, <3>3
  <2>6. ASSUME NEW ro \in Role, KeepInv(ro) PROVE KeepInv(ro)'
    <3>1. Between(ro)' = Between(ro)
      BY <1>1, <2>1 DEF Between
    <3> QED BY <1>1, <2>1, <2>5, <2>6, <3>1, KeepFrame
  <2> QED BY <2>5, <2>6 DEF RoomInv
<1>3. CASE Remaining(role) = {}
  <2>1. /\ UNCHANGED shard
        /\ \/ pc = "make_room" /\ pc' = "files" /\ role' = role
           \/ pc = "rotate" /\ pc' \in {"ensure", "data"}
    BY <1>3 DEF SaveMakeRoom, SaveRotate, Go, managerVars
  <2>2. RunsInv'
    BY <1>1, <2>1, RunsKept DEF RoomInv
  <2>3. ASSUME NEW ro \in Role, KeepInv(ro) PROVE KeepInv(ro)'
    <3>1. Written(ro)' = Written(ro)
      BY <1>1, <2>1, WrittenSame
    <3>2. Between(ro) \cap Written(ro) = {}
      <4>1. CASE ro # role
        BY <4>1 DEF Between
      <4>2. ASSUME ro = role, NEW s \in Between(ro), s \in Written(ro) PROVE FALSE
        <5>1. s \in doomed[ro]
          BY <1>1, <4>2 DEF Between
        <5>2. PICK x \in Slot : x[1] = ro /\ shard[s][x] \in State
          BY <4>2 DEF Written
        <5>3. shard[s][x] # NoFile
          BY <5>2, ConstantFacts
        <5>4. <<s, x>> \in Remaining(role)
          BY <4>2, <5>1, <5>2, <5>3 DEF Remaining
        <5> QED BY <1>3, <5>4
      <4> QED BY <4>1, <4>2
    <3>3. role' = ro /\ pc' \in {"make_room", "files"} => role = ro /\ pc \in {"make_room", "files"}
      BY <2>1
    <3> QED BY <1>1, <2>3, <3>1, <3>2, <3>3, KeepFrame
  <2> QED BY <2>2, <2>3 DEF RoomInv
<1> QED BY <1>2, <1>3

LEMMA FileKeep == ASSUME Types, ResumeInv, RoomInv, NEW ra \in Rank, SaveFile(ra) PROVE RoomInv'
<1> DEFINE x == <<role, ra, wrote[ra] \div 2 + 1>>
<1>1. /\ UNCHANGED <<saved, doomed, steps, run, weights, role, pc>> /\ pc = "files" /\ role \in Role
      /\ wrote[ra] \in 0 .. 2 * Files /\ wrote[ra] < 2 * Files /\ Files \in Nat
      /\ run \in 0 .. MaxRuns /\ weights \in State /\ weights.run <= run
      /\ shard' = [shard EXCEPT ![steps][x] = Torn] \/ shard' = [shard EXCEPT ![steps][x] = weights]
  BY ConstantFacts DEF SaveFile, Go, OpenFile, CloseFile, Types, RoomInv, RunsInv
<1>2. steps \in Step
  BY <1>1, StepOK, TypesSplit DEF ResumeInv, Saving, BeforeTracker
<1>3. x \in Slot
  <2>1. wrote[ra] \div 2 + 1 \in 1 .. Files
    BY <1>1
  <2> QED BY <1>1, <2>1 DEF Slot
<1> HIDE DEF x
<1>4. Torn \in Content /\ Torn \notin State /\ weights \in Content
  BY <1>1, ConstantFacts DEF Content
<1>5. RunsInv' /\ \A ro : Written(ro)' \subseteq Written(ro) \cup {steps}
  BY <1>1, <1>2, <1>3, <1>4, PutWritten DEF RoomInv
<1>6. \A ro : role # ro => Written(ro)' \subseteq Written(ro)
  <2>1. x[1] = role
    BY DEF x
  <2> QED BY <1>1, <1>2, <1>3, <1>4, <2>1, PutWritten DEF RoomInv
<1>7. ASSUME NEW ro \in Role, KeepInv(ro), ro # role PROVE KeepInv(ro)'
  BY <1>1, <1>6, <1>7, KeepFrame DEF Between, Training, Saving, BeforeTracker
<1>8. ASSUME Keep[role] > 1, KeepInv(role) PROVE KeepInv(role)'
  <2>1. /\ Len(saved[role]) < Keep[role] /\ Written(role) \subseteq Listed(role) \cup {steps}
        /\ saved[role] \in Seq(Step) /\ Keep[role] \in Nat /\ Len(saved[role]) \in Nat
    BY <1>1, <1>8, ManagerAssumption DEF KeepInv, Between, Training, Saving, BeforeTracker, Types
  <2>2. Listed(role)' = Listed(role) /\ Between(role)' = {steps}
    BY <1>1 DEF Listed, Prefix, Between
  <2>3. Written(role)' \subseteq Listed(role) \cup {steps}
    BY <1>1, <1>5, <2>1
  <2>4. IsFiniteSet(Listed(role)) /\ Cardinality(Listed(role)) <= Len(saved[role])
        /\ Cardinality(Listed(role)) \in Nat
    BY <2>1, PrefixSize, FS_CardinalityType DEF Listed
  <2>5. /\ IsFiniteSet(Listed(role) \cup {steps})
        /\ Cardinality(Listed(role) \cup {steps})
             = IF steps \in Listed(role) THEN Cardinality(Listed(role))
                                         ELSE Cardinality(Listed(role)) + 1
    BY <2>4, FS_AddElement
  <2>6. Cardinality(Written(role)') <= Cardinality(Listed(role) \cup {steps})
        /\ Cardinality(Written(role)') \in Nat
    BY <2>3, <2>5, FS_Subset, FS_CardinalityType
  <2>7. Cardinality(Written(role)') <= Keep[role]
    BY <2>1, <2>4, <2>5, <2>6
  <2> QED BY <1>1, <2>1, <2>2, <2>3, <2>7 DEF KeepInv
<1> QED BY <1>1, <1>5, <1>7, <1>8 DEF RoomInv

\* The new directory is listed; what is cut off is what SaveRotate removes.
LEMMA RegisterKeep == ASSUME Types, ResumeInv, RoomInv, SaveRegister PROVE RoomInv'
<1>1. /\ UNCHANGED <<shard, steps, run, weights, role>> /\ pc = "files" /\ pc' = "rotate" /\ role \in Role
      /\ RegisterCheckpoint(role, steps)
  BY DEF SaveRegister, RegisterCheckpoint, Go, Types
<1>2. steps \in Step
  BY <1>1, StepOK, TypesSplit DEF ResumeInv, Saving, BeforeTracker
<1>3. RunsInv'
  BY <1>1, RunsKept DEF RoomInv
<1>4. ASSUME NEW ro \in Role, KeepInv(ro), ro # role PROVE KeepInv(ro)'
  <2>1. saved'[ro] = saved[ro] /\ Between(ro) = {} /\ Written(ro)' = Written(ro)
    BY <1>1, <1>4, WrittenSame DEF RegisterCheckpoint, Between, Types
  <2> QED BY <1>1, <1>4, <2>1, KeepFrame DEF Training, Saving, BeforeTracker
<1>5. ASSUME Keep[role] > 1, KeepInv(role) PROVE KeepInv(role)'
  <2> DEFINE all == Append(saved[role], steps)
             n   == IF Keep[role] > 0 /\ Len(all) > Keep[role] THEN Len(all) - Keep[role] ELSE 0
  <2>1. /\ saved[role] \in Seq(Step) /\ Keep[role] \in Nat /\ Written(role)' = Written(role)
        /\ Cardinality(Written(role)) <= Keep[role]
        /\ Written(role) \subseteq Listed(role) \cup {steps}
    BY <1>1, <1>5, WrittenSame, ManagerAssumption
       DEF Types, KeepInv, Training, Saving, BeforeTracker, Between
  <2>2. /\ saved'[role] = Suffix(all, n) /\ doomed'[role] = Prefix(all, n)
    BY <1>1 DEF RegisterCheckpoint, Types
  <2>3. /\ all \in Seq(Step) /\ Len(all) \in Nat /\ Len(all) = Len(saved[role]) + 1
        /\ \A i \in 1 .. Len(saved[role]) : all[i] = saved[role][i]
        /\ all[Len(all)] = steps
    BY <1>2, <2>1
  <2> HIDE DEF all
  <2>4. n \in 0 .. Len(all) /\ Len(all) - n <= Keep[role]
    BY <1>5, <2>1, <2>3
  <2>5. /\ Suffix(all, n) \in Seq(Step) /\ Len(Suffix(all, n)) = Len(all) - n
        /\ \A i \in 1 .. Len(all) - n : Suffix(all, n)[i] = all[n + i]
    <3> HIDE DEF n
    <3>1. all \in Seq(Step) /\ n \in 0 .. Len(all)
      BY <2>3, <2>4
    <3> QED BY <3>1, SuffixFacts
  <2> HIDE DEF n
  <2>6. \A i \in 1 .. Len(all) : all[i] \in Prefix(Suffix(all, n), Len(Suffix(all, n))) \cup Prefix(all, n)
    <3>1. ASSUME NEW i \in 1 .. Len(all), i > n
          PROVE  all[i] \in Prefix(Suffix(all, n), Len(Suffix(all, n)))
      <4>1. i - n \in 1 .. Len(all) - n /\ n + (i - n) = i
        BY <2>3, <2>4, <3>1
      <4>2. Suffix(all, n)[i - n] = all[i]
        BY <2>5, <4>1
      <4> QED BY <2>5, <4>1, <4>2 DEF Prefix
    <3>2. \A i \in 1 .. Len(all) : i > n \/ i \in 1 .. n
      BY <2>3, <2>4
    <3> QED BY <3>1, <3>2 DEF Prefix
  <2>7. Listed(role) \cup {steps} \subseteq Prefix(Suffix(all, n), Len(Suffix(all, n))) \cup Prefix(all, n)
    <3>1. ASSUME NEW i \in 1 .. Len(saved[role])
          PROVE  saved[role][i] \in Prefix(Suffix(all, n), Len(Suffix(all, n))) \cup Prefix(all, n)
      <4>1. i \in 1 .. Len(all) /\ all[i] = saved[role][i]
        BY <2>1, <2>3, <3>1
      <4> QED BY <2>6, <4>1
    <3>2. steps \in Prefix(Suffix(all, n), Len(Suffix(all, n))) \cup Prefix(all, n)
      <4>1. Len(all) \in 1 .. Len(all)
        BY <2>1, <2>3
      <4> QED BY <2>3, <2>6, <4>1
    <3> QED BY <3>1, <3>2 DEF Listed, Prefix
  <2>8. Written(role)' \subseteq Listed(role)' \cup Between(role)'
    BY <1>1, <2>1, <2>2, <2>7 DEF Listed, Between
  <2> QED BY <1>1, <2>1, <2>2, <2>4, <2>5, <2>8 DEF KeepInv
<1> QED BY <1>1, <1>3, <1>4, <1>5 DEF RoomInv

\* ensure_checkpoint_capacity and register_checkpoint: with a limit of two or
\* more, one launch never has more directories of a role on disk than the
\* limit, whatever is removed, written or killed in between.
THEOREM RoomTheorem ==
  ASSUME Conditions
  PROVE  Spec => []LaunchKeepsAtMostMax
<1> DEFINE Both == Types /\ ResumeInv
<1>1. Init => RoomInv
  <2> SUFFICES ASSUME Init PROVE RoomInv
    OBVIOUS
  <2>1. shard = [s \in Step |-> [x \in Slot |-> NoFile]] /\ pc = "down" /\ weights.run = 0 /\ run = 0
    BY DEF Init, ManagerInit, Initial
  <2>2. \A s \in Step, x \in Slot : shard[s][x] \notin State
    BY <2>1, ConstantFacts
  <2>3. \A ro \in Role : Written(ro) = {}
    BY <2>2 DEF Written
  <2>4. RunsInv
    BY <2>1, <2>2 DEF RunsInv
  <2>5. \A ro \in Role : KeepInv(ro)
    <3>1. \A ro \in Role : Cardinality(Written(ro)) <= Keep[ro]
      BY <2>3, FS_EmptySet, ManagerAssumption
    <3> QED BY <2>1, <2>3, <3>1 DEF KeepInv, Training, Saving, BeforeTracker, AfterFiles
  <2> QED BY <2>4, <2>5 DEF RoomInv
<1>2. Both /\ RoomInv /\ [Next]_vars => RoomInv'
  <2>1. ASSUME Both, RoomInv, Next PROVE RoomInv'
    BY <2>1, LaunchKeep, LoadKeep, AsideKeep, EnsureKeep, RemoveKeep, FileKeep, RegisterKeep
       DEF Next, Progress
  <2>2. ASSUME RoomInv, UNCHANGED vars PROVE RoomInv'
    <3>1. UNCHANGED <<shard, saved, doomed, run, weights, pc, role, steps>>
      BY <2>2 DEF vars, trainerVars, managerVars
    <3>2. RunsInv'
      BY <2>2, <3>1, RunsKept DEF RoomInv
    <3>3. ASSUME NEW ro \in Role, KeepInv(ro) PROVE KeepInv(ro)'
      BY <3>1, <3>3 DEF KeepInv, Written, Listed, Between, Prefix
    <3> QED BY <2>2, <3>2, <3>3 DEF RoomInv
  <2> QED BY <2>1, <2>2
<1>3. RoomInv /\ Both => LaunchKeepsAtMostMax
  BY DEF RoomInv, KeepInv, LaunchKeepsAtMostMax
<1>4. Spec => []Both
  BY ResumeTheorem
<1> HIDE DEF Both
<1> QED
  BY <1>1, <1>2, <1>3, <1>4, PTL DEF Spec

=============================================================================
