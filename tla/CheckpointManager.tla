------------------------- MODULE CheckpointManager -------------------------
(***************************************************************************)
(* verl/utils/checkpoint: one FSDPCheckpointManager per role (actor,       *)
(* critic) writes global_step_<s>/<role>/, where every rank has its own    *)
(* model, optimizer and extra-state files, and rotates the directories it  *)
(* wrote itself.                                                           *)
(*                                                                         *)
(* The content of a file is the training state it was written from: how   *)
(* many updates it holds and which launch of the trainer made the last of  *)
(* them.  Two launches that reach the same step hold different states.     *)
(***************************************************************************)
EXTENDS Naturals, Sequences, FiniteSets

CONSTANTS
  Rank,         \* the ranks of a worker group; 0 is one of them
  Files,        \* how many files a rank writes, one after the other
  UseCritic,    \* TRUE: the critic is checkpointed after the actor
  Keep,         \* max_<role>_ckpt_to_keep, in [Role -> Nat]; 0 is null
  TotalSteps,   \* total_training_steps
  MaxRuns,      \* bound on the launches of the trainer
  NoFile,       \* a file that does not exist
  Torn          \* a file whose writing was cut short

Role == IF UseCritic THEN {"actor", "critic"} ELSE {"actor"}

\* Every launch takes at most one step beyond the total (see Trainer).
MaxStep == TotalSteps + MaxRuns
Step    == 1 .. MaxStep
Slot    == Role \X Rank \X (1 .. Files)
State   == [n : 0 .. MaxStep, run : 0 .. MaxRuns]

ASSUME ManagerAssumption ==
  /\ 0 \in Rank
  /\ Files \in Nat \ {0}
  /\ UseCritic \in BOOLEAN
  /\ Keep \in [Role -> Nat]
  /\ TotalSteps \in Nat \ {0}
  /\ MaxRuns \in Nat \ {0}
  /\ NoFile # Torn
  /\ {NoFile, Torn} \cap (State \cup Nat) = {}

VARIABLES
  shard,      \* shard[s][<<ro, ra, f>>]: rank ra's f-th file for role ro, step s
  saved,      \* saved[ro]: previous_saved_paths of the role's manager
  doomed      \* doomed[ro]: paths its rank 0 is removing (shutil.rmtree)

managerVars == <<shard, saved, doomed>>

ManagerTypeOK ==
  /\ shard \in [Step -> [Slot -> State \cup {NoFile, Torn}]]
  /\ saved \in [Role -> Seq(Step)]
  /\ doomed \in [Role -> SUBSET Step]

ManagerInit ==
  /\ shard = [s \in Step |-> [x \in Slot |-> NoFile]]
  /\ saved = [ro \in Role |-> <<>>]
  /\ doomed = [ro \in Role |-> {}]

Prefix(seq, n) == {seq[i] : i \in 1 .. n}
Suffix(seq, n) == SubSeq(seq, n + 1, Len(seq))

Forget(ro, n) ==
  /\ saved' = [saved EXCEPT ![ro] = Suffix(@, n)]
  /\ doomed' = [doomed EXCEPT ![ro] = Prefix(saved[ro], n)]
  /\ UNCHANGED shard

\* Mutant of EnsureCapacity: the safety buffer is not kept.
MutEnsureTooMuch(ro) ==
  IF Keep[ro] > 1 /\ Len(saved[ro]) >= Keep[ro] - 1
  THEN Forget(ro, Len(saved[ro]))
  ELSE UNCHANGED managerVars

\* Mutant of EnsureCapacity: room is made one directory too late.
MutEnsureLate(ro) ==
  IF Keep[ro] > 1 /\ Len(saved[ro]) > Keep[ro]
  THEN Forget(ro, Len(saved[ro]) - Keep[ro])
  ELSE UNCHANGED managerVars

\* Before a save: with a limit of 2 or more, make room for one directory.
EnsureCapacity(ro) ==
  IF Keep[ro] > 1 /\ Len(saved[ro]) >= Keep[ro]
  THEN Forget(ro, Len(saved[ro]) - Keep[ro] + 1)
  ELSE UNCHANGED managerVars

\* shutil.rmtree on the forgotten directories, one file at a time.
Remaining(ro) ==
  {d \in doomed[ro] \X Slot : d[2][1] = ro /\ shard[d[1]][d[2]] # NoFile}

RemoveOne(ro) ==
  /\ \E d \in Remaining(ro) : shard' = [shard EXCEPT ![d[1]][d[2]] = NoFile]
  /\ UNCHANGED <<saved, doomed>>

\* torch.save truncates the file and then writes it.
OpenFile(s, x) ==
  /\ shard' = [shard EXCEPT ![s][x] = Torn]
  /\ UNCHANGED <<saved, doomed>>

CloseFile(s, x, state) ==
  /\ shard' = [shard EXCEPT ![s][x] = state]
  /\ UNCHANGED <<saved, doomed>>

\* After a save: remember the new directory, forget those beyond the limit.
RegisterCheckpoint(ro, s) ==
  LET all  == Append(saved[ro], s)
      over == IF Keep[ro] > 0 /\ Len(all) > Keep[ro] THEN Len(all) - Keep[ro] ELSE 0
  IN  /\ saved' = [saved EXCEPT ![ro] = Suffix(all, over)]
      /\ doomed' = [doomed EXCEPT ![ro] = Prefix(all, over)]
      /\ UNCHANGED shard

\* A new manager knows nothing of what earlier launches wrote.
NewManager ==
  /\ saved' = [ro \in Role |-> <<>>]
  /\ doomed' = [ro \in Role |-> {}]
  /\ UNCHANGED shard

\* load_checkpoint of every role and rank raises unless all files are whole.
Contents(s) == {shard[s][x] : x \in Slot}
Loadable(s) == Contents(s) \subseteq State

=============================================================================
