----------------------------- MODULE ActorUpdate -----------------------------
(***************************************************************************)
(* One training batch on its way through the data parallel ranks: the      *)
(* driver balances it (_balance_batch), the dispatcher cuts it into equal  *)
(* chunks, each rank computes its log probabilities (compute_log_prob) and *)
(* then trains in mini-batches of micro-batches (update_policy).           *)
(*                                                                         *)
(* Every forward and backward pass of a sharded model, the agreement on    *)
(* the number of micro-batches and the norm of the gradient are collective *)
(* operations: a rank that enters one waits until all others entered       *)
(* theirs. Ranks whose calls do not match wait forever.                    *)
(*                                                                         *)
(* The partitions of KarmarkarKarp are any that it promises: equal parts   *)
(* for the ranks, non-empty parts for the micro-batches.                   *)
(***************************************************************************)
EXTENDS Integers, Sequences, SequencesExt, FiniteSetsExt

CONSTANTS
  DP,          \* number of ranks
  Batches,     \* sequences of sample lengths, the batches that may arrive
  MiniSize,    \* ppo_mini_batch_size of a rank
  MicroSize,   \* ppo_micro_batch_size_per_gpu
  MaxTokens,   \* max_token_len
  Epochs,      \* ppo_epochs
  MaxSkips     \* bound on gradients that are not finite

ASSUME DPAssumption == DP \in Nat \ {0}
ASSUME SizeAssumption ==
  /\ MiniSize \in Nat \ {0} /\ MicroSize \in Nat \ {0} /\ MiniSize % MicroSize = 0
  /\ MaxTokens \in Nat \ {0} /\ Epochs \in Nat \ {0} /\ MaxSkips \in Nat
ASSUME BatchesAssumption ==
  \A b \in Batches : b \in Seq(0 .. MaxTokens) /\ b # <<>> /\ Len(b) % DP = 0

Ranks == 1 .. DP

VARIABLES
  lens,     \* length of each sample of the batch
  dynamic,  \* use_dynamic_bsz
  batch,    \* the batch, a sequence of samples, as the driver holds it
  pc,       \* per rank, where it is
  call,     \* per rank, the number and the kind of the collective it entered last
  local,    \* per rank, its chunk of the batch
  epoch,    \* per rank
  mini,     \* per rank, the mini-batch it works on, as a number
  want,     \* per rank, its own number of micro-batches
  micro,    \* per rank, its micro-batches, sequences of positions in the mini-batch
  next,     \* per rank, the micro-batch it is at
  logp,     \* per rank, the log probabilities in the order it returns them
  grads,    \* per rank, samples in the gradient since zero_grad, in order
  scale,    \* per rank, sum of the loss scale factors, in units of 1 / MiniSize
  trained,  \* per rank, samples whose gradients were applied or given up, in order
  finite,   \* outcome of the last agreement on the gradient's norm
  skips,    \* outcomes that were not finite
  steps,    \* per rank, optimizer steps applied
  did,      \* per rank, did_update
  teacher   \* per rank, the student's steps mixed into the teacher

work == <<lens, dynamic, batch>>
progress == <<local, epoch, mini>>
cutting == <<want, micro, next>>
model == <<steps, did, teacher>>
norm == <<finite, skips>>
vars == <<work, pc, call, progress, cutting, logp, grads, scale, trained, norm, model>>

Rows == 1 .. Len(lens)
Total(I) == MapThenSumSet(LAMBDA i : lens[i], I)

Init ==
  /\ lens \in Batches
  /\ dynamic \in BOOLEAN
  /\ batch = [i \in Rows |-> i]
  /\ pc = [r \in Ranks |-> "balance"]
  /\ call = [r \in Ranks |-> [n |-> 0, kind |-> "none"]]
  /\ local = [r \in Ranks |-> <<>>]
  /\ epoch = [r \in Ranks |-> 0]
  /\ mini = [r \in Ranks |-> 1]
  /\ want = [r \in Ranks |-> 0]
  /\ micro = [r \in Ranks |-> <<>>]
  /\ next = [r \in Ranks |-> 1]
  /\ logp = [r \in Ranks |-> <<>>]
  /\ grads = [r \in Ranks |-> <<>>]
  /\ scale = [r \in Ranks |-> 0]
  /\ trained = [r \in Ranks |-> <<>>]
  /\ finite = TRUE
  /\ skips = 0
  /\ steps = [r \in Ranks |-> 0]
  /\ did = [r \in Ranks |-> FALSE]
  /\ teacher = [r \in Ranks |-> <<>>]

(***************************************************************************)
(* _balance_batch and the dispatch of chunks                               *)
(***************************************************************************)

\* The elements of P by key, then by number.
UpTo(P, key, i) == {j \in P : key[j] < key[i] \/ (key[j] = key[i] /\ j <= i)}
Sorted(P, key) == [n \in 1 .. Cardinality(P) |-> CHOOSE i \in P : Cardinality(UpTo(P, key, i)) = n]

\* The rows of a part by length: the odd places going up, then the even places
\* going down, so that short ones are at both ends.
ByLength(P) == Sorted(P, lens)
Places(s, first) == [i \in 1 .. (Len(s) + 2 - first) \div 2 |-> s[2 * i - 2 + first]]
MutEndsTwice(s) == Places(s, 1) \o Reverse(Places(s, 1))
ShortAtBothEnds(s) == Places(s, 1) \o Reverse(Places(s, 2))

EqualParts ==
  {f \in [Rows -> Ranks] : \A r \in Ranks :
     Cardinality({i \in Rows : f[i] = r}) * DP = Len(lens)}

Chunk(b, r) == LET k == Len(b) \div DP IN SubSeq(b, (r - 1) * k + 1, r * k)

_balance_batch ==
  /\ \A r \in Ranks : pc[r] = "balance"
  /\ \E f \in EqualParts :
       LET Part(r) == ShortAtBothEnds(ByLength({i \in Rows : f[i] = r}))
       IN /\ batch' = FlattenSeq([r \in Ranks |-> Part(r)])
          /\ local' = [r \in Ranks |-> Chunk(batch', r)]
  /\ pc' = [r \in Ranks |-> "logp"]
  /\ UNCHANGED <<lens, dynamic, call, epoch, mini, cutting, logp, grads, scale, trained,
                 norm, model>>

(***************************************************************************)
(* Collective operations                                                   *)
(***************************************************************************)
Enter(r, kind) == call' = [call EXCEPT ![r] = [n |-> @.n + 1, kind |-> kind]]
AllEntered(r) == \A s \in Ranks : call[s].n >= call[r].n

(***************************************************************************)
(* prepare_dynamic_batch and DataProto.split                               *)
(***************************************************************************)

\* data.split(ppo_mini_batch_size); compute_log_prob cuts the whole chunk.
Minis(r) == (Len(local[r]) + MiniSize - 1) \div MiniSize
Mini(r) ==
  IF pc[r] \in {"logp", "logpCount", "logpRun", "logpWait"} THEN local[r]
  ELSE SubSeq(local[r], (mini[r] - 1) * MiniSize + 1,
              IF mini[r] * MiniSize < Len(local[r]) THEN mini[r] * MiniSize ELSE Len(local[r]))

OwnCount(r) ==
  LET full == (Total({Mini(r)[i] : i \in DOMAIN Mini(r)}) + MaxTokens - 1) \div MaxTokens
  IN IF full < Len(Mini(r)) THEN full ELSE Len(Mini(r))

\* all_reduce(MAX)
MutOwnOnly(r) == want[r]
AgreedCount(r) == Max({want[s] : s \in Ranks})

\* The micro-batches of n rows in k non-empty parts, each in ascending order;
\* the order of the parts is that of their workload.
DynamicCuts(n, k) ==
  {[j \in 1 .. k |-> Sorted({i \in 1 .. n : f[i] = j}, [i \in 1 .. n |-> i])] :
     f \in {g \in [1 .. n -> 1 .. k] : Range(g) = 1 .. k}}

FixedCut(n) ==
  [j \in 1 .. (n + MicroSize - 1) \div MicroSize |->
     [i \in 1 .. (IF j * MicroSize <= n THEN MicroSize ELSE n - (j - 1) * MicroSize) |->
        (j - 1) * MicroSize + i]]

\* zero_grad comes after the cut and before the first micro-batch.
MutKeep(r) == UNCHANGED <<grads, scale>>
zero_grad(r) ==
  /\ grads' = [grads EXCEPT ![r] = <<>>]
  /\ scale' = [scale EXCEPT ![r] = 0]

Cut(r, cut, to) ==
  /\ micro' = [micro EXCEPT ![r] = cut]
  /\ next' = [next EXCEPT ![r] = 1]
  /\ pc' = [pc EXCEPT ![r] = to]
  /\ zero_grad(r)

Split(r, from, count, to) ==
  /\ pc[r] = from
  /\ IF dynamic
     THEN /\ want' = [want EXCEPT ![r] = OwnCount(r)]
          /\ Enter(r, "count")
          /\ pc' = [pc EXCEPT ![r] = count]
          /\ UNCHANGED <<micro, next, grads, scale>>
     ELSE /\ Cut(r, FixedCut(Len(Mini(r))), to)
          /\ UNCHANGED <<want, call>>
  /\ UNCHANGED <<work, progress, logp, trained, norm, model>>

\* The assertion num_micro_batches <= len(seq_len_effective) fails where no
\* such cut exists.
rearrange_micro_batches(r, count, to) ==
  /\ pc[r] = count
  /\ AllEntered(r)
  /\ \E cut \in DynamicCuts(Len(Mini(r)), AgreedCount(r)) : Cut(r, cut, to)
  /\ UNCHANGED <<work, call, progress, want, logp, trained, norm, model>>

(***************************************************************************)
(* compute_log_prob                                                        *)
(***************************************************************************)
LogpForward(r) ==
  /\ pc[r] = "logpRun"
  /\ next[r] <= Len(micro[r])
  /\ Enter(r, "forward")
  /\ pc' = [pc EXCEPT ![r] = "logpWait"]
  /\ UNCHANGED <<work, progress, cutting, logp, grads, scale, trained, norm, model>>

LogpNext(r) ==
  /\ pc[r] = "logpWait"
  /\ AllEntered(r)
  /\ logp' = [logp EXCEPT ![r] = @ \o [i \in DOMAIN micro[r][next[r]] |->
                                         local[r][micro[r][next[r]][i]]]]
  /\ next' = [next EXCEPT ![r] = @ + 1]
  /\ pc' = [pc EXCEPT ![r] = "logpRun"]
  /\ UNCHANGED <<work, call, progress, want, micro, grads, scale, trained, norm, model>>

\* data[revert_indices]: entry i of the result is the one that was computed at
\* the place where i stands in the concatenated index lists.
MutForwards(data, idx) == [i \in DOMAIN idx |-> data[idx[i]]]
restore_dynamic_batch(data, idx) ==
  [i \in DOMAIN idx |-> data[CHOOSE j \in DOMAIN idx : idx[j] = i]]

LogpEnd(r) ==
  /\ pc[r] = "logpRun"
  /\ next[r] > Len(micro[r])
  /\ logp' = [logp EXCEPT ![r] =
                IF dynamic THEN restore_dynamic_batch(@, FlattenSeq(micro[r])) ELSE @]
  /\ pc' = [pc EXCEPT ![r] = "mini"]
  /\ UNCHANGED <<work, call, progress, cutting, grads, scale, trained, norm, model>>

(***************************************************************************)
(* update_policy                                                           *)
(***************************************************************************)

\* The student, the teacher on both views and the backward pass of one
\* micro-batch.
Forward(r) ==
  /\ pc[r] = "run"
  /\ next[r] <= Len(micro[r])
  /\ Enter(r, "train")
  /\ pc' = [pc EXCEPT ![r] = "wait"]
  /\ UNCHANGED <<work, progress, cutting, logp, grads, scale, trained, norm, model>>

\* loss_scale_factor
Factor(r) == IF dynamic THEN Len(micro[r][next[r]]) ELSE MicroSize

Backward(r) ==
  /\ pc[r] = "wait"
  /\ AllEntered(r)
  /\ grads' = [grads EXCEPT ![r] = @ \o [i \in DOMAIN micro[r][next[r]] |->
                                           Mini(r)[micro[r][next[r]][i]]]]
  /\ scale' = [scale EXCEPT ![r] = @ + Factor(r)]
  /\ next' = [next EXCEPT ![r] = @ + 1]
  /\ pc' = [pc EXCEPT ![r] = "run"]
  /\ UNCHANGED <<work, call, progress, want, micro, logp, trained, norm, model>>

\* clip_grad_norm_ adds up the norms of all ranks; the last one to enter
\* completes it.
ClipEnter(r) ==
  /\ pc[r] = "run"
  /\ next[r] > Len(micro[r])
  /\ Enter(r, "norm")
  /\ IF \A s \in Ranks \ {r} : call[s].n > call[r].n
     THEN \/ finite' = TRUE /\ UNCHANGED skips
          \/ skips < MaxSkips /\ finite' = FALSE /\ skips' = skips + 1
     ELSE UNCHANGED norm
  /\ pc' = [pc EXCEPT ![r] = "step"]
  /\ UNCHANGED <<work, progress, cutting, logp, grads, scale, trained, model>>

\* Whether rank r finds its norm finite: full_tensor() makes it the same for
\* all, without it each would look at its shard.
MutOwnShard(r) == finite \/ r = 1
NormFinite(r) == finite

\* _optimizer_step, then the next mini-batch or epoch
_optimizer_step(r) ==
  LET again == mini[r] < Minis(r)
      over == ~again /\ epoch[r] + 1 = Epochs
  IN /\ pc[r] = "step"
     /\ AllEntered(r)
     /\ trained' = [trained EXCEPT ![r] = @ \o grads[r]]
     /\ IF NormFinite(r)
        THEN /\ steps' = [steps EXCEPT ![r] = @ + 1]
             /\ did' = [did EXCEPT ![r] = TRUE]
        ELSE UNCHANGED <<steps, did>>
     /\ mini' = [mini EXCEPT ![r] = IF again THEN @ + 1 ELSE 1]
     /\ epoch' = [epoch EXCEPT ![r] = IF again THEN @ ELSE @ + 1]
     /\ pc' = [pc EXCEPT ![r] = IF over THEN "teacher" ELSE "mini"]
     /\ UNCHANGED <<work, call, local, cutting, logp, grads, scale, norm, teacher>>

\* The teacher is mixed with the student once per update_policy.
_update_teacher(r) ==
  /\ pc[r] = "teacher"
  /\ teacher' = [teacher EXCEPT ![r] = IF did[r] THEN Append(@, steps[r]) ELSE @]
  /\ pc' = [pc EXCEPT ![r] = "done"]
  /\ UNCHANGED <<work, call, progress, cutting, logp, grads, scale, trained, norm, steps, did>>

Rank(r) ==
  \/ Split(r, "logp", "logpCount", "logpRun")
  \/ rearrange_micro_batches(r, "logpCount", "logpRun")
  \/ LogpForward(r) \/ LogpNext(r) \/ LogpEnd(r)
  \/ Split(r, "mini", "count", "run")
  \/ rearrange_micro_batches(r, "count", "run")
  \/ Forward(r) \/ Backward(r) \/ ClipEnter(r) \/ _optimizer_step(r) \/ _update_teacher(r)

Next == _balance_batch \/ \E r \in Ranks : Rank(r)

Spec == Init /\ [][Next]_vars
FairSpec == Spec /\ WF_vars(_balance_batch) /\ \A r \in Ranks : WF_vars(Rank(r))

Finished == \A r \in Ranks : pc[r] = "done"

-----------------------------------------------------------------------------
(***************************************************************************)
(* Properties                                                              *)
(***************************************************************************)

\* Ranks that wait for one another are in the same collective operation,
\* though each cut its own samples: otherwise they hang or add up tensors of
\* different layers.
CollectivesMatch ==
  \A r, s \in Ranks : call[r].n = call[s].n => call[r].kind = call[s].kind

\* When the gradient is applied it holds each sample of the mini-batch exactly
\* once, and the scale factors of its micro-batches add up to the share of the
\* mini-batch that is there (without use_dynamic_bsz only when all of it is).
GradientOfTheMiniBatch ==
  \A r \in Ranks : pc[r] = "step" =>
    /\ Len(grads[r]) = Len(Mini(r))
    /\ Range(grads[r]) = Range(Mini(r))
    /\ dynamic \/ Len(Mini(r)) = MiniSize => scale[r] = Len(Mini(r))

\* How often i stands in s.
Times(s, i) == Cardinality({k \in DOMAIN s : s[k] = i})

\* Over all ranks every sample of the batch is trained on once per epoch.
EverySampleEachEpoch ==
  Finished => \A i \in Rows :
    LET times == [r \in Ranks |-> Times(trained[r], i)]
    IN MapThenSumSet(LAMBDA r : times[r], Ranks) = Epochs

\* The log probabilities a rank returns stand in the order of its samples,
\* whatever order its micro-batches had.
LogProbsInPlace == \A r \in Ranks : pc[r] = "mini" => logp[r] = local[r]

\* All ranks end with the same student and the same teacher.
RanksAgree ==
  Finished => \A r, s \in Ranks : steps[r] = steps[s] /\ teacher[r] = teacher[s]

\* No rank waits forever for the others.
UpdateEnds == <>Finished

=============================================================================
