---------------------------- MODULE KarmarkarKarp ----------------------------
(***************************************************************************)
(* seqlen_balancing.py: the largest differencing method, which both the    *)
(* balancing of a batch over the ranks (equal numbers of samples) and the  *)
(* packing of a rank's samples into micro-batches rest on.                 *)
(*                                                                         *)
(* A state is K sets in decreasing order. The two states of largest spread *)
(* are merged, the largest set of one with the smallest of the other,      *)
(* until one state is left. Comparisons of equal sums and sizes, which the *)
(* code decides by comparing item lists, may fall either way.              *)
(***************************************************************************)
EXTENDS Integers, Sequences, FiniteSets, Functions, FiniteSetsExt

CONSTANTS
  K,          \* partitions to make
  Inputs,     \* token counts of the samples, a set of sequences
  MaxTokens   \* max_token_len of rearrange_micro_batches

ASSUME KAssumption == K \in Nat \ {0}
ASSUME InputsAssumption == Inputs \subseteq Seq(Nat)
ASSUME TokensAssumption == MaxTokens \in Nat \ {0}

VARIABLES
  lens,     \* tokens of each item
  w,        \* workload of each item
  equal,    \* equal_size
  heap      \* states_pq

partitionVars == <<lens, w, equal, heap>>

Items == DOMAIN lens
Parts == 1 .. K

calculate_workload(l) == 24576 * l + l * l

\* rearrange_micro_batches: as many micro-batches as the tokens fill.
MicroCount ==
  LET total == MapThenSumSet(LAMBDA i : lens[i], Items) IN
    Min({Cardinality(Items), (total + MaxTokens - 1) \div MaxTokens})

(***************************************************************************)
(* class Set and class State                                               *)
(***************************************************************************)
EmptySet == [items |-> {}, sum |-> 0]
Single(i) == [items |-> {i}, sum |-> w[i]]
MergeSet(a, b) == [items |-> a.items \cup b.items, sum |-> a.sum + b.sum]

Less(a, b) ==
  \/ a.sum < b.sum
  \/ a.sum = b.sum /\ Cardinality(a.items) < Cardinality(b.items)

MutAnyOrder(s) == TRUE
Decreasing(s) == \A i, j \in Parts : i < j => ~Less(s[i], s[j])

Spread(s) == s[1].sum - s[K].sum

\* State.__lt__ on the heap: s is popped before t.
PoppedBefore(s, t) ==
  \/ Spread(s) > Spread(t)
  \/ Spread(s) = Spread(t) /\ Less(t[1], s[1])

Least(S) == {s \in S : \A t \in S : ~PoppedBefore(t, s)}

\* State.merge, before the sets are sorted again.
MutSameOrder(s, t) == [i \in Parts |-> MergeSet(s[i], t[i])]
MergeState(s, t) == [i \in Parts |-> MergeSet(s[i], t[K + 1 - i])]

(***************************************************************************)
(* karmarkar_karp                                                          *)
(***************************************************************************)

\* The position of an item in sorted_seqlen_list, from 0.
Position(i) == Cardinality({j \in Items : w[j] < w[i] \/ (w[j] = w[i] /\ j < i)})

\* K neighbours of that list make one state, the largest first; without
\* equal_size every item makes a state of its own.
Group(g) ==
  [i \in Parts |-> Single(CHOOSE j \in Items : Position(j) = K * (g + 1) - i)]
Alone(j) == [i \in Parts |-> IF i = 1 THEN Single(j) ELSE EmptySet]

MutWithoutFirst ==
  IF equal THEN {Group(g) : g \in 1 .. (Cardinality(Items) \div K) - 1}
           ELSE {Alone(j) : j \in Items}
InitialStates ==
  IF equal THEN {Group(g) : g \in 0 .. (Cardinality(Items) \div K) - 1}
           ELSE {Alone(j) : j \in Items}

\* get_seqlen_balanced_partitions asserts what is required of its input.
PartitionInit ==
  /\ lens \in Inputs
  /\ w = [i \in Items |-> calculate_workload(lens[i])]
  /\ equal \in BOOLEAN
  /\ Cardinality(Items) >= K
  /\ equal => Cardinality(Items) % K = 0
  /\ heap = InitialStates

Merge ==
  \E s \in Least(heap) : \E t \in Least(heap \ {s}) :
    \E p \in Bijection(Parts, Parts) :
      LET sorted == [i \in Parts |-> MergeState(s, t)[p[i]]] IN
        /\ Decreasing(sorted)
        /\ heap' = (heap \ {s, t}) \cup {sorted}
        /\ UNCHANGED <<lens, w, equal>>

PartitionNext == Merge

PartitionSpec == PartitionInit /\ [][PartitionNext]_partitionVars

Finished == Cardinality(heap) = 1

-----------------------------------------------------------------------------
(***************************************************************************)
(* Properties                                                              *)
(***************************************************************************)

\* The sets of all states on the heap divide the items: none is lost and
\* none is in two partitions, so no sample is skipped or trained on twice.
EachItemOnce ==
  /\ UNION {s[i].items : s \in heap, i \in Parts} = Items
  /\ \A s, t \in heap : \A i, j \in Parts :
       <<s, i>> # <<t, j>> => s[i].items \cap t[j].items = {}

\* No partition ever exceeds another by more than one item: the balance that
\* merging in opposite order is for.
WithinOneItem ==
  \A s \in heap : \E m \in Items : \A i, j \in Parts : s[i].sum - s[j].sum <= w[m]

\* What callers get: no empty micro-batch (the assertion of
\* _check_and_sort_partitions never fails), partitions of equal size when
\* asked for, and sums that are those of the items.
ResultValid ==
  Finished =>
    \A s \in heap : \A i \in Parts :
      /\ s[i].items # {}
      /\ equal => Cardinality(s[i].items) * K = Cardinality(Items)
      /\ s[i].sum = MapThenSumSet(LAMBDA j : w[j], s[i].items)

\* seqlen_balancing.py:362: "max_token_len (int): max sum of attention_mask
\* per micro-batch".
MicroBatchWithinMaxTokens ==
  Finished /\ ~equal /\ K = MicroCount =>
    \A s \in heap : \A i \in Parts :
      MapThenSumSet(LAMBDA j : lens[j], s[i].items) <= MaxTokens

=============================================================================
