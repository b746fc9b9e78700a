--------------------------- MODULE MicroBatchProofs ---------------------------
(***************************************************************************)
(* Theorems about the two computations every micro-batch goes through.     *)
(*                                                                         *)
(* KarmarkarKarp, which packs it, for any number of parts, any lengths and *)
(* both modes:                                                             *)
(*   - EachItemOnceTheorem: no item is lost or doubled;                    *)
(*   - WithinOneItemTheorem: two parts differ by at most one item;         *)
(*   - ResultValidTheorem: the result is a partition without empty part.   *)
(*                                                                         *)
(* TokenWeights, which weights its tokens, for micro-batches of any size,  *)
(* any tokens, gates and options. The weights are a function of the valid  *)
(* tokens only: each step of their computation is shown to give the same   *)
(* for two arrays of tokens that agree where a negative view exists        *)
(* (PaddingIgnored). The extrapolation is a natural number, 0 where a      *)
(* token is not admissible, also after the frequency decay                 *)
(* (RitualNotFavoured); so every raw weight is at least one, their sum     *)
(* exceeds the lower bound of the divisor, and dividing by the mean keeps  *)
(* the sum (LossScaleKept).                                                *)
(***************************************************************************)
EXTENDS KarmarkarKarp, TokenWeights, SumTheorems

n == Len(lens)

InputOK ==
  /\ lens \in Seq(Nat)
  /\ w \in [Items -> Nat]
  /\ equal \in BOOLEAN
  /\ n >= K
  /\ equal => n % K = 0

SetType == [items : SUBSET Items, sum : Nat]

\* The sums of a state decrease.
Ordered(s) == \A i, j \in Parts : i <= j => s[j].sum <= s[i].sum

HeapOK == \A s \in heap : s \in [Parts -> SetType] /\ Ordered(s)

\* EachItemOnce, with the union written out.
Covers == \A x \in Items : \E s \in heap : \E i \in Parts : x \in s[i].items
Apart ==
  \A s, t \in heap : \A i, j \in Parts :
    <<s, i>> # <<t, j>> => s[i].items \cap t[j].items = {}

BalanceInv == InputOK /\ HeapOK /\ WithinOneItem /\ Covers /\ Apart

----------------------------------------------------------------------------
(***************************************************************************)
(* The positions of the items are 0 .. n-1, each taken once.               *)
(***************************************************************************)

Before(j, i) == w[j] < w[i] \/ (w[j] = w[i] /\ j < i)
Ahead(i) == {j \in Items : Before(j, i)}

LEMMA ItemsFinite ==
  ASSUME InputOK
  PROVE  /\ n \in Nat /\ Items = 1 .. n /\ IsFiniteSet(Items) /\ Cardinality(Items) = n
<1>1. n \in Nat /\ Items = 1 .. n
  BY DEF InputOK, n, Items
<1> QED BY <1>1, FS_Interval

LEMMA PositionRange ==
  ASSUME InputOK, NEW i \in Items
  PROVE  Position(i) \in 0 .. n - 1 /\ IsFiniteSet(Ahead(i)) /\ Position(i) = Cardinality(Ahead(i))
<1>1. Position(i) = Cardinality(Ahead(i))
  BY DEF Position, Ahead, Before
<1>2. IsFiniteSet(Items \ {i}) /\ Cardinality(Items \ {i}) = n - 1
  BY ItemsFinite, FS_RemoveElement
<1>3. Ahead(i) \in SUBSET (Items \ {i})
  BY ItemsFinite DEF Ahead, Before, InputOK
<1>4. IsFiniteSet(Ahead(i)) /\ Cardinality(Ahead(i)) <= n - 1
  BY <1>2, <1>3, FS_Subset
<1>5. Cardinality(Ahead(i)) \in Nat
  BY <1>4, FS_CardinalityType
<1> QED BY <1>1, <1>4, <1>5, ItemsFinite

LEMMA PositionMonotone ==
  ASSUME InputOK, NEW i \in Items, NEW j \in Items, Before(j, i)
  PROVE  Position(j) < Position(i)
<1>1. Ahead(j) \in SUBSET (Ahead(i) \ {j}) /\ j \in Ahead(i)
  BY ItemsFinite DEF Ahead, Before, InputOK
<1>2. IsFiniteSet(Ahead(i)) /\ Cardinality(Ahead(i)) \in Nat /\ Cardinality(Ahead(j)) \in Nat
  BY PositionRange, FS_CardinalityType
<1>3. IsFiniteSet(Ahead(i) \ {j}) /\ Cardinality(Ahead(i) \ {j}) = Cardinality(Ahead(i)) - 1
  BY <1>1, <1>2, FS_RemoveElement
<1>4. Cardinality(Ahead(j)) <= Cardinality(Ahead(i) \ {j})
  BY <1>1, <1>3, FS_Subset
<1> QED BY <1>2, <1>3, <1>4, PositionRange

LEMMA PositionBijective ==
  ASSUME InputOK
  PROVE  /\ \A i, j \in Items : Position(i) = Position(j) => i = j
         /\ \A p \in 0 .. n - 1 : \E i \in Items : Position(i) = p
<1> DEFINE f == [i \in Items |-> Position(i)]
<1>1. \A i, j \in Items : i # j => Before(i, j) \/ Before(j, i)
  BY ItemsFinite DEF Before, InputOK
<1>2. \A i \in Items : Position(i) \in 0 .. n - 1
  BY PositionRange
<1>3. ASSUME NEW i \in Items, NEW j \in Items, Position(i) = Position(j) PROVE i = j
  <2>1. CASE Before(i, j)
    <3>1. Position(i) < Position(j)
      BY <2>1, PositionMonotone
    <3> QED BY <1>2, <1>3, <3>1, ItemsFinite
  <2>2. CASE Before(j, i)
    <3>1. Position(j) < Position(i)
      BY <2>2, PositionMonotone
    <3> QED BY <1>2, <1>3, <3>1, ItemsFinite
  <2> QED BY <1>1, <2>1, <2>2
<1>4. f \in Injection(Items, 0 .. n - 1)
  BY <1>2, <1>3 DEF Injection, IsInjective
<1>5. IsFiniteSet(0 .. n - 1) /\ Cardinality(0 .. n - 1) = n
  <2>1. n \in Nat /\ 0 \in Int /\ n - 1 \in Int
    BY ItemsFinite
  <2>2. /\ IsFiniteSet(0 .. (n - 1))
        /\ Cardinality(0 .. (n - 1)) = IF 0 > n - 1 THEN 0 ELSE n - 1 - 0 + 1
    BY <2>1, FS_Interval
  <2> QED BY <2>1, <2>2
<1>6. f \in Surjection(Items, 0 .. n - 1)
  <2> HIDE DEF f
  <2>1. Cardinality(Items) = Cardinality(0 .. n - 1) <=> f \in Surjection(Items, 0 .. n - 1)
    BY <1>4, <1>5, FS_Injection
  <2> QED BY <1>5, <2>1, ItemsFinite
<1> QED BY <1>3, <1>6 DEF Surjection

----------------------------------------------------------------------------
(***************************************************************************)
(* The first states                                                        *)
(***************************************************************************)

LEMMA SumsDecrease ==
  ASSUME NEW s \in [Parts -> SetType], Decreasing(s)
  PROVE  Ordered(s)
<1> SUFFICES ASSUME NEW i \in Parts, NEW j \in Parts, i <= j
             PROVE  s[j].sum <= s[i].sum
  BY DEF Ordered
<1>1. s[i].sum \in Nat /\ s[j].sum \in Nat
  BY DEF SetType
<1>2. i = j \/ ~Less(s[i], s[j])
  BY KAssumption DEF Decreasing, Parts
<1> QED BY <1>1, <1>2 DEF Less

Groups == 0 .. (Cardinality(Items) \div K) - 1

\* The item that Group(g) has in its set i.
At(g, i) == CHOOSE j \in Items : Position(j) = K * (g + 1) - i

LEMMA GroupPositions ==
  ASSUME InputOK, equal, NEW g \in Groups, NEW i \in Parts
  PROVE  At(g, i) \in Items /\ Position(At(g, i)) = K * (g + 1) - i
<1>1. Cardinality(Items) = n /\ n \in Nat /\ n % K = 0 /\ K \in Nat \ {0}
  BY ItemsFinite, KAssumption DEF InputOK
<1>2. n = K * (n \div K) /\ n \div K \in Nat
  BY <1>1
<1>3. g \in Nat /\ g + 1 <= n \div K /\ i \in 1 .. K
  BY <1>1, <1>2 DEF Parts, Groups
<1>4. K * (g + 1) <= K * (n \div K) /\ K <= K * (g + 1) /\ K * (g + 1) \in Nat
  BY <1>1, <1>2, <1>3
<1>5. K * (g + 1) - i \in 0 .. n - 1
  BY <1>1, <1>2, <1>3, <1>4
<1> QED BY <1>5, PositionBijective DEF At

LEMMA InitInput == PartitionInit => InputOK
<1> SUFFICES ASSUME PartitionInit PROVE InputOK
  OBVIOUS
<1>1. lens \in Seq(Nat) /\ equal \in BOOLEAN
  BY InputsAssumption DEF PartitionInit
<1>2. n \in Nat /\ Items = 1 .. n /\ Cardinality(Items) = n
  BY <1>1, FS_Interval DEF n, Items
<1>3. w \in [Items -> Nat]
  <2>1. \A l \in Nat : calculate_workload(l) \in Nat
    BY DEF calculate_workload
  <2>2. \A i \in Items : lens[i] \in Nat
    BY <1>1 DEF Items
  <2>3. \A i \in Items : calculate_workload(lens[i]) \in Nat
    BY <2>1, <2>2
  <2>4. w = [i \in Items |-> calculate_workload(lens[i])]
    BY DEF PartitionInit
  <2> QED BY <2>3, <2>4
<1> QED BY <1>1, <1>2, <1>3 DEF PartitionInit, InputOK

LEMMA InitAlone ==
  ASSUME PartitionInit, ~equal
  PROVE  HeapOK /\ WithinOneItem /\ Covers /\ Apart
<1>1. InputOK /\ K \in Nat \ {0} /\ Items = 1 .. n /\ n \in Nat /\ w \in [Items -> Nat]
  BY InitInput, KAssumption, ItemsFinite DEF InputOK
<1>2. heap = {Alone(j) : j \in Items}
  BY DEF PartitionInit, InitialStates
<1>3. \A j \in Items :
        /\ Alone(j) \in [Parts -> SetType]
        /\ \A i \in Parts : Alone(j)[i] = IF i = 1 THEN [items |-> {j}, sum |-> w[j]]
                                                   ELSE [items |-> {}, sum |-> 0]
  BY <1>1 DEF Alone, Single, EmptySet, SetType
<1>a. \A j \in Items, i \in Parts :
        /\ Alone(j)[i].items = (IF i = 1 THEN {j} ELSE {})
        /\ Alone(j)[i].sum = (IF i = 1 THEN w[j] ELSE 0)
  <2> SUFFICES ASSUME NEW j \in Items, NEW i \in Parts
               PROVE  /\ Alone(j)[i].items = (IF i = 1 THEN {j} ELSE {})
                      /\ Alone(j)[i].sum = (IF i = 1 THEN w[j] ELSE 0)
    OBVIOUS
  <2>1. CASE i = 1
    <3>1. Alone(j)[i] = [items |-> {j}, sum |-> w[j]]
      BY <1>3, <2>1
    <3> QED BY <2>1, <3>1
  <2>2. CASE i # 1
    <3>1. Alone(j)[i] = [items |-> {}, sum |-> 0]
      BY <1>3, <2>2
    <3> QED BY <2>2, <3>1
  <2> QED BY <2>1, <2>2
<1>4. ASSUME NEW j \in Items, NEW a \in Parts, NEW b \in Parts
      PROVE  /\ a <= b => Alone(j)[b].sum <= Alone(j)[a].sum
             /\ Alone(j)[a].sum - Alone(j)[b].sum <= w[j]
  <2>1. w[j] \in Nat
    BY <1>1
  <2>2. Alone(j)[a].sum = (IF a = 1 THEN w[j] ELSE 0)
    BY <1>a
  <2>3. Alone(j)[b].sum = (IF b = 1 THEN w[j] ELSE 0)
    BY <1>a
  <2> QED BY <1>1, <2>1, <2>2, <2>3 DEF Parts
<1>5. HeapOK
  <2>1. \A j \in Items : Ordered(Alone(j))
    BY <1>4 DEF Ordered
  <2>2. \A j \in Items : Alone(j) \in [Parts -> SetType]
    BY <1>3
  <2> HIDE DEF Ordered, SetType
  <2> QED BY <1>2, <2>1, <2>2 DEF HeapOK
<1>6. WithinOneItem
  BY <1>2, <1>4 DEF WithinOneItem
<1>7. Covers
  <2>1. 1 \in Parts
    BY <1>1 DEF Parts
  <2> SUFFICES ASSUME NEW x \in Items
               PROVE  \E s \in heap : \E i \in Parts : x \in s[i].items
    BY DEF Covers
  <2>2. Alone(x)[1].items = {x}
    BY <1>a, <2>1
  <2>3. Alone(x) \in heap
    BY <1>2
  <2> QED BY <2>1, <2>2, <2>3
<1>8. Apart
  <2> SUFFICES ASSUME NEW j \in Items, NEW l \in Items, NEW a \in Parts, NEW b \in Parts,
                      <<Alone(j), a>> # <<Alone(l), b>>
               PROVE  Alone(j)[a].items \cap Alone(l)[b].items = {}
    BY <1>2 DEF Apart
  <2>1. j # l \/ a # b
    OBVIOUS
  <2>2. CASE a = 1 /\ b = 1
    <3>1. Alone(j)[a].items = {j} /\ Alone(l)[b].items = {l}
      BY <1>a, <2>2
    <3>2. j # l
      BY <2>1, <2>2
    <3> QED BY <3>1, <3>2
  <2>3. CASE a # 1 \/ b # 1
    BY <1>a, <2>3
  <2> QED BY <2>2, <2>3
<1> QED BY <1>5, <1>6, <1>7, <1>8

LEMMA InitGroups ==
  ASSUME PartitionInit, equal
  PROVE  HeapOK /\ WithinOneItem /\ Covers /\ Apart
<1>1. InputOK /\ K \in Nat \ {0} /\ Items = 1 .. n /\ n \in Nat /\ w \in [Items -> Nat]
      /\ Cardinality(Items) = n /\ n % K = 0
  BY InitInput, KAssumption, ItemsFinite DEF InputOK
<1>2. heap = {Group(g) : g \in Groups}
  BY DEF PartitionInit, InitialStates, Groups
<1>3. ASSUME NEW g \in Groups, NEW i \in Parts
      PROVE  /\ Group(g)[i] = [items |-> {At(g, i)}, sum |-> w[At(g, i)]]
             /\ At(g, i) \in Items /\ w[At(g, i)] \in Nat
             /\ Position(At(g, i)) = K * (g + 1) - i
  BY <1>1, GroupPositions DEF Group, Single, At
<1>a. \A g \in Groups, i \in Parts :
        /\ Group(g)[i].items = {At(g, i)} /\ Group(g)[i].sum = w[At(g, i)]
        /\ At(g, i) \in Items /\ w[At(g, i)] \in Nat
        /\ Position(At(g, i)) = K * (g + 1) - i
  <2> SUFFICES ASSUME NEW g \in Groups, NEW i \in Parts
               PROVE  /\ Group(g)[i].items = {At(g, i)} /\ Group(g)[i].sum = w[At(g, i)]
                      /\ At(g, i) \in Items /\ w[At(g, i)] \in Nat
                      /\ Position(At(g, i)) = K * (g + 1) - i
    OBVIOUS
  <2>1. Group(g)[i] = [items |-> {At(g, i)}, sum |-> w[At(g, i)]]
    BY <1>3
  <2>2. Group(g)[i].items = {At(g, i)} /\ Group(g)[i].sum = w[At(g, i)]
    BY <2>1
  <2> QED BY <1>3, <2>2
<1>4. \A g \in Groups : Group(g) \in [Parts -> SetType]
  <2> SUFFICES ASSUME NEW g \in Groups PROVE Group(g) \in [Parts -> SetType]
    OBVIOUS
  <2>1. Group(g) = [i \in Parts |-> [items |-> {At(g, i)}, sum |-> w[At(g, i)]]]
    BY DEF Group, Single, At
  <2> QED BY <1>a, <2>1 DEF SetType
<1>5. n = K * (n \div K) /\ n \div K \in Nat
  BY <1>1
<1>6. \A g \in Groups : g \in Nat /\ K * (g + 1) \in Nat
  BY <1>1, <1>5 DEF Groups
<1>7. ASSUME NEW g \in Groups, NEW a \in Parts, NEW b \in Parts, a <= b
      PROVE  w[At(g, b)] <= w[At(g, a)]
  <2>1. a \in Nat /\ b \in Nat
    BY <1>1 DEF Parts
  <2>2. Position(At(g, b)) <= Position(At(g, a))
    BY <1>a, <1>6, <1>7, <2>1
  <2>3. Position(At(g, a)) \in Nat /\ Position(At(g, b)) \in Nat
    BY <1>1, <1>a, PositionRange
  <2>4. ~Before(At(g, a), At(g, b))
    BY <1>1, <1>a, <2>2, <2>3, PositionMonotone
  <2> QED BY <1>a, <2>4 DEF Before
<1>8. HeapOK
  BY <1>2, <1>a, <1>4, <1>7 DEF HeapOK, Ordered
<1>9. WithinOneItem
  <2> SUFFICES ASSUME NEW g \in Groups
               PROVE  \E m \in Items : \A i, j \in Parts :
                        Group(g)[i].sum - Group(g)[j].sum <= w[m]
    BY <1>2 DEF WithinOneItem
  <2>1. 1 \in Parts /\ \A i \in Parts : 1 <= i
    BY <1>1 DEF Parts
  <2>2. \A i, j \in Parts : Group(g)[i].sum - Group(g)[j].sum <= w[At(g, 1)]
    <3> SUFFICES ASSUME NEW i \in Parts, NEW j \in Parts
                 PROVE  Group(g)[i].sum - Group(g)[j].sum <= w[At(g, 1)]
      OBVIOUS
    <3>1. Group(g)[i].sum = w[At(g, i)] /\ Group(g)[j].sum = w[At(g, j)]
      BY <1>a
    <3>2. w[At(g, i)] <= w[At(g, 1)]
      BY <1>7, <2>1
    <3>3. w[At(g, i)] \in Nat /\ w[At(g, j)] \in Nat /\ w[At(g, 1)] \in Nat
      BY <1>a, <2>1
    <3> QED BY <3>1, <3>2, <3>3
  <2> QED BY <1>a, <2>1, <2>2
<1>10. Covers
  <2> SUFFICES ASSUME NEW x \in Items
               PROVE  \E g \in Groups : \E i \in Parts : x \in Group(g)[i].items
    BY <1>2 DEF Covers
  <2> DEFINE p == Position(x)
             g == p \div K
             i == K * (g + 1) - p
  <2>1. p \in 0 .. n - 1
    BY <1>1, PositionRange
  <2> HIDE DEF p
  <2>2. p \in Nat /\ g \in Nat /\ p = (K * g) + (p % K) /\ p % K \in 0 .. K - 1
    BY <1>1, <2>1
  <2>3. K * (g + 1) = K * g + K
    BY <1>1, <2>2
  <2>4. i \in Parts
    BY <1>1, <2>2, <2>3 DEF Parts
  <2>5. g \in Groups
    <3>1. K * g < K * (n \div K)
      BY <1>1, <1>5, <2>1, <2>2
    <3>2. g < n \div K
      BY <1>1, <1>5, <2>2, <3>1
    <3>3. Groups = 0 .. (n \div K) - 1
      BY <1>1 DEF Groups
    <3>4. g \in Nat
      BY <2>2
    <3> HIDE DEF g
    <3> QED BY <1>5, <3>2, <3>3, <3>4
  <2>6. Position(At(g, i)) = p
    <3>1. Position(At(g, i)) = K * (g + 1) - i
      BY <1>a, <2>4, <2>5
    <3> QED BY <1>1, <2>2, <2>3, <3>1
  <2>7. At(g, i) = x
    BY <1>1, <1>a, <2>4, <2>5, <2>6, PositionBijective DEF p
  <2> HIDE DEF g, i
  <2> QED BY <1>a, <2>4, <2>5, <2>7
<1>11. ASSUME NEW g \in Groups, NEW h \in Groups, NEW i \in Parts, NEW j \in Parts,
              <<g, i>> # <<h, j>>
       PROVE  At(g, i) # At(h, j)
  <2>1. i \in 1 .. K /\ j \in 1 .. K /\ g \in Nat /\ h \in Nat
    BY <1>6 DEF Parts
  <2>2. K * (g + 1) - i # K * (h + 1) - j
    <3>1. CASE g = h
      BY <1>1, <1>6, <1>11, <2>1, <3>1
    <3>2. CASE g + 1 <= h
      <4> DEFINE a == K * (g + 1)
                 b == K * h
                 c == K * (h + 1)
      <4>1. a \in Int /\ b \in Int /\ c \in Int /\ a <= b /\ c = b + K
        BY <1>1, <2>1, <3>2
      <4> HIDE DEF a, b, c
      <4>2. a - i # c - j
        BY <1>1, <2>1, <4>1
      <4> QED BY <4>2 DEF a, c
    <3>3. CASE h + 1 <= g
      <4> DEFINE a == K * (h + 1)
                 b == K * g
                 c == K * (g + 1)
      <4>1. a \in Int /\ b \in Int /\ c \in Int /\ a <= b /\ c = b + K
        BY <1>1, <2>1, <3>3
      <4> HIDE DEF a, b, c
      <4>2. c - i # a - j
        BY <1>1, <2>1, <4>1
      <4> QED BY <4>2 DEF a, c
    <3> QED BY <2>1, <3>1, <3>2, <3>3
  <2> QED BY <1>a, <2>2
<1>12. Apart
  <2> SUFFICES ASSUME NEW g \in Groups, NEW h \in Groups, NEW i \in Parts, NEW j \in Parts,
                      <<Group(g), i>> # <<Group(h), j>>
               PROVE  Group(g)[i].items \cap Group(h)[j].items = {}
    BY <1>2 DEF Apart
  <2>1. <<g, i>> # <<h, j>>
    OBVIOUS
  <2>2. At(g, i) # At(h, j)
    BY <1>11, <2>1
  <2>3. Group(g)[i].items = {At(g, i)} /\ Group(h)[j].items = {At(h, j)}
    BY <1>a
  <2> QED BY <2>2, <2>3
<1> QED BY <1>8, <1>9, <1>10, <1>12

----------------------------------------------------------------------------
(***************************************************************************)
(* Merging                                                                 *)
(***************************************************************************)

\* Merged in opposite order, two states that are within one item of balance
\* make one that is: where the first has a larger sum the second has a smaller.
LEMMA OppositeOrder ==
  ASSUME InputOK, NEW s \in [Parts -> SetType], NEW t \in [Parts -> SetType],
         Ordered(s), Ordered(t),
         NEW m \in Items, \A i, j \in Parts : s[i].sum - s[j].sum <= w[m],
         NEW l \in Items, \A i, j \in Parts : t[i].sum - t[j].sum <= w[l]
  PROVE  \E e \in {m, l} : \A i, j \in Parts :
           MergeState(s, t)[i].sum - MergeState(s, t)[j].sum <= w[e]
<1>1. K \in Nat /\ Parts = 1 .. K
  BY KAssumption DEF Parts
<1>2. \A i \in Parts :
        /\ K + 1 - i \in Parts
        /\ MergeState(s, t)[i].sum = s[i].sum + t[K + 1 - i].sum
        /\ s[i].sum \in Nat /\ t[i].sum \in Nat
  BY <1>1 DEF MergeState, MergeSet, SetType
<1>3. w[m] \in Nat /\ w[l] \in Nat
  BY DEF InputOK
<1>4. ASSUME NEW i \in Parts, NEW j \in Parts, NEW b \in Nat, w[m] <= b, w[l] <= b
      PROVE  MergeState(s, t)[i].sum - MergeState(s, t)[j].sum <= b
  <2> DEFINE p == K + 1 - i
             q == K + 1 - j
  <2>1. /\ MergeState(s, t)[i].sum = s[i].sum + t[p].sum
        /\ MergeState(s, t)[j].sum = s[j].sum + t[q].sum
        /\ p \in Parts /\ q \in Parts
        /\ s[i].sum \in Nat /\ s[j].sum \in Nat
    BY <1>2
  <2>2. t[p].sum \in Nat /\ t[q].sum \in Nat
    BY <1>2, <2>1
  <2>3. (i <= j => q <= p) /\ (j <= i => p <= q) /\ (i <= j \/ j <= i)
    BY <1>1
  <2> HIDE DEF p, q
  <2>4. CASE i <= j
    <3>1. s[i].sum - s[j].sum <= w[m] /\ t[p].sum <= t[q].sum
      BY <2>1, <2>3, <2>4 DEF Ordered
    <3> QED BY <1>3, <1>4, <2>1, <2>2, <3>1
  <2>5. CASE j <= i
    <3>1. t[p].sum - t[q].sum <= w[l] /\ s[i].sum <= s[j].sum
      BY <2>1, <2>3, <2>5 DEF Ordered
    <3> QED BY <1>3, <1>4, <2>1, <2>2, <3>1
  <2> QED BY <2>3, <2>4, <2>5
<1>5. CASE w[m] <= w[l]
  BY <1>3, <1>4, <1>5
<1>6. CASE w[l] <= w[m]
  BY <1>3, <1>4, <1>6
<1> QED BY <1>3, <1>5, <1>6

LEMMA MergeStep ==
  ASSUME BalanceInv, Merge
  PROVE  BalanceInv'
<1> DEFINE Sorted(s, t, p) == [i \in Parts |-> MergeState(s, t)[p[i]]]
           Merges(s, t, p) == /\ Decreasing(Sorted(s, t, p))
                              /\ heap' = (heap \ {s, t}) \cup {Sorted(s, t, p)}
                              /\ UNCHANGED <<lens, w, equal>>
<1>1. PICK s \in heap, t \in heap, p \in Bijection(Parts, Parts) : t # s /\ Merges(s, t, p)
  <2>1. \E s \in Least(heap) : \E t \in Least(heap \ {s}) :
          \E p \in Bijection(Parts, Parts) : Merges(s, t, p)
    BY Zenon DEF Merge
  <2> HIDE DEF Merges
  <2>2. Least(heap) \subseteq heap /\ \A x : Least(heap \ {x}) \subseteq heap \ {x}
    BY DEF Least
  <2> QED BY <2>1, <2>2, Zenon
<1> DEFINE u == [i \in Parts |-> MergeState(s, t)[p[i]]]
<1>2. /\ t # s /\ Decreasing(u) /\ heap' = (heap \ {s, t}) \cup {u}
      /\ UNCHANGED <<lens, w, equal>>
  BY <1>1
<1>3. Items' = Items
  BY <1>2 DEF Items
<1>4. /\ p \in [Parts -> Parts]
      /\ \A i, j \in Parts : p[i] = p[j] => i = j
      /\ \A a \in Parts : \E i \in Parts : p[i] = a
  BY DEF Bijection, Injection, Surjection, IsInjective
<1>5. /\ s \in [Parts -> SetType] /\ t \in [Parts -> SetType]
      /\ Ordered(s) /\ Ordered(t)
  BY DEF BalanceInv, HeapOK
<1>6. K \in Nat /\ Parts = 1 .. K /\ \A a \in Parts : K + 1 - a \in Parts
  BY KAssumption DEF Parts
<1>7. \A i \in Parts :
        /\ u[i] = MergeState(s, t)[p[i]]
        /\ u[i].items = s[p[i]].items \cup t[K + 1 - p[i]].items
        /\ u[i].sum = s[p[i]].sum + t[K + 1 - p[i]].sum
  BY <1>4 DEF MergeState, MergeSet
<1>8. u \in [Parts -> SetType]
  <2>1. MergeState(s, t) \in [Parts -> SetType]
    BY <1>5, <1>6 DEF MergeState, MergeSet, SetType
  <2> QED BY <1>4, <2>1
<1>9. Ordered(u)
  <2> HIDE DEF u
  <2> QED BY <1>2, <1>8, SumsDecrease
<1> HIDE DEF u
<1>10. InputOK'
  BY <1>2, <1>3 DEF BalanceInv, InputOK, n
<1>11. HeapOK'
  <2> SUFFICES ASSUME NEW x \in heap' PROVE (x \in [Parts -> SetType] /\ Ordered(x))'
    BY DEF HeapOK
  <2>1. x \in [Parts -> SetType] /\ Ordered(x)
    BY <1>2, <1>8, <1>9 DEF BalanceInv, HeapOK
  <2> QED BY <1>3, <2>1 DEF SetType, Ordered
<1>12. WithinOneItem'
  <2>1. PICK m \in Items : \A i, j \in Parts : s[i].sum - s[j].sum <= w[m]
    BY DEF BalanceInv, WithinOneItem
  <2>2. PICK l \in Items : \A i, j \in Parts : t[i].sum - t[j].sum <= w[l]
    BY DEF BalanceInv, WithinOneItem
  <2>3. PICK e \in {m, l} : \A i, j \in Parts :
          MergeState(s, t)[i].sum - MergeState(s, t)[j].sum <= w[e]
    BY <1>5, <2>1, <2>2, OppositeOrder DEF BalanceInv
  <2>4. \A i, j \in Parts : u[i].sum - u[j].sum <= w[e]
    BY <1>4, <1>7, <2>3
  <2>5. ASSUME NEW x \in heap'
        PROVE  \E z \in Items : \A i, j \in Parts : x[i].sum - x[j].sum <= w[z]
    <3>1. CASE x = u
      BY <2>4, <3>1
    <3>2. CASE x \in heap
      BY <3>2 DEF BalanceInv, WithinOneItem
    <3> QED BY <1>2, <3>1, <3>2
  <2> QED BY <1>2, <1>3, <2>5 DEF WithinOneItem
<1>13. Covers'
  <2> SUFFICES ASSUME NEW x \in Items
               PROVE  \E y \in heap' : \E i \in Parts : x \in y[i].items
    BY <1>3 DEF Covers
  <2>1. PICK y \in heap, a \in Parts : x \in y[a].items
    BY DEF BalanceInv, Covers
  <2>2. CASE y = s
    <3>1. PICK i \in Parts : p[i] = a
      BY <1>4
    <3>2. x \in u[i].items
      BY <1>7, <2>1, <2>2, <3>1
    <3> QED BY <1>2, <3>2
  <2>3. CASE y = t
    <3>1. PICK i \in Parts : p[i] = K + 1 - a
      BY <1>4, <1>6
    <3>2. K + 1 - p[i] = a
      BY <1>6, <3>1
    <3>3. x \in u[i].items
      BY <1>7, <2>1, <2>3, <3>2
    <3> QED BY <1>2, <3>3
  <2>4. CASE y \in heap \ {s, t}
    BY <1>2, <2>1, <2>4
  <2> QED BY <2>2, <2>3, <2>4
<1>14. Apart'
  <2> SUFFICES ASSUME NEW x \in heap', NEW y \in heap', NEW i \in Parts, NEW j \in Parts,
                      <<x, i>> # <<y, j>>
               PROVE  x[i].items \cap y[j].items = {}
    BY DEF Apart
  <2>1. \A a, b \in heap : \A c, d \in Parts :
          a # b \/ c # d => a[c].items \cap b[d].items = {}
    BY DEF BalanceInv, Apart
  <2>2. s # t
    BY <1>2
  <2>3. \A c \in Parts : p[c] \in Parts /\ K + 1 - p[c] \in Parts
    BY <1>4, <1>6
  <2>4. \A z \in heap \ {s, t} : \A c, d \in Parts : u[c].items \cap z[d].items = {}
    BY <1>7, <2>1, <2>3
  <2>5. CASE x = u /\ y = u
    <3>1. i # j /\ p[i] # p[j] /\ K + 1 - p[i] # K + 1 - p[j]
      <4>1. i # j /\ p[i] # p[j]
        BY <1>4, <2>5
      <4>2. p[i] \in 1 .. K /\ p[j] \in 1 .. K
        BY <1>4, <1>6
      <4> QED BY <1>6, <4>1, <4>2
    <3>2. /\ s[p[i]].items \cap s[p[j]].items = {}
          /\ s[p[i]].items \cap t[K + 1 - p[j]].items = {}
          /\ t[K + 1 - p[i]].items \cap s[p[j]].items = {}
          /\ t[K + 1 - p[i]].items \cap t[K + 1 - p[j]].items = {}
      BY <2>1, <2>2, <2>3, <3>1
    <3> QED BY <1>7, <2>5, <3>2
  <2>6. CASE x = u /\ y \in heap \ {s, t}
    BY <2>4, <2>6
  <2>7. CASE x \in heap \ {s, t} /\ y = u
    BY <2>4, <2>7
  <2>8. CASE x \in heap /\ y \in heap
    BY <2>1, <2>8
  <2> QED BY <1>2, <2>5, <2>6, <2>7, <2>8
<1> QED BY <1>10, <1>11, <1>12, <1>13, <1>14 DEF BalanceInv

LEMMA BalanceTheorem == PartitionSpec => []BalanceInv
<1>1. PartitionInit => BalanceInv
  BY InitInput, InitAlone, InitGroups DEF BalanceInv
<1>2. BalanceInv /\ [PartitionNext]_partitionVars => BalanceInv'
  <2> SUFFICES ASSUME BalanceInv, [PartitionNext]_partitionVars PROVE BalanceInv'
    OBVIOUS
  <2>1. CASE Merge
    BY <2>1, MergeStep
  <2>2. CASE UNCHANGED partitionVars
    BY <2>2 DEF partitionVars, BalanceInv, InputOK, HeapOK, WithinOneItem, Covers, Apart, n, Items,
       SetType, Ordered
  <2> QED BY <2>1, <2>2 DEF PartitionNext
<1> QED BY <1>1, <1>2, PTL DEF PartitionSpec

\* For every number of partitions and every list of lengths, no partition of
\* any state, so none that the callers get, exceeds another by more than the
\* workload of one sample.
THEOREM WithinOneItemTheorem == PartitionSpec => []WithinOneItem
<1>1. BalanceInv => WithinOneItem
  BY DEF BalanceInv
<1> QED BY <1>1, BalanceTheorem, PTL

\* Every sample is in exactly one partition of one state, from the first
\* grouping to the result: none is skipped and none is trained on twice.
THEOREM EachItemOnceTheorem == PartitionSpec => []EachItemOnce
<1>1. BalanceInv => EachItemOnce
  <2> SUFFICES ASSUME BalanceInv PROVE EachItemOnce
    OBVIOUS
  <2>1. \A s \in heap, i \in Parts : s[i].items \subseteq Items
    BY DEF BalanceInv, HeapOK, SetType
  <2> QED BY <2>1 DEF BalanceInv, Covers, Apart, EachItemOnce
<1> QED BY <1>1, BalanceTheorem, PTL

----------------------------------------------------------------------------
(***************************************************************************)
(* The result                                                              *)
(***************************************************************************)

\* A set's sum is that of its items.
SumsOK == \A s \in heap : \A i \in Parts : s[i].sum = SumOver(w, s[i].items)

\* A state with an empty set has no set of two items: filling comes first.
FillsFirst ==
  \A s \in heap :
    \/ \A i \in Parts : s[i].items # {}
    \/ \A i \in Parts : \A x, y \in s[i].items : x = y

SameSizes ==
  equal => \A s \in heap : \A i, j \in Parts :
             Cardinality(s[i].items) = Cardinality(s[j].items)

ResultInv ==
  /\ IsFiniteSet(heap)
  /\ \A s \in heap : Decreasing(s)
  /\ SumsOK
  /\ FillsFirst
  /\ SameSizes

LEMMA PartsFinite ==
  ASSUME InputOK, NEW P \in SUBSET Items
  PROVE  IsFiniteSet(P) /\ Cardinality(P) \in Nat /\ Numbers(w, P)
BY ItemsFinite, FS_Subset, FS_CardinalityType DEF InputOK, Numbers

LEMMA InitResult == PartitionInit => ResultInv
<1> SUFFICES ASSUME PartitionInit PROVE ResultInv
  OBVIOUS
<1>1. InputOK /\ K \in Nat \ {0} /\ Items = 1 .. n /\ n \in Nat /\ w \in [Items -> Nat]
      /\ IsFiniteSet(Items) /\ Cardinality(Items) = n
  BY InitInput, KAssumption, ItemsFinite DEF InputOK
<1>2. CASE ~equal
  <2>1. heap = {Alone(j) : j \in Items}
    BY <1>2 DEF PartitionInit, InitialStates
  <2>2. \A j \in Items, i \in Parts :
          Alone(j)[i] = IF i = 1 THEN [items |-> {j}, sum |-> w[j]]
                                 ELSE [items |-> {}, sum |-> 0]
    BY DEF Alone, Single, EmptySet
  <2>3. \A j \in Items, i \in Parts :
          /\ Alone(j)[i].items = (IF i = 1 THEN {j} ELSE {})
          /\ Alone(j)[i].sum = (IF i = 1 THEN w[j] ELSE 0)
    <3> SUFFICES ASSUME NEW j \in Items, NEW i \in Parts
                 PROVE  /\ Alone(j)[i].items = (IF i = 1 THEN {j} ELSE {})
                        /\ Alone(j)[i].sum = (IF i = 1 THEN w[j] ELSE 0)
      OBVIOUS
    <3>1. CASE i = 1
      <4>1. Alone(j)[i] = [items |-> {j}, sum |-> w[j]]
        BY <2>2, <3>1
      <4> QED BY <3>1, <4>1
    <3>2. CASE i # 1
      <4>1. Alone(j)[i] = [items |-> {}, sum |-> 0]
        BY <2>2, <3>2
      <4> QED BY <3>2, <4>1
    <3> QED BY <3>1, <3>2
  <2>4. IsFiniteSet(heap)
    <3> DEFINE f == [j \in Items |-> Alone(j)]
    <3>1. f \in Surjection(Items, heap)
      BY <2>1 DEF Surjection
    <3> HIDE DEF f
    <3> QED BY <1>1, <3>1, FS_Surjection
  <2>5. ASSUME NEW j \in Items PROVE Decreasing(Alone(j))
    <3> SUFFICES ASSUME NEW a \in Parts, NEW b \in Parts, a < b
                 PROVE  ~Less(Alone(j)[a], Alone(j)[b])
      BY DEF Decreasing
    <3>1. b # 1 /\ w[j] \in Nat
      BY <1>1 DEF Parts
    <3>2. /\ Alone(j)[b].items = {} /\ Alone(j)[b].sum = 0
          /\ Alone(j)[a].items = (IF a = 1 THEN {j} ELSE {})
          /\ Alone(j)[a].sum = (IF a = 1 THEN w[j] ELSE 0)
      BY <2>3, <3>1
    <3>3. Cardinality({}) = 0 /\ Cardinality({j}) = 1
      BY FS_EmptySet, FS_Singleton
    <3>4. Cardinality(Alone(j)[a].items) \in Nat /\ Cardinality(Alone(j)[b].items) = 0
      BY <3>2, <3>3
    <3>5. Alone(j)[a].sum \in Nat
      BY <3>1, <3>2
    <3> QED BY <3>2, <3>4, <3>5 DEF Less
  <2>6. SumsOK
    <3> SUFFICES ASSUME NEW j \in Items, NEW i \in Parts
                 PROVE  Alone(j)[i].sum = SumOver(w, Alone(j)[i].items)
      BY <2>1 DEF SumsOK
    <3>1. w[j] \in Int
      BY <1>1
    <3>2. SumOver(w, {j}) = w[j] /\ SumOver(w, {}) = 0
      BY <3>1, SumOne, SumEmpty
    <3>3. /\ Alone(j)[i].items = (IF i = 1 THEN {j} ELSE {})
          /\ Alone(j)[i].sum = (IF i = 1 THEN w[j] ELSE 0)
      BY <2>3
    <3> QED BY <3>2, <3>3
  <2>7. FillsFirst
    <3>1. ASSUME NEW j \in Items, NEW i \in Parts
          PROVE  \A x, y \in Alone(j)[i].items : x = y
      <4>1. Alone(j)[i].items = (IF i = 1 THEN {j} ELSE {})
        BY <2>3
      <4> QED BY <4>1
    <3> QED BY <2>1, <3>1 DEF FillsFirst
  <2> QED BY <1>2, <2>1, <2>4, <2>5, <2>6, <2>7 DEF ResultInv, SameSizes
<1>3. CASE equal
  <2>1. heap = {Group(g) : g \in Groups}
    BY <1>3 DEF PartitionInit, InitialStates, Groups
  <2>2. \A g \in Groups, i \in Parts :
          Group(g)[i] = [items |-> {At(g, i)}, sum |-> w[At(g, i)]] /\ At(g, i) \in Items
    BY <1>1, <1>3, GroupPositions DEF Group, Single, At
  <2>3. \A g \in Groups, i \in Parts :
          Group(g)[i].items = {At(g, i)} /\ Group(g)[i].sum = w[At(g, i)]
    <3> SUFFICES ASSUME NEW g \in Groups, NEW i \in Parts
                 PROVE  Group(g)[i].items = {At(g, i)} /\ Group(g)[i].sum = w[At(g, i)]
      OBVIOUS
    <3>1. Group(g)[i] = [items |-> {At(g, i)}, sum |-> w[At(g, i)]]
      BY <2>2
    <3> QED BY <3>1
  <2>4. IsFiniteSet(heap)
    <3> DEFINE f == [g \in Groups |-> Group(g)]
    <3>1. f \in Surjection(Groups, heap)
      BY <2>1 DEF Surjection
    <3>2. IsFiniteSet(Groups)
      <4>1. (Cardinality(Items) \div K) - 1 \in Int
        BY <1>1
      <4> QED BY <4>1, FS_Interval DEF Groups
    <3> HIDE DEF f
    <3> QED BY <3>1, <3>2, FS_Surjection
  <2>5. \A g \in Groups, i \in Parts : Cardinality(Group(g)[i].items) = 1
    <3>1. \A x : Cardinality({x}) = 1
      BY FS_Singleton
    <3> QED BY <2>3, <3>1
  <2>6. \A s \in heap : Ordered(s)
    BY <1>3, InitGroups DEF HeapOK
  <2>7. ASSUME NEW g \in Groups PROVE Decreasing(Group(g))
    <3> SUFFICES ASSUME NEW a \in Parts, NEW b \in Parts, a < b
                 PROVE  ~Less(Group(g)[a], Group(g)[b])
      BY DEF Decreasing
    <3>1. Group(g)[b].sum <= Group(g)[a].sum
      BY <1>1, <2>1, <2>6 DEF Ordered, Parts
    <3>2. Group(g)[a].sum \in Nat /\ Group(g)[b].sum \in Nat
      BY <1>1, <2>2, <2>3
    <3> QED BY <2>5, <3>1, <3>2 DEF Less
  <2>8. SumsOK
    <3> SUFFICES ASSUME NEW g \in Groups, NEW i \in Parts
                 PROVE  Group(g)[i].sum = SumOver(w, Group(g)[i].items)
      BY <2>1 DEF SumsOK
    <3>1. At(g, i) \in Items
      BY <2>2
    <3>2. w[At(g, i)] \in Int
      BY <1>1, <3>1
    <3>3. SumOver(w, {At(g, i)}) = w[At(g, i)]
      BY <3>2, SumOne
    <3>4. Group(g)[i].items = {At(g, i)} /\ Group(g)[i].sum = w[At(g, i)]
      BY <2>3
    <3> QED BY <3>3, <3>4
  <2>9. FillsFirst
    BY <2>1, <2>3 DEF FillsFirst
  <2> QED BY <2>1, <2>4, <2>5, <2>7, <2>8, <2>9 DEF ResultInv, SameSizes
<1> QED BY <1>2, <1>3

\* A set without items comes after every set that has some.
LEMMA EmptyLast ==
  ASSUME BalanceInv, ResultInv, NEW s \in heap, NEW i \in Parts, NEW j \in Parts,
         s[i].items = {}, i <= j
  PROVE  s[j].items = {}
<1> SUFFICES ASSUME s[j].items # {} PROVE FALSE
  OBVIOUS
<1>1. i < j
  BY KAssumption DEF Parts
<1>2. ~Less(s[i], s[j])
  BY <1>1 DEF ResultInv, Decreasing
<1>3. s[i].sum = 0
  BY SumEmpty DEF ResultInv, SumsOK
<1>4. s[j].sum \in Nat /\ s[j].items \in SUBSET Items
  BY DEF BalanceInv, HeapOK, SetType
<1>5. Cardinality(s[i].items) = 0 /\ Cardinality(s[j].items) \in Nat \ {0}
  BY <1>4, FS_EmptySet, PartsFinite DEF BalanceInv
<1> QED BY <1>2, <1>3, <1>4, <1>5 DEF Less

LEMMA ResultStep ==
  ASSUME BalanceInv, ResultInv, Merge
  PROVE  ResultInv'
<1> DEFINE Sorted(s, t, p) == [i \in Parts |-> MergeState(s, t)[p[i]]]
           Merges(s, t, p) == /\ Decreasing(Sorted(s, t, p))
                              /\ heap' = (heap \ {s, t}) \cup {Sorted(s, t, p)}
                              /\ UNCHANGED <<lens, w, equal>>
<1>1. PICK s \in heap, t \in heap, p \in Bijection(Parts, Parts) : t # s /\ Merges(s, t, p)
  <2>1. \E s \in Least(heap) : \E t \in Least(heap \ {s}) :
          \E p \in Bijection(Parts, Parts) : Merges(s, t, p)
    BY Zenon DEF Merge
  <2> HIDE DEF Merges
  <2>2. Least(heap) \subseteq heap /\ \A x : Least(heap \ {x}) \subseteq heap \ {x}
    BY DEF Least
  <2> QED BY <2>1, <2>2, Zenon
<1> DEFINE u == [i \in Parts |-> MergeState(s, t)[p[i]]]
<1>2. /\ t # s /\ Decreasing(u) /\ heap' = (heap \ {s, t}) \cup {u}
      /\ UNCHANGED <<lens, w, equal>>
  BY <1>1
<1>3. Items' = Items
  BY <1>2 DEF Items
<1>4. p \in [Parts -> Parts]
  BY DEF Bijection, Injection
<1>5. /\ s \in [Parts -> SetType] /\ t \in [Parts -> SetType]
      /\ \A i \in Parts : s[i].items \in SUBSET Items /\ t[i].items \in SUBSET Items
  BY DEF BalanceInv, HeapOK, SetType
<1>6. K \in Nat /\ Parts = 1 .. K /\ \A a \in Parts : K + 1 - a \in Parts
  BY KAssumption DEF Parts
<1>7. \A i \in Parts :
        /\ u[i].items = s[p[i]].items \cup t[K + 1 - p[i]].items
        /\ u[i].sum = s[p[i]].sum + t[K + 1 - p[i]].sum
        /\ p[i] \in Parts /\ K + 1 - p[i] \in Parts
  BY <1>4, <1>6 DEF MergeState, MergeSet
<1> HIDE DEF u
<1>8. \A i, j \in Parts : s[i].items \cap t[j].items = {}
  BY <1>2 DEF BalanceInv, Apart
<1>9. IsFiniteSet(heap')
  <2>1. IsFiniteSet(heap \ {s, t})
    BY FS_Subset DEF ResultInv
  <2> QED BY <1>2, <2>1, FS_AddElement
<1>10. \A x \in heap' : Decreasing(x)'
  BY <1>2 DEF ResultInv, Decreasing, Less
<1>11. SumsOK'
  <2>1. ASSUME NEW i \in Parts PROVE u[i].sum = SumOver(w, u[i].items)
    <3> DEFINE A == s[p[i]].items
               B == t[K + 1 - p[i]].items
    <3>1. A \cap B = {} /\ A \in SUBSET Items /\ B \in SUBSET Items
      BY <1>5, <1>7, <1>8
    <3>2. s[p[i]].sum = SumOver(w, A) /\ t[K + 1 - p[i]].sum = SumOver(w, B)
      BY <1>7 DEF ResultInv, SumsOK
    <3>3. u[i].items = A \cup B /\ u[i].sum = s[p[i]].sum + t[K + 1 - p[i]].sum
      BY <1>7
    <3> HIDE DEF A, B
    <3>4. IsFiniteSet(A) /\ IsFiniteSet(B) /\ Numbers(w, A \cup B)
      <4>1. A \cup B \in SUBSET Items
        BY <3>1
      <4> QED BY <3>1, <4>1, PartsFinite DEF BalanceInv
    <3>5. SumOver(w, A \cup B) = SumOver(w, A) + SumOver(w, B)
      BY <3>1, <3>4, SumUnion
    <3> QED BY <3>2, <3>3, <3>5
  <2>2. \A x \in heap' : \A i \in Parts : x[i].sum = SumOver(w, x[i].items)
    BY <1>2, <2>1 DEF ResultInv, SumsOK
  <2>3. w' = w
    BY <1>2
  <2> QED BY <2>2, <2>3 DEF SumsOK
<1>12. FillsFirst'
  <2>1. ASSUME NEW e \in Parts, u[e].items = {},
               NEW i \in Parts, NEW x \in u[i].items, NEW y \in u[i].items
        PROVE  x = y
    <3> DEFINE a == p[e]
               b == p[i]
    <3>1. /\ s[a].items = {} /\ t[K + 1 - a].items = {}
          /\ a \in Parts /\ b \in Parts /\ K + 1 - a \in Parts /\ K + 1 - b \in Parts
          /\ u[i].items = s[b].items \cup t[K + 1 - b].items
      BY <1>7, <2>1
    <3> HIDE DEF a, b
    <3>2. /\ \A c, d \in s[b].items : c = d
          /\ \A c, d \in t[K + 1 - b].items : c = d
      BY <3>1 DEF ResultInv, FillsFirst
    <3>3. s[b].items = {} \/ t[K + 1 - b].items = {}
      <4>1. CASE a <= b
        BY <3>1, <4>1, EmptyLast
      <4>2. CASE b <= a
        <5>1. K + 1 - a <= K + 1 - b
          BY <1>6, <3>1, <4>2
        <5> QED BY <3>1, <5>1, EmptyLast
      <4>3. a <= b \/ b <= a
        BY <1>6, <3>1
      <4> QED BY <4>1, <4>2, <4>3
    <3> QED BY <3>1, <3>2, <3>3
  <2>2. ASSUME NEW x \in heap'
        PROVE  \/ \A i \in Parts : x[i].items # {}
               \/ \A i \in Parts : \A c, d \in x[i].items : c = d
    <3>1. CASE x = u
      BY <2>1, <3>1
    <3>2. CASE x \in heap
      BY <3>2 DEF ResultInv, FillsFirst
    <3> QED BY <1>2, <3>1, <3>2
  <2> QED BY <2>2 DEF FillsFirst
<1>13. SameSizes'
  <2> SUFFICES ASSUME equal, NEW x \in heap', NEW i \in Parts, NEW j \in Parts
               PROVE  Cardinality(x[i].items) = Cardinality(x[j].items)
    BY <1>2 DEF SameSizes
  <2>1. \A y \in heap : \A c, d \in Parts : Cardinality(y[c].items) = Cardinality(y[d].items)
    BY DEF ResultInv, SameSizes
  <2>2. CASE x \in heap
    BY <2>1, <2>2
  <2>3. CASE x = u
    <3>1. \A c \in Parts :
            Cardinality(u[c].items) = Cardinality(s[p[c]].items)
                                      + Cardinality(t[K + 1 - p[c]].items)
      <4> SUFFICES ASSUME NEW c \in Parts
                   PROVE  Cardinality(u[c].items) = Cardinality(s[p[c]].items)
                                                    + Cardinality(t[K + 1 - p[c]].items)
        OBVIOUS
      <4> DEFINE A == s[p[c]].items
                 B == t[K + 1 - p[c]].items
      <4>1. A \cap B = {} /\ A \in SUBSET Items /\ B \in SUBSET Items
            /\ u[c].items = A \cup B
        BY <1>5, <1>7, <1>8
      <4> HIDE DEF A, B
      <4>2. /\ IsFiniteSet(A) /\ IsFiniteSet(B)
            /\ Cardinality(A) \in Nat /\ Cardinality(B) \in Nat
        BY <4>1, PartsFinite DEF BalanceInv
      <4>3. Cardinality(A \cup B) = Cardinality(A) + Cardinality(B) - Cardinality(A \cap B)
        BY <4>2, FS_Union
      <4>4. Cardinality(A \cap B) = 0
        BY <4>1, FS_EmptySet
      <4>5. Cardinality(A \cup B) = Cardinality(A) + Cardinality(B)
        BY <4>2, <4>3, <4>4
      <4> QED BY <4>1, <4>5 DEF A, B
    <3>2. /\ Cardinality(s[p[i]].items) = Cardinality(s[p[j]].items)
          /\ Cardinality(t[K + 1 - p[i]].items) = Cardinality(t[K + 1 - p[j]].items)
      BY <1>7, <2>1
    <3> QED BY <2>3, <3>1, <3>2
  <2> QED BY <1>2, <2>2, <2>3
<1> QED BY <1>9, <1>10, <1>11, <1>12, <1>13 DEF ResultInv

\* Parts of one size c that divide a set make K times c.
LEMMA EqualSizes ==
  ASSUME InputOK, NEW s, \A i \in Parts : s[i].items \in SUBSET Items,
         \A x \in Items : \E i \in Parts : x \in s[i].items,
         \A i, j \in Parts : i # j => s[i].items \cap s[j].items = {},
         NEW c \in Nat, \A i \in Parts : Cardinality(s[i].items) = c
  PROVE  c * K = Cardinality(Items)
<1> DEFINE U(k) == {x \in Items : \E i \in 1 .. k : x \in s[i].items}
           T == {k \in Nat : k <= K => Cardinality(U(k)) = c * k}
<1>1. K \in Nat /\ Parts = 1 .. K
  BY KAssumption DEF Parts
<1>2. 0 \in T
  <2>1. U(0) = {} /\ c * 0 = 0
    OBVIOUS
  <2> QED BY <2>1, FS_EmptySet
<1>3. ASSUME NEW k \in Nat, k \in T PROVE k + 1 \in T
  <2> SUFFICES ASSUME k + 1 <= K PROVE Cardinality(U(k + 1)) = c * (k + 1)
    OBVIOUS
  <2>1. k + 1 \in Parts /\ 1 .. (k + 1) = (1 .. k) \cup {k + 1} /\ 1 .. k \subseteq Parts
        /\ k + 1 \notin 1 .. k
    BY <1>1
  <2> DEFINE A == s[k + 1].items
             B == U(k)
  <2>2. U(k + 1) = A \cup B /\ A \cap B = {} /\ B \in SUBSET Items /\ A \in SUBSET Items
    BY <2>1
  <2>3. Cardinality(A) = c /\ Cardinality(B) = c * k
    <3>1. Cardinality(A) = c
      BY <2>1
    <3>2. k <= K
      BY <1>1
    <3> HIDE DEF U
    <3>3. Cardinality(U(k)) = c * k
      BY <1>3, <3>2
    <3> QED BY <3>1, <3>3
  <2> HIDE DEF A, B, U
  <2>4. IsFiniteSet(A) /\ IsFiniteSet(B)
    BY <2>2, PartsFinite
  <2>5. Cardinality(A \cup B) = Cardinality(A) + Cardinality(B) - Cardinality(A \cap B)
    BY <2>4, FS_Union
  <2>6. Cardinality(A \cap B) = 0
    BY <2>2, FS_EmptySet
  <2>7. c * k \in Nat /\ c * (k + 1) = c * k + c
    OBVIOUS
  <2>8. Cardinality(A \cup B) = c + c * k - 0
    BY <2>3, <2>5, <2>6
  <2>9. c + c * k - 0 = c * (k + 1)
    BY <2>7
  <2>10. U(k + 1) = A \cup B
    BY <2>2
  <2> QED BY <2>8, <2>9, <2>10
<1>4. K \in T
  <2> HIDE DEF T
  <2> QED BY <1>1, <1>2, <1>3, SetInduction
<1>5. U(K) = Items
  BY <1>1
<1>6. Cardinality(U(K)) = c * K
  BY <1>1, <1>4
<1> QED BY <1>5, <1>6

\* K sets of at most one item each, one of them without, hold less than K.
LEMMA TooFew ==
  ASSUME InputOK, NEW s, NEW e \in Parts, s[e].items = {},
         \A x \in Items : \E i \in Parts : x \in s[i].items,
         \A i \in Parts : \A x, y \in s[i].items : x = y
  PROVE  FALSE
<1> DEFINE f == [x \in Items |-> CHOOSE i \in Parts : x \in s[i].items]
<1>1. \A x \in Items : f[x] \in Parts \ {e} /\ x \in s[f[x]].items
  OBVIOUS
<1>2. f \in Injection(Items, Parts \ {e})
  BY <1>1 DEF Injection, IsInjective
<1> HIDE DEF f
<1>3. K \in Nat /\ IsFiniteSet(Parts) /\ Cardinality(Parts) = K
  BY KAssumption, FS_Interval DEF Parts
<1>4. IsFiniteSet(Parts \ {e}) /\ Cardinality(Parts \ {e}) = K - 1
  BY <1>3, FS_RemoveElement
<1>5. Cardinality(Items) <= K - 1
  BY <1>2, <1>4, FS_Injection
<1> QED BY <1>3, <1>5, ItemsFinite DEF InputOK

\* ResultInv is inductive together with BalanceInv.
LEMMA ResultInvariant == PartitionSpec => [](BalanceInv /\ ResultInv)
<1>1. PartitionInit => ResultInv
  BY InitResult
<1>2. BalanceInv /\ ResultInv /\ [PartitionNext]_partitionVars => ResultInv'
  <2> SUFFICES ASSUME BalanceInv, ResultInv, [PartitionNext]_partitionVars PROVE ResultInv'
    OBVIOUS
  <2>1. CASE Merge
    BY <2>1, ResultStep
  <2>2. CASE UNCHANGED partitionVars
    BY <2>2 DEF partitionVars, ResultInv, SumsOK, FillsFirst, SameSizes, Decreasing, Less
  <2> QED BY <2>1, <2>2 DEF PartitionNext
<1> QED BY <1>1, <1>2, BalanceTheorem, PTL DEF PartitionSpec

\* Every partition that the callers get has a sample in it, as many as every
\* other when sizes are to be equal, and its workload is that of its samples.
THEOREM ResultValidTheorem == PartitionSpec => []ResultValid
<1>1. BalanceInv /\ ResultInv => ResultValid
  <2> SUFFICES ASSUME BalanceInv, ResultInv, Cardinality(heap) = 1,
                      NEW s \in heap, NEW i \in Parts
               PROVE  /\ s[i].items # {}
                      /\ equal => Cardinality(s[i].items) * K = Cardinality(Items)
                      /\ s[i].sum = MapThenSumSet(LAMBDA j : w[j], s[i].items)
    BY DEF ResultValid, Finished
  <2>1. heap = {s} /\ InputOK
    BY FS_Singleton DEF ResultInv, BalanceInv
  <2>2. \A x \in Items : \E j \in Parts : x \in s[j].items
    BY <2>1 DEF BalanceInv, Covers
  <2>3. /\ \A j \in Parts : s[j].items \in SUBSET Items
        /\ \A j, k \in Parts : j # k => s[j].items \cap s[k].items = {}
    BY DEF BalanceInv, HeapOK, Apart, SetType
  <2>4. s[i].items # {}
    <3> SUFFICES ASSUME s[i].items = {} PROVE FALSE
      OBVIOUS
    <3>1. \A j \in Parts : \A x, y \in s[j].items : x = y
      BY DEF ResultInv, FillsFirst
    <3> QED BY <2>1, <2>2, <3>1, TooFew
  <2>5. ASSUME equal PROVE Cardinality(s[i].items) * K = Cardinality(Items)
    <3>1. \A j \in Parts : Cardinality(s[j].items) = Cardinality(s[i].items)
      BY <2>5 DEF ResultInv, SameSizes
    <3>2. Cardinality(s[i].items) \in Nat
      BY <2>1, <2>3, PartsFinite
    <3> QED BY <2>1, <2>2, <2>3, <3>1, <3>2, EqualSizes
  <2>6. s[i].sum = SumOver(w, s[i].items)
    BY DEF ResultInv, SumsOK
  <2> QED BY <2>4, <2>5, <2>6 DEF SumOver
<1> QED BY <1>1, ResultInvariant, PTL

-----------------------------------------------------------------------------
(***************************************************************************)
(* The weights of the tokens                                               *)
(***************************************************************************)

Tokens(t) == t \in [All -> Kinds]

\* Two arrays of tokens that agree on the valid ones.
Agree(t, u) == \A x \in Valid : t[x] = u[x]

\* An extrapolation: it has force for admissible valid tokens only.
Pull(t, ext) ==
  /\ ext \in [All -> Nat]
  /\ \A x \in All : ~ (x \in Valid /\ Admissible(t, x)) => ext[x] = 0

-----------------------------------------------------------------------------
(***************************************************************************)
(* Sets, sums and quantiles                                                *)
(***************************************************************************)
LEMMA ValidFinite ==
  /\ Valid \subseteq All /\ Scope = Valid
  /\ IsFiniteSet(Valid) /\ Cardinality(Valid) \in Nat
  /\ \A x \in Valid : Cardinality(Valid) >= 1
<1>1. IsFiniteSet(All)
  <2>1. 1 \in Int /\ NRows \in Int /\ NPos \in Int
    BY SizeAssumption
  <2>2. IsFiniteSet(Rows) /\ IsFiniteSet(1 .. NPos)
    BY <2>1, FS_Interval DEF Rows
  <2> QED BY <2>2, FS_Product DEF All
<1>2. Valid \subseteq All /\ Scope = Valid
  BY DEF Valid, LossMask, Scope
<1>3. IsFiniteSet(Valid) /\ Cardinality(Valid) \in Nat
  BY <1>1, <1>2, FS_Subset, FS_CardinalityType
<1>4. \A x \in Valid : Cardinality(Valid) >= 1
  BY <1>3, FS_EmptySet
<1> QED BY <1>2, <1>3, <1>4

LEMMA KindFacts ==
  ASSUME NEW t, Tokens(t), NEW x \in All
  PROVE  /\ t[x].s \in 0 .. Top /\ t[x].jsd \in 0 .. Top /\ t[x].ddj \in 0 .. Top
         /\ Damping[t[x].id] \in Nat \ {0}
<1>1. t[x] \in Kinds
  BY DEF Tokens
<1> QED BY <1>1, KindsAssumption

LEMMA MaxOfTwo ==
  ASSUME NEW a \in Int, NEW b \in Int
  PROVE  /\ Max({a, b}) \in {a, b}
         /\ Max({a, b}) >= a /\ Max({a, b}) >= b
<1>1. \E x \in {a, b} : \A y \in {a, b} : x >= y
  <2>1. CASE a >= b
    BY <2>1
  <2>2. CASE b >= a
    BY <2>2
  <2> QED BY <2>1, <2>2
<1> DEFINE m == CHOOSE x \in {a, b} : \A y \in {a, b} : x >= y
<1>2. m \in {a, b} /\ \A y \in {a, b} : m >= y
  BY <1>1
<1>3. Max({a, b}) = m
  BY DEF Max
<1> QED BY <1>2, <1>3

LEMMA MinOfLevels ==
  ASSUME NEW S \in SUBSET Nat, S # {}
  PROVE  Min(S) \in S /\ \A y \in S : Min(S) <= y
<1>1. PICK m \in S : \A y \in S : <<y, m>> \notin LessNat
  <2>1. S \subseteq Nat
    OBVIOUS
  <2> QED BY <2>1, LessNatWellFounded, WFMin
<1>2. ASSUME NEW y \in S PROVE m <= y
  <2>1. y \in Nat /\ m \in Nat
    OBVIOUS
  <2>2. ~ (y < m)
    BY <1>1, <2>1 DEF LessNat
  <2> QED BY <2>1, <2>2
<1> DEFINE c == CHOOSE x \in S : \A y \in S : x =< y
<1>3. c \in S /\ \A y \in S : c <= y
  BY <1>2
<1> QED BY <1>3 DEF Min

LEMMA SumIsOver == ASSUME NEW f, NEW X PROVE Sum(f, X) = SumOver(f, X)
BY DEF Sum, SumOver

LEMMA MaxNat == \A a, b \in Nat : Max({a, b}) \in Nat
<1> SUFFICES ASSUME NEW a \in Nat, NEW b \in Nat PROVE Max({a, b}) \in Nat
  OBVIOUS
<1>1. Max({a, b}) \in {a, b}
  BY MaxOfTwo
<1> QED BY <1>1

LEMMA SumZero ==
  ASSUME NEW f, NEW S, IsFiniteSet(S), \A x \in S : f[x] = 0
  PROVE  SumOver(f, S) = 0
<1>1. Numbers(f, S) /\ SumOver(f, S) \in Int
  BY SumInt DEF Numbers
<1>2. SumOver(f, S) = SumOver(f, S) * 0
  BY <1>1, SumScaled
<1> QED BY <1>1, <1>2

\* There is a level at each rank.
LEMMA RankLevel ==
  ASSUME NEW f, \A x \in Valid : f[x] \in 0 .. Top, NEW k \in 0 .. Cardinality(Valid) - 1
  PROVE  /\ AtRank(f, k) \in 0 .. Top
         /\ k < Cardinality({x \in Scope : f[x] <= AtRank(f, k)})
         /\ \A l \in 0 .. Top : k < Cardinality({x \in Scope : f[x] <= l}) => AtRank(f, k) <= l
<1> DEFINE S == {l \in 0 .. Top : k < Cardinality({x \in Scope : f[x] <= l})}
<1>1. {x \in Scope : f[x] <= Top} = Valid
  BY ValidFinite, SizeAssumption
<1>2. Top \in S
  <2>1. k < Cardinality({x \in Scope : f[x] <= Top})
    BY <1>1, ValidFinite
  <2> QED BY <2>1, SizeAssumption
<1>3. S \in SUBSET Nat /\ S \subseteq 0 .. Top
  BY SizeAssumption
<1>4. Min(S) \in S /\ \A l \in S : Min(S) <= l
  BY <1>2, <1>3, MinOfLevels
<1>5. AtRank(f, k) = Min(S)
  BY DEF AtRank
<1> QED BY <1>3, <1>4, <1>5

LEMMA NatTimesMonotone ==
  \A a, b, c \in Nat : a <= b => a * c <= b * c /\ c * a <= c * b
<1> SUFFICES ASSUME NEW a \in Nat, NEW b \in Nat, NEW c \in Nat, a <= b
             PROVE  a * c <= b * c /\ c * a <= c * b
  OBVIOUS
<1>1. b * c = a * c + (b - a) * c /\ c * a = a * c /\ c * b = b * c
  OBVIOUS
<1>2. b - a \in Nat /\ (b - a) * c \in Nat /\ a * c \in Nat
  OBVIOUS
<1> QED BY <1>1, <1>2

LEMMA TenthsBound ==
  ASSUME NEW q \in 0 .. 10, NEW m \in Nat
  PROVE  /\ q * m \in Nat /\ (q * m) \div 10 \in 0 .. m
         /\ (q * m) % 10 # 0 => (q * m) \div 10 + 1 \in 0 .. m
<1>1. q * m \in Nat /\ q * m <= 10 * m
  <2>1. \A a, b \in Nat : a * b \in Nat
    OBVIOUS
  <2>2. 10 * m = q * m + (10 - q) * m
    OBVIOUS
  <2>3. 10 - q \in Nat /\ q \in Nat
    OBVIOUS
  <2> QED BY <2>1, <2>2, <2>3
<1> DEFINE p == q * m
<1> HIDE DEF p
<1>2. p \in Nat /\ p <= 10 * m
  BY <1>1 DEF p
<1>3. p \div 10 \in 0 .. m /\ (p % 10 # 0 => p \div 10 + 1 \in 0 .. m)
  BY <1>2
<1> QED BY <1>2, <1>3 DEF p

LEMMA TenthsLeft ==
  ASSUME NEW q \in 0 .. 10, NEW m \in Nat
  PROVE  /\ (10 - q) * m \in Int
         /\ 10 * (m - ((q * m) \div 10)) <= (10 - q) * m + 9
<1> DEFINE at == q * m
           p == (10 - q) * m
<1>1. at \in Nat /\ p = 10 * m - at
  BY TenthsBound
<1> HIDE DEF at, p
<1>2. at = 10 * (at \div 10) + (at % 10) /\ at % 10 \in 0 .. 9 /\ at \div 10 \in Int
  BY <1>1
<1>3. p \in Int /\ 10 * (m - (at \div 10)) <= p + 9
  BY <1>1, <1>2
<1> QED BY <1>3 DEF at, p

LEMMA QuantileInt ==
  ASSUME NEW f, \A x \in Valid : f[x] \in 0 .. Top, NEW q \in 0 .. 10
  PROVE  Quantile(f, q) \in Int
<1> DEFINE at == q * (Cardinality(Scope) - 1)
<1>1. CASE Scope = {}
  BY <1>1 DEF Quantile
<1>2. CASE Scope # {}
  <2>1. Scope = Valid /\ Cardinality(Valid) - 1 \in Nat
    BY <1>2, ValidFinite
  <2>2. /\ at \in Nat /\ at \div 10 \in 0 .. Cardinality(Valid) - 1
        /\ at % 10 # 0 => at \div 10 + 1 \in 0 .. Cardinality(Valid) - 1
    BY <2>1, TenthsBound
  <2>3. AtRank(f, at \div 10) \in 0 .. Top
    BY <2>2, RankLevel
  <2>4. at % 10 # 0 => AtRank(f, at \div 10 + 1) \in 0 .. Top
    BY <2>2, RankLevel
  <2>5. at % 10 \in Int
    BY <2>2
  <2>6. Quantile(f, q) = IF at % 10 = 0 THEN 10 * AtRank(f, at \div 10)
          ELSE 10 * AtRank(f, at \div 10) + (at % 10) * (AtRank(f, at \div 10 + 1) - AtRank(f, at \div 10))
    BY <1>2 DEF Quantile
  <2> HIDE DEF at
  <2> QED BY <2>3, <2>4, <2>5, <2>6
<1> QED BY <1>1, <1>2

\* Few tokens lie above a quantile: no more than its share, rounded up to a token.
LEMMA QuantileShare ==
  ASSUME NEW f, \A x \in Valid : f[x] \in 0 .. Top, NEW q \in 0 .. 10, Valid # {}
  PROVE  LET above == {x \in Valid : Exceeds(f[x], Quantile(f, q))}
         IN Cardinality(above) * 10 <= (10 - q) * (Cardinality(Valid) - 1) + 9
<1> DEFINE size == Cardinality(Valid)
           at == q * (size - 1)
           k == at \div 10
           low == AtRank(f, k)
           high == AtRank(f, k + 1)
           above == {x \in Valid : Exceeds(f[x], Quantile(f, q))}
           below == {x \in Valid : f[x] <= low}
<1>1. Scope = Valid /\ size - 1 \in Nat
  BY ValidFinite
<1>2. at \in Nat /\ k \in 0 .. size - 1 /\ (at % 10 # 0 => k + 1 \in 0 .. size - 1)
  BY <1>1, TenthsBound
<1>3. low \in 0 .. Top /\ k < Cardinality(below)
  BY <1>1, <1>2, RankLevel
<1>4. at % 10 # 0 => high \in 0 .. Top /\ low <= high
  <2> SUFFICES ASSUME at % 10 # 0 PROVE high \in 0 .. Top /\ low <= high
    OBVIOUS
  <2>1. high \in 0 .. Top /\ k + 1 < Cardinality({x \in Scope : f[x] <= high})
    BY <1>2, RankLevel
  <2>2. IsFiniteSet({x \in Scope : f[x] <= high}) /\ Cardinality({x \in Scope : f[x] <= high}) \in Nat
    BY ValidFinite, FS_Subset, FS_CardinalityType
  <2>3. k < Cardinality({x \in Scope : f[x] <= high})
    <3> DEFINE c == Cardinality({x \in Scope : f[x] <= high})
    <3> HIDE DEF c, k
    <3>1. c \in Nat /\ k + 1 < c /\ k \in Int
      BY <1>2, <2>1, <2>2 DEF c
    <3> QED BY <3>1 DEF c
  <2>4. low <= high
    BY <1>2, <2>1, <2>3, RankLevel
  <2> QED BY <2>1, <2>4
<1>5. Quantile(f, q) \in Int /\ Quantile(f, q) >= 10 * low
  <2>1. Quantile(f, q) = IF at % 10 = 0 THEN 10 * low ELSE 10 * low + (at % 10) * (high - low)
    BY <1>1 DEF Quantile
  <2>2. at % 10 \in Nat
    BY <1>2
  <2> DEFINE m == at % 10
  <2> HIDE DEF m, low, high
  <2>3. m # 0 => m * (high - low) \in Nat
    <3>1. \A a, b \in Nat : a * b \in Nat
      OBVIOUS
    <3>2. m # 0 => high - low \in Nat
      BY <1>3, <1>4 DEF m
    <3> QED BY <2>2, <3>1, <3>2 DEF m
  <2>4. Quantile(f, q) = IF m = 0 THEN 10 * low ELSE 10 * low + m * (high - low)
    BY <2>1 DEF m
  <2> QED BY <1>3, <2>3, <2>4
<1>6. above \subseteq Valid \ below
  <2> SUFFICES ASSUME NEW x \in above PROVE x \in Valid \ below
    OBVIOUS
  <2>1. x \in Valid /\ f[x] \in Int /\ 10 * f[x] > Quantile(f, q)
    BY DEF Exceeds
  <2> HIDE DEF low
  <2> QED BY <1>3, <1>5, <2>1
<1>7. Cardinality(above) \in Nat /\ Cardinality(above) <= size - Cardinality(below) /\ Cardinality(below) \in Nat
  <2>1. below \subseteq Valid
    OBVIOUS
  <2> HIDE DEF above, below
  <2>2. IsFiniteSet(Valid \ below) /\ Cardinality(Valid \ below) = size - Cardinality(Valid \cap below)
    BY ValidFinite, FS_Difference
  <2>3. Valid \cap below = below
    BY <2>1
  <2>4. /\ IsFiniteSet(above) /\ Cardinality(above) <= Cardinality(Valid \ below)
        /\ Cardinality(above) \in Nat
    BY <1>6, <2>2, FS_Subset, FS_CardinalityType
  <2>5. Cardinality(below) \in Nat
    BY <2>1, ValidFinite, FS_Subset, FS_CardinalityType
  <2> QED BY <2>2, <2>3, <2>4, <2>5
<1>8. (10 - q) * (size - 1) \in Int /\ 10 * ((size - 1) - k) <= (10 - q) * (size - 1) + 9
  BY <1>1, TenthsLeft
<1> DEFINE a == Cardinality(above)
           b == Cardinality(below)
           p == (10 - q) * (size - 1)
<1>9. a \in Nat /\ b \in Nat /\ a <= size - b
  BY <1>7
<1>10. k < b /\ k \in Int /\ size \in Int /\ p \in Int
  <2>1. p \in Int
    BY <1>8
  <2>2. k < b
    BY <1>3
  <2>3. size \in Int
    BY ValidFinite
  <2> HIDE DEF size, k, p
  <2> QED BY <1>2, <2>1, <2>2, <2>3
<1>11. a * 10 <= p + 9
  <2> HIDE DEF a, b, p, k, size
  <2>1. 10 * ((size - 1) - k) <= p + 9
    BY <1>8 DEF p
  <2> QED BY <1>9, <1>10, <2>1
<1> QED BY <1>11

\* A quantile depends on the valid tokens only.
LEMMA QuantileLocal ==
  ASSUME NEW f, NEW g, \A x \in Valid : f[x] = g[x], NEW q
  PROVE  Quantile(f, q) = Quantile(g, q)
<1>1. ASSUME NEW k PROVE AtRank(f, k) = AtRank(g, k)
  <2>1. \A l \in 0 .. Top : {x \in Scope : f[x] <= l} = {x \in Scope : g[x] <= l}
    BY ValidFinite
  <2>2. {l \in 0 .. Top : k < Cardinality({x \in Scope : f[x] <= l})}
          = {l \in 0 .. Top : k < Cardinality({x \in Scope : g[x] <= l})}
    BY <2>1
  <2> QED BY <2>2 DEF AtRank
<1> QED BY <1>1 DEF Quantile
-----------------------------------------------------------------------------
(***************************************************************************)
(* The extrapolation                                                       *)
(***************************************************************************)
LEMMA AdmissibleLocal ==
  ASSUME NEW t, NEW u, Agree(t, u), NEW x \in Valid
  PROVE  Admissible(t, x) <=> Admissible(u, x)
<1>1. t[x] = u[x]
  BY DEF Agree
<1>2. <<x[1], x[2] - 1>> \in Valid => t[<<x[1], x[2] - 1>>] = u[<<x[1], x[2] - 1>>]
  BY DEF Agree
<1> QED BY <1>1, <1>2 DEF Admissible

\* A margin over a threshold is a natural number.
LEMMA MarginNat ==
  ASSUME NEW level \in Int, NEW threshold \in Int
  PROVE  (IF Exceeds(level, threshold) THEN 10 * level - threshold ELSE 0) \in Nat
BY DEF Exceeds

LEMMA ExtraPull ==
  ASSUME NEW t, Tokens(t)
  PROVE  Pull(t, Extra(t))
<1> DEFINE theta == Quantile([x \in All |-> t[x].s], DDQ)
           ammo == Quantile([x \in All |-> t[x].jsd], JSDQ)
           thetaJ == Max({Quantile([x \in All |-> t[x].ddj], DDJQ), 1})
           May(x) == /\ x \in Valid /\ Admissible(t, x)
                     /\ "jsd_gate" \in options => Exceeds(t[x].jsd, ammo)
           margin(x) == IF Exceeds(t[x].s, theta) THEN 10 * t[x].s - theta ELSE 0
           marginJ(x) == IF "dd_jsd" \in options /\ Exceeds(t[x].ddj, thetaJ)
                         THEN 10 * t[x].ddj - thetaJ ELSE 0
<1>1. Extra(t) = [x \in All |-> IF "targeted" \in options /\ May(x)
                                THEN Lambda * Max({margin(x), marginJ(x)}) ELSE 0]
  BY DEF Extra
<1>2. theta \in Int
  <2>1. \A x \in Valid : [y \in All |-> t[y].s][x] \in 0 .. Top
    BY KindFacts, ValidFinite
  <2>2. DDQ \in 0 .. 10
    BY QuantileAssumption
  <2> QED BY <2>1, <2>2, QuantileInt
<1>3. thetaJ \in Int
  <2>1. \A x \in Valid : [y \in All |-> t[y].ddj][x] \in 0 .. Top
    BY KindFacts, ValidFinite
  <2>2. DDJQ \in 0 .. 10
    BY QuantileAssumption
  <2> DEFINE q == Quantile([x \in All |-> t[x].ddj], DDJQ)
  <2>3. q \in Int
    BY <2>1, <2>2, QuantileInt
  <2> HIDE DEF q
  <2>4. Max({q, 1}) \in {q, 1}
    BY <2>3, MaxOfTwo
  <2>5. thetaJ = Max({q, 1})
    BY DEF q
  <2> QED BY <2>3, <2>4, <2>5
<1> HIDE DEF theta, thetaJ
<1>4. ASSUME NEW x \in All PROVE Lambda * Max({margin(x), marginJ(x)}) \in Nat
  <2>1. t[x].s \in Int /\ t[x].ddj \in Int
    BY KindFacts
  <2>2. margin(x) \in Nat
    BY <1>2, <2>1, MarginNat
  <2>3. marginJ(x) \in Nat
    BY <1>3, <2>1, MarginNat
  <2> HIDE DEF margin, marginJ
  <2>4. Max({margin(x), marginJ(x)}) \in Nat
    BY <2>2, <2>3, MaxNat
  <2> QED BY <2>4, StrengthAssumption
<1> HIDE DEF margin, marginJ
<1>5. Extra(t) \in [All -> Nat]
  BY <1>1, <1>4
<1>6. \A x \in All : ~ (x \in Valid /\ Admissible(t, x)) => Extra(t)[x] = 0
  BY <1>1
<1> QED BY <1>5, <1>6 DEF Pull

LEMMA ExtraLocal ==
  ASSUME NEW t, NEW u, Agree(t, u)
  PROVE  Extra(t) = Extra(u)
<1>1. Quantile([x \in All |-> t[x].s], DDQ) = Quantile([x \in All |-> u[x].s], DDQ)
  <2> DEFINE f == [x \in All |-> t[x].s]
             g == [x \in All |-> u[x].s]
  <2>1. \A x \in Valid : f[x] = g[x]
    BY ValidFinite DEF Agree
  <2> HIDE DEF f, g
  <2>2. Quantile(f, DDQ) = Quantile(g, DDQ)
    BY <2>1, QuantileLocal
  <2> QED BY <2>2 DEF f, g
<1>2. Quantile([x \in All |-> t[x].jsd], JSDQ) = Quantile([x \in All |-> u[x].jsd], JSDQ)
  <2> DEFINE f == [x \in All |-> t[x].jsd]
             g == [x \in All |-> u[x].jsd]
  <2>1. \A x \in Valid : f[x] = g[x]
    BY ValidFinite DEF Agree
  <2> HIDE DEF f, g
  <2>2. Quantile(f, JSDQ) = Quantile(g, JSDQ)
    BY <2>1, QuantileLocal
  <2> QED BY <2>2 DEF f, g
<1>3. Quantile([x \in All |-> t[x].ddj], DDJQ) = Quantile([x \in All |-> u[x].ddj], DDJQ)
  <2> DEFINE f == [x \in All |-> t[x].ddj]
             g == [x \in All |-> u[x].ddj]
  <2>1. \A x \in Valid : f[x] = g[x]
    BY ValidFinite DEF Agree
  <2> HIDE DEF f, g
  <2>2. Quantile(f, DDJQ) = Quantile(g, DDJQ)
    BY <2>1, QuantileLocal
  <2> QED BY <2>2 DEF f, g
<1>4. \A x \in Valid : t[x] = u[x] /\ (Admissible(t, x) <=> Admissible(u, x))
  BY AdmissibleLocal DEF Agree
<1> QED BY <1>1, <1>2, <1>3, <1>4 DEF Extra

LEMMA DecayedFacts ==
  ASSUME NEW t, Tokens(t), NEW ext, Pull(t, ext)
  PROVE  LET e == [x \in All |-> ext[x] * Damping[t[x].id]]
         IN /\ \A x \in All : e[x] \in Nat /\ (e[x] = 0 <=> ext[x] = 0)
            /\ Sum(ext, Valid) \in Nat /\ Sum(e, Valid) \in Nat
            /\ Sum(ext, Valid) = 0 <=> Sum(e, Valid) = 0
            /\ Sum(ext, Valid) = 0 => \A x \in All : ext[x] = 0
<1> DEFINE e == [x \in All |-> ext[x] * Damping[t[x].id]]
<1>1. \A x \in All : ext[x] \in Nat /\ (x \notin Valid => ext[x] = 0)
  BY DEF Pull
<1>2. ASSUME NEW x \in All PROVE e[x] \in Nat /\ (e[x] = 0 <=> ext[x] = 0)
  <2>1. \A a \in Nat, b \in Nat \ {0} : a * b \in Nat /\ (a * b = 0 <=> a = 0)
    OBVIOUS
  <2> QED BY <1>1, <2>1, KindFacts
<1> HIDE DEF e
<1>3. \A x \in Valid : ext[x] \in Nat /\ e[x] \in Nat /\ (e[x] = 0 <=> ext[x] = 0)
  BY <1>1, <1>2, ValidFinite
<1>4. /\ Sum(ext, Valid) = SumOver(ext, Valid) /\ Sum(e, Valid) = SumOver(e, Valid)
      /\ Sum(ext, Valid) \in Nat /\ Sum(e, Valid) \in Nat
  BY <1>3, ValidFinite, SumNat, SumIsOver
<1>5. Sum(ext, Valid) = 0 => \A x \in Valid : ext[x] = 0
  <2>1. \A x \in Valid : ext[x] <= SumOver(ext, Valid)
    BY <1>3, ValidFinite, SumAtLeast
  <2> QED BY <1>3, <1>4, <2>1
<1>6. Sum(e, Valid) = 0 => \A x \in Valid : e[x] = 0
  <2>1. \A x \in Valid : e[x] <= SumOver(e, Valid)
    BY <1>3, ValidFinite, SumAtLeast
  <2> QED BY <1>3, <1>4, <2>1
<1>7. (\A x \in Valid : ext[x] = 0) <=> (\A x \in Valid : e[x] = 0)
  BY <1>3
<1>8. (\A x \in Valid : ext[x] = 0) => Sum(ext, Valid) = 0
  BY <1>4, ValidFinite, SumZero
<1>9. (\A x \in Valid : e[x] = 0) => Sum(e, Valid) = 0
  BY <1>4, ValidFinite, SumZero
<1>10. Sum(ext, Valid) = 0 <=> Sum(e, Valid) = 0
  BY <1>5, <1>6, <1>7, <1>8, <1>9
<1>11. Sum(ext, Valid) = 0 => \A x \in All : ext[x] = 0
  BY <1>1, <1>5
<1> QED BY <1>2, <1>4, <1>10, <1>11 DEF e

LEMMA ExtrapolationPull ==
  ASSUME NEW t, Tokens(t)
  PROVE  Pull(t, Extrapolation(t).ext) /\ Extrapolation(t).unit \in Nat \ {0}
<1> DEFINE ext == Extra(t)
           e == [x \in All |-> ext[x] * Damping[t[x].id]]
<1>1. Pull(t, ext)
  BY ExtraPull
<1> HIDE DEF ext
<1>2. CASE ~ ({"targeted", "freq_decay"} \subseteq options)
  BY <1>1, <1>2 DEF Extrapolation, ext
<1>3. CASE {"targeted", "freq_decay"} \subseteq options
  <2>1. Extrapolation(t) = redistribute_by_freq(t, ext)
    BY <1>3 DEF Extrapolation, ext
  <2>2. /\ \A x \in All : e[x] \in Nat /\ (e[x] = 0 <=> ext[x] = 0)
        /\ Sum(ext, Valid) \in Nat /\ Sum(e, Valid) \in Nat
        /\ Sum(ext, Valid) = 0 <=> Sum(e, Valid) = 0
    BY <1>1, DecayedFacts
  <2>3. CASE Sum(ext, Valid) = 0
    <3>1. redistribute_by_freq(t, ext) = [ext |-> [x \in All |-> 0], unit |-> 1]
      BY <2>3 DEF redistribute_by_freq
    <3> QED BY <2>1, <3>1 DEF Pull
  <2>4. CASE Sum(ext, Valid) # 0
    <3>1. redistribute_by_freq(t, ext)
            = [ext |-> [x \in All |-> e[x] * Sum(ext, Valid)], unit |-> Sum(e, Valid)]
      BY <2>4 DEF redistribute_by_freq, Rescaled
    <3>2. \A a, b \in Nat : a * b \in Nat /\ (a = 0 => a * b = 0)
      OBVIOUS
    <3> HIDE DEF e
    <3>3. Pull(t, [x \in All |-> e[x] * Sum(ext, Valid)])
      BY <1>1, <2>2, <3>2 DEF Pull
    <3> QED BY <2>1, <2>2, <2>4, <3>1, <3>3
  <2> QED BY <2>3, <2>4
<1> QED BY <1>2, <1>3

LEMMA ExtrapolationLocal ==
  ASSUME NEW t, NEW u, Tokens(t), Tokens(u), Agree(t, u)
  PROVE  Extrapolation(t) = Extrapolation(u)
<1> DEFINE ext == Extra(t)
<1>1. Extra(u) = ext
  BY ExtraLocal
<1>2. Pull(t, ext)
  BY ExtraPull
<1> HIDE DEF ext
<1>3. [x \in All |-> ext[x] * Damping[t[x].id]] = [x \in All |-> ext[x] * Damping[u[x].id]]
  <2>1. ASSUME NEW x \in All PROVE ext[x] * Damping[t[x].id] = ext[x] * Damping[u[x].id]
    <3>1. CASE x \in Valid
      BY <3>1 DEF Agree
    <3>2. CASE x \notin Valid
      <4>1. ext[x] = 0
        BY <1>2, <3>2 DEF Pull
      <4>2. Damping[t[x].id] \in Nat /\ Damping[u[x].id] \in Nat
        BY KindFacts
      <4> QED BY <4>1, <4>2
    <3> QED BY <3>1, <3>2
  <2> QED BY <2>1
<1>4. redistribute_by_freq(t, ext) = redistribute_by_freq(u, ext)
  BY <1>3 DEF redistribute_by_freq
<1> QED BY <1>1, <1>4 DEF Extrapolation, ext
-----------------------------------------------------------------------------
(***************************************************************************)
(* The weights                                                             *)
(***************************************************************************)
OneOr(t) == One * Extrapolation(t).unit

LEMMA RawFacts ==
  ASSUME NEW t, Tokens(t)
  PROVE  /\ Raw(t) \in [All -> Nat]
         /\ OneOr(t) \in Nat \ {0}
         /\ \A x \in All : Raw(t)[x] >= OneOr(t)
<1> DEFINE e == Extrapolation(t)
<1>1. e.ext \in [All -> Nat] /\ e.unit \in Nat \ {0}
  BY ExtrapolationPull DEF Pull
<1>2. One \in Nat \ {0}
  BY SizeAssumption DEF One
<1>3. Raw(t) = [x \in All |-> (One + Gamma * 10 * t[x].s) * e.unit + e.ext[x]]
  BY DEF Raw
<1> HIDE DEF e
<1>4. ASSUME NEW a \in Nat, NEW b \in Nat, NEW c \in Nat, NEW d \in Nat
      PROVE  /\ (a + b) * c + d \in Nat /\ a * c \in Nat /\ (a + b) * c + d >= a * c
  <2>1. a * c \in Nat /\ b * c \in Nat
    OBVIOUS
  <2>2. (a + b) * c = a * c + b * c
    OBVIOUS
  <2> QED BY <2>1, <2>2
<1>5. ASSUME NEW x \in All
      PROVE  /\ (One + Gamma * 10 * t[x].s) * e.unit + e.ext[x] \in Nat
             /\ (One + Gamma * 10 * t[x].s) * e.unit + e.ext[x] >= One * e.unit
  <2>1. t[x].s \in Nat
    BY KindFacts
  <2>2. Gamma * 10 * t[x].s \in Nat
    BY <2>1, StrengthAssumption
  <2>3. e.unit \in Nat /\ e.ext[x] \in Nat
    BY <1>1
  <2> QED BY <1>2, <1>4, <2>2, <2>3
<1>6. \A a, b \in Nat \ {0} : a * b \in Nat \ {0}
  OBVIOUS
<1>7. One * e.unit \in Nat \ {0}
  BY <1>1, <1>2, <1>6
<1> QED BY <1>3, <1>5, <1>7 DEF OneOr, e

\* What a weight is: the divisor is the sum, and never the lower bound.
LEMMA WeightsFacts ==
  ASSUME NEW t, Tokens(t), NEW x \in All
  PROVE  /\ x \in Valid => Weights(t)[x] = [num |-> Raw(t)[x] * Cardinality(Valid),
                                            den |-> Sum(Raw(t), Valid)]
         /\ x \notin Valid => Weights(t)[x] = [num |-> 1, den |-> 1]
<1> DEFINE raw == Raw(t)
           unit == Extrapolation(t).unit
           sum == Sum(raw, Valid)
           den == Max({sum, One * unit})
<1>1. Weights(t) = [y \in All |-> IF y \in Valid
                                  THEN [num |-> raw[y] * Cardinality(Valid), den |-> den]
                                  ELSE [num |-> 1, den |-> 1]]
  BY DEF Weights, normalize_vd_weights, MeanOver
<1>2. ASSUME x \in Valid PROVE den = sum
  <2>1. /\ \A y \in Valid : raw[y] \in Nat
        /\ raw[x] >= One * unit /\ One * unit \in Nat /\ raw[x] \in Nat
    BY RawFacts, ValidFinite DEF OneOr
  <2> HIDE DEF raw, unit
  <2>2. sum = SumOver(raw, Valid) /\ sum \in Nat
    BY <2>1, ValidFinite, SumNat, SumIsOver
  <2>3. raw[x] <= sum
    BY <1>2, <2>1, <2>2, ValidFinite, SumAtLeast
  <2>4. sum >= One * unit
    BY <2>1, <2>2, <2>3
  <2> DEFINE b == One * unit
  <2> HIDE DEF sum, b
  <2>5. b \in Int /\ sum \in Int /\ sum >= b
    BY <2>1, <2>2, <2>4 DEF b
  <2>6. Max({sum, b}) \in {sum, b} /\ Max({sum, b}) >= sum
    BY <2>5, MaxOfTwo
  <2>7. Max({sum, b}) = sum
    BY <2>5, <2>6
  <2> QED BY <2>7 DEF b
<1> HIDE DEF raw, sum, den, unit
<1>3. /\ x \in Valid => Weights(t)[x] = [num |-> raw[x] * Cardinality(Valid), den |-> sum]
      /\ x \notin Valid => Weights(t)[x] = [num |-> 1, den |-> 1]
  BY <1>1, <1>2
<1> QED BY <1>3 DEF raw, sum

\* The weights depend on the valid tokens only.
LEMMA WeightsLocal ==
  ASSUME NEW t, NEW u, Tokens(t), Tokens(u), Agree(t, u)
  PROVE  Weights(t) = Weights(u)
<1>1. Extrapolation(t) = Extrapolation(u)
  BY ExtrapolationLocal
<1>2. \A x \in Valid : Raw(t)[x] = Raw(u)[x]
  BY <1>1, ValidFinite DEF Raw, Agree
<1>3. Sum(Raw(t), Valid) = Sum(Raw(u), Valid)
  <2> DEFINE f == Raw(t)
             g == Raw(u)
  <2>1. Numbers(f, Valid)
    BY RawFacts, ValidFinite DEF Numbers
  <2>2. \A x \in Valid : f[x] = g[x]
    BY <1>2
  <2> HIDE DEF f, g
  <2>3. SumOver(f, Valid) = SumOver(g, Valid)
    BY <2>1, <2>2, ValidFinite, SumCongruent
  <2> QED BY <2>3, SumIsOver DEF f, g
<1>4. \A x \in All : Weights(t)[x] = Weights(u)[x]
  BY <1>2, <1>3, WeightsFacts
<1>5. Weights(t) = [x \in All |-> Weights(t)[x]] /\ Weights(u) = [x \in All |-> Weights(u)[x]]
  BY DEF Weights, normalize_vd_weights
<1> QED BY <1>4, <1>5

-----------------------------------------------------------------------------
(***************************************************************************)
(* The specification: the result stays the weights of the tokens.          *)
(***************************************************************************)
Result == Tokens(tok) /\ (weights = <<>> \/ weights = Weights(tok))

\* What the operators read does not change.
LEMMA WeightsKept ==
  ASSUME UNCHANGED input
  PROVE  \A t : Weights(t)' = Weights(t)
<1>1. Valid' = Valid /\ Scope' = Scope /\ options' = options
  BY DEF input, Valid, LossMask, Scope
<1>2. \A f, k : AtRank(f, k)' = AtRank(f, k)
  <2> SUFFICES ASSUME NEW f, NEW k PROVE AtRank(f, k)' = AtRank(f, k)
    OBVIOUS
  <2>1. \A l : {x \in Scope' : f[x] <= l} = {x \in Scope : f[x] <= l}
    BY <1>1
  <2>2. {l \in 0 .. Top : k < Cardinality({x \in Scope' : f[x] <= l})}
          = {l \in 0 .. Top : k < Cardinality({x \in Scope : f[x] <= l})}
    BY <2>1
  <2> QED BY <2>2 DEF AtRank
<1>3. \A f, q : Quantile(f, q)' = Quantile(f, q)
  BY <1>1, <1>2 DEF Quantile
<1>4. \A t, x : Admissible(t, x)' <=> Admissible(t, x)
  BY <1>1 DEF Admissible
<1>5. \A t : Extra(t)' = Extra(t)
  <2> SUFFICES ASSUME NEW t PROVE Extra(t)' = Extra(t)
    OBVIOUS
  <2>1. /\ Quantile([x \in All |-> t[x].s], DDQ)' = Quantile([x \in All |-> t[x].s], DDQ)
        /\ Quantile([x \in All |-> t[x].jsd], JSDQ)' = Quantile([x \in All |-> t[x].jsd], JSDQ)
        /\ Quantile([x \in All |-> t[x].ddj], DDJQ)' = Quantile([x \in All |-> t[x].ddj], DDJQ)
    BY <1>3
  <2>2. \A x : (x \in Valid /\ Admissible(t, x))' <=> (x \in Valid /\ Admissible(t, x))
    BY <1>1, <1>4
  <2> QED BY <1>1, <2>1, <2>2 DEF Extra
<1>6. \A t, ext : redistribute_by_freq(t, ext)' = redistribute_by_freq(t, ext)
  BY <1>1 DEF redistribute_by_freq
<1>7. \A t : Extrapolation(t)' = Extrapolation(t)
  BY <1>1, <1>5, <1>6 DEF Extrapolation
<1>8. \A t : Raw(t)' = Raw(t)
  BY <1>7 DEF Raw
<1> QED BY <1>1, <1>7, <1>8 DEF Weights, normalize_vd_weights, MeanOver

LEMMA ResultStays == WeightSpec => []Result
<1>1. WeightInit => Result
  BY DEF WeightInit, Result, Tokens
<1>2. Result /\ [WeightNext]_weightVars => Result'
  <2> SUFFICES ASSUME Result, [WeightNext]_weightVars PROVE Result'
    OBVIOUS
  <2>1. UNCHANGED input
    BY DEF WeightNext, Weigh, weightVars
  <2>2. tok' = tok /\ (\A t : Weights(t)' = Weights(t))
    BY <2>1, WeightsKept DEF input
  <2>3. weights' = weights \/ weights' = Weights(tok)
    BY DEF WeightNext, Weigh, weightVars
  <2>4. Weights(tok)' = Weights(tok)
    BY <2>2
  <2>5. Tokens(tok)'
    BY <2>2 DEF Result, Tokens
  <2>6. (weights = <<>> \/ weights = Weights(tok))'
    BY <2>3, <2>4 DEF Result
  <2> QED BY <2>5, <2>6 DEF Result
<1> QED BY <1>1, <1>2, PTL DEF WeightSpec

\* Weights keep the scale of the loss: those of the valid tokens add up to
\* their number, the others are 1, for any micro-batch and any options.
THEOREM LossScaleTheorem == WeightSpec => []LossScaleKept
<1>1. Result => LossScaleKept
  <2> SUFFICES ASSUME Result, Weighed PROVE LossScaleKept
    BY DEF LossScaleKept
  <2> DEFINE raw == Raw(tok)
             size == Cardinality(Valid)
             f == [y \in Valid |-> weights[y].num]
  <2>1. weights = Weights(tok) /\ Tokens(tok)
    BY DEF Result, Weighed
  <2>2. \A x \in Valid : weights[x] = [num |-> raw[x] * size, den |-> Sum(raw, Valid)]
    BY <2>1, ValidFinite, WeightsFacts
  <2>3. \A x \in LossMask \ Valid : weights[x] = [num |-> 1, den |-> 1]
    BY <2>1, WeightsFacts DEF LossMask
  <2>4. Numbers(raw, Valid) /\ size \in Int
    BY <2>1, RawFacts, ValidFinite DEF Numbers
  <2> HIDE DEF raw, size
  <2>5. ASSUME NEW x \in Valid
        PROVE  weights[x].num = raw[x] * size /\ weights[x].den = Sum(raw, Valid)
    <3>1. weights[x] = [num |-> raw[x] * size, den |-> Sum(raw, Valid)]
      BY <2>2
    <3> QED BY <3>1
  <2>6. \A x \in Valid : f[x] = raw[x] * size
    BY <2>5
  <2> HIDE DEF f
  <2>7. Sum(f, Valid) = Sum(raw, Valid) * size
    BY <2>4, <2>6, ValidFinite, SumScaled, SumIsOver
  <2>8. Sum(raw, Valid) \in Int
    BY <2>4, ValidFinite, SumInt, SumIsOver
  <2>9. Sum(f, Valid) = size * Sum(raw, Valid)
    BY <2>4, <2>7, <2>8
  <2>10. \A x \in LossMask \ Valid : weights[x].num = weights[x].den
    BY <2>3
  <2>11. Sum([y \in Valid |-> weights[y].num], Valid) = Cardinality(Valid) * Sum(raw, Valid)
    BY <2>9 DEF f, size
  <2> QED BY <2>5, <2>10, <2>11 DEF LossScaleKept
<1> QED BY <1>1, ResultStays, PTL

\* Tokens that are not valid never change a weight.
THEOREM PaddingTheorem == WeightSpec => []PaddingIgnored
<1>1. Result => PaddingIgnored
  <2> SUFFICES ASSUME Result, Weighed, NEW k \in Kinds
               PROVE  Weights([x \in All |-> IF x \in Valid THEN tok[x] ELSE k]) = weights
    BY DEF PaddingIgnored
  <2> DEFINE u == [x \in All |-> IF x \in Valid THEN tok[x] ELSE k]
  <2>1. weights = Weights(tok) /\ Tokens(tok)
    BY DEF Result, Weighed
  <2>2. Tokens(u) /\ Agree(tok, u)
    BY <2>1, ValidFinite DEF Tokens, Agree
  <2> HIDE DEF u
  <2>3. Weights(tok) = Weights(u)
    BY <2>1, <2>2, WeightsLocal
  <2> QED BY <2>1, <2>3 DEF u
<1> QED BY <1>1, ResultStays, PTL

\* A token of low rate, or that completes a template, never weighs more than
\* another of the same view dependence.
THEOREM RitualTheorem == WeightSpec => []RitualNotFavoured
<1>1. Result => RitualNotFavoured
  <2> SUFFICES ASSUME Result, Weighed, NEW x \in Valid, NEW y \in Valid,
                      tok[x].s = tok[y].s,
                      ~ (/\ tok[x].id \in Rated
                         /\ \A z \in Valid : z[1] = x[1] /\ z[2] + 1 = x[2]
                              => <<tok[z].id, tok[x].id>> \notin Template)
               PROVE  weights[x].num <= weights[y].num
    BY DEF RitualNotFavoured
  <2> DEFINE e == Extrapolation(tok)
             base == (One + Gamma * 10 * tok[x].s) * e.unit
  <2>1. weights = Weights(tok) /\ Tokens(tok) /\ x \in All /\ y \in All
    BY ValidFinite DEF Result, Weighed
  <2>2. ~ Admissible(tok, x)
    <3>1. CASE tok[x].id \notin Rated
      BY <3>1 DEF Admissible
    <3>2. CASE \E z \in Valid : z[1] = x[1] /\ z[2] + 1 = x[2] /\ <<tok[z].id, tok[x].id>> \in Template
      <4>1. PICK z \in Valid : z[1] = x[1] /\ z[2] + 1 = x[2] /\ <<tok[z].id, tok[x].id>> \in Template
        BY <3>2
      <4>2. z \in Rows \X (1 .. NPos)
        BY ValidFinite DEF All
      <4>3. z = <<z[1], z[2]>> /\ z[2] \in Int /\ z[2] >= 1
        BY <4>2, SizeAssumption
      <4>4. x[2] > 1 /\ x[2] - 1 = z[2]
        BY <4>1, <4>3
      <4>5. z = <<x[1], x[2] - 1>>
        BY <4>1, <4>3, <4>4
      <4> QED BY <4>1, <4>4, <4>5 DEF Admissible
    <3> QED BY <3>1, <3>2
  <2>3. /\ e.ext[x] = 0 /\ e.ext[y] \in Nat
    BY <2>1, <2>2, ExtrapolationPull DEF Pull
  <2>4. Raw(tok)[x] = base + e.ext[x] /\ Raw(tok)[y] = base + e.ext[y]
    BY <2>1 DEF Raw
  <2>5. Raw(tok)[x] \in Nat /\ Raw(tok)[y] \in Nat
    BY <2>1, RawFacts
  <2> HIDE DEF e
  <2>6. base \in Int
    <3>1. tok[x].s \in Int /\ One \in Int
      BY <2>1, KindFacts, SizeAssumption DEF One
    <3>2. e.unit \in Int
      BY <2>1, ExtrapolationPull DEF e
    <3>3. \A a, b, c \in Int : (a + b) * c \in Int
      OBVIOUS
    <3>4. Gamma * 10 * tok[x].s \in Int
      BY <3>1, StrengthAssumption
    <3> QED BY <3>1, <3>2, <3>3, <3>4
  <2> HIDE DEF base
  <2>7. Raw(tok)[x] <= Raw(tok)[y]
    BY <2>3, <2>4, <2>6
  <2>9. Raw(tok)[x] * Cardinality(Valid) <= Raw(tok)[y] * Cardinality(Valid)
    BY <2>5, <2>7, NatTimesMonotone, ValidFinite
  <2>10. \A z \in Valid : weights[z] = [num |-> Raw(tok)[z] * Cardinality(Valid),
                                       den |-> Sum(Raw(tok), Valid)]
    BY <2>1, ValidFinite, WeightsFacts
  <2>11. ASSUME NEW z \in Valid PROVE weights[z].num = Raw(tok)[z] * Cardinality(Valid)
    <3>1. weights[z] = [num |-> Raw(tok)[z] * Cardinality(Valid), den |-> Sum(Raw(tok), Valid)]
      BY <2>10
    <3> QED BY <3>1
  <2> QED BY <2>9, <2>11
<1> QED BY <1>1, ResultStays, PTL
\* The dd gate alone never spreads the extrapolation over more than the share
\* of the tokens above its quantile, ties included.
THEOREM TopShareTheorem == WeightSpec => []AtMostTopShare
<1>1. Result => AtMostTopShare
  <2> SUFFICES ASSUME Result, Weighed, "dd_jsd" \notin options
               PROVE  Cardinality({x \in Valid : Extra(tok)[x] > 0}) * 10
                        <= Max({0, (10 - DDQ) * (Cardinality(Valid) - 1) + 9})
    BY DEF AtMostTopShare
  <2> DEFINE f == [x \in All |-> tok[x].s]
             theta == Quantile(f, DDQ)
             got == {x \in Valid : Extra(tok)[x] > 0}
             above == {x \in Valid : Exceeds(f[x], theta)}
             share == (10 - DDQ) * (Cardinality(Valid) - 1) + 9
  <2>1. Tokens(tok)
    BY DEF Result
  <2>2. (\A x \in Valid : f[x] \in 0 .. Top) /\ DDQ \in 0 .. 10
    BY <2>1, KindFacts, ValidFinite, QuantileAssumption
  <2>3. got \subseteq above
    <3> SUFFICES ASSUME NEW x \in Valid, Extra(tok)[x] > 0 PROVE Exceeds(f[x], theta)
      OBVIOUS
    <3> SUFFICES ASSUME ~ Exceeds(tok[x].s, theta) PROVE FALSE
      BY ValidFinite
    <3>1. Extra(tok)[x] \in {0, Lambda * Max({0, 0})}
      BY ValidFinite DEF Extra
    <3>2. \A a \in Int : Max({a, a}) \in {a, a}
      BY MaxOfTwo
    <3>3. Max({0, 0}) = 0
      BY <3>2
    <3> QED BY <3>1, <3>3, StrengthAssumption
  <2>4. Cardinality(got) \in Nat /\ Cardinality(got) <= Cardinality(above) /\ Cardinality(above) \in Nat
    <3> HIDE DEF got, above
    <3>1. above \subseteq Valid
      BY DEF above
    <3> QED BY <2>3, <3>1, ValidFinite, FS_Subset, FS_CardinalityType
  <2>5. share \in Int
    BY <2>2, ValidFinite
  <2>6. CASE Valid = {}
    <3>1. got = {}
      BY <2>6
    <3>2. Cardinality(got) = 0
      BY <3>1, FS_EmptySet
    <3> HIDE DEF share
    <3> QED BY <2>5, <3>2, MaxOfTwo DEF share
  <2>7. CASE Valid # {}
    <3> HIDE DEF f
    <3>1. Cardinality(above) * 10 <= share
      BY <2>2, <2>7, QuantileShare
    <3> HIDE DEF share, got, above
    <3>4. Max({0, share}) \in {0, share} /\ Max({0, share}) >= share
      BY <2>5, MaxOfTwo
    <3>2. Max({0, share}) >= share /\ Max({0, share}) \in Int
      BY <2>5, <3>4
    <3>3. Cardinality(got) * 10 <= Max({0, share})
      BY <2>4, <2>5, <3>1, <3>2
    <3> QED BY <3>3 DEF share, got
  <2> QED BY <2>6, <2>7
<1> QED BY <1>1, ResultStays, PTL

\* Frequency decay keeps the budget and moves it to the rarer tokens.
THEOREM BudgetTheorem == WeightSpec => []BudgetKept
<1>1. Result => BudgetKept
  <2> SUFFICES ASSUME Result PROVE BudgetKept
    OBVIOUS
  <2> DEFINE ext == Extra(tok)
             e == [x \in All |-> ext[x] * Damping[tok[x].id]]
             new == redistribute_by_freq(tok, ext)
             total == Sum(ext, Valid)
  <2>1. Tokens(tok) /\ Pull(tok, ext)
    BY ExtraPull DEF Result
  <2> HIDE DEF ext
  <2>2. ext \in [All -> Nat]
    BY <2>1 DEF Pull
  <2>3. /\ \A x \in All : e[x] \in Nat /\ (e[x] = 0 <=> ext[x] = 0)
        /\ total \in Nat /\ Sum(e, Valid) \in Nat
        /\ total = 0 => \A x \in All : ext[x] = 0
    BY <2>1, DecayedFacts
  <2>4. \A x, y \in All : ext[x] = ext[y] /\ Damping[tok[x].id] >= Damping[tok[y].id] => e[x] >= e[y]
    <3> SUFFICES ASSUME NEW x \in All, NEW y \in All, ext[x] = ext[y],
                        Damping[tok[x].id] >= Damping[tok[y].id]
                 PROVE  e[x] >= e[y]
      OBVIOUS
    <3>1. ext[x] \in Nat /\ Damping[tok[x].id] \in Nat /\ Damping[tok[y].id] \in Nat
      BY <2>1, <2>2, KindFacts
    <3> QED BY <3>1, NatTimesMonotone
  <2>5. CASE total = 0
    <3>1. new = [ext |-> [x \in All |-> 0], unit |-> 1]
      BY <2>5 DEF redistribute_by_freq
    <3>2. Sum(new.ext, Valid) = 0
      BY <3>1, ValidFinite, SumZero, SumIsOver
    <3> HIDE DEF total, e
    <3> QED BY <2>3, <2>5, <3>1, <3>2 DEF BudgetKept, ext, total
  <2>6. CASE total # 0
    <3>1. new = [ext |-> [x \in All |-> e[x] * total], unit |-> Sum(e, Valid)]
      BY <2>6 DEF redistribute_by_freq, Rescaled
    <3> HIDE DEF e, total
    <3>2. \A x \in All : new.ext[x] = e[x] * total
      BY <3>1
    <3>3. Sum(new.ext, Valid) = Sum(e, Valid) * total
      <4> DEFINE g == new.ext
      <4>1. Numbers(e, Valid) /\ (\A x \in Valid : g[x] = e[x] * total) /\ total \in Int
        BY <2>3, <3>2, ValidFinite DEF Numbers
      <4> HIDE DEF g
      <4>2. SumOver(g, Valid) = SumOver(e, Valid) * total
        BY <4>1, ValidFinite, SumScaled
      <4> QED BY <4>2, SumIsOver DEF g
    <3>4. Sum(new.ext, Valid) = total * new.unit
      BY <2>3, <3>1, <3>3
    <3>5. ASSUME NEW x \in All PROVE new.ext[x] > 0 <=> ext[x] > 0
      <4>1. \A a, b \in Nat : b # 0 => (a * b > 0 <=> a > 0)
        OBVIOUS
      <4>2. ext[x] \in Nat /\ e[x] \in Nat /\ (e[x] = 0 <=> ext[x] = 0) /\ total \in Nat
        BY <2>2, <2>3
      <4> QED BY <2>6, <3>2, <4>1, <4>2
    <3>6. ASSUME NEW x \in All, NEW y \in All, ext[x] = ext[y],
                 Damping[tok[x].id] >= Damping[tok[y].id]
          PROVE  new.ext[x] >= new.ext[y]
      <4>1. e[x] \in Nat /\ e[y] \in Nat /\ total \in Nat /\ e[x] >= e[y]
        BY <2>3, <2>4, <3>6
      <4>2. e[y] * total <= e[x] * total
        BY <4>1, NatTimesMonotone
      <4>3. e[y] * total \in Nat /\ e[x] * total \in Nat
        BY <4>1
      <4> QED BY <3>2, <4>2, <4>3
    <3> QED BY <3>4, <3>5, <3>6 DEF BudgetKept, ext, total
  <2> QED BY <2>5, <2>6
<1> QED BY <1>1, ResultStays, PTL

=============================================================================
