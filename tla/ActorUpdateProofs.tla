-------------------------- MODULE ActorUpdateProofs --------------------------
(***************************************************************************)
(* Proofs about ActorUpdate, for any number of ranks, batches and sizes.   *)
(*                                                                         *)
(* PathInv is about one rank: its chunk holds its share of the batch, its  *)
(* micro-batches split its mini-batch, and what it computed, collected and *)
(* trained on is what lies behind it. It gives LogProbsTheorem,            *)
(* GradientTheorem and EpochTheorem. LockInv is about two: the operations  *)
(* of a rank are a sequence that the batch and the agreed numbers of       *)
(* micro-batches determine, and two ranks are at most one operation apart  *)
(* (CollectivesTheorem). AgreeInv adds that the outcome of a norm is the   *)
(* same for all who wait for it (AgreeTheorem).                            *)
(***************************************************************************)
EXTENDS ActorUpdate, SumTheorems, SequenceTheorems

-----------------------------------------------------------------------------
(***************************************************************************)
(* Sequences that hold each element of a set once                          *)
(***************************************************************************)
Enumerates(s, P) ==
  /\ s \in Seq(P)
  /\ \A a, b \in 1 .. Len(s) : s[a] = s[b] => a = b
  /\ \A i \in P : \E a \in 1 .. Len(s) : s[a] = i

LEMMA EnumeratesLen ==
  ASSUME NEW P, IsFiniteSet(P), NEW s, Enumerates(s, P)
  PROVE  Len(s) = Cardinality(P) /\ Len(s) \in Nat /\ s \in [1 .. Len(s) -> P]
<1>1. s \in Seq(P)
  BY DEF Enumerates
<1>2. Len(s) \in Nat /\ s \in [1 .. Len(s) -> P]
  BY <1>1, LenProperties
<1>3. IsFiniteSet(1 .. Len(s)) /\ Cardinality(1 .. Len(s)) = Len(s)
  <2>1. 1 \in Int /\ Len(s) \in Int
    BY <1>2
  <2>2. IsFiniteSet(1 .. Len(s)) /\ Cardinality(1 .. Len(s)) = IF 1 > Len(s) THEN 0 ELSE Len(s) - 1 + 1
    BY <2>1, FS_Interval
  <2> QED BY <1>2, <2>2
<1>4. s \in Bijection(1 .. Len(s), P)
  BY <1>2 DEF Enumerates, Bijection, Injection, Surjection, IsInjective
<1>5. ExistsBijection(1 .. Len(s), P)
  BY <1>4 DEF ExistsBijection
<1> QED BY <1>2, <1>3, <1>5, FS_Bijection

LEMMA EnumeratesConcat ==
  ASSUME NEW P, NEW Q, P \cap Q = {}, NEW s, NEW t, Enumerates(s, P), Enumerates(t, Q)
  PROVE  Enumerates(s \o t, P \cup Q)
<1> DEFINE u == s \o t
           R == P \cup Q
<1>1. /\ s \in Seq(P) /\ t \in Seq(Q) /\ s \in Seq(R) /\ t \in Seq(R)
      /\ Len(s) \in Nat /\ Len(t) \in Nat
  BY SeqMonotonic, LenProperties DEF Enumerates
<1>2. /\ u \in Seq(R) /\ Len(u) = Len(s) + Len(t)
      /\ \A i \in 1 .. Len(s) + Len(t) : u[i] = IF i <= Len(s) THEN s[i] ELSE t[i - Len(s)]
  BY <1>1, ConcatProperties
<1>3. (\A a \in 1 .. Len(s) : s[a] \in P) /\ (\A a \in 1 .. Len(t) : t[a] \in Q)
  BY <1>1, ElementOfSeq
<1> HIDE DEF u
<1>4. ASSUME NEW a \in 1 .. Len(u), NEW b \in 1 .. Len(u), u[a] = u[b] PROVE a = b
  <2>1. CASE a <= Len(s) /\ b <= Len(s)
    <3>1. a \in 1 .. Len(s) /\ b \in 1 .. Len(s)
      BY <1>1, <1>2, <2>1
    <3>2. u[a] = s[a] /\ u[b] = s[b]
      BY <1>2, <2>1
    <3>3. s[a] = s[b]
      BY <1>4, <3>2
    <3> QED BY <3>1, <3>3 DEF Enumerates
  <2>2. CASE ~ (a <= Len(s)) /\ ~ (b <= Len(s))
    <3>1. a - Len(s) \in 1 .. Len(t) /\ b - Len(s) \in 1 .. Len(t) /\ t[a - Len(s)] = t[b - Len(s)]
      BY <1>1, <1>2, <1>4, <2>2
    <3>2. a - Len(s) = b - Len(s)
      BY <3>1 DEF Enumerates
    <3> QED BY <1>1, <1>2, <3>2
  <2>3. CASE a <= Len(s) /\ ~ (b <= Len(s))
    <3>1. a \in 1 .. Len(s) /\ b - Len(s) \in 1 .. Len(t)
      BY <1>1, <1>2, <2>3
    <3>2. u[a] = s[a] /\ u[b] = t[b - Len(s)]
      BY <1>2, <2>3
    <3> QED BY <1>3, <1>4, <3>1, <3>2
  <2>4. CASE ~ (a <= Len(s)) /\ b <= Len(s)
    <3>1. b \in 1 .. Len(s) /\ a - Len(s) \in 1 .. Len(t)
      BY <1>1, <1>2, <2>4
    <3>2. u[b] = s[b] /\ u[a] = t[a - Len(s)]
      BY <1>2, <2>4
    <3> QED BY <1>3, <1>4, <3>1, <3>2
  <2> QED BY <2>1, <2>2, <2>3, <2>4
<1>5. ASSUME NEW i \in R PROVE \E a \in 1 .. Len(u) : u[a] = i
  <2>1. CASE i \in P
    <3>1. PICK a \in 1 .. Len(s) : s[a] = i
      BY <2>1 DEF Enumerates
    <3> QED BY <1>1, <1>2, <3>1
  <2>2. CASE i \in Q
    <3>1. PICK a \in 1 .. Len(t) : t[a] = i
      BY <2>2 DEF Enumerates
    <3>2. /\ a + Len(s) \in 1 .. Len(s) + Len(t) /\ ~ (a + Len(s) <= Len(s))
          /\ a + Len(s) - Len(s) = a
      BY <1>1
    <3>3. u[a + Len(s)] = i
      BY <1>2, <3>1, <3>2
    <3> QED BY <1>2, <3>2, <3>3
  <2> QED BY <2>1, <2>2
<1> QED BY <1>2, <1>4, <1>5 DEF Enumerates, u

\* Sorted places each element at the number of those up to it.
LEMMA SortedEnumerates ==
  ASSUME NEW P \in SUBSET Nat, IsFiniteSet(P), NEW key, \A i \in P : key[i] \in Int
  PROVE  Enumerates(Sorted(P, key), P)
<1> DEFINE n == Cardinality(P)
           Place(i) == Cardinality(UpTo(P, key, i))
<1>1. n \in Nat /\ IsFiniteSet(1 .. n) /\ Cardinality(1 .. n) = n
  <2>1. n \in Nat
    BY FS_CardinalityType
  <2>2. IsFiniteSet(1 .. n) /\ Cardinality(1 .. n) = IF 1 > n THEN 0 ELSE n - 1 + 1
    BY <2>1, FS_Interval
  <2> QED BY <2>1, <2>2
<1>2. ASSUME NEW i \in P
      PROVE  /\ UpTo(P, key, i) \subseteq P /\ i \in UpTo(P, key, i)
             /\ IsFiniteSet(UpTo(P, key, i)) /\ Place(i) \in 1 .. n
  <2>1. UpTo(P, key, i) \subseteq P
    BY DEF UpTo
  <2>2. i \in UpTo(P, key, i)
    BY DEF UpTo
  <2>3. IsFiniteSet(UpTo(P, key, i)) /\ Place(i) \in Nat /\ Place(i) <= n
    BY <2>1, FS_Subset, FS_CardinalityType
  <2>4. Place(i) # 0
    BY <2>2, <2>3, FS_EmptySet
  <2> QED BY <1>1, <2>1, <2>2, <2>3, <2>4
<1>3. ASSUME NEW i \in P, NEW j \in P, key[i] < key[j] \/ (key[i] = key[j] /\ i < j)
      PROVE  Place(i) # Place(j)
  <2>1. ASSUME NEW x \in UpTo(P, key, i) PROVE x \in UpTo(P, key, j)
    <3>1. x \in P /\ (key[x] < key[i] \/ (key[x] = key[i] /\ x <= i))
      BY DEF UpTo
    <3>2. key[x] \in Int /\ key[i] \in Int /\ key[j] \in Int /\ x \in Int /\ i \in Int /\ j \in Int
      BY <3>1
    <3>3. key[x] < key[j] \/ (key[x] = key[j] /\ x <= j)
      BY <1>3, <3>1, <3>2
    <3> QED BY <3>1, <3>3 DEF UpTo
  <2>2. j \notin UpTo(P, key, i)
    BY <1>3 DEF UpTo
  <2> QED BY <1>2, <2>1, <2>2, FS_Subset
<1>4. ASSUME NEW i \in P, NEW j \in P, Place(i) = Place(j) PROVE i = j
  <2> SUFFICES ASSUME i # j PROVE FALSE
    OBVIOUS
  <2>1. \/ key[i] < key[j] \/ (key[i] = key[j] /\ i < j)
        \/ key[j] < key[i] \/ (key[j] = key[i] /\ j < i)
    OBVIOUS
  <2> HIDE DEF Place
  <2> QED BY <1>3, <1>4, <2>1
<1> DEFINE R == [i \in P |-> Place(i)]
<1>5. R \in Injection(P, 1 .. n)
  <2> HIDE DEF Place
  <2>1. R \in [P -> 1 .. n]
    BY <1>2
  <2>2. \A i, j \in P : R[i] = R[j] => i = j
    BY <1>4
  <2> QED BY <2>1, <2>2 DEF Injection, IsInjective
<1>6. R \in Surjection(P, 1 .. n)
  <2> HIDE DEF R
  <2> QED BY <1>1, <1>5, FS_Injection
<1>7. ASSUME NEW k \in 1 .. n PROVE \E i \in P : Place(i) = k
  <2>1. \E i \in P : R[i] = k
    BY <1>6 DEF Surjection
  <2> QED BY <2>1
<1> DEFINE s == Sorted(P, key)
<1>8. s = [k \in 1 .. n |-> CHOOSE i \in P : Place(i) = k]
  BY DEF Sorted
<1>9. ASSUME NEW k \in 1 .. n PROVE s[k] \in P /\ Place(s[k]) = k
  <2> DEFINE c == CHOOSE i \in P : Place(i) = k
  <2>1. c \in P /\ Place(c) = k
    <3> HIDE DEF Place
    <3> QED BY <1>7
  <2>2. s[k] = c
    BY <1>8
  <2> HIDE DEF s, c
  <2> QED BY <2>1, <2>2
<1>10. s \in [1 .. n -> P] /\ s \in Seq(P) /\ Len(s) = n
  <2>1. s = [k \in 1 .. n |-> s[k]]
    BY <1>8
  <2> HIDE DEF s
  <2>2. s \in [1 .. n -> P]
    BY <1>9, <2>1
  <2> QED BY <1>1, <2>2
<1> HIDE DEF s, Place
<1>11. ASSUME NEW i \in P PROVE Place(i) \in 1 .. n /\ s[Place(i)] = i
  BY <1>2, <1>4, <1>9
<1> QED BY <1>9, <1>10, <1>11 DEF Enumerates, s
-----------------------------------------------------------------------------
(***************************************************************************)
(* Sequences joined one after the other                                    *)
(***************************************************************************)
LEMMA FlattenIsFlat ==
  ASSUME NEW m, NEW n \in Nat \ {0}, Len(m) = n, NEW S, m[1] \in Seq(S)
  PROVE  FlattenSeq(m) = Flat(m, n)[n]
BY UnrolledIsFlat DEF FlattenSeq, Unrolled

\* Sequences that enumerate the parts of a set enumerate it together.
PartOf(S, owner, j) == {i \in S : owner[i] = j}
PartsUpTo(S, owner, j) == {i \in S : owner[i] <= j}

LEMMA FlatEnumerates ==
  ASSUME NEW m, NEW n \in Nat, NEW S, NEW owner, \A i \in S : owner[i] \in 1 .. n,
         \A j \in 1 .. n : Enumerates(m[j], PartOf(S, owner, j))
  PROVE  \A j \in 0 .. n : Enumerates(Flat(m, n)[j], PartsUpTo(S, owner, j))
<1> USE DEF PartOf, PartsUpTo
<1> DEFINE Up(j) == {i \in S : owner[i] <= j}
           T == {j \in 0 .. n : Enumerates(Flat(m, n)[j], Up(j))}
<1>1. 0 \in T
  <2>1. Up(0) = {}
    OBVIOUS
  <2>2. Enumerates(<<>>, {})
    BY EmptySeq DEF Enumerates
  <2> QED BY <2>1, <2>2, FlatZero
<1>2. ASSUME NEW j \in 1 .. n, j - 1 \in T PROVE j \in T
  <2> DEFINE Q == {i \in S : owner[i] = j}
  <2>1. Up(j) = Up(j - 1) \cup Q /\ Up(j - 1) \cap Q = {}
    OBVIOUS
  <2>2. Enumerates(Flat(m, n)[j - 1], Up(j - 1)) /\ Enumerates(m[j], Q)
    BY <1>2
  <2> HIDE DEF Up, Q
  <2>3. Enumerates(Flat(m, n)[j - 1] \o m[j], Up(j - 1) \cup Q)
    BY <2>1, <2>2, EnumeratesConcat
  <2>4. Flat(m, n)[j] = Flat(m, n)[j - 1] \o m[j]
    BY FlatNext
  <2>5. Enumerates(Flat(m, n)[j], Up(j))
    BY <2>1, <2>3, <2>4
  <2>6. j \in 0 .. n
    OBVIOUS
  <2> QED BY <2>5, <2>6
<1>3. \A j \in 0 .. n : j \in T
  <2> HIDE DEF T
  <2> QED BY <1>1, <1>2, BoundedInduction
<1> QED BY <1>3

\* A sequence read at different places of one that enumerates a set.
LEMMA EnumeratesPlaces ==
  ASSUME NEW P, NEW s, Enumerates(s, P), NEW k \in Nat, NEW t, t = [i \in 1 .. k |-> t[i]],
         NEW g, \A i \in 1 .. k : g[i] \in 1 .. Len(s) /\ t[i] = s[g[i]],
         \A i, j \in 1 .. k : g[i] = g[j] => i = j
  PROVE  Enumerates(t, {t[i] : i \in 1 .. k}) /\ Len(t) = k
<1> DEFINE Q == {t[i] : i \in 1 .. k}
<1>1. t \in [1 .. k -> Q]
  OBVIOUS
<1>2. t \in Seq(Q) /\ Len(t) = k
  BY <1>1
<1>3. ASSUME NEW a \in 1 .. k, NEW b \in 1 .. k, t[a] = t[b] PROVE a = b
  <2>1. s[g[a]] = s[g[b]] /\ g[a] \in 1 .. Len(s) /\ g[b] \in 1 .. Len(s)
    BY <1>3
  <2>2. g[a] = g[b]
    BY <2>1 DEF Enumerates
  <2> QED BY <2>2
<1> QED BY <1>2, <1>3 DEF Enumerates

LEMMA ShortAtBothEndsEnumerates ==
  ASSUME NEW P, NEW s, Enumerates(s, P)
  PROVE  Enumerates(ShortAtBothEnds(s), P)
<1> DEFINE n == Len(s)
           h == (n + 1) \div 2
           l == n \div 2
           a == Places(s, 1)
           b == Places(s, 2)
           c == Reverse(b)
           A == {a[i] : i \in 1 .. h}
           C == {c[i] : i \in 1 .. l}
<1>1. n \in Nat /\ h \in Nat /\ l \in Nat /\ 2 * h <= n + 1 /\ 2 * l <= n /\ n <= h + l /\ s \in [1 .. n -> P]
  BY LenProperties DEF Enumerates
<1>2. a = [i \in 1 .. h |-> s[2 * i - 1]]
  <2>1. n + 2 - 1 = n + 1 /\ \A i \in 1 .. h : 2 * i - 2 + 1 = 2 * i - 1
    BY <1>1
  <2> QED BY <2>1 DEF Places
<1>3. b = [i \in 1 .. l |-> s[2 * i]] /\ Len(b) = l
  <2>1. n + 2 - 2 = n /\ \A i \in 1 .. l : 2 * i - 2 + 2 = 2 * i
    BY <1>1
  <2>2. b = [i \in 1 .. l |-> s[2 * i]]
    BY <2>1 DEF Places
  <2> HIDE DEF b, l
  <2> QED BY <1>1, <2>2
<1>4. c = [i \in 1 .. l |-> s[2 * (l - i + 1)]]
  <2>1. c = [i \in 1 .. l |-> b[(l - i) + 1]]
    BY <1>3 DEF Reverse
  <2>2. \A i \in 1 .. l : (l - i) + 1 \in 1 .. l
    BY <1>1
  <2> HIDE DEF b, l, c
  <2> QED BY <1>3, <2>1, <2>2
<1> HIDE DEF n, h, l, a, b, c
<1>5. Enumerates(a, A) /\ Len(a) = h
  <2> DEFINE g == [i \in 1 .. h |-> 2 * i - 1]
  <2>1. \A i \in 1 .. h : g[i] \in 1 .. Len(s) /\ a[i] = s[g[i]]
    BY <1>1, <1>2 DEF n
  <2>2. \A i, j \in 1 .. h : g[i] = g[j] => i = j
    BY <1>1
  <2>3. a = [i \in 1 .. h |-> a[i]]
    BY <1>2
  <2> HIDE DEF g
  <2>4. h \in Nat /\ Enumerates(s, P)
    BY <1>1
  <2> QED BY <2>1, <2>2, <2>3, <2>4, EnumeratesPlaces
<1>6. Enumerates(c, C) /\ Len(c) = l
  <2> DEFINE g == [i \in 1 .. l |-> 2 * (l - i + 1)]
  <2>1. \A i \in 1 .. l : g[i] \in 1 .. Len(s) /\ c[i] = s[g[i]]
    BY <1>1, <1>4 DEF n
  <2>2. \A i, j \in 1 .. l : g[i] = g[j] => i = j
    BY <1>1
  <2>3. c = [i \in 1 .. l |-> c[i]]
    BY <1>4
  <2> HIDE DEF g
  <2>4. l \in Nat /\ Enumerates(s, P)
    BY <1>1
  <2> QED BY <2>1, <2>2, <2>3, <2>4, EnumeratesPlaces
<1>7. A \cap C = {}
  <2> SUFFICES ASSUME NEW i \in 1 .. h, NEW j \in 1 .. l, a[i] = c[j] PROVE FALSE
    OBVIOUS
  <2>1. 2 * i - 1 \in 1 .. Len(s) /\ 2 * (l - j + 1) \in 1 .. Len(s)
    BY <1>1 DEF n
  <2>2. s[2 * i - 1] = s[2 * (l - j + 1)]
    BY <1>2, <1>4
  <2>3. 2 * i - 1 = 2 * (l - j + 1)
    BY <2>1, <2>2 DEF Enumerates
  <2> QED BY <1>1, <2>3
<1>8. A \cup C = P
  <2>1. ASSUME NEW x \in P PROVE x \in A \cup C
    <3>1. PICK p \in 1 .. n : s[p] = x
      BY DEF Enumerates, n
    <3>2. p \in Nat /\ (p = 2 * (p \div 2) \/ p = 2 * (p \div 2) + 1) /\ p \div 2 \in Nat
      BY <1>1, <3>1
    <3>3. CASE p = 2 * (p \div 2)
      <4> DEFINE i == l - (p \div 2) + 1
      <4>1. i \in 1 .. l /\ 2 * (l - i + 1) = p
        BY <1>1, <3>1, <3>2, <3>3
      <4>2. c[i] = x
        BY <1>4, <3>1, <4>1
      <4> QED BY <4>1, <4>2
    <3>4. CASE p = 2 * (p \div 2) + 1
      <4> DEFINE i == (p \div 2) + 1
      <4>1. i \in 1 .. h /\ 2 * i - 1 = p
        BY <1>1, <3>1, <3>2, <3>4
      <4>2. a[i] = x
        BY <1>2, <3>1, <4>1
      <4> QED BY <4>1, <4>2
    <3> QED BY <3>2, <3>3, <3>4
  <2>2. A \subseteq P
    BY <1>1, <1>2
  <2>3. C \subseteq P
    BY <1>1, <1>4
  <2> QED BY <2>1, <2>2, <2>3
<1> HIDE DEF A, C
<1>9. Enumerates(a \o c, P)
  BY <1>5, <1>6, <1>7, <1>8, EnumeratesConcat
<1> QED BY <1>9 DEF ShortAtBothEnds, a, b, c
-----------------------------------------------------------------------------
(***************************************************************************)
(* Micro-batches: a cut of n positions is a sequence of parts, each part a *)
(* sequence that enumerates it.                                            *)
(***************************************************************************)
Splits(cut, n) ==
  /\ Len(cut) \in Nat
  /\ \E owner : /\ \A i \in 1 .. n : owner[i] \in 1 .. Len(cut)
                /\ \A j \in 1 .. Len(cut) : Enumerates(cut[j], PartOf(1 .. n, owner, j))

FixedCount(n) == (n + MicroSize - 1) \div MicroSize

LEMMA IntervalFinite ==
  ASSUME NEW n \in Nat
  PROVE  IsFiniteSet(1 .. n) /\ Cardinality(1 .. n) = n
<1>1. 1 \in Int /\ n \in Int
  OBVIOUS
<1>2. IsFiniteSet(1 .. n) /\ Cardinality(1 .. n) = IF 1 > n THEN 0 ELSE n - 1 + 1
  BY <1>1, FS_Interval
<1> QED BY <1>2

LEMMA DynamicSplits ==
  ASSUME NEW n \in Nat \ {0}, NEW k \in Nat, NEW cut \in DynamicCuts(n, k)
  PROVE  Splits(cut, n) /\ Len(cut) = k
<1>1. PICK f \in [1 .. n -> 1 .. k] :
        cut = [j \in 1 .. k |-> Sorted({i \in 1 .. n : f[i] = j}, [i \in 1 .. n |-> i])]
  BY DEF DynamicCuts
<1>2. Len(cut) = k
  BY <1>1
<1>3. ASSUME NEW j \in 1 .. k PROVE Enumerates(cut[j], PartOf(1 .. n, f, j))
  <2> DEFINE P == {i \in 1 .. n : f[i] = j}
             key == [i \in 1 .. n |-> i]
  <2>1. P \in SUBSET Nat /\ IsFiniteSet(P)
    BY IntervalFinite, FS_Subset
  <2>2. \A i \in P : key[i] \in Int
    OBVIOUS
  <2>3. cut[j] = Sorted(P, key)
    BY <1>1
  <2> HIDE DEF P, key
  <2>4. Enumerates(cut[j], P)
    BY <2>1, <2>2, <2>3, SortedEnumerates
  <2> QED BY <2>4 DEF P, PartOf
<1> QED BY <1>2, <1>3 DEF Splits

\* n things in pieces of m, the last one perhaps smaller.
LEMMA Pieces ==
  ASSUME NEW n \in Nat, NEW m \in Nat \ {0}, NEW k, k = (n + m - 1) \div m
  PROVE  /\ k \in Nat
         /\ \A j \in 1 .. k : (j - 1) * m < n /\ (j - 1) * m \in Nat
         /\ n <= k * m
         /\ k * m <= n + m - 1
         /\ \A j \in Int : j * m = (j - 1) * m + m
<1>1. m \in Nat \ {0}
  OBVIOUS
<1>2. k \in Nat /\ k * m <= n + m - 1 /\ n <= k * m
  <2> DEFINE x == n + m - 1
  <2>1. x \in Nat
    BY <1>1
  <2>2. \A a \in Nat, b \in Nat \ {0} :
          a \div b \in Nat /\ (a \div b) * b <= a /\ a < (a \div b) * b + b
    OBVIOUS
  <2>3. k = x \div m
    OBVIOUS
  <2> HIDE DEF x
  <2>4. k \in Nat /\ k * m <= x /\ x < k * m + m /\ k * m \in Nat
    BY <1>1, <2>1, <2>2, <2>3
  <2> QED BY <1>1, <2>4 DEF x
<1>3. \A j \in Int : j * m = (j - 1) * m + m
  BY <1>1
<1>4. ASSUME NEW j \in 1 .. k PROVE (j - 1) * m < n /\ (j - 1) * m \in Nat
  <2>1. j \in Nat /\ j - 1 \in Nat /\ k - j \in Nat
    BY <1>2
  <2>2. k * m = (j - 1) * m + m + (k - j) * m
    BY <1>1, <1>2, <2>1
  <2>3. (j - 1) * m \in Nat /\ (k - j) * m \in Nat /\ k * m \in Nat
    <3>1. \A a, b \in Nat : a * b \in Nat
      OBVIOUS
    <3> QED BY <1>1, <1>2, <2>1, <3>1
  <2> DEFINE p == (j - 1) * m
             q == (k - j) * m
             t == k * m
  <2> HIDE DEF p, q, t
  <2>4. p \in Nat /\ q \in Nat /\ t \in Nat /\ t = p + m + q /\ t <= n + m - 1
    BY <1>2, <2>2, <2>3 DEF p, q, t
  <2>5. p < n
    BY <1>1, <2>4
  <2> QED BY <2>4, <2>5 DEF p
<1> QED BY <1>2, <1>3, <1>4

LEMMA FixedCountFacts ==
  ASSUME NEW n \in Nat
  PROVE  /\ FixedCount(n) \in Nat
         /\ \A j \in 1 .. FixedCount(n) : (j - 1) * MicroSize < n /\ (j - 1) * MicroSize \in Nat
         /\ n <= FixedCount(n) * MicroSize
         /\ FixedCount(n) * MicroSize <= n + MicroSize - 1
         /\ \A j \in Int : j * MicroSize = (j - 1) * MicroSize + MicroSize
<1>1. MicroSize \in Nat \ {0}
  BY SizeAssumption
<1> QED BY <1>1, Pieces DEF FixedCount

\* The j-th part of the fixed cut.
LEMMA FixedPart ==
  ASSUME NEW n \in Nat, NEW j \in 1 .. FixedCount(n)
  PROVE  LET low == (j - 1) * MicroSize
             d == IF j * MicroSize <= n THEN MicroSize ELSE n - low
         IN /\ FixedCut(n)[j] = [i \in 1 .. d |-> low + i]
            /\ Len(FixedCut(n)) = FixedCount(n)
            /\ low \in Nat /\ d \in Nat \ {0} /\ low + d <= n
            /\ low + d = IF j = FixedCount(n) THEN n ELSE j * MicroSize
            /\ j # FixedCount(n) => d = MicroSize
<1> DEFINE k == FixedCount(n)
           low == (j - 1) * MicroSize
           high == j * MicroSize
           d == IF high <= n THEN MicroSize ELSE n - low
<1>1. /\ k \in Nat /\ low < n /\ low \in Nat /\ high = low + MicroSize
      /\ MicroSize \in Nat \ {0} /\ n <= k * MicroSize
  BY FixedCountFacts, SizeAssumption
<1>2. j # k => high <= n
  <2> SUFFICES ASSUME j # k PROVE high <= n
    OBVIOUS
  <2>1. j + 1 \in 1 .. k /\ (j + 1) - 1 = j
    BY <1>1
  <2>2. ((j + 1) - 1) * MicroSize < n
    BY <2>1, FixedCountFacts
  <2>3. high < n
    BY <2>1, <2>2
  <2> HIDE DEF high
  <2>4. high \in Int
    BY <1>1
  <2> QED BY <2>3, <2>4
<1>3. j = k => n <= high
  BY <1>1
<1>4. FixedCut(n) = [x \in 1 .. k |-> [i \in 1 .. (IF x * MicroSize <= n THEN MicroSize ELSE n - (x - 1) * MicroSize) |->
                                          (x - 1) * MicroSize + i]]
  BY DEF FixedCut, FixedCount
<1>5. FixedCut(n)[j] = [i \in 1 .. d |-> low + i] /\ Len(FixedCut(n)) = k
  BY <1>1, <1>4
<1> HIDE DEF k, low, high
<1>6. d \in Nat \ {0} /\ low + d <= n /\ low + d = (IF j = k THEN n ELSE high) /\ (j # k => d = MicroSize)
  BY <1>1, <1>2, <1>3
<1> QED BY <1>1, <1>5, <1>6 DEF k, low, high

LEMMA FixedSplits ==
  ASSUME NEW n \in Nat \ {0}
  PROVE  Splits(FixedCut(n), n) /\ Len(FixedCut(n)) = FixedCount(n)
<1> DEFINE k == FixedCount(n)
           cut == FixedCut(n)
           Part(j) == {i \in 1 .. n : (j - 1) * MicroSize < i /\ i <= j * MicroSize}
           owner == [i \in 1 .. n |-> CHOOSE j \in 1 .. k : i \in Part(j)]
<1>1. k \in Nat /\ Len(cut) = k /\ MicroSize \in Nat \ {0}
  <2>1. k \in Nat
    BY FixedCountFacts
  <2>2. cut = [x \in 1 .. k |-> cut[x]]
    BY DEF FixedCut, FixedCount
  <2> HIDE DEF cut, k
  <2> QED BY <2>1, <2>2, SizeAssumption
<1>2. ASSUME NEW i \in 1 .. n PROVE \E j \in 1 .. k : i \in Part(j)
  <2> DEFINE x == i - 1
             j == (x \div MicroSize) + 1
  <2>1. \A a \in Nat, b \in Nat \ {0} :
          a \div b \in Nat /\ (a \div b) * b <= a /\ a < (a \div b) * b + b
    OBVIOUS
  <2> DEFINE q == x \div MicroSize
  <2>2. q \in Nat /\ q * MicroSize <= x /\ x < q * MicroSize + MicroSize /\ x \in Nat
    BY <1>1, <2>1
  <2> HIDE DEF q
  <2>3. j = q + 1 /\ j - 1 = q /\ j \in Nat \ {0}
    BY <2>2 DEF q
  <2>4. j * MicroSize = q * MicroSize + MicroSize /\ q * MicroSize \in Nat
    BY <1>1, <2>2, <2>3
  <2>5. i \in Part(j)
    BY <1>1, <2>2, <2>3, <2>4
  <2>6. j <= k
    <3> SUFFICES ASSUME k < j PROVE FALSE
      BY <1>1, <2>3
    <3>1. k <= q /\ n <= k * MicroSize
      BY <1>1, <2>2, <2>3, FixedCountFacts
    <3>2. k * MicroSize <= q * MicroSize
      <4>1. q * MicroSize = k * MicroSize + (q - k) * MicroSize
        BY <1>1, <2>2
      <4>2. (q - k) * MicroSize \in Nat /\ k * MicroSize \in Nat
        BY <1>1, <2>2, <3>1
      <4> QED BY <4>1, <4>2
    <3>3. k * MicroSize \in Nat
      BY <1>1
    <3> QED BY <2>2, <2>4, <3>1, <3>2, <3>3
  <2>7. j \in 1 .. k
    BY <1>1, <2>3, <2>6
  <2> QED BY <2>5, <2>7
<1>3. \A i \in 1 .. n : owner[i] \in 1 .. k /\ i \in Part(owner[i])
  <2> SUFFICES ASSUME NEW i \in 1 .. n PROVE owner[i] \in 1 .. k /\ i \in Part(owner[i])
    OBVIOUS
  <2> DEFINE c == CHOOSE j \in 1 .. k : i \in Part(j)
  <2>1. c \in 1 .. k /\ i \in Part(c)
    BY <1>2
  <2> HIDE DEF c, Part
  <2>2. owner[i] = c
    BY DEF c
  <2> QED BY <2>1, <2>2
<1>4. ASSUME NEW i \in 1 .. n, NEW a \in 1 .. k, NEW b \in 1 .. k, i \in Part(a), i \in Part(b) PROVE a = b
  <2> SUFFICES ASSUME NEW x \in 1 .. k, NEW y \in 1 .. k, i \in Part(x), i \in Part(y), x < y PROVE FALSE
    BY <1>1, <1>4
  <2>1. (y - 1) * MicroSize = x * MicroSize + ((y - 1) - x) * MicroSize
    BY <1>1
  <2>2. x * MicroSize \in Nat /\ ((y - 1) - x) * MicroSize \in Nat
    <3>1. x \in Nat /\ (y - 1) - x \in Nat
      BY <1>1
    <3>2. \A u, v \in Nat : u * v \in Nat
      OBVIOUS
    <3> QED BY <1>1, <3>1, <3>2
  <2>3. (y - 1) * MicroSize < i /\ i <= x * MicroSize /\ i \in Nat
    OBVIOUS
  <2> DEFINE u == x * MicroSize
             v == ((y - 1) - x) * MicroSize
             w == (y - 1) * MicroSize
  <2>4. u \in Nat /\ v \in Nat /\ w = u + v /\ w < i /\ i <= u /\ i \in Nat
    BY <2>1, <2>2, <2>3
  <2> HIDE DEF u, v, w
  <2> QED BY <2>4
<1> HIDE DEF owner
<1>5. ASSUME NEW j \in 1 .. k PROVE Enumerates(cut[j], {i \in 1 .. n : owner[i] = j})
  <2> DEFINE low == (j - 1) * MicroSize
             d == IF j * MicroSize <= n THEN MicroSize ELSE n - low
             P == {i \in 1 .. n : owner[i] = j}
  <2>1. P = Part(j)
    <3> HIDE DEF Part
    <3>1. Part(j) \subseteq 1 .. n
      BY DEF Part
    <3> QED BY <1>3, <1>4, <3>1
  <2>2. /\ cut[j] = [i \in 1 .. d |-> low + i] /\ low \in Nat /\ d \in Nat \ {0} /\ low + d <= n
    BY FixedPart
  <2>3. j * MicroSize = low + MicroSize
    BY FixedCountFacts
  <2>4. Part(j) = {i \in 1 .. n : low < i /\ i <= low + MicroSize}
    BY <2>3
  <2> HIDE DEF low, Part, P, cut
  <2>5. Part(j) = (low + 1) .. (low + d)
    BY <1>1, <2>2, <2>3, <2>4
  <2> HIDE DEF d
  <2>6. \A i \in 1 .. d : low + i \in (low + 1) .. (low + d)
    BY <2>2
  <2>7. cut[j] \in Seq(Part(j)) /\ Len(cut[j]) = d
    BY <2>2, <2>5, <2>6
  <2>8. \A a, b \in 1 .. d : low + a = low + b => a = b
    BY <2>2
  <2>9. \A i \in Part(j) : i - low \in 1 .. d /\ low + (i - low) = i
    BY <2>2, <2>5
  <2>10. Enumerates(cut[j], Part(j))
    <3>1. \A a \in 1 .. d : cut[j][a] = low + a
      BY <2>2
    <3>2. \A a, b \in 1 .. d : cut[j][a] = cut[j][b] => a = b
      BY <2>8, <3>1
    <3>3. \A i \in Part(j) : \E a \in 1 .. d : cut[j][a] = i
      BY <2>9, <3>1
    <3> QED BY <2>7, <3>2, <3>3 DEF Enumerates
  <2> QED BY <2>1, <2>10 DEF P
<1> HIDE DEF cut, k
<1>6. Splits(cut, n)
  <2> HIDE DEF k, cut
  <2>1. ASSUME NEW j \in 1 .. k PROVE Enumerates(cut[j], PartOf(1 .. n, owner, j))
    BY <1>5 DEF PartOf
  <2> QED BY <1>1, <1>3, <2>1 DEF Splits
<1> QED BY <1>1, <1>6 DEF cut, k
-----------------------------------------------------------------------------
(***************************************************************************)
(* The invariant of a rank                                                 *)
(***************************************************************************)
Share == Len(lens) \div DP
LastMini == (Share + MiniSize - 1) \div MiniSize

Computing == {"logp", "logpCount", "logpRun", "logpWait"}
Training == {"mini", "count", "run", "wait", "step"}
Sites == {"balance"} \cup Computing \cup Training \cup {"teacher", "done"}
CutSites == {"logpRun", "logpWait", "run", "wait", "step"}

\* The positions whose micro-batches are behind rank r.
Behind(r) == Flat(micro[r], Len(micro[r]))[next[r] - 1]
Picked(src, idx) == [i \in DOMAIN idx |-> src[idx[i]]]

TypesInv ==
  /\ lens \in Batches /\ dynamic \in BOOLEAN
  /\ pc \in [Ranks -> Sites]
  /\ call \in [Ranks -> [n : Nat, kind : {"none", "count", "forward", "train", "norm"}]]
  /\ local \in [Ranks -> Seq(Rows)]
  /\ epoch \in [Ranks -> 0 .. Epochs]
  /\ mini \in [Ranks -> 1 .. LastMini]
  /\ want \in [Ranks -> Nat]
  /\ next \in [Ranks -> Nat]
  /\ scale \in [Ranks -> Nat]
  /\ trained \in [Ranks -> Seq(Rows)]
  /\ finite \in BOOLEAN
  /\ steps \in [Ranks -> Nat] /\ did \in [Ranks -> BOOLEAN]
  /\ \A f \in {micro, logp, grads, teacher} : f = [r \in Ranks |-> f[r]]

BalanceInv ==
  /\ Enumerates(batch, Rows)
  /\ \/ \A r \in Ranks : pc[r] = "balance"
     \/ \A r \in Ranks : pc[r] # "balance" /\ local[r] = Chunk(batch, r)

LoopInv(r) ==
  /\ pc[r] \in {"balance"} \cup Computing => epoch[r] = 0 /\ mini[r] = 1
  /\ pc[r] \in Training => epoch[r] < Epochs
  /\ pc[r] \in {"teacher", "done"} => epoch[r] = Epochs /\ mini[r] = 1

CutInv(r) ==
  /\ pc[r] \in CutSites =>
       /\ Splits(micro[r], Len(Mini(r)))
       /\ next[r] \in 1 .. Len(micro[r]) + 1
       /\ dynamic \/ micro[r] = FixedCut(Len(Mini(r)))
  /\ pc[r] \in {"logpWait", "wait"} => next[r] <= Len(micro[r])
  /\ pc[r] = "step" => next[r] = Len(micro[r]) + 1
  /\ pc[r] \in {"logpCount", "count"} => dynamic

LogpInv(r) ==
  /\ pc[r] \in {"balance", "logp", "logpCount"} => logp[r] = <<>>
  /\ pc[r] \in {"logpRun", "logpWait"} => logp[r] = Picked(local[r], Behind(r))
  /\ pc[r] \notin {"balance"} \cup Computing => logp[r] = local[r]

GradInv(r) ==
  pc[r] \in {"run", "wait", "step"} =>
    /\ grads[r] = Picked(Mini(r), Behind(r))
    /\ scale[r] = IF dynamic THEN Len(grads[r]) ELSE (next[r] - 1) * MicroSize

\* The samples of the mini-batches that are behind rank r in this epoch.
DoneMinis(r) == {local[r][i] : i \in 1 .. (mini[r] - 1) * MiniSize}
TrainedInv(r) ==
  /\ pc[r] = "balance" => trained[r] = <<>>
  /\ pc[r] # "balance" =>
       \A i \in Rows : Times(trained[r], i) =
         IF i \in Range(local[r]) THEN epoch[r] + (IF i \in DoneMinis(r) THEN 1 ELSE 0) ELSE 0

RankInv(r) == LoopInv(r) /\ CutInv(r) /\ LogpInv(r) /\ GradInv(r) /\ TrainedInv(r)
PathInv == TypesInv /\ BalanceInv /\ \A r \in Ranks : RankInv(r)

-----------------------------------------------------------------------------
(***************************************************************************)
(* Chunks and mini-batches                                                 *)
(***************************************************************************)
MiniLen(m) == IF m * MiniSize < Share THEN MiniSize ELSE Share - (m - 1) * MiniSize

LEMMA ShareFacts ==
  ASSUME lens \in Batches
  PROVE  /\ lens \in Seq(0 .. MaxTokens) /\ Len(lens) \in Nat
         /\ Share \in Nat \ {0} /\ DP * Share = Len(lens)
         /\ LastMini \in Nat \ {0}
<1>1. lens \in Seq(0 .. MaxTokens) /\ lens # <<>> /\ Len(lens) % DP = 0
  BY BatchesAssumption
<1>2. Len(lens) \in Nat \ {0} /\ DP \in Nat \ {0}
  BY <1>1, DPAssumption, EmptySeq
<1>3. \A a \in Nat, b \in Nat \ {0} : a % b = 0 => a \div b \in Nat /\ b * (a \div b) = a
  OBVIOUS
<1>4. Share \in Nat /\ DP * Share = Len(lens)
  BY <1>1, <1>2, <1>3 DEF Share
<1>5. Share # 0
  <2>1. DP * 0 = 0
    BY <1>2
  <2> QED BY <1>2, <1>4, <2>1
<1>6. LastMini \in Nat /\ Share <= LastMini * MiniSize /\ MiniSize \in Nat \ {0}
  <2>1. MiniSize \in Nat \ {0}
    BY SizeAssumption
  <2> QED BY <1>4, <2>1, Pieces DEF LastMini
<1>7. LastMini # 0
  <2>1. 0 * MiniSize = 0
    BY <1>6
  <2> QED BY <1>4, <1>5, <1>6, <2>1
<1> QED BY <1>1, <1>2, <1>4, <1>5, <1>6, <1>7

\* Rank r's chunk: Share rows from the place (r - 1) * Share on.
LEMMA ChunkFacts ==
  ASSUME lens \in Batches, NEW b, Enumerates(b, Rows), NEW r \in Ranks
  PROVE  LET low == (r - 1) * Share
         IN /\ Len(b) = Len(lens) /\ b \in Seq(Rows)
            /\ low \in Nat /\ low + Share <= Len(lens)
            /\ Chunk(b, r) \in Seq(Rows) /\ Len(Chunk(b, r)) = Share
            /\ \A i \in 1 .. Share : Chunk(b, r)[i] = b[low + i]
<1> DEFINE low == (r - 1) * Share
<1>1. Len(lens) \in Nat /\ Share \in Nat \ {0} /\ DP * Share = Len(lens) /\ DP \in Nat \ {0}
  BY ShareFacts, DPAssumption
<1>2. Len(b) = Len(lens) /\ b \in Seq(Rows)
  <2>1. IsFiniteSet(Rows) /\ Cardinality(Rows) = Len(lens)
    BY <1>1, IntervalFinite DEF Rows
  <2> QED BY <2>1, EnumeratesLen DEF Enumerates
<1>3. r \in Nat /\ r - 1 \in Nat /\ DP - r \in Nat
  BY <1>1 DEF Ranks
<1>4. low \in Nat /\ r * Share = low + Share /\ low + Share <= Len(lens)
  <2>1. \A x, y \in Nat : x * y \in Nat
    OBVIOUS
  <2>2. low \in Nat /\ (DP - r) * Share \in Nat
    BY <1>1, <1>3, <2>1
  <2>3. r * Share = low + Share /\ DP * Share = low + Share + (DP - r) * Share
    BY <1>1, <1>3
  <2> HIDE DEF low
  <2> QED BY <1>1, <2>2, <2>3
<1>5. Chunk(b, r) = SubSeq(b, low + 1, low + Share)
  BY <1>2, <1>4 DEF Chunk, Share
<1> HIDE DEF low
<1>6. \A i \in low + 1 .. low + Share : b[i] \in Rows
  <2> SUFFICES ASSUME NEW i \in low + 1 .. low + Share PROVE b[i] \in Rows
    OBVIOUS
  <2>1. i \in 1 .. Len(b)
    BY <1>1, <1>2, <1>4
  <2> QED BY <1>2, <2>1, ElementOfSeq
<1>7. LET s == SubSeq(b, low + 1, low + Share)
      IN /\ s \in Seq(Rows)
         /\ Len(s) = IF low + 1 <= low + Share THEN (low + Share) - (low + 1) + 1 ELSE 0
         /\ \A i \in 1 .. (low + Share) - (low + 1) + 1 : s[i] = b[(low + 1) + i - 1]
  <2>1. low + 1 \in Int /\ low + Share \in Int
    BY <1>1, <1>4
  <2> QED BY <1>6, <2>1, SubSeqProperties
<1>8. /\ (low + Share) - (low + 1) + 1 = Share /\ low + 1 <= low + Share
      /\ \A i \in 1 .. Share : (low + 1) + i - 1 = low + i
  BY <1>1, <1>4
<1> QED BY <1>2, <1>4, <1>5, <1>7, <1>8 DEF low

LEMMA MiniLenFacts ==
  ASSUME lens \in Batches, NEW m \in 1 .. LastMini
  PROVE  LET low == (m - 1) * MiniSize
         IN /\ low \in Nat /\ MiniLen(m) \in Nat \ {0} /\ low + MiniLen(m) <= Share
            /\ low + MiniLen(m) = IF m = LastMini THEN Share ELSE m * MiniSize
            /\ low + MiniLen(m) = IF m * MiniSize < Share THEN m * MiniSize ELSE Share
            /\ m * MiniSize = low + MiniSize
<1> DEFINE low == (m - 1) * MiniSize
           high == m * MiniSize
<1>1. /\ Share \in Nat \ {0} /\ LastMini \in Nat \ {0} /\ MiniSize \in Nat \ {0}
      /\ LastMini = (Share + MiniSize - 1) \div MiniSize
  BY ShareFacts, SizeAssumption DEF LastMini
<1>2. /\ \A j \in 1 .. LastMini : (j - 1) * MiniSize < Share /\ (j - 1) * MiniSize \in Nat
      /\ Share <= LastMini * MiniSize
      /\ \A j \in Int : j * MiniSize = (j - 1) * MiniSize + MiniSize
  BY <1>1, Pieces
<1>3. low < Share /\ low \in Nat /\ high = low + MiniSize /\ (m = LastMini => Share <= high)
  BY <1>2
<1>4. m # LastMini => high < Share
  <2> SUFFICES ASSUME m # LastMini PROVE high < Share
    OBVIOUS
  <2>1. m + 1 \in 1 .. LastMini /\ (m + 1) - 1 = m
    BY <1>1
  <2> QED BY <1>2, <2>1
<1>5. MiniLen(m) = IF high < Share THEN MiniSize ELSE Share - low
  BY DEF MiniLen
<1> HIDE DEF low, high
<1> QED BY <1>1, <1>3, <1>4, <1>5 DEF low, high

\* Where rank r's mini-batch lies in its chunk.
MiniLow(r) == IF pc[r] \in Computing THEN 0 ELSE (mini[r] - 1) * MiniSize

LEMMA MiniFacts ==
  ASSUME TypesInv, BalanceInv, NEW r \in Ranks, pc[r] # "balance"
  PROVE  /\ Mini(r) \in Seq(Rows) /\ MiniLow(r) \in Nat
         /\ Len(local[r]) = Share /\ local[r] \in Seq(Rows)
         /\ \A i, j \in 1 .. Share : local[r][i] = local[r][j] => i = j
         /\ Len(Mini(r)) = IF pc[r] \in Computing THEN Share ELSE MiniLen(mini[r])
         /\ Len(Mini(r)) \in Nat \ {0} /\ MiniLow(r) + Len(Mini(r)) <= Share
         /\ \A i \in 1 .. Len(Mini(r)) : Mini(r)[i] = local[r][MiniLow(r) + i]
         /\ Minis(r) = LastMini
<1>1. lens \in Batches /\ mini[r] \in 1 .. LastMini /\ Enumerates(batch, Rows)
      /\ local[r] = Chunk(batch, r)
  BY DEF TypesInv, BalanceInv
<1>2. Share \in Nat \ {0} /\ Len(lens) \in Nat
  BY <1>1, ShareFacts
<1> DEFINE first == (r - 1) * Share
<1>3. /\ Len(batch) = Len(lens) /\ first \in Nat /\ first + Share <= Len(lens)
      /\ local[r] \in Seq(Rows) /\ Len(local[r]) = Share
      /\ \A i \in 1 .. Share : local[r][i] = batch[first + i]
  BY <1>1, ChunkFacts
<1>4. \A i, j \in 1 .. Share : local[r][i] = local[r][j] => i = j
  <2> SUFFICES ASSUME NEW i \in 1 .. Share, NEW j \in 1 .. Share, local[r][i] = local[r][j]
               PROVE  i = j
    OBVIOUS
  <2> HIDE DEF first
  <2>1. first + i \in 1 .. Len(batch) /\ first + j \in 1 .. Len(batch)
    <3>1. i \in Nat \ {0} /\ i <= Share /\ j \in Nat \ {0} /\ j <= Share
      BY <1>2
    <3>2. first \in Nat /\ Len(batch) \in Nat /\ first + Share <= Len(batch)
      BY <1>2, <1>3
    <3> QED BY <1>2, <3>1, <3>2
  <2>2. batch[first + i] = batch[first + j]
    BY <1>3
  <2>3. first + i = first + j
    BY <1>1, <2>1, <2>2 DEF Enumerates
  <2> QED BY <1>3, <2>3
<1>5. Minis(r) = LastMini
  BY <1>3 DEF Minis, LastMini
<1>6. CASE pc[r] \in Computing
  <2>1. Mini(r) = local[r] /\ MiniLow(r) = 0
    BY <1>6 DEF Mini, MiniLow, Computing
  <2> QED BY <1>2, <1>3, <1>4, <1>5, <1>6, <2>1
<1>7. CASE pc[r] \notin Computing
  <2> DEFINE low == (mini[r] - 1) * MiniSize
             d == MiniLen(mini[r])
             top == IF mini[r] * MiniSize < Share THEN mini[r] * MiniSize ELSE Share
  <2>1. /\ low \in Nat /\ d \in Nat \ {0} /\ low + d <= Share
        /\ low + d = top
    BY <1>1, MiniLenFacts
  <2>2. Mini(r) = SubSeq(local[r], low + 1, low + d) /\ MiniLow(r) = low
    BY <1>3, <1>7, <2>1 DEF Mini, MiniLow, Computing
  <2> HIDE DEF low, d
  <2>3. \A i \in low + 1 .. low + d : local[r][i] \in Rows
    <3> SUFFICES ASSUME NEW i \in low + 1 .. low + d PROVE local[r][i] \in Rows
      OBVIOUS
    <3>1. i \in 1 .. Len(local[r])
      BY <1>2, <1>3, <2>1
    <3> QED BY <1>3, <3>1, ElementOfSeq
  <2>4. LET s == SubSeq(local[r], low + 1, low + d)
        IN /\ s \in Seq(Rows)
           /\ Len(s) = IF low + 1 <= low + d THEN (low + d) - (low + 1) + 1 ELSE 0
           /\ \A i \in 1 .. (low + d) - (low + 1) + 1 : s[i] = local[r][(low + 1) + i - 1]
    <3>1. low + 1 \in Int /\ low + d \in Int
      BY <2>1
    <3> QED BY <2>3, <3>1, SubSeqProperties
  <2>5. /\ (low + d) - (low + 1) + 1 = d /\ low + 1 <= low + d
        /\ \A i \in 1 .. d : (low + 1) + i - 1 = low + i
    BY <2>1
  <2>6. /\ Mini(r) \in Seq(Rows) /\ Len(Mini(r)) = d
        /\ \A i \in 1 .. d : Mini(r)[i] = local[r][low + i]
    BY <2>2, <2>4, <2>5
  <2> QED BY <1>2, <1>3, <1>4, <1>5, <1>7, <2>1, <2>2, <2>6 DEF d
<1> QED BY <1>6, <1>7

-----------------------------------------------------------------------------
(***************************************************************************)
(* The first states, and the balanced batch                                *)
(***************************************************************************)
LEMMA InitPath == Init => PathInv
<1> SUFFICES ASSUME Init PROVE PathInv
  OBVIOUS
<1>1. Len(lens) \in Nat /\ LastMini \in Nat \ {0} /\ Epochs \in Nat \ {0} /\ lens \in Batches
  BY ShareFacts, SizeAssumption DEF Init
<1>2. TypesInv
  <2>1. 0 \in 0 .. Epochs /\ 1 \in 1 .. LastMini /\ <<>> \in Seq(Rows)
    BY <1>1, EmptySeq
  <2>2. lens \in Batches /\ dynamic \in BOOLEAN /\ pc \in [Ranks -> Sites]
    BY DEF Init, Sites
  <2>3. call \in [Ranks -> [n : Nat, kind : {"none", "count", "forward", "train", "norm"}]]
    BY DEF Init
  <2>4. /\ local \in [Ranks -> Seq(Rows)] /\ epoch \in [Ranks -> 0 .. Epochs]
        /\ mini \in [Ranks -> 1 .. LastMini] /\ trained \in [Ranks -> Seq(Rows)]
    BY <2>1 DEF Init
  <2>5. /\ want \in [Ranks -> Nat] /\ next \in [Ranks -> Nat] /\ scale \in [Ranks -> Nat]
        /\ finite \in BOOLEAN /\ steps \in [Ranks -> Nat] /\ did \in [Ranks -> BOOLEAN]
    BY DEF Init
  <2>6. \A f \in {micro, logp, grads, teacher} : f = [r \in Ranks |-> f[r]]
    BY DEF Init
  <2> QED BY <2>2, <2>3, <2>4, <2>5, <2>6 DEF TypesInv
<1>3. BalanceInv
  <2>1. Enumerates(batch, Rows)
    <3>1. batch = [i \in 1 .. Len(lens) |-> i]
      BY DEF Init, Rows
    <3>2. Len(batch) = Len(lens) /\ batch \in Seq(Rows)
      BY <1>1, <3>1 DEF Rows
    <3> QED BY <3>1, <3>2 DEF Enumerates, Rows
  <2> QED BY <2>1 DEF BalanceInv, Init
<1>4. ASSUME NEW r \in Ranks PROVE RankInv(r)
  BY DEF Init, RankInv, LoopInv, CutInv, LogpInv, GradInv, TrainedInv, CutSites, Computing, Training
<1> QED BY <1>2, <1>3, <1>4 DEF PathInv

LEMMA TimesNever == \A i : Times(<<>>, i) = 0
<1> SUFFICES ASSUME NEW i PROVE Times(<<>>, i) = 0
  OBVIOUS
<1>1. {k \in DOMAIN <<>> : <<>>[k] = i} = {}
  OBVIOUS
<1> QED BY <1>1, FS_EmptySet DEF Times

\* The parts of the ranks, joined, hold each row once.
LEMMA BalancedEnumerates ==
  ASSUME lens \in Batches, NEW f \in EqualParts, NEW b,
         b = FlattenSeq([r \in Ranks |-> ShortAtBothEnds(ByLength({i \in Rows : f[i] = r}))])
  PROVE  Enumerates(b, Rows)
<1> DEFINE m == [r \in Ranks |-> ShortAtBothEnds(ByLength({i \in Rows : f[i] = r}))]
           P(r) == {i \in Rows : f[i] = r}
<1>1. DP \in Nat \ {0} /\ Len(lens) \in Nat /\ lens \in Seq(0 .. MaxTokens) /\ MaxTokens \in Nat
  BY DPAssumption, ShareFacts, SizeAssumption
<1>2. ASSUME NEW r \in Ranks PROVE Enumerates(m[r], P(r))
  <2>1. P(r) \in SUBSET Nat /\ IsFiniteSet(P(r))
    <3>1. IsFiniteSet(Rows) /\ Rows \subseteq Nat
      BY <1>1, IntervalFinite DEF Rows
    <3> QED BY <3>1, FS_Subset
  <2>2. \A i \in P(r) : lens[i] \in Int
    <3> SUFFICES ASSUME NEW i \in Rows PROVE lens[i] \in Int
      OBVIOUS
    <3>1. lens[i] \in 0 .. MaxTokens
      BY <1>1, ElementOfSeq DEF Rows
    <3> QED BY <1>1, <3>1
  <2> HIDE DEF P
  <2>3. Enumerates(ByLength(P(r)), P(r))
    BY <2>1, <2>2, SortedEnumerates DEF ByLength
  <2>4. Enumerates(ShortAtBothEnds(ByLength(P(r))), P(r))
    BY <2>3, ShortAtBothEndsEnumerates
  <2> QED BY <2>4 DEF P
<1> HIDE DEF m
<1>3. Len(m) = DP /\ Ranks = 1 .. DP
  BY <1>1 DEF m, Ranks
<1>4. \A i \in Rows : f[i] \in 1 .. DP
  BY <1>3 DEF EqualParts
<1>5. \A j \in 0 .. DP : Enumerates(Flat(m, DP)[j], PartsUpTo(Rows, f, j))
  <2>1. ASSUME NEW j \in 1 .. DP PROVE Enumerates(m[j], PartOf(Rows, f, j))
    BY <1>2, <1>3 DEF PartOf
  <2> QED BY <1>1, <1>4, <2>1, FlatEnumerates
<1>6. Enumerates(Flat(m, DP)[DP], Rows)
  <2>1. PartsUpTo(Rows, f, DP) = Rows /\ DP \in 0 .. DP
    BY <1>1, <1>4 DEF PartsUpTo
  <2> QED BY <1>5, <2>1
<1>7. b = Flat(m, DP)[DP]
  <2>1. 1 \in Ranks
    BY <1>1, <1>3
  <2>2. m[1] \in Seq(P(1))
    BY <1>2, <2>1 DEF Enumerates
  <2> HIDE DEF P
  <2>3. FlattenSeq(m) = Flat(m, DP)[DP]
    BY <1>1, <1>3, <2>2, FlattenIsFlat
  <2> QED BY <2>3 DEF m
<1> QED BY <1>6, <1>7

LEMMA BalancePath ==
  ASSUME PathInv, _balance_batch
  PROVE  PathInv'
<1> USE DEF PathInv
<1>1. PICK f \in EqualParts :
        LET Part(r) == ShortAtBothEnds(ByLength({i \in Rows : f[i] = r}))
        IN /\ batch' = FlattenSeq([r \in Ranks |-> Part(r)])
           /\ local' = [r \in Ranks |-> Chunk(batch', r)]
  BY DEF _balance_batch
<1>2. /\ \A r \in Ranks : pc[r] = "balance"
      /\ pc' = [r \in Ranks |-> "logp"]
      /\ UNCHANGED <<lens, dynamic, call, epoch, mini, cutting, logp, grads, scale, trained,
                     norm, model>>
  BY DEF _balance_batch
<1>3. lens \in Batches /\ lens' = lens
  BY <1>2 DEF TypesInv
<1>4. Enumerates(batch', Rows)
  BY <1>1, <1>3, BalancedEnumerates
<1>5. TypesInv'
  <2>1. local' \in [Ranks -> Seq(Rows)]
    <3>1. \A r \in Ranks : Chunk(batch', r) \in Seq(Rows)
      BY <1>3, <1>4, ChunkFacts
    <3> QED BY <1>1, <3>1
  <2>2. pc' \in [Ranks -> Sites]
    BY <1>2 DEF Sites, Computing
  <2> QED BY <1>2, <1>3, <2>1, <2>2 DEF TypesInv, cutting, norm, model, Rows, LastMini, Share
<1>6. BalanceInv'
  <2>1. Rows' = Rows
    BY <1>3 DEF Rows
  <2>2. \A r \in Ranks : pc'[r] # "balance" /\ local'[r] = Chunk(batch', r)
    BY <1>1, <1>2
  <2>3. \A r \in Ranks : Chunk(batch', r) = Chunk(batch, r)'
    BY DEF Chunk
  <2> QED BY <1>4, <2>1, <2>2, <2>3 DEF BalanceInv
<1>7. ASSUME NEW r \in Ranks PROVE RankInv(r)'
  <2>1. RankInv(r) /\ pc[r] = "balance" /\ pc'[r] = "logp"
    BY <1>2
  <2>2. epoch'[r] = 0 /\ mini'[r] = 1 /\ logp'[r] = <<>> /\ trained'[r] = <<>>
    BY <1>2, <2>1 DEF RankInv, LoopInv, LogpInv, TrainedInv
  <2>3. LoopInv(r)' /\ CutInv(r)' /\ LogpInv(r)' /\ GradInv(r)'
    BY <2>1, <2>2 DEF LoopInv, CutInv, LogpInv, GradInv, CutSites, Computing, Training
  <2>4. TrainedInv(r)'
    <3>1. DoneMinis(r)' = {}
      <4>1. (1 - 1) * MiniSize = 0
        BY SizeAssumption
      <4> QED BY <2>2, <4>1 DEF DoneMinis
    <3> QED BY <2>1, <2>2, <3>1, TimesNever DEF TrainedInv
  <2> QED BY <2>3, <2>4 DEF RankInv
<1> QED BY <1>5, <1>6, <1>7

-----------------------------------------------------------------------------
(***************************************************************************)
(* Samples picked by position                                              *)
(***************************************************************************)
LEMMA SplitsFlat ==
  ASSUME NEW n \in Nat, NEW cut, Splits(cut, n)
  PROVE  LET K == Len(cut)
         IN /\ K \in Nat /\ (n # 0 => K # 0)
            /\ \A j \in 1 .. K : cut[j] \in Seq(1 .. n)
            /\ \A j \in 0 .. K : Flat(cut, K)[j] \in Seq(1 .. n)
            /\ Flat(cut, K)[0] = <<>>
            /\ \A j \in 1 .. K : Flat(cut, K)[j] = Flat(cut, K)[j - 1] \o cut[j]
            /\ Enumerates(Flat(cut, K)[K], 1 .. n)
<1> DEFINE K == Len(cut)
<1>1. PICK owner : /\ \A i \in 1 .. n : owner[i] \in 1 .. K
                   /\ \A j \in 1 .. K : Enumerates(cut[j], PartOf(1 .. n, owner, j))
  BY DEF Splits
<1>2. K \in Nat
  BY DEF Splits
<1> HIDE DEF K
<1>3. n # 0 => K # 0
  BY <1>1, <1>2
<1>4. ASSUME NEW j \in 1 .. K PROVE cut[j] \in Seq(1 .. n)
  <2>1. cut[j] \in Seq(PartOf(1 .. n, owner, j))
    BY <1>1 DEF Enumerates
  <2>2. PartOf(1 .. n, owner, j) \subseteq 1 .. n
    BY DEF PartOf
  <2> QED BY <2>1, <2>2, SeqMonotonic
<1>5. \A j \in 0 .. K : Enumerates(Flat(cut, K)[j], PartsUpTo(1 .. n, owner, j))
  BY <1>1, <1>2, FlatEnumerates
<1>6. PartsUpTo(1 .. n, owner, K) = 1 .. n /\ K \in 0 .. K
  BY <1>1, <1>2 DEF PartsUpTo
<1>7. Enumerates(Flat(cut, K)[K], 1 .. n)
  BY <1>5, <1>6
<1>8. \A j \in 0 .. K : Flat(cut, K)[j] \in Seq(1 .. n)
  BY <1>2, <1>4, FlatSeq
<1>9. Flat(cut, K)[0] = <<>> /\ \A j \in 1 .. K : Flat(cut, K)[j] = Flat(cut, K)[j - 1] \o cut[j]
  BY <1>2, FlatZero, FlatNext
<1> QED BY <1>2, <1>3, <1>4, <1>7, <1>8, <1>9 DEF K

LEMMA PickedFacts ==
  ASSUME NEW S, NEW src \in Seq(S), NEW idx \in Seq(1 .. Len(src))
  PROVE  /\ Picked(src, idx) \in Seq(S) /\ Len(Picked(src, idx)) = Len(idx)
         /\ \A i \in 1 .. Len(idx) : idx[i] \in 1 .. Len(src) /\ Picked(src, idx)[i] = src[idx[i]]
<1>1. DOMAIN idx = 1 .. Len(idx) /\ Len(idx) \in Nat
  BY LenProperties
<1>2. \A i \in 1 .. Len(idx) : idx[i] \in 1 .. Len(src) /\ src[idx[i]] \in S
  BY ElementOfSeq
<1>3. Picked(src, idx) = [i \in 1 .. Len(idx) |-> src[idx[i]]]
  BY <1>1 DEF Picked
<1> QED BY <1>1, <1>2, <1>3

LEMMA PickedNone == \A src : Picked(src, <<>>) = <<>>
BY DEF Picked

LEMMA PickedConcat ==
  ASSUME NEW S, NEW src \in Seq(S), NEW s \in Seq(1 .. Len(src)), NEW t \in Seq(1 .. Len(src))
  PROVE  Picked(src, s \o t) = Picked(src, s) \o Picked(src, t)
<1> DEFINE u == s \o t
           p == Picked(src, s)
           q == Picked(src, t)
<1>1. /\ u \in Seq(1 .. Len(src)) /\ Len(u) = Len(s) + Len(t)
      /\ \A i \in 1 .. Len(s) + Len(t) : u[i] = IF i <= Len(s) THEN s[i] ELSE t[i - Len(s)]
  BY ConcatProperties
<1>2. /\ p \in Seq(S) /\ Len(p) = Len(s) /\ \A i \in 1 .. Len(s) : p[i] = src[s[i]]
  BY PickedFacts
<1>3. /\ q \in Seq(S) /\ Len(q) = Len(t) /\ \A i \in 1 .. Len(t) : q[i] = src[t[i]]
  BY PickedFacts
<1> HIDE DEF u, p, q
<1>4. /\ Picked(src, u) \in Seq(S) /\ Len(Picked(src, u)) = Len(u)
      /\ \A i \in 1 .. Len(u) : Picked(src, u)[i] = src[u[i]]
  BY <1>1, PickedFacts
<1>5. /\ p \o q \in Seq(S) /\ Len(p \o q) = Len(p) + Len(q)
      /\ \A i \in 1 .. Len(p) + Len(q) : (p \o q)[i] = IF i <= Len(p) THEN p[i] ELSE q[i - Len(p)]
  <2>1. p \in Seq(S) /\ q \in Seq(S)
    BY <1>2, <1>3
  <2> QED BY <2>1, ConcatProperties
<1>6. Len(s) \in Nat /\ Len(t) \in Nat
  BY LenProperties
<1>7. ASSUME NEW i \in 1 .. Len(u) PROVE Picked(src, u)[i] = (p \o q)[i]
  <2>1. CASE i <= Len(s)
    <3>1. i \in 1 .. Len(s)
      BY <1>1, <1>6, <2>1
    <3> QED BY <1>1, <1>2, <1>3, <1>4, <1>5, <2>1, <3>1
  <2>2. CASE ~ (i <= Len(s))
    <3>1. i - Len(s) \in 1 .. Len(t) /\ i \in 1 .. Len(s) + Len(t)
      BY <1>1, <1>6, <2>2
    <3>2. Picked(src, u)[i] = src[u[i]] /\ u[i] = t[i - Len(s)]
      BY <1>1, <1>4, <2>2, <3>1
    <3>3. (p \o q)[i] = q[i - Len(s)] /\ q[i - Len(s)] = src[t[i - Len(s)]]
      BY <1>2, <1>3, <1>5, <2>2, <3>1
    <3> QED BY <3>2, <3>3
  <2> QED BY <2>1, <2>2
<1>8. Picked(src, u) = p \o q
  BY <1>1, <1>2, <1>3, <1>4, <1>5, <1>7, SeqEqual
<1> QED BY <1>8 DEF u, p, q

\* The samples of all positions, each once.
LEMMA PickedAll ==
  ASSUME NEW S, NEW src \in Seq(S), NEW idx, Enumerates(idx, 1 .. Len(src)),
         \A i, j \in 1 .. Len(src) : src[i] = src[j] => i = j
  PROVE  /\ Len(idx) = Len(src) /\ Len(Picked(src, idx)) = Len(src)
         /\ Enumerates(Picked(src, idx), {src[i] : i \in 1 .. Len(src)})
<1> DEFINE p == Picked(src, idx)
           R == {src[i] : i \in 1 .. Len(src)}
<1>1. Len(src) \in Nat /\ idx \in Seq(1 .. Len(src))
  BY LenProperties DEF Enumerates
<1>2. Len(idx) = Len(src)
  BY <1>1, IntervalFinite, EnumeratesLen
<1>3. src \in Seq(R)
  <2>1. src = [i \in 1 .. Len(src) |-> src[i]]
    BY LenProperties
  <2> QED BY <1>1, <2>1
<1>4. /\ p \in Seq(R) /\ Len(p) = Len(src)
      /\ \A i \in 1 .. Len(src) : idx[i] \in 1 .. Len(src) /\ p[i] = src[idx[i]]
  <2>1. /\ p \in Seq(R) /\ Len(p) = Len(idx)
        /\ \A i \in 1 .. Len(idx) : idx[i] \in 1 .. Len(src) /\ p[i] = src[idx[i]]
    BY <1>1, <1>3, PickedFacts
  <2> QED BY <1>2, <2>1
<1> HIDE DEF p
<1>5. ASSUME NEW a \in 1 .. Len(p), NEW b \in 1 .. Len(p), p[a] = p[b] PROVE a = b
  <2>1. idx[a] = idx[b]
    <3>1. idx[a] \in 1 .. Len(src) /\ idx[b] \in 1 .. Len(src) /\ src[idx[a]] = src[idx[b]]
      BY <1>4, <1>5
    <3> QED BY <3>1
  <2> QED BY <1>2, <1>4, <2>1 DEF Enumerates
<1>6. ASSUME NEW x \in R PROVE \E a \in 1 .. Len(p) : p[a] = x
  <2>1. PICK i \in 1 .. Len(src) : x = src[i]
    OBVIOUS
  <2>2. PICK a \in 1 .. Len(idx) : idx[a] = i
    BY DEF Enumerates
  <2> QED BY <1>2, <1>4, <2>1, <2>2
<1> HIDE DEF R
<1>7. Enumerates(p, R)
  BY <1>4, <1>5, <1>6 DEF Enumerates
<1> QED BY <1>2, <1>4, <1>7 DEF p, R

\* restore_dynamic_batch puts what was picked back in its place.
LEMMA Restored ==
  ASSUME NEW S, NEW src \in Seq(S), NEW idx, Enumerates(idx, 1 .. Len(src))
  PROVE  restore_dynamic_batch(Picked(src, idx), idx) = src
<1> DEFINE n == Len(src)
           p == Picked(src, idx)
           At(i) == CHOOSE j \in DOMAIN idx : idx[j] = i
<1>1. n \in Nat /\ idx \in Seq(1 .. n) /\ Len(idx) = n /\ DOMAIN idx = 1 .. n
  <2>1. n \in Nat /\ idx \in Seq(1 .. n)
    BY LenProperties DEF Enumerates
  <2>2. Len(idx) = n
    BY <2>1, IntervalFinite, EnumeratesLen
  <2> QED BY <2>1, <2>2, LenProperties
<1>2. \A i \in 1 .. n : p[i] = src[idx[i]]
  <2>1. idx \in Seq(1 .. Len(src)) /\ Len(idx) = n
    BY <1>1
  <2>2. \A i \in 1 .. Len(idx) : Picked(src, idx)[i] = src[idx[i]]
    BY <2>1, PickedFacts
  <2> QED BY <2>1, <2>2
<1>3. ASSUME NEW i \in 1 .. n PROVE p[At(i)] = src[i]
  <2>1. \E j \in DOMAIN idx : idx[j] = i
    BY <1>1 DEF Enumerates
  <2>2. At(i) \in DOMAIN idx /\ idx[At(i)] = i
    BY <2>1
  <2> HIDE DEF At, p
  <2> QED BY <1>1, <1>2, <2>2
<1>4. restore_dynamic_batch(p, idx) = [i \in 1 .. n |-> p[At(i)]]
  BY <1>1 DEF restore_dynamic_batch
<1>5. src = [i \in 1 .. n |-> src[i]]
  BY LenProperties
<1> HIDE DEF At, p
<1>6. restore_dynamic_batch(p, idx) = src
  BY <1>3, <1>4, <1>5
<1> QED BY <1>6 DEF p

\* The fixed cut leaves the samples in order.
LEMMA FixedFlat ==
  ASSUME NEW n \in Nat \ {0}
  PROVE  Flat(FixedCut(n), FixedCount(n))[FixedCount(n)] = [i \in 1 .. n |-> i]
<1> DEFINE k == FixedCount(n)
           cut == FixedCut(n)
           Top(j) == IF j = 0 THEN 0 ELSE IF j = k THEN n ELSE j * MicroSize
           T == {j \in 0 .. k : Flat(cut, k)[j] = [i \in 1 .. Top(j) |-> i]}
<1>1. k \in Nat
  BY FixedCountFacts
<1>2. 0 \in T
  BY <1>1, FlatZero
<1>3. ASSUME NEW j \in 1 .. k, j - 1 \in T PROVE j \in T
  <2> DEFINE low == (j - 1) * MicroSize
             d == IF j * MicroSize <= n THEN MicroSize ELSE n - low
  <2>1. /\ cut[j] = [i \in 1 .. d |-> low + i]
        /\ low \in Nat /\ d \in Nat \ {0}
        /\ low + d = IF j = k THEN n ELSE j * MicroSize
    BY FixedPart
  <2>2. Top(j - 1) = low
    <3>1. j = 1 => low = 0
      BY SizeAssumption
    <3>2. j # 1 => j - 1 # 0 /\ j - 1 # k
      BY <1>1
    <3> HIDE DEF k
    <3> QED BY <3>1, <3>2
  <2>3. Top(j) = low + d
    <3>1. j # 0
      BY <1>1
    <3> HIDE DEF low, d, k
    <3> QED BY <2>1, <3>1
  <2>4. Flat(cut, k)[j] = Flat(cut, k)[j - 1] \o cut[j]
    BY <1>1, FlatNext
  <2>5. Flat(cut, k)[j - 1] = [i \in 1 .. low |-> i]
    BY <1>3, <2>2
  <2> HIDE DEF low, d, Top, cut, k
  <2> DEFINE s == [i \in 1 .. low |-> i]
             t == [i \in 1 .. d |-> low + i]
             u == [i \in 1 .. low + d |-> i]
  <2>6. s \in Seq(Nat) /\ t \in Seq(Nat) /\ u \in Seq(Nat)
        /\ Len(s) = low /\ Len(t) = d /\ Len(u) = low + d
    BY <2>1
  <2>7. /\ s \o t \in Seq(Nat) /\ Len(s \o t) = low + d
        /\ \A i \in 1 .. low + d : (s \o t)[i] = IF i <= low THEN s[i] ELSE t[i - low]
    <3> HIDE DEF s, t, u
    <3> QED BY <2>6, ConcatProperties
  <2>8. ASSUME NEW i \in 1 .. low + d PROVE (s \o t)[i] = u[i]
    <3>1. CASE i <= low
      <4>1. i \in 1 .. low
        BY <2>1, <3>1
      <4>2. s[i] = i /\ u[i] = i
        BY <4>1
      <4> HIDE DEF s, t, u
      <4> QED BY <2>7, <3>1, <4>2
    <3>2. CASE ~ (i <= low)
      <4>1. i - low \in 1 .. d
        BY <2>1, <3>2
      <4>2. t[i - low] = i /\ u[i] = i
        BY <2>1, <4>1
      <4> HIDE DEF s, t, u
      <4> QED BY <2>7, <3>2, <4>2
    <3> QED BY <3>1, <3>2
  <2>9. s \o t = u
    <3> HIDE DEF s, t, u
    <3> QED BY <2>6, <2>7, <2>8, SeqEqual
  <2>10. Flat(cut, k)[j] = u
    BY <2>1, <2>4, <2>5, <2>9
  <2>11. j \in 0 .. k
    BY <1>1
  <2> QED BY <2>3, <2>10, <2>11
<1>4. \A j \in 0 .. k : j \in T
  <2> HIDE DEF T
  <2> QED BY <1>1, <1>2, <1>3, BoundedInduction
<1>5. k \in T /\ k # 0
  <2>1. k \in T
    BY <1>1, <1>4
  <2>2. n <= k * MicroSize /\ 0 * MicroSize = 0
    BY FixedCountFacts, SizeAssumption
  <2> HIDE DEF k
  <2> QED BY <2>1, <2>2
<1> HIDE DEF cut, k
<1>6. Flat(cut, k)[k] = [i \in 1 .. n |-> i]
  BY <1>5
<1> QED BY <1>6 DEF cut, k

-----------------------------------------------------------------------------
(***************************************************************************)
(* How often a sample stands in a sequence                                 *)
(***************************************************************************)
LEMMA TimesConcat ==
  ASSUME NEW S, NEW s \in Seq(S), NEW t \in Seq(S), NEW i
  PROVE  /\ Times(s \o t, i) = Times(s, i) + Times(t, i)
         /\ Times(s, i) \in Nat /\ Times(t, i) \in Nat
<1> DEFINE m == Len(s)
           n == Len(t)
           u == s \o t
           A == {k \in 1 .. m : s[k] = i}
           B == {k \in 1 .. n : t[k] = i}
           C == {k \in 1 .. m + n : u[k] = i}
           D == {k + m : k \in B}
<1>1. m \in Nat /\ n \in Nat /\ DOMAIN s = 1 .. m /\ DOMAIN t = 1 .. n
  BY LenProperties
<1>2. /\ u \in Seq(S) /\ Len(u) = m + n
      /\ \A k \in 1 .. m + n : u[k] = IF k <= m THEN s[k] ELSE t[k - m]
  BY ConcatProperties
<1>3. DOMAIN u = 1 .. m + n
  <2> HIDE DEF u, m, n
  <2> QED BY <1>2, LenProperties
<1>4. Times(s, i) = Cardinality(A) /\ Times(t, i) = Cardinality(B) /\ Times(u, i) = Cardinality(C)
  <2> HIDE DEF m, n, u
  <2> QED BY <1>1, <1>3 DEF Times
<1>5. IsFiniteSet(A) /\ IsFiniteSet(B)
  <2> HIDE DEF m, n
  <2>1. IsFiniteSet(1 .. m) /\ IsFiniteSet(1 .. n)
    BY <1>1, IntervalFinite
  <2> QED BY <2>1, FS_Subset
<1>6. Cardinality(A) \in Nat /\ Cardinality(B) \in Nat
  BY <1>5, FS_CardinalityType
<1>7. C = A \cup D /\ A \cap D = {}
  <2> HIDE DEF m, n, u
  <2>1. ASSUME NEW k \in C PROVE k \in A \cup D
    <3>1. CASE k <= m
      <4>1. k \in 1 .. m
        BY <1>1, <3>1
      <4> QED BY <1>2, <3>1, <4>1
    <3>2. CASE ~ (k <= m)
      <4>1. k - m \in 1 .. n /\ (k - m) + m = k
        BY <1>1, <3>2
      <4>2. k - m \in B
        BY <1>2, <3>2, <4>1
      <4> QED BY <4>1, <4>2
    <3> QED BY <3>1, <3>2
  <2>2. ASSUME NEW k \in A PROVE k \in C
    <3>1. k \in 1 .. m + n /\ k <= m
      BY <1>1
    <3> QED BY <1>2, <3>1
  <2>3. ASSUME NEW k \in B PROVE k + m \in C
    <3>1. k + m \in 1 .. m + n /\ ~ (k + m <= m) /\ (k + m) - m = k
      BY <1>1
    <3> QED BY <1>2, <3>1
  <2>4. \A k \in D : k \notin A
    BY <1>1
  <2> HIDE DEF A, C
  <2> QED BY <2>1, <2>2, <2>3, <2>4
<1>8. IsFiniteSet(D) /\ Cardinality(D) = Cardinality(B)
  <2> DEFINE g == [k \in B |-> k + m]
  <2>1. B \subseteq Int
    OBVIOUS
  <2> HIDE DEF B, m
  <2>2. g \in Bijection(B, D)
    <3>1. g \in [B -> D]
      OBVIOUS
    <3>2. \A a, b \in B : g[a] = g[b] => a = b
      BY <1>1, <2>1
    <3>3. \A y \in D : \E x \in B : g[x] = y
      OBVIOUS
    <3> QED BY <3>1, <3>2, <3>3 DEF Bijection, Injection, Surjection, IsInjective
  <2>3. ExistsBijection(B, D)
    BY <2>2 DEF ExistsBijection
  <2> QED BY <1>5, <2>3, FS_Bijection
<1>9. Cardinality(C) = Cardinality(A) + Cardinality(B)
  <2>1. Cardinality(A \cap D) = 0
    BY <1>7, FS_EmptySet
  <2>2. Cardinality(A \cup D) = Cardinality(A) + Cardinality(D) - Cardinality(A \cap D)
    BY <1>5, <1>8, FS_Union
  <2> HIDE DEF A, B, C, D
  <2> QED BY <1>6, <1>7, <1>8, <2>1, <2>2
<1> QED BY <1>4, <1>6, <1>9

LEMMA TimesEnumerates ==
  ASSUME NEW P, NEW s, Enumerates(s, P), NEW i
  PROVE  Times(s, i) = IF i \in P THEN 1 ELSE 0
<1> DEFINE A == {k \in DOMAIN s : s[k] = i}
<1>1. DOMAIN s = 1 .. Len(s) /\ s \in Seq(P)
  BY LenProperties DEF Enumerates
<1>2. CASE i \in P
  <2>1. PICK a \in 1 .. Len(s) : s[a] = i
    BY <1>2 DEF Enumerates
  <2>2. A = {a}
    BY <1>1, <2>1 DEF Enumerates
  <2>3. Cardinality({a}) = 1
    BY FS_Singleton
  <2> QED BY <1>2, <2>2, <2>3 DEF Times
<1>3. CASE i \notin P
  <2>1. A = {}
    <3> SUFFICES ASSUME NEW k \in 1 .. Len(s), s[k] = i PROVE FALSE
      BY <1>1
    <3>1. s[k] \in P
      BY <1>1, ElementOfSeq
    <3> QED BY <1>3, <3>1
  <2> QED BY <1>3, <2>1, FS_EmptySet DEF Times
<1> QED BY <1>2, <1>3

-----------------------------------------------------------------------------
(***************************************************************************)
(* A step of one rank                                                      *)
(***************************************************************************)
Same(s) ==
  /\ pc'[s] = pc[s] /\ call'[s] = call[s] /\ local'[s] = local[s]
  /\ epoch'[s] = epoch[s] /\ mini'[s] = mini[s]
  /\ want'[s] = want[s] /\ micro'[s] = micro[s] /\ next'[s] = next[s]
  /\ logp'[s] = logp[s] /\ grads'[s] = grads[s] /\ scale'[s] = scale[s]
  /\ trained'[s] = trained[s]
  /\ steps'[s] = steps[s] /\ did'[s] = did[s] /\ teacher'[s] = teacher[s]

LEMMA OthersSame ==
  ASSUME TypesInv, NEW r \in Ranks, NEW s \in Ranks, s # r, Rank(r)
  PROVE  Same(s) /\ lens' = lens /\ dynamic' = dynamic /\ batch' = batch /\ local' = local
<1> USE DEF work, progress, cutting, model, norm
<1>1. /\ DOMAIN pc = Ranks /\ DOMAIN call = Ranks /\ DOMAIN epoch = Ranks
      /\ DOMAIN mini = Ranks /\ DOMAIN want = Ranks /\ DOMAIN next = Ranks
      /\ DOMAIN scale = Ranks /\ DOMAIN trained = Ranks /\ DOMAIN steps = Ranks
      /\ DOMAIN did = Ranks
  BY DEF TypesInv
<1>2. DOMAIN micro = Ranks /\ DOMAIN logp = Ranks /\ DOMAIN grads = Ranks /\ DOMAIN teacher = Ranks
  BY DEF TypesInv
<1>3. ASSUME NEW from, NEW count, NEW to, Split(r, from, count, to)
      PROVE  Same(s) /\ UNCHANGED <<lens, dynamic, batch, local>>
  BY <1>1, <1>2, <1>3 DEF Split, Cut, zero_grad, Enter, Same
<1>4. ASSUME NEW count, NEW to, rearrange_micro_batches(r, count, to)
      PROVE  Same(s) /\ UNCHANGED <<lens, dynamic, batch, local>>
  BY <1>1, <1>2, <1>4 DEF rearrange_micro_batches, Cut, zero_grad, Same
<1>5. CASE LogpForward(r)
  BY <1>1, <1>2, <1>5 DEF LogpForward, Enter, Same
<1>6. CASE LogpNext(r)
  BY <1>1, <1>2, <1>6 DEF LogpNext, Same
<1>7. CASE LogpEnd(r)
  BY <1>1, <1>2, <1>7 DEF LogpEnd, Same
<1>8. CASE Forward(r)
  BY <1>1, <1>2, <1>8 DEF Forward, Enter, Same
<1>9. CASE Backward(r)
  BY <1>1, <1>2, <1>9 DEF Backward, Same
<1>10. CASE ClipEnter(r)
  BY <1>1, <1>2, <1>10 DEF ClipEnter, Enter, Same
<1>11. CASE _optimizer_step(r)
  BY <1>1, <1>2, <1>11 DEF _optimizer_step, Same
<1>12. CASE _update_teacher(r)
  BY <1>1, <1>2, <1>12 DEF _update_teacher, Same
<1> QED BY <1>3, <1>4, <1>5, <1>6, <1>7, <1>8, <1>9, <1>10, <1>11, <1>12 DEF Rank

LEMMA OtherInv ==
  ASSUME NEW s \in Ranks, Same(s), lens' = lens, dynamic' = dynamic, RankInv(s)
  PROVE  RankInv(s)'
<1>1. Mini(s)' = Mini(s)
  BY DEF Mini, Same
<1>2. Behind(s)' = Behind(s) /\ DoneMinis(s)' = DoneMinis(s) /\ Rows' = Rows
  BY DEF Behind, DoneMinis, Rows, Same
<1>3. LoopInv(s)' /\ LogpInv(s)'
  BY <1>2 DEF LoopInv, LogpInv, RankInv, Same
<1>4. CutInv(s)' /\ GradInv(s)'
  BY <1>1, <1>2 DEF CutInv, GradInv, RankInv, Same
<1>5. TrainedInv(s)'
  BY <1>2 DEF TrainedInv, RankInv, Same
<1> QED BY <1>3, <1>4, <1>5 DEF RankInv

LEMMA MiniSame ==
  ASSUME NEW r \in Ranks, local'[r] = local[r],
         \/ pc[r] \in Computing /\ pc'[r] \in Computing
         \/ pc[r] \notin Computing /\ pc'[r] \notin Computing /\ mini'[r] = mini[r]
  PROVE  Mini(r)' = Mini(r)
BY DEF Mini, Computing

LEMMA MostIsThere ==
  ASSUME NEW f \in [Ranks -> Nat]
  PROVE  \E s \in Ranks : \A t \in Ranks : f[s] >= f[t]
<1> DEFINE T == {n \in 1 .. DP : \E s \in 1 .. n : \A t \in 1 .. n : f[s] >= f[t]} \cup {0}
<1>1. DP \in Nat \ {0} /\ Ranks = 1 .. DP
  BY DPAssumption DEF Ranks
<1>2. ASSUME NEW n \in 1 .. DP, n - 1 \in T PROVE n \in T
  <2>1. CASE n = 1
    BY <1>1, <2>1
  <2>2. CASE n # 1
    <3>1. n - 1 \in 1 .. DP /\ n - 1 # 0
      BY <1>1, <2>2
    <3>2. PICK s \in 1 .. n - 1 : \A t \in 1 .. n - 1 : f[s] >= f[t]
      BY <1>2, <3>1
    <3>3. s \in 1 .. n /\ n \in 1 .. n /\ f[s] \in Nat /\ f[n] \in Nat
      BY <1>1, <3>1
    <3>4. \A t \in 1 .. n : t = n \/ t \in 1 .. n - 1
      BY <3>1
    <3>5. CASE f[s] >= f[n]
      BY <3>2, <3>3, <3>4, <3>5
    <3>6. CASE ~ (f[s] >= f[n])
      <4>1. \A t \in 1 .. n : f[t] \in Nat
        BY <1>1
      <4>2. \A t \in 1 .. n : f[n] >= f[t]
        BY <3>2, <3>3, <3>4, <3>6, <4>1
      <4> QED BY <3>3, <4>2
    <3> QED BY <3>5, <3>6
  <2> QED BY <2>1, <2>2
<1>3. \A n \in 0 .. DP : n \in T
  <2>1. 0 \in T /\ DP \in Nat
    BY <1>1
  <2> HIDE DEF T
  <2>2. \A n \in 1 .. DP : n - 1 \in T => n \in T
    BY <1>2
  <2> QED BY <2>1, <2>2, BoundedInduction
<1>4. DP \in T /\ DP # 0
  <2> HIDE DEF T
  <2> QED BY <1>1, <1>3
<1> QED BY <1>1, <1>4

\* AgreedCount is the largest of the numbers the ranks want.
LEMMA AgreedFacts ==
  ASSUME want \in [Ranks -> Nat], NEW r
  PROVE  AgreedCount(r) \in Nat
<1> DEFINE S == {want[s] : s \in Ranks}
           m == CHOOSE x \in S : \A y \in S : x >= y
<1>1. \E x \in S : \A y \in S : x >= y
  BY MostIsThere
<1>2. m \in S
  BY <1>1
<1>3. AgreedCount(r) = m
  BY DEF AgreedCount, Max
<1> HIDE DEF m
<1> QED BY <1>2, <1>3

LEMMA OwnCountNat ==
  ASSUME TypesInv, BalanceInv, NEW r \in Ranks, pc[r] # "balance"
  PROVE  OwnCount(r) \in Nat
<1> DEFINE I == {Mini(r)[i] : i \in DOMAIN Mini(r)}
           full == (Total(I) + MaxTokens - 1) \div MaxTokens
<1>1. Mini(r) \in Seq(Rows) /\ Len(Mini(r)) \in Nat
  BY MiniFacts
<1>2. lens \in Seq(0 .. MaxTokens) /\ Len(lens) \in Nat /\ MaxTokens \in Nat \ {0}
  BY ShareFacts, SizeAssumption DEF TypesInv
<1>3. I \subseteq Rows /\ IsFiniteSet(I)
  <2>1. I \subseteq Rows
    <3> SUFFICES ASSUME NEW i \in DOMAIN Mini(r) PROVE Mini(r)[i] \in Rows
      OBVIOUS
    <3>1. i \in 1 .. Len(Mini(r))
      BY <1>1, LenProperties
    <3> QED BY <1>1, <3>1, ElementOfSeq
  <2>2. IsFiniteSet(Rows)
    BY <1>2, IntervalFinite DEF Rows
  <2> HIDE DEF I
  <2> QED BY <2>1, <2>2, FS_Subset
<1> HIDE DEF I
<1>4. \A i \in I : lens[i] \in Nat
  <2> SUFFICES ASSUME NEW i \in Rows PROVE lens[i] \in Nat
    BY <1>3
  <2>1. lens[i] \in 0 .. MaxTokens
    BY <1>2, ElementOfSeq DEF Rows
  <2> QED BY <1>2, <2>1
<1>5. Total(I) \in Nat
  <2>1. Total(I) = SumOver(lens, I)
    BY DEF Total, SumOver
  <2> QED BY <1>3, <1>4, <2>1, SumNat
<1>6. full \in Nat
  <2>1. \A a, b \in Nat : b # 0 => (a + b - 1) \div b \in Nat
    OBVIOUS
  <2> QED BY <1>2, <1>5, <2>1
<1>7. OwnCount(r) = IF full < Len(Mini(r)) THEN full ELSE Len(Mini(r))
  BY DEF OwnCount, I
<1> HIDE DEF full
<1> QED BY <1>1, <1>6, <1>7

\* The micro-batches are cut and the gradient is set to zero.
LEMMA CutPath ==
  ASSUME PathInv, NEW r \in Ranks, NEW cut, NEW to, Cut(r, cut, to),
         \/ pc[r] \in {"logp", "logpCount"} /\ to = "logpRun"
         \/ pc[r] \in {"mini", "count"} /\ to = "run",
         Splits(cut, Len(Mini(r))), dynamic \/ cut = FixedCut(Len(Mini(r))),
         UNCHANGED <<work, progress, logp, trained, norm, model>>,
         want' \in [Ranks -> Nat],
         call' \in [Ranks -> [n : Nat, kind : {"none", "count", "forward", "train", "norm"}]]
  PROVE  TypesInv' /\ RankInv(r)'
<1> USE DEF work, progress, norm, model
<1>1. TypesInv /\ BalanceInv /\ RankInv(r) /\ pc[r] # "balance"
  BY DEF PathInv
<1>2. /\ pc' = [pc EXCEPT ![r] = to] /\ pc'[r] = to
      /\ micro' = [micro EXCEPT ![r] = cut] /\ micro'[r] = cut
      /\ next' = [next EXCEPT ![r] = 1] /\ next'[r] = 1
      /\ grads' = [grads EXCEPT ![r] = <<>>] /\ grads'[r] = <<>>
      /\ scale' = [scale EXCEPT ![r] = 0] /\ scale'[r] = 0
  BY <1>1 DEF TypesInv, Cut, zero_grad
<1>3. /\ lens' = lens /\ dynamic' = dynamic /\ local' = local /\ epoch' = epoch
      /\ mini' = mini /\ logp' = logp /\ trained' = trained /\ Rows' = Rows
      /\ LastMini' = LastMini
  BY DEF Rows, LastMini, Share
<1>4. TypesInv'
  <2>1. pc' \in [Ranks -> Sites]
    BY <1>1, <1>2 DEF TypesInv, Sites, Computing, Training
  <2>2. next' \in [Ranks -> Nat] /\ scale' \in [Ranks -> Nat]
    BY <1>1, <1>2 DEF TypesInv
  <2>3. \A f \in {micro', logp', grads', teacher'} : f = [q \in Ranks |-> f[q]]
    <3>1. micro' = [q \in Ranks |-> micro'[q]]
      BY <1>1, <1>2 DEF TypesInv
    <3>2. grads' = [q \in Ranks |-> grads'[q]]
      BY <1>1, <1>2 DEF TypesInv
    <3>3. logp' = [q \in Ranks |-> logp'[q]] /\ teacher' = [q \in Ranks |-> teacher'[q]]
      BY <1>1, <1>3 DEF TypesInv
    <3> QED BY <3>1, <3>2, <3>3
  <2>4. /\ lens' \in Batches /\ dynamic' \in BOOLEAN
        /\ local' \in [Ranks -> Seq(Rows')] /\ epoch' \in [Ranks -> 0 .. Epochs]
        /\ mini' \in [Ranks -> 1 .. LastMini'] /\ trained' \in [Ranks -> Seq(Rows')]
        /\ finite' \in BOOLEAN /\ steps' \in [Ranks -> Nat] /\ did' \in [Ranks -> BOOLEAN]
    BY <1>1, <1>3 DEF TypesInv
  <2> QED BY <2>1, <2>2, <2>3, <2>4 DEF TypesInv
<1>5. Mini(r)' = Mini(r)
  BY <1>2, <1>3, MiniSame DEF Computing
<1>6. Len(Mini(r)) \in Nat \ {0} /\ Len(cut) \in Nat \ {0}
  <2>1. Len(Mini(r)) \in Nat \ {0}
    BY <1>1, MiniFacts
  <2> QED BY <2>1, SplitsFlat
<1>7. Behind(r)' = <<>>
  <2>1. Flat(cut, Len(cut))[0] = <<>>
    BY <1>6, FlatZero
  <2>2. next'[r] - 1 = 0
    BY <1>2
  <2> QED BY <1>2, <2>1, <2>2 DEF Behind
<1>8. LoopInv(r)'
  BY <1>1, <1>2, <1>3 DEF RankInv, LoopInv, Computing, Training
<1>9. CutInv(r)'
  BY <1>2, <1>3, <1>5, <1>6 DEF CutInv
<1>10. LogpInv(r)'
  BY <1>1, <1>2, <1>3, <1>7, PickedNone DEF RankInv, LogpInv, Computing
<1>11. GradInv(r)'
  <2>1. Len(<<>>) = 0 /\ (1 - 1) * MicroSize = 0
    BY SizeAssumption
  <2> QED BY <1>2, <1>3, <1>7, <2>1, PickedNone DEF GradInv
<1>12. TrainedInv(r)'
  BY <1>1, <1>2, <1>3 DEF RankInv, TrainedInv, DoneMinis
<1> QED BY <1>4, <1>8, <1>9, <1>10, <1>11, <1>12 DEF RankInv

LEMMA SplitPath ==
  ASSUME PathInv, NEW r \in Ranks, NEW from, NEW count, NEW to, Split(r, from, count, to),
         \/ from = "logp" /\ count = "logpCount" /\ to = "logpRun"
         \/ from = "mini" /\ count = "count" /\ to = "run"
  PROVE  TypesInv' /\ RankInv(r)'
<1>1. TypesInv /\ BalanceInv /\ RankInv(r) /\ pc[r] = from /\ pc[r] # "balance"
  BY DEF PathInv, Split
<1>2. CASE ~ dynamic
  <2>1. Cut(r, FixedCut(Len(Mini(r))), to) /\ UNCHANGED <<want, call>>
    BY <1>2 DEF Split
  <2>2. Splits(FixedCut(Len(Mini(r))), Len(Mini(r)))
    BY <1>1, MiniFacts, FixedSplits
  <2>3. UNCHANGED <<work, progress, logp, trained, norm, model>>
    BY DEF Split
  <2>4. want' \in [Ranks -> Nat]
        /\ call' \in [Ranks -> [n : Nat, kind : {"none", "count", "forward", "train", "norm"}]]
    BY <1>1, <2>1 DEF TypesInv
  <2> QED BY <1>1, <2>1, <2>2, <2>3, <2>4, CutPath
<1>3. CASE dynamic
  <2>1. /\ want' = [want EXCEPT ![r] = OwnCount(r)]
        /\ call' = [call EXCEPT ![r] = [n |-> @.n + 1, kind |-> "count"]]
        /\ pc' = [pc EXCEPT ![r] = count]
        /\ UNCHANGED <<micro, next, grads, scale>>
    BY <1>3 DEF Split, Enter
  <2>2. UNCHANGED <<work, progress, logp, trained, norm, model>>
    BY DEF Split
  <2>3. Rows' = Rows /\ LastMini' = LastMini
    BY <2>2 DEF Rows, LastMini, Share, work
  <2>4. pc'[r] = count
    BY <1>1, <2>1 DEF TypesInv
  <2>5. TypesInv'
    <3>1. want' \in [Ranks -> Nat]
      BY <1>1, <2>1, OwnCountNat DEF TypesInv
    <3>2. call' \in [Ranks -> [n : Nat, kind : {"none", "count", "forward", "train", "norm"}]]
      BY <1>1, <2>1 DEF TypesInv
    <3>3. pc' \in [Ranks -> Sites]
      BY <1>1, <2>1 DEF TypesInv, Sites, Computing, Training
    <3> QED BY <1>1, <2>1, <2>2, <2>3, <3>1, <3>2, <3>3 DEF TypesInv, work, progress, norm, model
  <2>6. LoopInv(r)' /\ CutInv(r)' /\ GradInv(r)'
    BY <1>1, <1>3, <2>2, <2>4
       DEF RankInv, LoopInv, CutInv, GradInv, CutSites, Computing, Training, progress, work
  <2>7. LogpInv(r)' /\ TrainedInv(r)'
    BY <1>1, <2>2, <2>3, <2>4 DEF RankInv, LogpInv, TrainedInv, DoneMinis, Computing, progress
  <2> QED BY <2>5, <2>6, <2>7 DEF RankInv
<1> QED BY <1>1, <1>2, <1>3 DEF TypesInv

LEMMA RearrangePath ==
  ASSUME PathInv, NEW r \in Ranks, NEW count, NEW to, rearrange_micro_batches(r, count, to),
         \/ count = "logpCount" /\ to = "logpRun"
         \/ count = "count" /\ to = "run"
  PROVE  TypesInv' /\ RankInv(r)'
<1>1. TypesInv /\ BalanceInv /\ RankInv(r) /\ pc[r] = count /\ pc[r] # "balance" /\ dynamic
  BY DEF PathInv, rearrange_micro_batches, RankInv, CutInv
<1>2. PICK cut \in DynamicCuts(Len(Mini(r)), AgreedCount(r)) : Cut(r, cut, to)
  BY DEF rearrange_micro_batches
<1>3. UNCHANGED <<work, call, progress, want, logp, trained, norm, model>>
  BY DEF rearrange_micro_batches
<1>4. Splits(cut, Len(Mini(r)))
  <2>1. Len(Mini(r)) \in Nat \ {0}
    BY <1>1, MiniFacts
  <2>2. AgreedCount(r) \in Nat
    BY <1>1, AgreedFacts DEF TypesInv
  <2> QED BY <2>1, <2>2, DynamicSplits
<1>5. want' \in [Ranks -> Nat]
      /\ call' \in [Ranks -> [n : Nat, kind : {"none", "count", "forward", "train", "norm"}]]
  BY <1>1, <1>3 DEF TypesInv
<1> QED BY <1>1, <1>2, <1>3, <1>4, <1>5, CutPath

\* A rank enters a forward pass or the norm.
LEMMA EnterPath ==
  ASSUME PathInv, NEW r \in Ranks, LogpForward(r) \/ Forward(r) \/ ClipEnter(r)
  PROVE  TypesInv' /\ RankInv(r)'
<1> USE DEF work, progress, cutting, model, norm
<1>1. TypesInv /\ BalanceInv /\ RankInv(r)
  BY DEF PathInv
<1>2. PICK to \in {"logpWait", "wait", "step"} :
        /\ pc' = [pc EXCEPT ![r] = to]
        /\ \/ pc[r] = "logpRun" /\ to = "logpWait" /\ next[r] <= Len(micro[r])
           \/ pc[r] = "run" /\ to = "wait" /\ next[r] <= Len(micro[r])
           \/ pc[r] = "run" /\ to = "step" /\ next[r] > Len(micro[r])
  BY DEF LogpForward, Forward, ClipEnter
<1>3. /\ lens' = lens /\ dynamic' = dynamic /\ local' = local /\ epoch' = epoch /\ mini' = mini
      /\ want' = want /\ micro' = micro /\ next' = next /\ logp' = logp /\ grads' = grads
      /\ scale' = scale /\ trained' = trained /\ steps' = steps /\ did' = did /\ teacher' = teacher
  BY DEF LogpForward, Forward, ClipEnter
<1>4. call' \in [Ranks -> [n : Nat, kind : {"none", "count", "forward", "train", "norm"}]]
  <2>1. PICK kind \in {"forward", "train", "norm"} : Enter(r, kind)
    BY DEF LogpForward, Forward, ClipEnter
  <2> QED BY <1>1, <2>1 DEF Enter, TypesInv
<1>5. finite' \in BOOLEAN
  BY <1>1 DEF LogpForward, Forward, ClipEnter, TypesInv
<1>6. pc'[r] = to /\ pc' \in [Ranks -> Sites]
  BY <1>1, <1>2 DEF TypesInv, Sites, Computing, Training
<1>7. Rows' = Rows /\ LastMini' = LastMini
  BY <1>3 DEF Rows, LastMini, Share
<1>8. TypesInv'
  BY <1>1, <1>3, <1>4, <1>5, <1>6, <1>7 DEF TypesInv
<1>9. Mini(r)' = Mini(r) /\ Behind(r)' = Behind(r) /\ DoneMinis(r)' = DoneMinis(r)
  <2>1. Mini(r)' = Mini(r)
    BY <1>2, <1>3, <1>6, MiniSame DEF Computing
  <2> QED BY <1>3, <2>1 DEF Behind, DoneMinis
<1>10. LoopInv(r)' /\ LogpInv(r)'
  BY <1>1, <1>2, <1>3, <1>6, <1>9 DEF RankInv, LoopInv, LogpInv, Computing, Training
<1>11. CutInv(r)'
  <2>1. pc[r] \in CutSites /\ next[r] \in 1 .. Len(micro[r]) + 1 /\ Splits(micro[r], Len(Mini(r)))
        /\ (dynamic \/ micro[r] = FixedCut(Len(Mini(r))))
    BY <1>1, <1>2 DEF RankInv, CutInv, CutSites
  <2>2. Len(micro[r]) \in Nat
    BY <2>1 DEF Splits
  <2>3. next[r] > Len(micro[r]) => next[r] = Len(micro[r]) + 1
    BY <2>1, <2>2
  <2> QED BY <1>2, <1>3, <1>6, <1>9, <2>1, <2>3 DEF CutInv
<1>12. GradInv(r)' /\ TrainedInv(r)'
  BY <1>1, <1>2, <1>3, <1>6, <1>7, <1>9 DEF RankInv, GradInv, TrainedInv
<1> QED BY <1>8, <1>10, <1>11, <1>12 DEF RankInv

\* What is behind a rank after one more micro-batch.
LEMMA BehindNext ==
  ASSUME PathInv, NEW r \in Ranks, pc[r] \in {"logpWait", "wait"},
         micro'[r] = micro[r], next'[r] = next[r] + 1
  PROVE  LET part == micro[r][next[r]]
             n == Len(Mini(r))
         IN /\ next[r] \in 1 .. Len(micro[r]) /\ Len(micro[r]) \in Nat
            /\ Behind(r) \in Seq(1 .. n) /\ part \in Seq(1 .. n)
            /\ Behind(r)' = Behind(r) \o part
<1>1. TypesInv /\ BalanceInv /\ RankInv(r) /\ pc[r] # "balance"
  BY DEF PathInv
<1>2. /\ Splits(micro[r], Len(Mini(r))) /\ next[r] \in 1 .. Len(micro[r]) + 1
      /\ next[r] <= Len(micro[r])
  BY <1>1 DEF RankInv, CutInv, CutSites
<1>3. Len(Mini(r)) \in Nat
  BY <1>1, MiniFacts
<1> DEFINE K == Len(micro[r])
           F == Flat(micro[r], K)
<1>4. /\ K \in Nat
      /\ \A j \in 1 .. K : micro[r][j] \in Seq(1 .. Len(Mini(r)))
      /\ \A j \in 0 .. K : F[j] \in Seq(1 .. Len(Mini(r)))
      /\ \A j \in 1 .. K : F[j] = F[j - 1] \o micro[r][j]
  BY <1>2, <1>3, SplitsFlat
<1>5. next[r] \in 1 .. K /\ next[r] - 1 \in 0 .. K /\ next'[r] - 1 = next[r]
  <2>1. K \in Nat /\ next[r] \in 1 .. K + 1 /\ next[r] <= K
    BY <1>2, <1>4
  <2> HIDE DEF K, F
  <2>2. next[r] \in 1 .. K
    BY <2>1
  <2>3. next'[r] = next[r] + 1
    OBVIOUS
  <2> QED BY <2>1, <2>2, <2>3
<1>6. Behind(r) = F[next[r] - 1] /\ Behind(r)' = F[next[r]]
  BY <1>5 DEF Behind
<1> HIDE DEF K, F
<1> QED BY <1>4, <1>5, <1>6 DEF K

LEMMA LogpNextPath ==
  ASSUME PathInv, NEW r \in Ranks, LogpNext(r)
  PROVE  TypesInv' /\ RankInv(r)'
<1> USE DEF work, progress, model, norm
<1> DEFINE part == micro[r][next[r]]
<1>1. TypesInv /\ BalanceInv /\ RankInv(r) /\ pc[r] = "logpWait" /\ pc[r] # "balance"
  BY DEF PathInv, LogpNext
<1>2. /\ pc' = [pc EXCEPT ![r] = "logpRun"] /\ next' = [next EXCEPT ![r] = @ + 1]
      /\ logp' = [logp EXCEPT ![r] = @ \o Picked(local[r], part)]
      /\ UNCHANGED <<work, call, progress, want, micro, grads, scale, trained, norm, model>>
  BY DEF LogpNext, Picked
<1>3. /\ pc'[r] = "logpRun" /\ next'[r] = next[r] + 1
      /\ logp'[r] = logp[r] \o Picked(local[r], part)
  BY <1>1, <1>2 DEF TypesInv
<1>4. Rows' = Rows /\ LastMini' = LastMini
  BY <1>2 DEF Rows, LastMini, Share
<1>5. /\ next[r] \in 1 .. Len(micro[r]) /\ Len(micro[r]) \in Nat
      /\ Behind(r) \in Seq(1 .. Len(Mini(r))) /\ part \in Seq(1 .. Len(Mini(r)))
      /\ Behind(r)' = Behind(r) \o part
  BY <1>1, <1>2, <1>3, BehindNext
<1>6. TypesInv'
  <2>1. pc' \in [Ranks -> Sites]
    BY <1>1, <1>2 DEF TypesInv, Sites, Computing
  <2>2. next' \in [Ranks -> Nat]
    BY <1>1, <1>2 DEF TypesInv
  <2> QED BY <1>1, <1>2, <1>4, <2>1, <2>2 DEF TypesInv
<1>7. Mini(r)' = Mini(r) /\ Mini(r) = local[r]
  <2>1. Mini(r)' = Mini(r)
    BY <1>1, <1>2, <1>3, MiniSame DEF Computing
  <2> QED BY <1>1, <2>1 DEF Mini
<1>8. logp[r] = Picked(local[r], Behind(r))
  BY <1>1 DEF RankInv, LogpInv
<1>9. logp'[r] = Picked(local'[r], Behind(r)')
  <2>1. local[r] \in Seq(Rows)
    BY <1>1 DEF TypesInv
  <2> HIDE DEF part
  <2>2. Picked(local[r], Behind(r) \o part) = Picked(local[r], Behind(r)) \o Picked(local[r], part)
    BY <1>5, <1>7, <2>1, PickedConcat
  <2> QED BY <1>2, <1>3, <1>5, <1>8, <2>2
<1>10. CutInv(r)'
  <2>1. Splits(micro[r], Len(Mini(r))) /\ (dynamic \/ micro[r] = FixedCut(Len(Mini(r))))
    BY <1>1 DEF RankInv, CutInv, CutSites
  <2>2. next[r] + 1 \in 1 .. Len(micro[r]) + 1
    BY <1>5
  <2> QED BY <1>2, <1>3, <1>7, <2>1, <2>2 DEF CutInv
<1>11. LoopInv(r)' /\ LogpInv(r)' /\ GradInv(r)'
  BY <1>1, <1>2, <1>3, <1>9 DEF RankInv, LoopInv, LogpInv, GradInv, Computing, Training
<1>12. TrainedInv(r)'
  BY <1>1, <1>2, <1>3, <1>4 DEF RankInv, TrainedInv, DoneMinis
<1> QED BY <1>6, <1>10, <1>11, <1>12 DEF RankInv

LEMMA BackwardPath ==
  ASSUME PathInv, NEW r \in Ranks, Backward(r)
  PROVE  TypesInv' /\ RankInv(r)'
<1> USE DEF work, progress, model, norm
<1> DEFINE part == micro[r][next[r]]
<1>1. TypesInv /\ BalanceInv /\ RankInv(r) /\ pc[r] = "wait" /\ pc[r] # "balance"
  BY DEF PathInv, Backward
<1>2. /\ pc' = [pc EXCEPT ![r] = "run"] /\ next' = [next EXCEPT ![r] = @ + 1]
      /\ grads' = [grads EXCEPT ![r] = @ \o Picked(Mini(r), part)]
      /\ scale' = [scale EXCEPT ![r] = @ + Factor(r)]
      /\ UNCHANGED <<work, call, progress, want, micro, logp, trained, norm, model>>
  BY DEF Backward, Picked
<1>3. /\ pc'[r] = "run" /\ next'[r] = next[r] + 1
      /\ grads'[r] = grads[r] \o Picked(Mini(r), part) /\ scale'[r] = scale[r] + Factor(r)
  BY <1>1, <1>2 DEF TypesInv
<1>4. Rows' = Rows /\ LastMini' = LastMini
  BY <1>2 DEF Rows, LastMini, Share
<1>5. /\ next[r] \in 1 .. Len(micro[r]) /\ Len(micro[r]) \in Nat
      /\ Behind(r) \in Seq(1 .. Len(Mini(r))) /\ part \in Seq(1 .. Len(Mini(r)))
      /\ Behind(r)' = Behind(r) \o part
  BY <1>1, <1>2, <1>3, BehindNext
<1>6. Factor(r) = (IF dynamic THEN Len(part) ELSE MicroSize) /\ Factor(r) \in Nat
      /\ scale[r] \in Nat /\ Len(part) \in Nat /\ MicroSize \in Nat
  <2>1. Len(part) \in Nat /\ MicroSize \in Nat
    BY <1>5, LenProperties, SizeAssumption
  <2> QED BY <1>1, <2>1 DEF Factor, TypesInv
<1>7. TypesInv'
  <2>1. pc' \in [Ranks -> Sites]
    BY <1>1, <1>2 DEF TypesInv, Sites, Training
  <2>2. next' \in [Ranks -> Nat]
    BY <1>1, <1>2 DEF TypesInv
  <2>3. scale' \in [Ranks -> Nat]
    <3>1. scale' = [scale EXCEPT ![r] = scale[r] + Factor(r)] /\ scale[r] + Factor(r) \in Nat
      BY <1>2, <1>6
    <3> QED BY <1>1, <3>1 DEF TypesInv
  <2>4. \A f \in {micro', logp', grads', teacher'} : f = [q \in Ranks |-> f[q]]
    <3>1. grads' = [q \in Ranks |-> grads'[q]]
      BY <1>1, <1>2 DEF TypesInv
    <3>2. /\ micro' = [q \in Ranks |-> micro'[q]] /\ logp' = [q \in Ranks |-> logp'[q]]
          /\ teacher' = [q \in Ranks |-> teacher'[q]]
      BY <1>1, <1>2 DEF TypesInv
    <3> QED BY <3>1, <3>2
  <2>5. /\ lens' \in Batches /\ dynamic' \in BOOLEAN
        /\ local' \in [Ranks -> Seq(Rows')] /\ epoch' \in [Ranks -> 0 .. Epochs]
        /\ mini' \in [Ranks -> 1 .. LastMini'] /\ trained' \in [Ranks -> Seq(Rows')]
        /\ call' = call /\ want' = want
        /\ finite' \in BOOLEAN /\ steps' \in [Ranks -> Nat] /\ did' \in [Ranks -> BOOLEAN]
    BY <1>1, <1>2, <1>4 DEF TypesInv
  <2>6. call' \in [Ranks -> [n : Nat, kind : {"none", "count", "forward", "train", "norm"}]]
        /\ want' \in [Ranks -> Nat]
    BY <1>1, <2>5 DEF TypesInv
  <2> QED BY <2>1, <2>2, <2>3, <2>4, <2>5, <2>6 DEF TypesInv
<1>8. Mini(r)' = Mini(r)
  BY <1>1, <1>2, <1>3, MiniSame DEF Computing
<1>9. grads[r] = Picked(Mini(r), Behind(r))
      /\ scale[r] = IF dynamic THEN Len(grads[r]) ELSE (next[r] - 1) * MicroSize
  BY <1>1 DEF RankInv, GradInv
<1>10. GradInv(r)'
  <2>1. Mini(r) \in Seq(Rows)
    BY <1>1, MiniFacts
  <2> HIDE DEF part
  <2>2. /\ Picked(Mini(r), Behind(r) \o part) = Picked(Mini(r), Behind(r)) \o Picked(Mini(r), part)
    BY <1>5, <2>1, PickedConcat
  <2>3. /\ Picked(Mini(r), part) \in Seq(Rows) /\ Len(Picked(Mini(r), part)) = Len(part)
    BY <1>5, <2>1, PickedFacts
  <2>4. Picked(Mini(r), Behind(r)) \in Seq(Rows)
    BY <1>5, <2>1, PickedFacts
  <2>5. grads'[r] = Picked(Mini(r)', Behind(r)')
    BY <1>3, <1>5, <1>8, <1>9, <2>2
  <2>6. Len(grads'[r]) = Len(grads[r]) + Len(part)
    <3> DEFINE p == Picked(Mini(r), Behind(r))
               q == Picked(Mini(r), part)
    <3> HIDE DEF p, q
    <3>1. p \in Seq(Rows) /\ q \in Seq(Rows) /\ Len(q) = Len(part)
      BY <2>3, <2>4 DEF p, q
    <3>2. Len(p \o q) = Len(p) + Len(q)
      BY <3>1, ConcatProperties
    <3> QED BY <1>3, <1>9, <3>1, <3>2 DEF p, q
  <2>7. ((next[r] + 1) - 1) * MicroSize = (next[r] - 1) * MicroSize + MicroSize
    <3>1. next[r] \in Int
      BY <1>5
    <3> QED BY <1>6, <3>1
  <2>8. scale'[r] = IF dynamic' THEN Len(grads'[r]) ELSE (next'[r] - 1) * MicroSize
    <3>1. dynamic' = dynamic
      BY <1>2
    <3>2. CASE dynamic
      BY <1>3, <1>6, <1>9, <2>6, <3>1, <3>2
    <3>3. CASE ~ dynamic
      BY <1>3, <1>6, <1>9, <2>7, <3>1, <3>3
    <3> QED BY <3>2, <3>3
  <2> QED BY <2>5, <2>8 DEF GradInv
<1>11. CutInv(r)'
  <2>1. Splits(micro[r], Len(Mini(r))) /\ (dynamic \/ micro[r] = FixedCut(Len(Mini(r))))
    BY <1>1 DEF RankInv, CutInv, CutSites
  <2>2. next[r] + 1 \in 1 .. Len(micro[r]) + 1
    BY <1>5
  <2> QED BY <1>2, <1>3, <1>8, <2>1, <2>2 DEF CutInv
<1>12. LoopInv(r)' /\ LogpInv(r)'
  BY <1>1, <1>2, <1>3 DEF RankInv, LoopInv, LogpInv, Computing, Training
<1>13. TrainedInv(r)'
  BY <1>1, <1>2, <1>3, <1>4 DEF RankInv, TrainedInv, DoneMinis
<1> QED BY <1>7, <1>10, <1>11, <1>12, <1>13 DEF RankInv

LEMMA LogpEndPath ==
  ASSUME PathInv, NEW r \in Ranks, LogpEnd(r)
  PROVE  TypesInv' /\ RankInv(r)'
<1> USE DEF work, progress, cutting, model, norm
<1> DEFINE K == Len(micro[r])
           all == Flat(micro[r], K)[K]
<1>1. TypesInv /\ BalanceInv /\ RankInv(r) /\ pc[r] = "logpRun" /\ pc[r] # "balance"
  BY DEF PathInv, LogpEnd
<1>2. /\ pc' = [pc EXCEPT ![r] = "mini"]
      /\ logp' = [logp EXCEPT ![r] = IF dynamic THEN restore_dynamic_batch(@, FlattenSeq(micro[r])) ELSE @]
      /\ UNCHANGED <<work, call, progress, cutting, grads, scale, trained, norm, model>>
      /\ next[r] > Len(micro[r])
  BY DEF LogpEnd
<1>3. Rows' = Rows /\ LastMini' = LastMini
  BY <1>2 DEF Rows, LastMini, Share
<1>4. TypesInv'
  <2>1. pc' \in [Ranks -> Sites]
    BY <1>1, <1>2 DEF TypesInv, Sites, Training
  <2> QED BY <1>1, <1>2, <1>3, <2>1 DEF TypesInv
<1>5. /\ Splits(micro[r], Len(Mini(r))) /\ next[r] \in 1 .. K + 1
      /\ dynamic \/ micro[r] = FixedCut(Len(Mini(r)))
  BY <1>1 DEF RankInv, CutInv, CutSites
<1>6. /\ Mini(r) = local[r] /\ local[r] \in Seq(Rows) /\ Len(local[r]) \in Nat \ {0}
  <2>1. Mini(r) = local[r]
    BY <1>1 DEF Mini
  <2> QED BY <1>1, <2>1, MiniFacts
<1>7. /\ K \in Nat /\ K # 0 /\ \A j \in 1 .. K : micro[r][j] \in Seq(1 .. Len(local[r]))
      /\ Enumerates(all, 1 .. Len(local[r]))
  BY <1>5, <1>6, SplitsFlat
<1>8. next[r] - 1 = K
  <2> HIDE DEF K
  <2>1. next[r] > K
    BY <1>2 DEF K
  <2>2. K \in Nat /\ next[r] \in 1 .. K + 1
    BY <1>5, <1>7
  <2> QED BY <2>1, <2>2
<1>9. logp[r] = Picked(local[r], all)
  BY <1>1, <1>8 DEF RankInv, LogpInv, Behind
<1>10. logp'[r] = local[r]
  <2>1. CASE dynamic
    <3>1. logp'[r] = restore_dynamic_batch(logp[r], FlattenSeq(micro[r]))
      BY <1>1, <1>2, <2>1 DEF TypesInv
    <3>2. FlattenSeq(micro[r]) = all
      <4>1. 1 \in 1 .. K /\ K \in Nat \ {0}
        <5> HIDE DEF K
        <5> QED BY <1>7
      <4>2. micro[r][1] \in Seq(1 .. Len(local[r]))
        BY <1>7, <4>1
      <4> QED BY <4>1, <4>2, FlattenIsFlat
    <3> HIDE DEF all
    <3>3. restore_dynamic_batch(Picked(local[r], all), all) = local[r]
      BY <1>6, <1>7, Restored
    <3> QED BY <1>9, <3>1, <3>2, <3>3
  <2>2. CASE ~ dynamic
    <3>1. logp'[r] = logp[r]
      BY <1>1, <1>2, <2>2 DEF TypesInv
    <3> DEFINE n == Len(local[r])
               id == [i \in 1 .. n |-> i]
    <3>2. all = id
      <4>1. micro[r] = FixedCut(n) /\ K = FixedCount(n)
        BY <1>5, <1>6, <2>2, FixedSplits
      <4> QED BY <1>6, <4>1, FixedFlat
    <3>3. Picked(local[r], id) = local[r]
      <4>1. local[r] = [i \in 1 .. n |-> local[r][i]]
        BY <1>6, LenProperties
      <4>2. Picked(local[r], id) = [i \in 1 .. n |-> local[r][i]]
        BY DEF Picked
      <4> QED BY <4>1, <4>2
    <3> HIDE DEF all, id
    <3> QED BY <1>9, <3>1, <3>2, <3>3
  <2> QED BY <1>1, <2>1, <2>2 DEF TypesInv
<1>11. pc'[r] = "mini"
  BY <1>1, <1>2 DEF TypesInv
<1>12. LoopInv(r)' /\ CutInv(r)' /\ LogpInv(r)' /\ GradInv(r)'
  <2>1. epoch[r] = 0 /\ 0 < Epochs
    BY <1>1, SizeAssumption DEF RankInv, LoopInv, Computing
  <2> QED BY <1>1, <1>2, <1>10, <1>11, <2>1
          DEF RankInv, LoopInv, CutInv, LogpInv, GradInv, CutSites, Computing, Training
<1>13. TrainedInv(r)'
  BY <1>1, <1>2, <1>3, <1>11 DEF RankInv, TrainedInv, DoneMinis
<1> QED BY <1>4, <1>12, <1>13 DEF RankInv

\* The gradient a rank holds when it steps.
LEMMA StepGradient ==
  ASSUME PathInv, NEW r \in Ranks, pc[r] = "step"
  PROVE  /\ Enumerates(grads[r], {Mini(r)[i] : i \in 1 .. Len(Mini(r))})
         /\ Len(grads[r]) = Len(Mini(r)) /\ grads[r] \in Seq(Rows)
         /\ scale[r] = IF dynamic THEN Len(Mini(r)) ELSE FixedCount(Len(Mini(r))) * MicroSize
<1> DEFINE n == Len(Mini(r))
           K == Len(micro[r])
           all == Flat(micro[r], K)[K]
<1>1. TypesInv /\ BalanceInv /\ RankInv(r) /\ pc[r] # "balance"
  BY DEF PathInv
<1>2. /\ Splits(micro[r], n) /\ next[r] = K + 1 /\ (dynamic \/ micro[r] = FixedCut(n))
  BY <1>1 DEF RankInv, CutInv, CutSites
<1>3. /\ n \in Nat \ {0} /\ Mini(r) \in Seq(Rows) /\ MiniLow(r) \in Nat
      /\ MiniLow(r) + n <= Share
      /\ \A i \in 1 .. n : Mini(r)[i] = local[r][MiniLow(r) + i]
      /\ \A i, j \in 1 .. Share : local[r][i] = local[r][j] => i = j
  BY <1>1, MiniFacts
<1>4. K \in Nat /\ Enumerates(all, 1 .. n)
  BY <1>2, <1>3, SplitsFlat
<1>5. next[r] - 1 = K
  <2> HIDE DEF K
  <2> QED BY <1>2, <1>4
<1>6. /\ grads[r] = Picked(Mini(r), all)
      /\ scale[r] = IF dynamic THEN Len(grads[r]) ELSE K * MicroSize
  BY <1>1, <1>5 DEF RankInv, GradInv, Behind
<1>7. \A i, j \in 1 .. n : Mini(r)[i] = Mini(r)[j] => i = j
  <2> SUFFICES ASSUME NEW i \in 1 .. n, NEW j \in 1 .. n, Mini(r)[i] = Mini(r)[j] PROVE i = j
    OBVIOUS
  <2> HIDE DEF n
  <2>1. Share \in Nat
    BY <1>1, ShareFacts DEF TypesInv
  <2>2. MiniLow(r) + i \in 1 .. Share /\ MiniLow(r) + j \in 1 .. Share
    BY <1>3, <2>1
  <2>3. MiniLow(r) + i = MiniLow(r) + j
    BY <1>3, <2>2
  <2> QED BY <1>3, <2>3
<1> HIDE DEF all
<1>8. /\ Len(Picked(Mini(r), all)) = Len(Mini(r))
      /\ Enumerates(Picked(Mini(r), all), {Mini(r)[i] : i \in 1 .. Len(Mini(r))})
  BY <1>3, <1>4, <1>7, PickedAll
<1>9. grads[r] \in Seq(Rows)
  BY <1>3, <1>4, <1>6, PickedFacts DEF Enumerates
<1>10. ~ dynamic => K = FixedCount(n)
  BY <1>2, <1>3, FixedSplits
<1> QED BY <1>6, <1>8, <1>9, <1>10

LEMMA StepPath ==
  ASSUME PathInv, NEW r \in Ranks, _optimizer_step(r)
  PROVE  TypesInv' /\ RankInv(r)'
<1> USE DEF work, progress, cutting, model, norm
<1> DEFINE again == mini[r] < LastMini
           over == ~ again /\ epoch[r] + 1 = Epochs
           low == (mini[r] - 1) * MiniSize
           n == Len(Mini(r))
           Added == {Mini(r)[i] : i \in 1 .. n}
<1>1. TypesInv /\ BalanceInv /\ RankInv(r) /\ pc[r] = "step" /\ pc[r] # "balance"
  BY DEF PathInv, _optimizer_step
<1>2. /\ mini[r] \in 1 .. LastMini /\ epoch[r] \in 0 .. Epochs /\ epoch[r] < Epochs
      /\ LastMini \in Nat /\ lens \in Batches /\ Share \in Nat
  BY <1>1, ShareFacts DEF RankInv, LoopInv, Training, TypesInv
<1>3. Minis(r) = LastMini
  BY <1>1, MiniFacts
<1>4. /\ trained' = [trained EXCEPT ![r] = @ \o grads[r]]
      /\ steps' \in [Ranks -> Nat] /\ did' \in [Ranks -> BOOLEAN]
      /\ mini' = [mini EXCEPT ![r] = IF again THEN @ + 1 ELSE 1]
      /\ epoch' = [epoch EXCEPT ![r] = IF again THEN @ ELSE @ + 1]
      /\ pc' = [pc EXCEPT ![r] = IF over THEN "teacher" ELSE "mini"]
      /\ UNCHANGED <<work, call, local, cutting, logp, grads, scale, norm, teacher>>
  <2>1. \/ steps' = [steps EXCEPT ![r] = @ + 1] /\ did' = [did EXCEPT ![r] = TRUE]
        \/ steps' = steps /\ did' = did
    BY DEF _optimizer_step
  <2>2. steps \in [Ranks -> Nat] /\ did \in [Ranks -> BOOLEAN]
    BY <1>1 DEF TypesInv
  <2>3. steps' \in [Ranks -> Nat] /\ did' \in [Ranks -> BOOLEAN]
    <3>1. [steps EXCEPT ![r] = @ + 1] \in [Ranks -> Nat]
      BY <2>2
    <3>2. [did EXCEPT ![r] = TRUE] \in [Ranks -> BOOLEAN]
      BY <2>2
    <3> QED BY <2>1, <2>2, <3>1, <3>2
  <2> QED BY <1>3, <2>3 DEF _optimizer_step
<1>5. /\ trained'[r] = trained[r] \o grads[r]
      /\ mini'[r] = (IF again THEN mini[r] + 1 ELSE 1)
      /\ epoch'[r] = (IF again THEN epoch[r] ELSE epoch[r] + 1)
      /\ pc'[r] = (IF over THEN "teacher" ELSE "mini")
  BY <1>1, <1>4 DEF TypesInv
<1>6. Enumerates(grads[r], Added) /\ grads[r] \in Seq(Rows)
  BY <1>1, StepGradient
<1>7. Rows' = Rows /\ LastMini' = LastMini
  BY <1>4 DEF Rows, LastMini, Share
<1>8. TypesInv'
  <2>1. pc' \in [Ranks -> Sites]
    BY <1>1, <1>4 DEF TypesInv, Sites, Training
  <2>2. mini' \in [Ranks -> 1 .. LastMini] /\ epoch' \in [Ranks -> 0 .. Epochs]
    <3>1. mini'[r] \in 1 .. LastMini /\ epoch'[r] \in 0 .. Epochs
      BY <1>2, <1>5, SizeAssumption
    <3> QED BY <1>1, <1>4, <1>5, <3>1 DEF TypesInv
  <2>3. trained' \in [Ranks -> Seq(Rows)]
    <3>1. trained[r] \o grads[r] \in Seq(Rows)
      BY <1>1, <1>6, ConcatProperties DEF TypesInv
    <3> QED BY <1>1, <1>4, <3>1 DEF TypesInv
  <2> QED BY <1>1, <1>4, <1>7, <2>1, <2>2, <2>3 DEF TypesInv
<1>9. LoopInv(r)' /\ CutInv(r)' /\ LogpInv(r)' /\ GradInv(r)'
  <2>1. logp[r] = local[r]
    BY <1>1 DEF RankInv, LogpInv, Computing
  <2>2. epoch'[r] < Epochs \/ over
    BY <1>2, <1>5, SizeAssumption
  <2>3. over => epoch'[r] = Epochs /\ mini'[r] = 1
    BY <1>5
  <2> HIDE DEF over, again
  <2> QED BY <1>4, <1>5, <2>1, <2>2, <2>3
          DEF LoopInv, CutInv, LogpInv, GradInv, CutSites, Computing, Training
<1>10. TrainedInv(r)'
  <2>1. /\ low \in Nat /\ n \in Nat \ {0} /\ low + n <= Share
        /\ low + n = IF mini[r] = LastMini THEN Share ELSE mini[r] * MiniSize
    <3>1. n = MiniLen(mini[r])
      BY <1>1, MiniFacts DEF Computing
    <3> QED BY <1>2, <3>1, MiniLenFacts
  <2>2. /\ \A i \in 1 .. n : Mini(r)[i] = local[r][low + i]
        /\ \A i, j \in 1 .. Share : local[r][i] = local[r][j] => i = j
        /\ local[r] \in Seq(Rows) /\ Len(local[r]) = Share
    <3>1. MiniLow(r) = low
      BY <1>1 DEF MiniLow, Computing
    <3> QED BY <1>1, <3>1, MiniFacts
  <2>3. Range(local[r]) = {local[r][i] : i \in 1 .. Share}
    <3>1. DOMAIN local[r] = 1 .. Share
      BY <2>2, LenProperties
    <3> QED BY <3>1 DEF Range
  <2>4. ~ again => mini[r] = LastMini
    BY <1>2
  <2> DEFINE done == {local[r][i] : i \in 1 .. low}
             both == {local[r][i] : i \in 1 .. low + n}
  <2>5. DoneMinis(r) = done
    BY DEF DoneMinis
  <2> HIDE DEF low, n
  <2>6. both = done \cup Added /\ done \cap Added = {}
    <3>1. ASSUME NEW i \in 1 .. low + n PROVE local[r][i] \in done \cup Added
      <4>1. CASE i <= low
        <5>1. i \in 1 .. low
          BY <2>1, <4>1
        <5> QED BY <5>1
      <4>2. CASE ~ (i <= low)
        <5>1. i - low \in 1 .. n /\ low + (i - low) = i
          BY <2>1, <4>2
        <5>2. Mini(r)[i - low] = local[r][i]
          BY <2>2, <5>1
        <5> QED BY <5>1, <5>2
      <4> QED BY <4>1, <4>2
    <3>2. ASSUME NEW i \in 1 .. low PROVE local[r][i] \in both
      <4>1. i \in 1 .. low + n
        BY <2>1
      <4> QED BY <4>1
    <3>3. ASSUME NEW i \in 1 .. n PROVE Mini(r)[i] \in both
      <4>1. low + i \in 1 .. low + n
        BY <2>1
      <4> QED BY <2>2, <4>1
    <3>4. ASSUME NEW i \in 1 .. low, NEW j \in 1 .. n, local[r][i] = Mini(r)[j] PROVE FALSE
      <4>1. i \in 1 .. Share /\ low + j \in 1 .. Share /\ i # low + j
        BY <1>2, <2>1
      <4> QED BY <2>2, <3>4, <4>1
    <3> QED BY <3>1, <3>2, <3>3, <3>4
  <2>7. both \subseteq Range(local[r]) /\ (~ again => both = Range(local[r]))
    <3>1. 1 .. low + n \subseteq 1 .. Share
      BY <1>2, <2>1
    <3> QED BY <2>1, <2>3, <2>4, <3>1
  <2>8. DoneMinis(r)' = IF again THEN both ELSE {}
    <3>1. local'[r] = local[r]
      BY <1>4
    <3>2. CASE again
      <4>1. mini'[r] - 1 = mini[r] /\ mini[r] # LastMini
        BY <1>2, <1>5, <3>2
      <4>2. (mini'[r] - 1) * MiniSize = low + n
        BY <2>1, <4>1
      <4> QED BY <3>1, <3>2, <4>2 DEF DoneMinis
    <3>3. CASE ~ again
      <4>1. (mini'[r] - 1) * MiniSize = 0
        BY <1>5, <3>3, SizeAssumption
      <4> QED BY <3>3, <4>1 DEF DoneMinis
    <3> QED BY <3>2, <3>3
  <2> HIDE DEF Added, both, done
  <2>9. ASSUME NEW i \in Rows
        PROVE  Times(trained'[r], i) =
                 IF i \in Range(local'[r])
                 THEN epoch'[r] + (IF i \in DoneMinis(r)' THEN 1 ELSE 0) ELSE 0
    <3>1. Times(trained[r] \o grads[r], i) = Times(trained[r], i) + Times(grads[r], i)
      BY <1>1, <1>6, TimesConcat DEF TypesInv
    <3>2. Times(grads[r], i) = IF i \in Added THEN 1 ELSE 0
      BY <1>6, TimesEnumerates
    <3>3. Times(trained[r], i) =
            IF i \in Range(local[r]) THEN epoch[r] + (IF i \in done THEN 1 ELSE 0) ELSE 0
      BY <1>1, <2>5 DEF RankInv, TrainedInv
    <3>4. local'[r] = local[r]
      BY <1>4
    <3>5. epoch[r] \in Nat
      BY <1>2
    <3>6. CASE i \notin Range(local[r])
      <4>1. i \notin Added
        BY <2>6, <2>7, <3>6
      <4> QED BY <1>5, <3>1, <3>2, <3>3, <3>4, <3>6, <4>1
    <3>7. CASE i \in Range(local[r]) /\ i \in both
      <4>1. Times(trained'[r], i) = epoch[r] + 1
        BY <1>5, <2>6, <3>1, <3>2, <3>3, <3>5, <3>7
      <4> QED BY <1>5, <2>8, <3>4, <3>5, <3>7, <4>1
    <3>8. CASE i \in Range(local[r]) /\ i \notin both
      <4>1. Times(trained'[r], i) = epoch[r] /\ again
        BY <1>5, <2>6, <2>7, <3>1, <3>2, <3>3, <3>5, <3>8
      <4> QED BY <1>5, <2>8, <3>4, <3>5, <3>8, <4>1
    <3> QED BY <3>6, <3>7, <3>8
  <2>10. pc'[r] # "balance"
    BY <1>5
  <2> QED BY <1>7, <2>9, <2>10 DEF TrainedInv
<1> QED BY <1>8, <1>9, <1>10 DEF RankInv

LEMMA TeacherPath ==
  ASSUME PathInv, NEW r \in Ranks, _update_teacher(r)
  PROVE  TypesInv' /\ RankInv(r)'
<1> USE DEF work, progress, cutting, norm
<1>1. TypesInv /\ RankInv(r) /\ pc[r] = "teacher"
  BY DEF PathInv, _update_teacher
<1>2. /\ pc' = [pc EXCEPT ![r] = "done"] /\ pc'[r] = "done"
      /\ \E t : teacher' = [teacher EXCEPT ![r] = t]
      /\ UNCHANGED <<work, call, progress, cutting, logp, grads, scale, trained, norm, steps, did>>
  BY <1>1 DEF _update_teacher, TypesInv
<1>3. Rows' = Rows /\ LastMini' = LastMini
  BY <1>2 DEF Rows, LastMini, Share
<1>4. TypesInv'
  <2>1. pc' \in [Ranks -> Sites]
    BY <1>1, <1>2 DEF TypesInv, Sites
  <2>2. teacher' = [s \in Ranks |-> teacher'[s]]
    BY <1>1, <1>2 DEF TypesInv
  <2>3. UNCHANGED <<lens, dynamic, call, local, epoch, mini, want, next, scale, trained, finite, steps, did,
                    micro, logp, grads>>
    BY <1>2
  <2> QED BY <1>1, <1>3, <2>1, <2>2, <2>3 DEF TypesInv
<1>5. LoopInv(r)' /\ CutInv(r)' /\ LogpInv(r)' /\ GradInv(r)' /\ TrainedInv(r)'
  BY <1>1, <1>2, <1>3 DEF RankInv, LoopInv, CutInv, LogpInv, GradInv, TrainedInv, DoneMinis,
                          CutSites, Computing, Training
<1> QED BY <1>4, <1>5 DEF RankInv

LEMMA RankPath ==
  ASSUME PathInv, NEW r \in Ranks, Rank(r)
  PROVE  /\ TypesInv' /\ RankInv(r)' /\ pc[r] # "balance" /\ pc'[r] # "balance"
<1>1. pc[r] # "balance"
  BY DEF Rank, Split, rearrange_micro_batches, LogpForward, LogpNext, LogpEnd, Forward, Backward,
         ClipEnter, _optimizer_step, _update_teacher
<1>2. pc'[r] # "balance"
  <2>1. PICK to \in Sites \ {"balance"} : pc' = [pc EXCEPT ![r] = to]
    BY DEF Rank, Split, Cut, rearrange_micro_batches, LogpForward, LogpNext, LogpEnd, Forward,
           Backward, ClipEnter, _optimizer_step, _update_teacher, Sites, Computing, Training
  <2> QED BY <2>1 DEF PathInv, TypesInv
<1>3. CASE Split(r, "logp", "logpCount", "logpRun")
  BY <1>1, <1>2, <1>3, SplitPath
<1>4. CASE rearrange_micro_batches(r, "logpCount", "logpRun")
  BY <1>1, <1>2, <1>4, RearrangePath
<1>5. CASE LogpForward(r) \/ Forward(r) \/ ClipEnter(r)
  BY <1>1, <1>2, <1>5, EnterPath
<1>6. CASE LogpNext(r)
  BY <1>1, <1>2, <1>6, LogpNextPath
<1>7. CASE LogpEnd(r)
  BY <1>1, <1>2, <1>7, LogpEndPath
<1>8. CASE Split(r, "mini", "count", "run")
  BY <1>1, <1>2, <1>8, SplitPath
<1>9. CASE rearrange_micro_batches(r, "count", "run")
  BY <1>1, <1>2, <1>9, RearrangePath
<1>10. CASE Backward(r)
  BY <1>1, <1>2, <1>10, BackwardPath
<1>11. CASE _optimizer_step(r)
  BY <1>1, <1>2, <1>11, StepPath
<1>12. CASE _update_teacher(r)
  BY <1>1, <1>2, <1>12, TeacherPath
<1> QED BY <1>3, <1>4, <1>5, <1>6, <1>7, <1>8, <1>9, <1>10, <1>11, <1>12 DEF Rank

LEMMA PathKept == PathInv /\ [Next]_vars => PathInv'
<1> SUFFICES ASSUME PathInv, [Next]_vars PROVE PathInv'
  OBVIOUS
<1>1. CASE _balance_batch
  BY <1>1, BalancePath
<1>2. ASSUME NEW r \in Ranks, Rank(r) PROVE PathInv'
  <2>1. TypesInv' /\ RankInv(r)' /\ pc[r] # "balance" /\ pc'[r] # "balance"
    BY <1>2, RankPath
  <2>2. ASSUME NEW s \in Ranks, s # r
        PROVE  RankInv(s)' /\ pc'[s] = pc[s]
    <3>1. Same(s) /\ lens' = lens /\ dynamic' = dynamic
      BY <1>2, <2>2, OthersSame DEF PathInv
    <3> QED BY <3>1, OtherInv DEF PathInv, Same
  <2>3. lens' = lens /\ batch' = batch /\ local' = local
    BY <1>2 DEF Rank, Split, Cut, rearrange_micro_batches, LogpForward, LogpNext, LogpEnd, Forward,
                Backward, ClipEnter, _optimizer_step, _update_teacher, work, progress
  <2>4. BalanceInv'
    <3>1. \A s \in Ranks : pc[s] # "balance" /\ local[s] = Chunk(batch, s)
      BY <2>1 DEF PathInv, BalanceInv
    <3>2. \A s \in Ranks : pc'[s] # "balance"
      BY <2>1, <2>2, <3>1
    <3>3. Enumerates(batch, Rows)
      BY DEF PathInv, BalanceInv
    <3> QED BY <2>3, <3>1, <3>2, <3>3 DEF BalanceInv, Rows, Chunk
  <2> QED BY <2>1, <2>2, <2>4 DEF PathInv
<1>3. CASE UNCHANGED vars
  <2>1. \A s \in Ranks : Same(s)
    BY <1>3 DEF Same, vars, work, progress, cutting, model
  <2>2. UNCHANGED <<lens, dynamic, batch>>
    BY <1>3 DEF vars, work
  <2>3. \A s \in Ranks : RankInv(s)'
    BY <2>1, <2>2, OtherInv DEF PathInv
  <2>4. TypesInv'
    BY <1>3, <2>2 DEF PathInv, TypesInv, Rows, LastMini, Share, vars, work, progress, cutting, model, norm
  <2>5. BalanceInv'
    BY <1>3, <2>2 DEF PathInv, BalanceInv, Rows, Chunk, vars, progress
  <2> QED BY <2>3, <2>4, <2>5 DEF PathInv
<1> QED BY <1>1, <1>2, <1>3 DEF Next

LEMMA PathTheorem == Spec => []PathInv
<1>1. Init => PathInv
  BY InitPath
<1>2. PathInv /\ [Next]_vars => PathInv'
  BY PathKept
<1> QED BY <1>1, <1>2, PTL DEF Spec

\* Between compute_log_prob and update_policy the log probabilities stand in
\* the order of the rank's samples (restore_dynamic_batch).
THEOREM LogProbsTheorem == Spec => []LogProbsInPlace
<1>1. PathInv => LogProbsInPlace
  BY DEF PathInv, RankInv, LogpInv, LogProbsInPlace, Computing
<1> QED BY <1>1, PathTheorem, PTL

\* What _optimizer_step applies is the gradient of the whole mini-batch, each
\* sample once, with scale factors that add up.
THEOREM GradientTheorem == Spec => []GradientOfTheMiniBatch
<1>1. PathInv => GradientOfTheMiniBatch
  <2> SUFFICES ASSUME PathInv, NEW r \in Ranks, pc[r] = "step"
               PROVE  /\ Len(grads[r]) = Len(Mini(r))
                      /\ Range(grads[r]) = Range(Mini(r))
                      /\ dynamic \/ Len(Mini(r)) = MiniSize => scale[r] = Len(Mini(r))
    BY DEF GradientOfTheMiniBatch
  <2> DEFINE P == {Mini(r)[i] : i \in 1 .. Len(Mini(r))}
  <2>1. /\ Enumerates(grads[r], P) /\ Len(grads[r]) = Len(Mini(r)) /\ grads[r] \in Seq(Rows)
        /\ scale[r] = IF dynamic THEN Len(Mini(r)) ELSE FixedCount(Len(Mini(r))) * MicroSize
    BY StepGradient
  <2>2. Mini(r) \in Seq(Rows)
    BY MiniFacts DEF PathInv
  <2>3. Range(Mini(r)) = P
    <3>1. DOMAIN Mini(r) = 1 .. Len(Mini(r))
      BY <2>2, LenProperties
    <3> QED BY <3>1 DEF Range
  <2>4. Range(grads[r]) = P
    <3>1. DOMAIN grads[r] = 1 .. Len(grads[r])
      BY <2>1, LenProperties
    <3>2. \A a \in 1 .. Len(grads[r]) : grads[r][a] \in P
      BY <2>1, ElementOfSeq DEF Enumerates
    <3>3. \A x \in P : \E a \in 1 .. Len(grads[r]) : grads[r][a] = x
      BY <2>1 DEF Enumerates
    <3> HIDE DEF P
    <3> QED BY <3>1, <3>2, <3>3 DEF Range
  <2>5. FixedCount(MiniSize) * MicroSize = MiniSize
    <3> DEFINE k == FixedCount(MiniSize)
               q == MiniSize \div MicroSize
    <3>1. MiniSize \in Nat \ {0} /\ MicroSize \in Nat \ {0} /\ MiniSize % MicroSize = 0
      BY SizeAssumption
    <3>2. k \in Nat /\ MiniSize <= k * MicroSize /\ k * MicroSize <= MiniSize + MicroSize - 1
      BY <3>1, FixedCountFacts
    <3>3. q \in Nat /\ MiniSize = q * MicroSize
      <4>1. \A a \in Nat, b \in Nat \ {0} : a % b = 0 => a \div b \in Nat /\ a = (a \div b) * b
        OBVIOUS
      <4> QED BY <3>1, <4>1
    <3> HIDE DEF k, q
    <3>4. k * MicroSize = q * MicroSize + (k - q) * MicroSize
      BY <3>1, <3>2, <3>3
    <3> DEFINE d == (k - q) * MicroSize
    <3>5. d \in Int /\ 0 <= d /\ d < MicroSize
      BY <3>1, <3>2, <3>3, <3>4
    <3>6. k - q = 0
      <4>1. \A x \in Int, y \in Nat \ {0} : 0 <= x * y /\ x * y < y => x = 0
        OBVIOUS
      <4> QED BY <3>1, <3>2, <3>3, <3>5, <4>1
    <3> QED BY <3>2, <3>3, <3>6 DEF k
  <2> HIDE DEF P
  <2> QED BY <2>1, <2>3, <2>4, <2>5
<1> QED BY <1>1, PathTheorem, PTL

-----------------------------------------------------------------------------
(***************************************************************************)
(* The chunks share out the batch                                          *)
(***************************************************************************)
LEMMA SamePiece ==
  ASSUME NEW a \in Nat, NEW b \in Nat, NEW m \in Nat \ {0}, NEW x \in Nat,
         a * m <= x, x < a * m + m, b * m <= x, x < b * m + m
  PROVE  a = b
<1> SUFFICES ASSUME NEW u \in Nat, NEW v \in Nat, u * m <= x, x < u * m + m,
                    v * m <= x, x < v * m + m, u < v
             PROVE  FALSE
  OBVIOUS
<1>1. v * m = u * m + m + (v - u - 1) * m
  OBVIOUS
<1>2. u * m \in Nat /\ v * m \in Nat /\ (v - u - 1) * m \in Nat
  <2>1. \A y, z \in Nat : y * z \in Nat
    OBVIOUS
  <2>2. v - u - 1 \in Nat
    OBVIOUS
  <2> QED BY <2>1, <2>2
<1> DEFINE p == u * m
           q == v * m
           w == (v - u - 1) * m
<1>3. p \in Nat /\ q \in Nat /\ w \in Nat /\ q = p + m + w /\ x < p + m /\ q <= x
  BY <1>1, <1>2
<1> HIDE DEF p, q, w
<1> QED BY <1>3

LEMMA OneOwner ==
  ASSUME PathInv, \A r \in Ranks : pc[r] # "balance", NEW i \in Rows
  PROVE  \E a \in Ranks : \A r \in Ranks : i \in Range(local[r]) <=> r = a
<1>1. lens \in Batches /\ Enumerates(batch, Rows) /\ \A r \in Ranks : local[r] = Chunk(batch, r)
  <2>1. 1 \in Ranks
    BY DPAssumption DEF Ranks
  <2> QED BY <2>1 DEF PathInv, TypesInv, BalanceInv
<1>2. Share \in Nat \ {0} /\ DP * Share = Len(lens) /\ Len(lens) \in Nat /\ DP \in Nat \ {0}
  BY <1>1, ShareFacts, DPAssumption
<1>3. PICK p \in 1 .. Len(batch) : batch[p] = i
  BY <1>1 DEF Enumerates
<1>4. 1 \in Ranks /\ Len(batch) = Len(lens)
  BY <1>1, <1>2, ChunkFacts DEF Ranks
<1> DEFINE x == p - 1
           q == x \div Share
<1>5. q \in Nat /\ q * Share <= x /\ x < q * Share + Share /\ x \in Nat
  <2>1. x \in Nat
    BY <1>3
  <2>2. \A y \in Nat, z \in Nat \ {0} :
          y \div z \in Nat /\ (y \div z) * z <= y /\ y < (y \div z) * z + z
    OBVIOUS
  <2> HIDE DEF x
  <2> QED BY <1>2, <2>1, <2>2
<1> HIDE DEF q
<1>6. q + 1 \in Ranks
  <2> SUFFICES ASSUME DP <= q PROVE FALSE
    BY <1>2, <1>5 DEF Ranks
  <2>1. q * Share = DP * Share + (q - DP) * Share
    BY <1>2, <1>5
  <2>2. (q - DP) * Share \in Nat
    <3>1. \A y, z \in Nat : y * z \in Nat
      OBVIOUS
    <3>2. q - DP \in Nat
      BY <1>2, <1>5
    <3> QED BY <1>2, <3>1, <3>2
  <2> DEFINE w == (q - DP) * Share
             v == q * Share
  <2>3. v = Len(lens) + w /\ w \in Nat /\ v <= x /\ x = p - 1 /\ p <= Len(lens) /\ p \in Nat
    BY <1>2, <1>3, <1>4, <1>5, <2>1, <2>2
  <2> HIDE DEF w, v, x
  <2> QED BY <1>2, <2>3
<1>7. ASSUME NEW r \in Ranks PROVE i \in Range(local[r]) <=> r = q + 1
  <2> DEFINE low == (r - 1) * Share
  <2>1. /\ low \in Nat /\ low + Share <= Len(lens)
        /\ local[r] \in Seq(Rows) /\ Len(local[r]) = Share
        /\ \A j \in 1 .. Share : local[r][j] = batch[low + j]
    BY <1>1, ChunkFacts
  <2>2. Range(local[r]) = {local[r][j] : j \in 1 .. Share}
    <3>1. DOMAIN local[r] = 1 .. Share
      BY <2>1, LenProperties
    <3> QED BY <3>1 DEF Range
  <2>3. r - 1 \in Nat
    BY <1>2 DEF Ranks
  <2>4. ASSUME i \in Range(local[r]) PROVE r = q + 1
    <3>1. PICK j \in 1 .. Share : local[r][j] = i
      BY <2>2, <2>4
    <3> HIDE DEF low
    <3>2. low + j \in 1 .. Len(batch) /\ batch[low + j] = i
      BY <1>2, <1>4, <2>1, <3>1
    <3>3. low + j = p
      BY <1>1, <1>3, <3>2 DEF Enumerates
    <3>4. low <= x /\ x < low + Share
      BY <1>2, <2>1, <3>3
    <3>5. r - 1 = q
      BY <1>2, <1>5, <2>3, <3>4, SamePiece DEF low
    <3>6. r \in Int
      BY <1>2 DEF Ranks
    <3> QED BY <3>5, <3>6
  <2>5. ASSUME r = q + 1 PROVE i \in Range(local[r])
    <3>1. low = q * Share
      BY <1>5, <2>5
    <3> HIDE DEF low
    <3>2. p - low \in 1 .. Share /\ low + (p - low) = p
      BY <1>2, <1>3, <1>5, <2>1, <3>1
    <3>3. local[r][p - low] = i
      BY <1>3, <2>1, <3>2
    <3> QED BY <2>2, <3>2, <3>3
  <2> QED BY <2>4, <2>5
<1> QED BY <1>6, <1>7

\* Over all ranks each sample of the batch is trained on once per epoch
\* (_balance_batch, the dispatch and update_policy together).
THEOREM EpochTheorem == Spec => []EverySampleEachEpoch
<1>1. PathInv => EverySampleEachEpoch
  <2> SUFFICES ASSUME PathInv, Finished, NEW i \in Rows
               PROVE  LET times == [r \in Ranks |-> Times(trained[r], i)]
                      IN MapThenSumSet(LAMBDA r : times[r], Ranks) = Epochs
    BY DEF EverySampleEachEpoch
  <2> DEFINE times == [r \in Ranks |-> Times(trained[r], i)]
  <2>1. \A r \in Ranks : pc[r] = "done"
    BY DEF Finished
  <2>2. PICK a \in Ranks : \A r \in Ranks : i \in Range(local[r]) <=> r = a
    BY <2>1, OneOwner
  <2>3. ASSUME NEW r \in Ranks PROVE times[r] = IF r = a THEN Epochs ELSE 0
    <3>1. RankInv(r) /\ pc[r] = "done"
      BY <2>1 DEF PathInv
    <3>2. epoch[r] = Epochs /\ mini[r] = 1
      BY <3>1 DEF RankInv, LoopInv
    <3>3. DoneMinis(r) = {}
      <4>1. (1 - 1) * MiniSize = 0
        BY SizeAssumption
      <4> QED BY <3>2, <4>1 DEF DoneMinis
    <3>4. Times(trained[r], i) = IF i \in Range(local[r]) THEN Epochs + 0 ELSE 0
      BY <3>1, <3>2, <3>3 DEF RankInv, TrainedInv
    <3> QED BY <2>2, <3>4, SizeAssumption
  <2>4. IsFiniteSet(Ranks) /\ Epochs \in Int
    BY IntervalFinite, DPAssumption, SizeAssumption DEF Ranks
  <2> HIDE DEF times
  <2>5. Numbers(times, Ranks)
    BY <2>3, <2>4 DEF Numbers
  <2>6. SumOver(times, Ranks) = times[a] + SumOver(times, Ranks \ {a})
    BY <2>4, <2>5, SumRemove
  <2>7. SumOver(times, Ranks \ {a}) = 0
    <3> DEFINE R == Ranks \ {a}
    <3>1. IsFiniteSet(R) /\ Numbers(times, R)
      BY <2>4, <2>5, FS_Subset DEF Numbers
    <3>2. \A r \in R : times[r] = times[r] * 0
      BY <2>3
    <3> HIDE DEF R
    <3>3. SumOver(times, R) = SumOver(times, R) * 0 /\ SumOver(times, R) \in Int
      BY <3>1, <3>2, SumScaled, SumInt
    <3> QED BY <3>3 DEF R
  <2>8. SumOver(times, Ranks) = Epochs
    BY <2>3, <2>4, <2>6, <2>7
  <2> QED BY <2>8 DEF SumOver, times
<1> QED BY <1>1, PathTheorem, PTL

-----------------------------------------------------------------------------
(***************************************************************************)
(* The collective operations of a rank, one after the other. Each is named *)
(* by its kind, the epoch and the mini-batch it belongs to (0 for both in  *)
(* compute_log_prob), and the micro-batch out of how many.                 *)
(***************************************************************************)
Op(kind, e, m, j, K) == <<kind, e, m, j, K>>
End == Op("end", 0, 0, 0, 0)
Trains(e, m, j, K) == IF j <= K THEN Op("train", e, m, j, K) ELSE Op("norm", e, m, 0, 0)
Begin(e, m) ==
  IF dynamic THEN Op("count", e, m, 0, 0) ELSE Trains(e, m, 1, FixedCount(MiniLen(m)))
After(e, m) ==
  IF m < LastMini THEN Begin(e, m + 1)
  ELSE IF e + 1 = Epochs THEN End ELSE Begin(e + 1, 1)
Forwards(j, K) == IF j <= K THEN Op("forward", 0, 0, j, K) ELSE Begin(0, 1)
Opening == IF dynamic THEN Op("count", 0, 0, 0, 0) ELSE Forwards(1, FixedCount(Share))

\* The operation after o.
Agreed == Max({want[s] : s \in Ranks})
Following(o) ==
  CASE o[1] = "count" -> IF o[3] = 0 THEN Op("forward", 0, 0, 1, Agreed)
                                     ELSE Op("train", o[2], o[3], 1, Agreed)
    [] o[1] = "forward" -> Forwards(o[4] + 1, o[5])
    [] o[1] = "train" -> Trains(o[2], o[3], o[4] + 1, o[5])
    [] o[1] = "norm" -> After(o[2], o[3])

\* The operation rank r waits in.
Waiting(r) == pc[r] \in {"logpCount", "logpWait", "count", "wait", "step"}
Current(r) ==
  CASE pc[r] = "logpCount" -> Op("count", 0, 0, 0, 0)
    [] pc[r] = "logpWait" -> Op("forward", 0, 0, next[r], Len(micro[r]))
    [] pc[r] = "count" -> Op("count", epoch[r], mini[r], 0, 0)
    [] pc[r] = "wait" -> Op("train", epoch[r], mini[r], next[r], Len(micro[r]))
    [] pc[r] = "step" -> Op("norm", epoch[r], mini[r], 0, 0)

\* The operation rank r enters next, after the one it may wait in.
Upcoming(r) ==
  CASE Waiting(r) -> Following(Current(r))
    [] pc[r] \in {"balance", "logp"} -> Opening
    [] pc[r] = "logpRun" -> Forwards(next[r], Len(micro[r]))
    [] pc[r] = "mini" -> Begin(epoch[r], mini[r])
    [] pc[r] = "run" -> Trains(epoch[r], mini[r], next[r], Len(micro[r]))
    [] pc[r] \in {"teacher", "done"} -> End

\* Ranks are at most one operation apart: those that entered equally many are
\* before the same one, and one that is ahead waits in the next one of the
\* others.
Lock(r, s) ==
  /\ call[r].n <= call[s].n + 1
  /\ call[r].n = call[s].n => Upcoming(r) = Upcoming(s) /\ call[r].kind = call[s].kind
  /\ call[r].n = call[s].n + 1 => Waiting(r) /\ Current(r) = Upcoming(s)
LockInv ==
  /\ \A r \in Ranks : Waiting(r) => call[r].kind = Current(r)[1]
  /\ \A r \in Ranks : pc[r] = "balance" => call[r] = [n |-> 0, kind |-> "none"]
  /\ \A r, s \in Ranks : Lock(r, s)

LEMMA OpParts ==
  \A k, e, m, j, K : /\ Op(k, e, m, j, K)[1] = k /\ Op(k, e, m, j, K)[2] = e
                     /\ Op(k, e, m, j, K)[3] = m /\ Op(k, e, m, j, K)[4] = j
                     /\ Op(k, e, m, j, K)[5] = K
BY DEF Op

LEMMA FollowingFacts ==
  ASSUME NEW e, NEW m, NEW j, NEW K
  PROVE  /\ Following(Op("count", 0, 0, 0, 0)) = Op("forward", 0, 0, 1, Agreed)
         /\ m # 0 => Following(Op("count", e, m, 0, 0)) = Op("train", e, m, 1, Agreed)
         /\ Following(Op("forward", 0, 0, j, K)) = Forwards(j + 1, K)
         /\ Following(Op("train", e, m, j, K)) = Trains(e, m, j + 1, K)
         /\ Following(Op("norm", e, m, 0, 0)) = After(e, m)
BY OpParts DEF Following

Enters(r) ==
  /\ ~ Waiting(r) /\ Waiting(r)' /\ pc'[r] # "balance"
  /\ call'[r] = [n |-> call[r].n + 1, kind |-> Upcoming(r)[1]]
  /\ Current(r)' = Upcoming(r)

Passes(r) ==
  /\ call' = call /\ want' = want
  /\ ~ Waiting(r) \/ AllEntered(r)
  /\ ~ Waiting(r)' /\ pc'[r] # "balance"
  /\ Upcoming(r)' = Upcoming(r)

LEMMA MiniCount ==
  ASSUME PathInv, NEW r \in Ranks, pc[r] # "balance"
  PROVE  /\ mini[r] \in Nat /\ mini[r] # 0
         /\ pc[r] \in Computing => Len(Mini(r)) = Share /\ epoch[r] = 0 /\ mini[r] = 1
         /\ pc[r] \in Training => Len(Mini(r)) = MiniLen(mini[r])
<1>1. TypesInv /\ BalanceInv /\ LoopInv(r)
  BY DEF PathInv, RankInv
<1>2. mini[r] \in 1 .. LastMini
  BY <1>1 DEF TypesInv
<1> QED BY <1>1, <1>2, MiniFacts DEF LoopInv, Computing, Training

LEMMA StepEnters ==
  ASSUME PathInv, NEW r \in Ranks,
         \/ dynamic /\ Split(r, "logp", "logpCount", "logpRun")
         \/ dynamic /\ Split(r, "mini", "count", "run")
         \/ LogpForward(r) \/ Forward(r) \/ ClipEnter(r)
  PROVE  Enters(r) /\ (want' = want \/ Upcoming(r)[1] = "count")
<1> USE DEF work, progress, cutting, model, norm
<1>1. TypesInv /\ CutInv(r)
  BY DEF PathInv, RankInv
<1>2. CASE dynamic /\ Split(r, "logp", "logpCount", "logpRun")
  <2>1. pc[r] = "logp" /\ Enter(r, "count") /\ pc' = [pc EXCEPT ![r] = "logpCount"]
    BY <1>2 DEF Split
  <2>2. pc'[r] = "logpCount" /\ call'[r] = [n |-> call[r].n + 1, kind |-> "count"]
    BY <1>1, <2>1 DEF TypesInv, Enter
  <2>3. Upcoming(r) = Op("count", 0, 0, 0, 0) /\ ~ Waiting(r)
    BY <1>2, <2>1 DEF Upcoming, Waiting, Opening
  <2>4. Current(r)' = Op("count", 0, 0, 0, 0) /\ Waiting(r)'
    BY <2>2 DEF Current, Waiting, Op
  <2> QED BY <2>2, <2>3, <2>4, OpParts DEF Enters
<1>3. CASE dynamic /\ Split(r, "mini", "count", "run")
  <2>1. /\ pc[r] = "mini" /\ Enter(r, "count") /\ pc' = [pc EXCEPT ![r] = "count"]
        /\ epoch' = epoch /\ mini' = mini
    BY <1>3 DEF Split
  <2>2. pc'[r] = "count" /\ call'[r] = [n |-> call[r].n + 1, kind |-> "count"]
    BY <1>1, <2>1 DEF TypesInv, Enter
  <2>3. Upcoming(r) = Op("count", epoch[r], mini[r], 0, 0) /\ ~ Waiting(r)
    BY <1>3, <2>1 DEF Upcoming, Waiting, Begin
  <2>4. Current(r)' = Op("count", epoch[r], mini[r], 0, 0) /\ Waiting(r)'
    BY <2>1, <2>2 DEF Current, Waiting, Op
  <2> QED BY <2>2, <2>3, <2>4, OpParts DEF Enters
<1>4. CASE LogpForward(r)
  <2>1. /\ pc[r] = "logpRun" /\ Enter(r, "forward") /\ pc' = [pc EXCEPT ![r] = "logpWait"]
        /\ next' = next /\ micro' = micro /\ want' = want /\ next[r] <= Len(micro[r])
    BY <1>4 DEF LogpForward
  <2>2. pc'[r] = "logpWait" /\ call'[r] = [n |-> call[r].n + 1, kind |-> "forward"]
    BY <1>1, <2>1 DEF TypesInv, Enter
  <2>3. Upcoming(r) = Op("forward", 0, 0, next[r], Len(micro[r])) /\ ~ Waiting(r)
    BY <2>1 DEF Upcoming, Waiting, Forwards
  <2>4. Current(r)' = Op("forward", 0, 0, next[r], Len(micro[r])) /\ Waiting(r)'
    BY <2>1, <2>2 DEF Current, Waiting, Op
  <2> QED BY <2>1, <2>2, <2>3, <2>4, OpParts DEF Enters
<1>5. CASE Forward(r)
  <2>1. /\ pc[r] = "run" /\ Enter(r, "train") /\ pc' = [pc EXCEPT ![r] = "wait"]
        /\ next' = next /\ micro' = micro /\ want' = want /\ next[r] <= Len(micro[r])
        /\ epoch' = epoch /\ mini' = mini
    BY <1>5 DEF Forward
  <2>2. pc'[r] = "wait" /\ call'[r] = [n |-> call[r].n + 1, kind |-> "train"]
    BY <1>1, <2>1 DEF TypesInv, Enter
  <2>3. Upcoming(r) = Op("train", epoch[r], mini[r], next[r], Len(micro[r])) /\ ~ Waiting(r)
    BY <2>1 DEF Upcoming, Waiting, Trains
  <2>4. Current(r)' = Op("train", epoch[r], mini[r], next[r], Len(micro[r])) /\ Waiting(r)'
    BY <2>1, <2>2 DEF Current, Waiting, Op
  <2> QED BY <2>1, <2>2, <2>3, <2>4, OpParts DEF Enters
<1>6. CASE ClipEnter(r)
  <2>1. /\ pc[r] = "run" /\ Enter(r, "norm") /\ pc' = [pc EXCEPT ![r] = "step"]
        /\ want' = want /\ next[r] > Len(micro[r])
        /\ epoch' = epoch /\ mini' = mini
    BY <1>6 DEF ClipEnter
  <2>2. pc'[r] = "step" /\ call'[r] = [n |-> call[r].n + 1, kind |-> "norm"]
    BY <1>1, <2>1 DEF TypesInv, Enter
  <2>3. Upcoming(r) = Op("norm", epoch[r], mini[r], 0, 0) /\ ~ Waiting(r)
    <3>1. ~ (next[r] <= Len(micro[r]))
      <4>1. next[r] \in Nat /\ Len(micro[r]) \in Nat
        BY <1>1, <2>1 DEF TypesInv, CutInv, CutSites, Splits
      <4> QED BY <2>1, <4>1
    <3> QED BY <2>1, <3>1 DEF Upcoming, Waiting, Trains
  <2>4. Current(r)' = Op("norm", epoch[r], mini[r], 0, 0) /\ Waiting(r)'
    BY <2>1, <2>2 DEF Current, Waiting, Op
  <2> QED BY <2>1, <2>2, <2>3, <2>4, OpParts DEF Enters
<1> QED BY <1>2, <1>3, <1>4, <1>5, <1>6

LEMMA StepPasses ==
  ASSUME PathInv, PathInv', NEW r \in Ranks,
         \/ ~ dynamic /\ Split(r, "logp", "logpCount", "logpRun")
         \/ ~ dynamic /\ Split(r, "mini", "count", "run")
         \/ rearrange_micro_batches(r, "logpCount", "logpRun")
         \/ rearrange_micro_batches(r, "count", "run")
         \/ LogpNext(r) \/ LogpEnd(r) \/ Backward(r) \/ _optimizer_step(r) \/ _update_teacher(r)
  PROVE  Passes(r)
<1> USE DEF work, progress, cutting, model, norm
<1>1. TypesInv /\ CutInv(r) /\ LoopInv(r)
  BY DEF PathInv, RankInv
<1>2. ASSUME lens' = lens, dynamic' = dynamic
      PROVE  /\ \A e, m : Begin(e, m)' = Begin(e, m)
             /\ LastMini' = LastMini /\ Opening' = Opening
             /\ \A e, m, j, K : Trains(e, m, j, K)' = Trains(e, m, j, K)
             /\ \A j, K : Forwards(j, K)' = Forwards(j, K)
  BY <1>2 DEF Begin, Trains, Forwards, Opening, MiniLen, LastMini, Share, Op, FixedCount
<1>3. CASE ~ dynamic /\ Split(r, "logp", "logpCount", "logpRun")
  <2>1. /\ pc[r] = "logp" /\ pc' = [pc EXCEPT ![r] = "logpRun"]
        /\ next' = [next EXCEPT ![r] = 1] /\ micro' = [micro EXCEPT ![r] = FixedCut(Len(Mini(r)))]
        /\ want' = want /\ call' = call /\ lens' = lens /\ dynamic' = dynamic
    BY <1>3 DEF Split, Cut
  <2>2. /\ pc'[r] = "logpRun" /\ next'[r] = 1 /\ micro'[r] = FixedCut(Len(Mini(r)))
    BY <1>1, <2>1 DEF TypesInv
  <2>3. Len(micro'[r]) = FixedCount(Share)
    <3>1. Len(Mini(r)) = Share
      BY <2>1, MiniCount DEF Computing
    <3>2. Share \in Nat \ {0}
      BY <1>1, ShareFacts DEF TypesInv
    <3> QED BY <2>2, <3>1, <3>2, FixedSplits
  <2>4. Upcoming(r) = Forwards(1, FixedCount(Share)) /\ ~ Waiting(r)
    BY <1>3, <2>1 DEF Upcoming, Waiting, Opening
  <2>5. Upcoming(r)' = Forwards(1, FixedCount(Share)) /\ ~ Waiting(r)'
    <3>1. Upcoming(r)' = Forwards(next[r], Len(micro[r]))'
      BY <2>2 DEF Upcoming, Waiting
    <3> QED BY <1>2, <2>1, <2>2, <2>3, <3>1 DEF Forwards, Waiting, Op
  <2> QED BY <2>1, <2>2, <2>4, <2>5 DEF Passes
<1>4. CASE ~ dynamic /\ Split(r, "mini", "count", "run")
  <2>1. /\ pc[r] = "mini" /\ pc' = [pc EXCEPT ![r] = "run"]
        /\ next' = [next EXCEPT ![r] = 1] /\ micro' = [micro EXCEPT ![r] = FixedCut(Len(Mini(r)))]
        /\ want' = want /\ call' = call /\ lens' = lens /\ dynamic' = dynamic
        /\ epoch' = epoch /\ mini' = mini
    BY <1>4 DEF Split, Cut
  <2>2. /\ pc'[r] = "run" /\ next'[r] = 1 /\ micro'[r] = FixedCut(Len(Mini(r)))
    BY <1>1, <2>1 DEF TypesInv
  <2> DEFINE k == FixedCount(MiniLen(mini[r]))
  <2>3. Len(micro'[r]) = k
    <3>1. Len(Mini(r)) = MiniLen(mini[r]) /\ Len(Mini(r)) \in Nat \ {0}
      BY <2>1, MiniCount, MiniFacts DEF Training, PathInv
    <3> QED BY <2>2, <3>1, FixedSplits
  <2>4. Upcoming(r) = Trains(epoch[r], mini[r], 1, k) /\ ~ Waiting(r)
    BY <1>4, <2>1 DEF Upcoming, Waiting, Begin
  <2>5. Upcoming(r)' = Trains(epoch[r], mini[r], 1, k) /\ ~ Waiting(r)'
    <3>1. Upcoming(r)' = Trains(epoch[r], mini[r], next[r], Len(micro[r]))'
      BY <2>2 DEF Upcoming, Waiting
    <3> HIDE DEF k
    <3> QED BY <2>1, <2>2, <2>3, <3>1 DEF Trains, Waiting, Op
  <2> QED BY <2>1, <2>2, <2>4, <2>5 DEF Passes
<1>5. CASE rearrange_micro_batches(r, "logpCount", "logpRun")
  <2>1. PICK cut \in DynamicCuts(Len(Mini(r)), AgreedCount(r)) :
          /\ pc[r] = "logpCount" /\ pc' = [pc EXCEPT ![r] = "logpRun"]
          /\ next' = [next EXCEPT ![r] = 1] /\ micro' = [micro EXCEPT ![r] = cut]
    BY <1>5 DEF rearrange_micro_batches, Cut
  <2>2. want' = want /\ call' = call /\ lens' = lens /\ dynamic' = dynamic /\ AllEntered(r)
    BY <1>5 DEF rearrange_micro_batches
  <2>3. pc'[r] = "logpRun" /\ next'[r] = 1 /\ micro'[r] = cut
    BY <1>1, <2>1 DEF TypesInv
  <2>4. Len(cut) = Agreed /\ Len(cut) \in Nat /\ Len(cut) # 0
    <3>1. Len(Mini(r)) \in Nat \ {0} /\ AgreedCount(r) \in Nat
      BY <1>1, <2>1, MiniFacts, AgreedFacts DEF PathInv, TypesInv
    <3>2. Splits(cut, Len(Mini(r))) /\ Len(cut) = AgreedCount(r)
      BY <3>1, DynamicSplits
    <3>3. AgreedCount(r) = Agreed
      BY DEF AgreedCount, Agreed
    <3> QED BY <3>1, <3>2, <3>3, SplitsFlat
  <2>5. Upcoming(r) = Op("forward", 0, 0, 1, Agreed)
    BY <2>1, FollowingFacts DEF Upcoming, Waiting, Current
  <2>6. Upcoming(r)' = Op("forward", 0, 0, 1, Agreed) /\ ~ Waiting(r)'
    <3>1. Upcoming(r)' = Forwards(next[r], Len(micro[r]))'
      BY <2>3 DEF Upcoming, Waiting
    <3>2. 1 <= Len(cut)
      BY <2>4
    <3> QED BY <2>3, <2>4, <3>1, <3>2 DEF Forwards, Waiting, Op
  <2> QED BY <2>2, <2>3, <2>5, <2>6 DEF Passes
<1>6. CASE rearrange_micro_batches(r, "count", "run")
  <2>1. PICK cut \in DynamicCuts(Len(Mini(r)), AgreedCount(r)) :
          /\ pc[r] = "count" /\ pc' = [pc EXCEPT ![r] = "run"]
          /\ next' = [next EXCEPT ![r] = 1] /\ micro' = [micro EXCEPT ![r] = cut]
    BY <1>6 DEF rearrange_micro_batches, Cut
  <2>2. /\ want' = want /\ call' = call /\ lens' = lens /\ dynamic' = dynamic /\ AllEntered(r)
        /\ epoch' = epoch /\ mini' = mini
    BY <1>6 DEF rearrange_micro_batches
  <2>3. pc'[r] = "run" /\ next'[r] = 1 /\ micro'[r] = cut
    BY <1>1, <2>1 DEF TypesInv
  <2>4. Len(cut) = Agreed /\ Len(cut) \in Nat /\ Len(cut) # 0
    <3>1. Len(Mini(r)) \in Nat \ {0} /\ AgreedCount(r) \in Nat
      BY <1>1, <2>1, MiniFacts, AgreedFacts DEF PathInv, TypesInv
    <3>2. Splits(cut, Len(Mini(r))) /\ Len(cut) = AgreedCount(r)
      BY <3>1, DynamicSplits
    <3>3. AgreedCount(r) = Agreed
      BY DEF AgreedCount, Agreed
    <3> QED BY <3>1, <3>2, <3>3, SplitsFlat
  <2>5. Upcoming(r) = Op("train", epoch[r], mini[r], 1, Agreed)
    <3>1. mini[r] # 0
      BY <2>1, MiniCount
    <3> QED BY <2>1, <3>1, FollowingFacts DEF Upcoming, Waiting, Current
  <2>6. Upcoming(r)' = Op("train", epoch[r], mini[r], 1, Agreed) /\ ~ Waiting(r)'
    <3>1. Upcoming(r)' = Trains(epoch[r], mini[r], next[r], Len(micro[r]))'
      BY <2>3 DEF Upcoming, Waiting
    <3>2. 1 <= Len(cut)
      BY <2>4
    <3> QED BY <2>2, <2>3, <2>4, <3>1, <3>2 DEF Trains, Waiting, Op
  <2> QED BY <2>2, <2>3, <2>5, <2>6 DEF Passes
<1>7. CASE LogpNext(r)
  <2>1. /\ pc[r] = "logpWait" /\ pc' = [pc EXCEPT ![r] = "logpRun"]
        /\ next' = [next EXCEPT ![r] = @ + 1] /\ micro' = micro
        /\ want' = want /\ call' = call /\ lens' = lens /\ dynamic' = dynamic /\ AllEntered(r)
    BY <1>7 DEF LogpNext
  <2>2. pc'[r] = "logpRun" /\ next'[r] = next[r] + 1
    BY <1>1, <2>1 DEF TypesInv
  <2>3. Upcoming(r) = Forwards(next[r] + 1, Len(micro[r]))
    BY <2>1, FollowingFacts DEF Upcoming, Waiting, Current
  <2>4. Upcoming(r)' = Forwards(next[r] + 1, Len(micro[r])) /\ ~ Waiting(r)'
    <3>1. Upcoming(r)' = Forwards(next[r], Len(micro[r]))'
      BY <2>2 DEF Upcoming, Waiting
    <3> QED BY <1>2, <2>1, <2>2, <3>1 DEF Forwards, Waiting, Op
  <2> QED BY <2>1, <2>2, <2>3, <2>4 DEF Passes
<1>8. CASE LogpEnd(r)
  <2>1. /\ pc[r] = "logpRun" /\ pc' = [pc EXCEPT ![r] = "mini"] /\ next[r] > Len(micro[r])
        /\ epoch' = epoch /\ mini' = mini
        /\ want' = want /\ call' = call /\ lens' = lens /\ dynamic' = dynamic
    BY <1>8 DEF LogpEnd
  <2>2. pc'[r] = "mini"
    BY <1>1, <2>1 DEF TypesInv
  <2>3. ~ (next[r] <= Len(micro[r]))
    <3>1. next[r] \in Nat /\ Len(micro[r]) \in Nat
      BY <1>1, <2>1 DEF TypesInv, CutInv, CutSites, Splits
    <3> QED BY <2>1, <3>1
  <2>4. Upcoming(r) = Begin(0, 1) /\ ~ Waiting(r)
    BY <2>1, <2>3 DEF Upcoming, Waiting, Forwards
  <2>5. Upcoming(r)' = Begin(0, 1) /\ ~ Waiting(r)'
    <3>1. Upcoming(r)' = Begin(epoch[r], mini[r])'
      BY <2>2 DEF Upcoming, Waiting
    <3>2. epoch[r] = 0 /\ mini[r] = 1
      BY <2>1, MiniCount DEF Computing
    <3>3. Begin(epoch[r], mini[r])' = Begin(0, 1)
      BY <2>1, <3>2 DEF Begin, Trains, MiniLen, Share, Op, FixedCount
    <3> QED BY <2>2, <3>1, <3>3 DEF Waiting
  <2> QED BY <2>1, <2>2, <2>4, <2>5 DEF Passes
<1>9. CASE Backward(r)
  <2>1. /\ pc[r] = "wait" /\ pc' = [pc EXCEPT ![r] = "run"]
        /\ next' = [next EXCEPT ![r] = @ + 1] /\ micro' = micro /\ epoch' = epoch /\ mini' = mini
        /\ want' = want /\ call' = call /\ lens' = lens /\ dynamic' = dynamic /\ AllEntered(r)
    BY <1>9 DEF Backward
  <2>2. pc'[r] = "run" /\ next'[r] = next[r] + 1
    BY <1>1, <2>1 DEF TypesInv
  <2>3. Upcoming(r) = Trains(epoch[r], mini[r], next[r] + 1, Len(micro[r]))
    BY <2>1, FollowingFacts DEF Upcoming, Waiting, Current
  <2>4. Upcoming(r)' = Trains(epoch[r], mini[r], next[r] + 1, Len(micro[r])) /\ ~ Waiting(r)'
    <3>1. Upcoming(r)' = Trains(epoch[r], mini[r], next[r], Len(micro[r]))'
      BY <2>2 DEF Upcoming, Waiting
    <3> QED BY <2>1, <2>2, <3>1 DEF Trains, Waiting, Op
  <2> QED BY <2>1, <2>2, <2>3, <2>4 DEF Passes
<1>10. CASE _optimizer_step(r)
  <2>1. Minis(r) = LastMini
    <3>1. pc[r] # "balance"
      BY <1>10 DEF _optimizer_step
    <3> QED BY <3>1, MiniFacts DEF PathInv
  <2> DEFINE again == mini[r] < LastMini
             over == ~ again /\ epoch[r] + 1 = Epochs
  <2>2. /\ pc[r] = "step" /\ pc' = [pc EXCEPT ![r] = IF over THEN "teacher" ELSE "mini"]
        /\ mini' = [mini EXCEPT ![r] = IF again THEN @ + 1 ELSE 1]
        /\ epoch' = [epoch EXCEPT ![r] = IF again THEN @ ELSE @ + 1]
        /\ want' = want /\ call' = call /\ lens' = lens /\ dynamic' = dynamic /\ AllEntered(r)
    BY <1>10, <2>1 DEF _optimizer_step
  <2>3. /\ pc'[r] = (IF over THEN "teacher" ELSE "mini")
        /\ mini'[r] = (IF again THEN mini[r] + 1 ELSE 1)
        /\ epoch'[r] = (IF again THEN epoch[r] ELSE epoch[r] + 1)
    BY <1>1, <2>2 DEF TypesInv
  <2>4. Upcoming(r) = After(epoch[r], mini[r])
    BY <2>2, FollowingFacts DEF Upcoming, Waiting, Current
  <2>5. Upcoming(r)' = After(epoch[r], mini[r]) /\ ~ Waiting(r)'
    <3>1. CASE over
      <4>1. Upcoming(r)' = End'
        BY <2>3, <3>1 DEF Upcoming, Waiting
      <4> QED BY <2>3, <3>1, <4>1 DEF After, End, Op, Waiting
    <3>2. CASE ~ over
      <4>1. Upcoming(r)' = Begin(epoch[r], mini[r])'
        BY <2>3, <3>2 DEF Upcoming, Waiting
      <4>2. Begin(epoch[r], mini[r])' = Begin(epoch'[r], mini'[r])
        BY <2>2 DEF Begin, Trains, MiniLen, Share, Op, FixedCount
      <4> QED BY <2>3, <3>2, <4>1, <4>2 DEF After, Waiting
    <3> QED BY <3>1, <3>2
  <2> HIDE DEF over, again
  <2>6. pc'[r] # "balance"
    BY <2>3
  <2> QED BY <2>2, <2>4, <2>5, <2>6 DEF Passes
<1>11. CASE _update_teacher(r)
  <2>1. /\ pc[r] = "teacher" /\ pc' = [pc EXCEPT ![r] = "done"]
        /\ want' = want /\ call' = call
    BY <1>11 DEF _update_teacher
  <2>2. pc'[r] = "done"
    BY <1>1, <2>1 DEF TypesInv
  <2>3. Upcoming(r) = End /\ Upcoming(r)' = End
    BY <2>1, <2>2 DEF Upcoming, Waiting, End, Op
  <2> QED BY <2>1, <2>2, <2>3 DEF Passes, Waiting
<1> QED BY <1>3, <1>4, <1>5, <1>6, <1>7, <1>8, <1>9, <1>10, <1>11

\* What a step of another rank leaves as it is.
LEMMA OtherLock ==
  ASSUME TypesInv, NEW s \in Ranks, Same(s), lens' = lens, dynamic' = dynamic
  PROVE  /\ Waiting(s)' <=> Waiting(s)
         /\ Waiting(s) => Current(s)' = Current(s)
         /\ want' = want \/ ~ Waiting(s) \/ Current(s)[1] # "count" => Upcoming(s)' = Upcoming(s)
<1>1. Waiting(s)' <=> Waiting(s)
  BY DEF Waiting, Same
<1>2. Waiting(s) => Current(s)' = Current(s)
  BY DEF Current, Waiting, Op, Same
<1>3. /\ \A e, m : Begin(e, m)' = Begin(e, m)
      /\ Opening' = Opening
      /\ \A e, m, j, K : Trains(e, m, j, K)' = Trains(e, m, j, K)
      /\ \A e, m : After(e, m)' = After(e, m)
      /\ \A j, K : Forwards(j, K)' = Forwards(j, K)
  BY DEF Begin, Trains, Forwards, After, Opening, End, MiniLen, LastMini, Share, Op, FixedCount
<1>4. CASE ~ Waiting(s)
  <2>1. Upcoming(s)' = Upcoming(s)
    <3>1. pc[s] \in {"balance", "logp", "logpRun", "mini", "run", "teacher", "done"} /\ pc'[s] = pc[s]
      BY <1>4 DEF TypesInv, Sites, Computing, Training, Waiting, Same
    <3>2. CASE pc[s] \in {"balance", "logp"}
      BY <1>3, <3>1, <3>2 DEF Upcoming, Waiting
    <3>3. CASE pc[s] = "logpRun"
      BY <3>1, <3>3 DEF Upcoming, Waiting, Same, Forwards, Begin, Trains, MiniLen, Share, Op, FixedCount
    <3>4. CASE pc[s] = "mini"
      BY <3>1, <3>4 DEF Upcoming, Waiting, Same, Begin, Trains, MiniLen, Share, Op, FixedCount
    <3>5. CASE pc[s] = "run"
      BY <3>1, <3>5 DEF Upcoming, Waiting, Same, Trains, Op
    <3>6. CASE pc[s] \in {"teacher", "done"}
      BY <3>1, <3>6 DEF Upcoming, Waiting, End, Op
    <3> QED BY <3>1, <3>2, <3>3, <3>4, <3>5, <3>6
  <2> QED BY <1>1, <1>4, <2>1
<1>5. CASE Waiting(s)
  <2> DEFINE o == Current(s)
  <2>1. Upcoming(s) = Following(o) /\ Upcoming(s)' = Following(Current(s))'
    BY <1>1, <1>5 DEF Upcoming, Waiting
  <2>2. ASSUME want' = want \/ o[1] # "count"
        PROVE  Following(Current(s))' = Following(o)
    <3>1. want' = want => Agreed' = Agreed
      BY DEF Agreed
    <3>2. o[1] \in {"count", "forward", "train", "norm"}
      BY <1>5, OpParts DEF Current, Waiting
    <3> HIDE DEF o
    <3>3. Current(s)' = o
      BY <1>2, <1>5 DEF o
    <3>4. CASE o[1] = "count"
      BY <2>2, <3>1, <3>3, <3>4 DEF Following, Op
    <3>5. CASE o[1] = "forward"
      BY <3>3, <3>5 DEF Following, Forwards, Begin, Trains, MiniLen, Share, Op, FixedCount
    <3>6. CASE o[1] = "train"
      BY <3>3, <3>6 DEF Following, Trains, Op
    <3>7. CASE o[1] = "norm"
      BY <3>3, <3>7 DEF Following, After, Begin, Trains, End, MiniLen, LastMini, Share, Op, FixedCount
    <3> QED BY <3>2, <3>4, <3>5, <3>6, <3>7
  <2> QED BY <1>1, <1>2, <1>5, <2>1, <2>2
<1> QED BY <1>1, <1>2, <1>4, <1>5

\* Ranks that wait in the same operation are before the same one.
LEMMA SameNext ==
  ASSUME NEW r, NEW s, Waiting(r)', Waiting(s)', Current(r)' = Current(s)'
  PROVE  Upcoming(r)' = Upcoming(s)'
<1>1. Upcoming(r)' = Following(Current(r))' /\ Upcoming(s)' = Following(Current(s))'
  BY DEF Upcoming, Waiting
<1>2. Following(Current(r))' = Following(Current(s))'
  BY DEF Following
<1> QED BY <1>1, <1>2

LEMMA EnterLock ==
  ASSUME TypesInv, LockInv, NEW r \in Ranks, Enters(r), lens' = lens, dynamic' = dynamic,
         want' = want \/ Upcoming(r)[1] = "count",
         \A s \in Ranks : s # r => Same(s)
  PROVE  LockInv'
<1>1. \A s \in Ranks : call[s].n \in Nat
  BY DEF TypesInv
<1>2. /\ ~ Waiting(r) /\ Waiting(r)' /\ pc'[r] # "balance"
      /\ call'[r].n = call[r].n + 1 /\ call'[r].kind = Upcoming(r)[1]
      /\ Current(r)' = Upcoming(r)
  BY DEF Enters
<1>3. ASSUME NEW s \in Ranks, s # r
      PROVE  /\ call'[s] = call[s] /\ pc'[s] = pc[s]
             /\ Waiting(s)' <=> Waiting(s)
             /\ Waiting(s) => Current(s)' = Current(s)
             /\ want' = want \/ ~ Waiting(s) \/ Current(s)[1] # "count" => Upcoming(s)' = Upcoming(s)
  <2>1. Same(s)
    BY <1>3
  <2> QED BY <2>1, OtherLock DEF Same
\* Rank r is not ahead of any other.
<1>4. \A s \in Ranks : call[r].n = call[s].n \/ call[s].n = call[r].n + 1
  BY <1>1, <1>2 DEF LockInv, Lock
\* Those ahead of it wait in the operation it enters.
<1>5. \A s \in Ranks : call[s].n = call[r].n + 1 => Waiting(s) /\ Current(s) = Upcoming(r)
  BY DEF LockInv, Lock
<1>6. \A s \in Ranks : Waiting(s) => call[s].kind = Current(s)[1]
  BY DEF LockInv
<1>7. ASSUME NEW s \in Ranks, s # r, call[s].n = call[r].n PROVE Upcoming(s)' = Upcoming(s)
  <2>1. CASE want' = want \/ ~ Waiting(s) \/ Current(s)[1] # "count"
    BY <1>3, <1>7, <2>1
  <2>2. CASE Waiting(s) /\ Current(s)[1] = "count" /\ Upcoming(r)[1] = "count"
    <3>1. Upcoming(s) = Upcoming(r)
      BY <1>7 DEF LockInv, Lock
    <3>2. Upcoming(s) = Following(Current(s))
      BY <2>2 DEF Upcoming, Waiting
    <3>3. Following(Current(s))[1] # "count"
      BY <2>2, OpParts DEF Following
    <3> QED BY <2>2, <3>1, <3>2, <3>3
  <2> QED BY <2>1, <2>2
<1>8. ASSUME NEW s \in Ranks, s # r, call[s].n = call[r].n + 1
      PROVE  /\ Waiting(s) /\ Waiting(s)' /\ Current(s)' = Upcoming(r) /\ Upcoming(s)' = Upcoming(r)'
             /\ call'[s].kind = Upcoming(r)[1]
  <2>1. Waiting(s) /\ Current(s) = Upcoming(r)
    BY <1>5, <1>8
  <2>2. Waiting(s)' /\ Current(s)' = Upcoming(r) /\ call'[s] = call[s]
    BY <1>3, <1>8, <2>1
  <2>3. Upcoming(s)' = Upcoming(r)'
    BY <1>2, <2>2, SameNext
  <2> QED BY <1>6, <2>1, <2>2, <2>3
<1>9. ASSUME NEW s \in Ranks PROVE Waiting(s)' => call'[s].kind = Current(s)'[1]
  <2>1. CASE s = r
    BY <1>2, <2>1
  <2>2. CASE s # r
    BY <1>3, <1>6, <2>2
  <2> QED BY <2>1, <2>2
<1>10. \A s \in Ranks : pc'[s] = "balance" => call'[s] = [n |-> 0, kind |-> "none"]
  BY <1>2, <1>3 DEF LockInv
<1>11. ASSUME NEW s \in Ranks, s # r PROVE Lock(s, r)' /\ Lock(r, s)'
  <2>1. call'[s] = call[s] /\ call[s].n \in Nat /\ call[r].n \in Nat
    BY <1>1, <1>3, <1>11
  <2>2. CASE call[s].n = call[r].n
    <3>1. Upcoming(s)' = Upcoming(s) /\ Upcoming(s) = Upcoming(r)
      BY <1>7, <1>11, <2>2 DEF LockInv, Lock
    <3>2. call'[r].n = call'[s].n + 1 /\ call'[s].n \in Nat
      BY <1>2, <2>1, <2>2
    <3>3. Waiting(r)' /\ Current(r)' = Upcoming(s)'
      BY <1>2, <3>1
    <3> QED BY <3>2, <3>3 DEF Lock
  <2>3. CASE call[s].n = call[r].n + 1
    <3>1. Upcoming(s)' = Upcoming(r)' /\ call'[s].kind = call'[r].kind
      BY <1>2, <1>8, <1>11, <2>3
    <3>2. call'[r].n = call'[s].n /\ call'[s].n \in Nat
      BY <1>2, <2>1, <2>3
    <3> QED BY <3>1, <3>2 DEF Lock
  <2> QED BY <1>4, <2>2, <2>3
<1>12. ASSUME NEW s \in Ranks, NEW t \in Ranks, s # r, t # r PROVE Lock(s, t)'
  <2>1. /\ call'[s] = call[s] /\ call'[t] = call[t] /\ call[s].n \in Nat /\ call[t].n \in Nat
        /\ call[r].n \in Nat
    BY <1>1, <1>3, <1>12
  <2>2. Lock(s, t)
    BY DEF LockInv
  <2>3. CASE call[s].n = call[t].n /\ call[s].n = call[r].n
    <3>1. Upcoming(s)' = Upcoming(s) /\ Upcoming(t)' = Upcoming(t)
      BY <1>7, <1>12, <2>3
    <3> QED BY <2>1, <2>2, <2>3, <3>1 DEF Lock
  <2>4. CASE call[s].n = call[t].n /\ call[s].n = call[r].n + 1
    <3>1. Upcoming(s)' = Upcoming(r)' /\ Upcoming(t)' = Upcoming(r)'
      BY <1>8, <1>12, <2>4
    <3> QED BY <2>1, <2>2, <2>4, <3>1 DEF Lock
  <2>5. CASE call[s].n # call[t].n
    <3>1. call[s].n = call[t].n + 1 => call[t].n = call[r].n
      BY <1>4, <2>1
    <3>2. call[s].n = call[t].n + 1 => Upcoming(t)' = Upcoming(t)
      BY <1>7, <1>12, <3>1
    <3>3. call[s].n = call[t].n + 1 => Waiting(s)' /\ Current(s)' = Current(s)
      BY <1>3, <1>12, <2>2 DEF Lock
    <3> QED BY <2>1, <2>2, <2>5, <3>2, <3>3 DEF Lock
  <2> QED BY <1>4, <2>3, <2>4, <2>5
<1>13. Lock(r, r)'
  <2>1. call'[r].n \in Nat
    BY <1>1, <1>2
  <2> QED BY <2>1 DEF Lock
<1>14. \A s, t \in Ranks : Lock(s, t)'
  BY <1>11, <1>12, <1>13
<1> QED BY <1>9, <1>10, <1>14 DEF LockInv

LEMMA PassLock ==
  ASSUME TypesInv, LockInv, NEW r \in Ranks, Passes(r), lens' = lens, dynamic' = dynamic,
         \A s \in Ranks : s # r => Same(s)
  PROVE  LockInv'
<1>1. \A s \in Ranks : call[s].n \in Nat
  BY DEF TypesInv
<1>2. /\ call' = call /\ want' = want /\ (~ Waiting(r) \/ AllEntered(r))
      /\ ~ Waiting(r)' /\ pc'[r] # "balance" /\ Upcoming(r)' = Upcoming(r)
  BY DEF Passes
<1>3. ASSUME NEW s \in Ranks, s # r
      PROVE  /\ pc'[s] = pc[s] /\ Upcoming(s)' = Upcoming(s)
             /\ Waiting(s)' <=> Waiting(s)
             /\ Waiting(s) => Current(s)' = Current(s)
  <2>1. Same(s)
    BY <1>3
  <2> QED BY <1>2, <2>1, OtherLock DEF Same
<1>4. \A s \in Ranks : Upcoming(s)' = Upcoming(s)
  BY <1>2, <1>3
<1>5. \A s \in Ranks : call[r].n # call[s].n + 1
  BY <1>1, <1>2 DEF LockInv, Lock, AllEntered
<1>6. ASSUME NEW s \in Ranks, NEW t \in Ranks PROVE Lock(s, t)'
  <2>1. Lock(s, t)
    BY DEF LockInv
  <2>2. call[s].n = call[t].n + 1 => Waiting(s)' /\ Current(s)' = Upcoming(t)'
    <3> SUFFICES ASSUME call[s].n = call[t].n + 1 PROVE Waiting(s)' /\ Current(s)' = Upcoming(t)'
      OBVIOUS
    <3>1. s # r
      BY <1>5
    <3> QED BY <1>3, <1>4, <2>1, <3>1 DEF Lock
  <2> QED BY <1>2, <1>4, <2>1, <2>2 DEF Lock
<1>7. \A s \in Ranks : Waiting(s)' => call'[s].kind = Current(s)'[1]
  BY <1>2, <1>3 DEF LockInv
<1>8. \A s \in Ranks : pc'[s] = "balance" => call'[s] = [n |-> 0, kind |-> "none"]
  BY <1>2, <1>3 DEF LockInv
<1> QED BY <1>6, <1>7, <1>8 DEF LockInv

LEMMA StepKinds ==
  ASSUME PathInv, PathInv', NEW r \in Ranks, Rank(r)
  PROVE  /\ (Enters(r) /\ (want' = want \/ Upcoming(r)[1] = "count")) \/ Passes(r)
         /\ Enters(r) <=> call' # call
<1>1. dynamic \in BOOLEAN
  BY DEF PathInv, TypesInv
<1>2. (Enters(r) /\ (want' = want \/ Upcoming(r)[1] = "count")) \/ Passes(r)
  BY <1>1, StepEnters, StepPasses DEF Rank
<1>3. call[r].n \in Nat
  BY DEF PathInv, TypesInv
<1>4. Enters(r) => call' # call
  <2> SUFFICES ASSUME Enters(r), call' = call PROVE FALSE
    OBVIOUS
  <2>1. call[r].n = call[r].n + 1
    BY DEF Enters
  <2> QED BY <1>3, <2>1
<1>5. Passes(r) => call' = call
  BY DEF Passes
<1> QED BY <1>2, <1>4, <1>5

LEMMA InitLock == Init => LockInv
<1> SUFFICES ASSUME Init PROVE LockInv
  OBVIOUS
<1>1. \A r \in Ranks : pc[r] = "balance" /\ call[r] = [n |-> 0, kind |-> "none"]
  BY DEF Init
<1>2. \A r \in Ranks : ~ Waiting(r) /\ Upcoming(r) = Opening
  BY <1>1 DEF Waiting, Upcoming
<1>3. \A r, s \in Ranks : Lock(r, s)
  BY <1>1, <1>2 DEF Lock
<1> QED BY <1>1, <1>2, <1>3 DEF LockInv

LEMMA BalanceLock ==
  ASSUME LockInv, _balance_batch
  PROVE  LockInv'
<1>1. /\ \A r \in Ranks : pc[r] = "balance" /\ pc'[r] = "logp" /\ call'[r] = [n |-> 0, kind |-> "none"]
  BY DEF _balance_batch, LockInv
<1>2. \A r \in Ranks : ~ Waiting(r)' /\ Upcoming(r)' = Opening'
  BY <1>1 DEF Waiting, Upcoming
<1>3. \A r, s \in Ranks : Lock(r, s)'
  BY <1>1, <1>2 DEF Lock
<1> QED BY <1>1, <1>2, <1>3 DEF LockInv

LEMMA LockKept == PathInv /\ PathInv' /\ LockInv /\ [Next]_vars => LockInv'
<1> SUFFICES ASSUME PathInv, PathInv', LockInv, [Next]_vars PROVE LockInv'
  OBVIOUS
<1>1. TypesInv
  BY DEF PathInv
<1>2. CASE _balance_batch
  BY <1>2, BalanceLock
<1>3. ASSUME NEW r \in Ranks, Rank(r) PROVE LockInv'
  <2>1. \A s \in Ranks : s # r => Same(s)
    BY <1>1, <1>3, OthersSame
  <2>2. lens' = lens /\ dynamic' = dynamic
    BY <1>3 DEF Rank, Split, Cut, rearrange_micro_batches, LogpForward, LogpNext, LogpEnd, Forward,
                Backward, ClipEnter, _optimizer_step, _update_teacher, work
  <2> QED BY <1>1, <1>3, <2>1, <2>2, StepKinds, EnterLock, PassLock
<1>4. CASE UNCHANGED vars
  <2> USE DEF vars, work, progress, cutting, model
  <2>1. /\ \A s \in Ranks : Same(s)
        /\ lens' = lens /\ dynamic' = dynamic /\ want' = want /\ call' = call /\ pc' = pc
    BY <1>4 DEF Same
  <2>2. \A s \in Ranks : /\ Upcoming(s)' = Upcoming(s) /\ (Waiting(s)' <=> Waiting(s))
                         /\ Waiting(s) => Current(s)' = Current(s)
    BY <1>1, <2>1, OtherLock
  <2>3. \A r, s \in Ranks : Lock(r, s)'
    BY <2>1, <2>2 DEF LockInv, Lock
  <2> QED BY <2>1, <2>2, <2>3 DEF LockInv
<1> QED BY <1>2, <1>3, <1>4 DEF Next

LEMMA LockTheorem == Spec => [](PathInv /\ LockInv)
<1>1. Init => PathInv /\ LockInv
  BY InitPath, InitLock
<1>2. PathInv /\ LockInv /\ [Next]_vars => (PathInv /\ LockInv)'
  BY PathKept, LockKept
<1> QED BY <1>1, <1>2, PTL DEF Spec

\* Ranks that wait for one another are in the same collective operation,
\* though each cut its own samples (rearrange_micro_batches, update_policy).
THEOREM CollectivesTheorem == Spec => []CollectivesMatch
<1>1. LockInv => CollectivesMatch
  BY DEF LockInv, Lock, CollectivesMatch
<1> QED BY <1>1, LockTheorem, PTL

-----------------------------------------------------------------------------
(***************************************************************************)
(* The student and the teacher of all ranks                                *)
(***************************************************************************)
\* The steps of rank r and the one it is about to make with all others.
Due(r) == steps[r] + IF pc[r] = "step" /\ AllEntered(r) /\ finite THEN 1 ELSE 0
ModelInv(r) ==
  /\ did[r] <=> steps[r] > 0
  /\ teacher[r] = IF pc[r] = "done" /\ did[r] THEN <<steps[r]>> ELSE <<>>
AgreeInv ==
  /\ \A r \in Ranks : ModelInv(r)
  /\ \A r, s \in Ranks : Due(r) = Due(s)

\* A rank that waits in the norm of the gradient has all others with it or
\* one operation behind, before that same norm.
LEMMA NormTogether ==
  ASSUME TypesInv, LockInv, NEW r \in Ranks, NEW t \in Ranks, pc[t] = "step",
         call[t].n = call[r].n + 1
  PROVE  Upcoming(r)[1] = "norm"
<1>1. Current(t) = Upcoming(r)
  BY DEF LockInv, Lock
<1> QED BY <1>1, OpParts DEF Current

LEMMA StepModel ==
  ASSUME PathInv, NEW r \in Ranks, Rank(r), ModelInv(r)
  PROVE  /\ ModelInv(r)'
         /\ steps'[r] = IF pc[r] = "step" /\ finite THEN steps[r] + 1 ELSE steps[r]
<1>1. TypesInv
  BY DEF PathInv
<1>2. CASE _optimizer_step(r)
  <2>1. /\ pc[r] = "step" /\ pc'[r] # "done" /\ teacher'[r] = teacher[r]
    <3>1. PICK to \in {"teacher", "mini"} : pc' = [pc EXCEPT ![r] = to]
      BY <1>2 DEF _optimizer_step
    <3> QED BY <1>1, <1>2, <3>1 DEF _optimizer_step, TypesInv
  <2>2. /\ steps'[r] = IF finite THEN steps[r] + 1 ELSE steps[r]
        /\ did'[r] = IF finite THEN TRUE ELSE did[r]
    BY <1>1, <1>2 DEF _optimizer_step, NormFinite, TypesInv
  <2>3. steps[r] \in Nat /\ teacher[r] = <<>>
    BY <1>1, <2>1 DEF TypesInv, ModelInv
  <2> QED BY <2>1, <2>2, <2>3 DEF ModelInv
<1>3. CASE _update_teacher(r)
  <2>1. /\ pc[r] = "teacher" /\ pc'[r] = "done" /\ steps' = steps /\ did' = did
        /\ teacher'[r] = IF did[r] THEN Append(teacher[r], steps[r]) ELSE teacher[r]
    BY <1>1, <1>3 DEF _update_teacher, TypesInv
  <2>2. teacher[r] = <<>>
    BY <2>1 DEF ModelInv
  <2>3. Append(<<>>, steps[r]) = <<steps[r]>>
    OBVIOUS
  <2> QED BY <2>1, <2>2, <2>3 DEF ModelInv
<1>4. CASE ~ _optimizer_step(r) /\ ~ _update_teacher(r)
  <2>1. /\ steps' = steps /\ did' = did /\ teacher' = teacher /\ pc[r] \notin {"step", "done"}
    BY <1>4 DEF Rank, Split, Cut, rearrange_micro_batches, LogpForward, LogpNext, LogpEnd, Forward,
                Backward, ClipEnter, model
  <2>2. pc'[r] # "done"
    <3>1. PICK to \in Sites \ {"done"} : pc' = [pc EXCEPT ![r] = to]
      BY <1>4 DEF Rank, Split, Cut, rearrange_micro_batches, LogpForward, LogpNext, LogpEnd, Forward,
                  Backward, ClipEnter, Sites, Computing, Training
    <3> QED BY <1>1, <3>1 DEF TypesInv
  <2> QED BY <2>1, <2>2 DEF ModelInv
<1> QED BY <1>2, <1>3, <1>4

\* Nobody's Due changes in a step.
LEMMA StepDue ==
  ASSUME PathInv, PathInv', LockInv, NEW r \in Ranks, Rank(r), ModelInv(r),
         \A s, t \in Ranks : Due(s) = Due(t)
  PROVE  \A s, t \in Ranks : Due(s)' = Due(t)'
<1>1. TypesInv /\ \A s \in Ranks : call[s].n \in Nat /\ steps[s] \in Nat
  BY DEF PathInv, TypesInv
<1>2. ASSUME NEW s \in Ranks, s # r
      PROVE  pc'[s] = pc[s] /\ steps'[s] = steps[s] /\ call'[s] = call[s]
  <2>1. Same(s)
    BY <1>1, <1>2, OthersSame
  <2> QED BY <2>1 DEF Same
<1>3. CASE Passes(r)
  <2>1. call' = call /\ (~ Waiting(r) \/ AllEntered(r)) /\ ~ Waiting(r)'
    BY <1>3 DEF Passes
  <2>2. finite' = finite
    <3>1. ~ ClipEnter(r)
      <4> SUFFICES ASSUME ClipEnter(r) PROVE FALSE
        OBVIOUS
      <4>1. Enters(r)
        BY StepEnters
      <4> QED BY <2>1, <4>1 DEF Enters
    <3> QED BY <3>1 DEF Rank, Split, rearrange_micro_batches, LogpForward, LogpNext, LogpEnd,
                        Forward, Backward, _optimizer_step, _update_teacher, norm
  <2>3. Due(r)' = Due(r)
    <3>1. pc'[r] # "step"
      BY <2>1 DEF Waiting
    <3>2. pc[r] = "step" => AllEntered(r)
      BY <2>1 DEF Waiting
    <3>3. steps'[r] = IF pc[r] = "step" /\ finite THEN steps[r] + 1 ELSE steps[r]
      BY StepModel
    <3> QED BY <1>1, <3>1, <3>2, <3>3 DEF Due
  <2>4. \A s \in Ranks : s # r => Due(s)' = Due(s)
    BY <1>2, <2>1, <2>2 DEF Due, AllEntered
  <2> QED BY <2>3, <2>4
<1>4. CASE Enters(r)
  <2>1. /\ ~ Waiting(r) /\ call'[r].n = call[r].n + 1
    BY <1>4 DEF Enters
  <2>2. \A s \in Ranks : call[s].n = call[r].n \/ call[s].n = call[r].n + 1
    BY <1>1, <2>1 DEF LockInv, Lock
  <2>3. pc[r] # "step" /\ Due(r) = steps[r] /\ steps'[r] = steps[r]
    <3>1. pc[r] # "step"
      BY <2>1 DEF Waiting
    <3> QED BY <1>1, <3>1, StepModel DEF Due
  <2>4. \A s \in Ranks : Due(s) = steps[r]
    BY <2>3
  <2>5. \A s \in Ranks : pc[s] = "step" /\ AllEntered(s) => call[s].n = call[r].n
    BY <1>1, <2>2 DEF AllEntered
  <2>6. CASE ~ ClipEnter(r)
    <3>1. finite' = finite
      BY <2>6 DEF Rank, Split, rearrange_micro_batches, LogpForward, LogpNext, LogpEnd,
                  Forward, Backward, _optimizer_step, _update_teacher, norm
    <3>2. pc'[r] # "step"
      <4>1. PICK to \in Sites \ {"step"} : pc' = [pc EXCEPT ![r] = to]
        BY <2>6 DEF Rank, Split, Cut, rearrange_micro_batches, LogpForward, LogpNext, LogpEnd, Forward,
                    Backward, _optimizer_step, _update_teacher, Sites, Computing, Training
      <4> QED BY <1>1, <4>1 DEF TypesInv
    <3>3. Upcoming(r)[1] # "norm"
      <4>1. CASE dynamic /\ (Split(r, "logp", "logpCount", "logpRun") \/ Split(r, "mini", "count", "run"))
        <5>1. pc[r] \in {"logp", "mini"}
          BY <4>1 DEF Split
        <5> QED BY <4>1, <5>1, OpParts DEF Upcoming, Waiting, Opening, Begin
      <4>2. CASE LogpForward(r)
        <5>1. pc[r] = "logpRun" /\ next[r] <= Len(micro[r])
          BY <4>2 DEF LogpForward
        <5> QED BY <5>1, OpParts DEF Upcoming, Waiting, Forwards
      <4>3. CASE Forward(r)
        <5>1. pc[r] = "run" /\ next[r] <= Len(micro[r])
          BY <4>3 DEF Forward
        <5> QED BY <5>1, OpParts DEF Upcoming, Waiting, Trains
      <4>4. ~ Passes(r)
        BY <1>4 DEF Passes, Enters
      <4>5. dynamic \in BOOLEAN
        BY <1>1 DEF TypesInv
      <4> QED BY <2>6, <4>1, <4>2, <4>3, <4>4, <4>5, StepPasses DEF Rank
    <3>4. \A s \in Ranks : pc[s] = "step" => call[s].n = call[r].n
      BY <1>1, <2>2, <3>3, NormTogether
    <3>5. ASSUME NEW s \in Ranks, s # r PROVE Due(s)' = Due(s)
      <4>1. pc[s] = "step" => (AllEntered(s)' <=> AllEntered(s))
        <5> SUFFICES ASSUME pc[s] = "step" PROVE AllEntered(s)' <=> AllEntered(s)
          OBVIOUS
        <5>1. call[s].n = call[r].n /\ call'[s] = call[s] /\ call'[r].n >= call[s].n
          BY <1>1, <1>2, <2>1, <3>4, <3>5
        <5>2. \A t \in Ranks : (call'[t].n >= call[s].n) <=> (call[t].n >= call[s].n)
          BY <1>1, <1>2, <5>1
        <5> QED BY <5>1, <5>2 DEF AllEntered
      <4> QED BY <1>2, <3>1, <3>5, <4>1 DEF Due
    <3>6. Due(r)' = steps[r]
      BY <1>1, <2>3, <3>2 DEF Due
    <3> QED BY <2>4, <3>5, <3>6
  <2>7. CASE ClipEnter(r) /\ \A s \in Ranks \ {r} : call[s].n > call[r].n
    <3>1. finite' \in BOOLEAN
      BY DEF PathInv, TypesInv
    <3>2. ASSUME NEW s \in Ranks, s # r PROVE pc[s] = "step" /\ call'[s].n = call[r].n + 1
      <4>1. call[s].n = call[r].n + 1
        BY <1>1, <2>2, <2>7, <3>2
      <4>2. Waiting(s) /\ Current(s) = Upcoming(r)
        BY <4>1 DEF LockInv, Lock
      <4>3. Upcoming(r)[1] = "norm"
        <5>1. pc[r] = "run" /\ ~ (next[r] <= Len(micro[r]))
          <6>1. pc[r] = "run" /\ next[r] > Len(micro[r])
            BY <2>7 DEF ClipEnter
          <6>2. next[r] \in Nat /\ Len(micro[r]) \in Nat
            BY <6>1 DEF PathInv, RankInv, TypesInv, CutInv, CutSites, Splits
          <6> QED BY <6>1, <6>2
        <5> QED BY <5>1, OpParts DEF Upcoming, Waiting, Trains
      <4>4. pc[s] = "step"
        BY <4>2, <4>3, OpParts DEF Current, Waiting
      <4> QED BY <1>2, <3>2, <4>1, <4>4
    <3>3. pc'[r] = "step" /\ call'[r].n = call[r].n + 1
      BY <1>1, <2>1, <2>7 DEF ClipEnter, TypesInv
    <3>4. \A s \in Ranks : pc'[s] = "step" /\ call'[s].n = call[r].n + 1
      BY <1>2, <3>2, <3>3
    <3>5. \A s \in Ranks : AllEntered(s)'
      BY <1>1, <3>4 DEF AllEntered
    <3>6. ASSUME NEW s \in Ranks PROVE steps'[s] = steps[r]
      <4>1. CASE s = r
        BY <2>3, <4>1
      <4>2. CASE s # r
        <5>1. ~ AllEntered(s)
          <6>1. call[s].n > call[r].n
            BY <2>7, <4>2
          <6> QED BY <1>1, <6>1 DEF AllEntered
        <5>2. Due(s) = steps[s]
          BY <1>1, <5>1 DEF Due
        <5> QED BY <1>2, <2>4, <4>2, <5>2
      <4> QED BY <4>1, <4>2
    <3>7. \A s \in Ranks : Due(s)' = steps[r] + IF finite' THEN 1 ELSE 0
      BY <3>4, <3>5, <3>6 DEF Due
    <3> QED BY <3>7
  <2>8. CASE ClipEnter(r) /\ ~ \A s \in Ranks \ {r} : call[s].n > call[r].n
    <3>1. PICK z \in Ranks : z # r /\ call[z].n = call[r].n
      BY <1>1, <2>2, <2>8
    <3>2. finite' = finite
      BY <2>8 DEF ClipEnter, norm
    <3>3. call'[z].n = call[r].n
      BY <1>2, <3>1
    <3>4. Due(r)' = steps[r]
      <4>1. ~ AllEntered(r)'
        BY <1>1, <2>1, <3>3 DEF AllEntered
      <4> QED BY <1>1, <2>3, <4>1 DEF Due
    <3>5. ASSUME NEW s \in Ranks, s # r PROVE Due(s)' = Due(s)
      <4>1. AllEntered(s)' <=> AllEntered(s)
        <5>1. call'[s] = call[s]
          BY <1>2, <3>5
        <5>2. CASE call[s].n = call[r].n
          <6>1. \A t \in Ranks : (call'[t].n >= call[s].n) <=> (call[t].n >= call[s].n)
            BY <1>1, <1>2, <2>1, <5>2
          <6> QED BY <5>1, <6>1 DEF AllEntered
        <5>3. CASE call[s].n = call[r].n + 1
          <6>1. ~ (call[z].n >= call[s].n) /\ ~ (call'[z].n >= call'[s].n)
            BY <1>1, <3>1, <3>3, <5>1, <5>3
          <6> QED BY <6>1 DEF AllEntered
        <5> QED BY <2>2, <5>2, <5>3
      <4> QED BY <1>2, <3>2, <3>5, <4>1 DEF Due
    <3> QED BY <2>4, <3>4, <3>5
  <2> QED BY <2>6, <2>7, <2>8
<1> QED BY <1>3, <1>4, StepKinds

LEMMA InitAgree == Init => AgreeInv
<1> SUFFICES ASSUME Init PROVE AgreeInv
  OBVIOUS
<1>1. \A r \in Ranks : ModelInv(r) /\ Due(r) = 0
  BY DEF Init, ModelInv, Due
<1> QED BY <1>1 DEF AgreeInv

LEMMA AgreeKept == PathInv /\ PathInv' /\ LockInv /\ AgreeInv /\ [Next]_vars => AgreeInv'
<1> SUFFICES ASSUME PathInv, PathInv', LockInv, AgreeInv, [Next]_vars PROVE AgreeInv'
  OBVIOUS
<1>1. TypesInv
  BY DEF PathInv
<1>2. CASE _balance_batch
  <2>1. /\ \A r \in Ranks : pc[r] = "balance" /\ pc'[r] = "logp"
        /\ steps' = steps /\ did' = did /\ teacher' = teacher
    BY <1>2 DEF _balance_batch, model
  <2>2. \A r \in Ranks : ModelInv(r)'
    BY <2>1 DEF AgreeInv, ModelInv
  <2>3. \A r \in Ranks : Due(r)' = Due(r)
    BY <2>1 DEF Due
  <2> QED BY <2>2, <2>3 DEF AgreeInv
<1>3. ASSUME NEW r \in Ranks, Rank(r) PROVE AgreeInv'
  <2>1. ModelInv(r)'
    BY <1>3, StepModel DEF AgreeInv
  <2>2. ASSUME NEW s \in Ranks, s # r PROVE ModelInv(s)'
    <3>1. Same(s) /\ ModelInv(s)
      BY <1>1, <1>3, <2>2, OthersSame DEF AgreeInv
    <3> QED BY <3>1 DEF Same, ModelInv
  <2>3. \A s, t \in Ranks : Due(s)' = Due(t)'
    BY <1>3, StepDue DEF AgreeInv
  <2> QED BY <2>1, <2>2, <2>3 DEF AgreeInv
<1>4. CASE UNCHANGED vars
  <2>1. /\ pc' = pc /\ steps' = steps /\ did' = did /\ teacher' = teacher /\ call' = call
        /\ finite' = finite
    BY <1>4 DEF vars, model, norm
  <2>2. \A r \in Ranks : ModelInv(r)' /\ Due(r)' = Due(r)
    BY <2>1 DEF AgreeInv, ModelInv, Due, AllEntered
  <2> QED BY <2>2 DEF AgreeInv
<1> QED BY <1>2, <1>3, <1>4 DEF Next

\* All ranks end with the same student and the same teacher
\* (_optimizer_step, _update_teacher).
THEOREM AgreeTheorem == Spec => []RanksAgree
<1>1. Init => PathInv /\ LockInv /\ AgreeInv
  BY InitPath, InitLock, InitAgree
<1>2. PathInv /\ LockInv /\ AgreeInv /\ [Next]_vars => (PathInv /\ LockInv /\ AgreeInv)'
  BY PathKept, LockKept, AgreeKept
<1>3. PathInv /\ AgreeInv => RanksAgree
  <2> SUFFICES ASSUME PathInv, AgreeInv, Finished, NEW r \in Ranks, NEW s \in Ranks
               PROVE  steps[r] = steps[s] /\ teacher[r] = teacher[s]
    BY DEF RanksAgree
  <2>1. pc[r] = "done" /\ pc[s] = "done" /\ steps[r] \in Nat /\ steps[s] \in Nat
    BY DEF Finished, PathInv, TypesInv
  <2>2. Due(r) = steps[r] /\ Due(s) = steps[s]
    BY <2>1 DEF Due
  <2>3. steps[r] = steps[s]
    BY <2>2 DEF AgreeInv
  <2> QED BY <2>1, <2>3 DEF AgreeInv, ModelInv
<1> QED BY <1>1, <1>2, <1>3, PTL DEF Spec

=============================================================================
