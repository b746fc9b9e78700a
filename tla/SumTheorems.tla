------------------------------ MODULE SumTheorems ------------------------------
(***************************************************************************)
(* Lemmas about sums over finite sets, MapThenSumSet, which is defined by  *)
(* recursion on the set: a sum is what is left after taking out any        *)
(* element, plus that element. Induction is stated for a set of numbers.   *)
(* Then lemmas about joining sequences one after the other.                *)
(***************************************************************************)
EXTENDS Integers, FiniteSets, FiniteSetsExt, FiniteSetTheorems, SequenceTheorems,
        WellFoundedInduction, TLAPS

\* The sum of f[x] for x in S.
SumOver(f, S) == MapThenSumSet(LAMBDA x : f[x], S)

Numbers(f, S) == \A x \in S : f[x] \in Int

----------------------------------------------------------------------------
(***************************************************************************)
(* Induction                                                               *)
(***************************************************************************)
LessNat == {p \in Nat \X Nat : p[1] < p[2]}

LEMMA LessNatWellFounded == IsWellFoundedOn(LessNat, Nat)
<1>1. LessNat = OpToRel(<, Nat)
  BY DEF LessNat, OpToRel
<1> QED BY <1>1, NatLessThanWellFounded

LEMMA SetInduction ==
  ASSUME NEW T, 0 \in T, \A k \in Nat : k \in T => k + 1 \in T
  PROVE  Nat \subseteq T
<1> SUFFICES ASSUME ~ (Nat \subseteq T) PROVE FALSE
  OBVIOUS
<1> DEFINE B == Nat \ T
<1>1. B # {} /\ B \subseteq Nat
  OBVIOUS
<1>2. PICK m \in B : \A y \in B : <<y, m>> \notin LessNat
  BY <1>1, LessNatWellFounded, WFMin
<1>3. m # 0 /\ m \in Nat
  BY <1>2
<1>4. m - 1 \in Nat /\ m - 1 < m /\ m - 1 + 1 = m
  BY <1>3
<1>5. m - 1 \notin B
  BY <1>2, <1>3, <1>4 DEF LessNat
<1> QED BY <1>2, <1>4, <1>5

----------------------------------------------------------------------------
(***************************************************************************)
(* The recursion has one solution.                                         *)
(***************************************************************************)
First(s) == CHOOSE x \in s : TRUE
Body(f, g, s) == IF s = {} THEN 0 ELSE f[First(s)] + g[s \ {First(s)}]
Solves(f, g, S) == g = [s \in SUBSET S |-> Body(f, g, s)]
Solution(f, S) == CHOOSE g : Solves(f, g, S)

LEMMA SumUnfolded ==
  ASSUME NEW f, NEW S
  PROVE  SumOver(f, S) = Solution(f, S)[S]
BY DEF SumOver, MapThenSumSet, MapThenFoldSet, Solution, Solves, Body, First

LEMMA WithoutFirst ==
  ASSUME NEW s, IsFiniteSet(s), s # {}
  PROVE  /\ First(s) \in s
         /\ IsFiniteSet(s \ {First(s)})
         /\ Cardinality(s) \in Nat \ {0}
         /\ Cardinality(s \ {First(s)}) = Cardinality(s) - 1
<1>1. First(s) \in s
  BY DEF First
<1>2. Cardinality(s) \in Nat /\ Cardinality(s) # 0
  BY FS_CardinalityType, FS_EmptySet
<1> QED BY <1>1, <1>2, FS_RemoveElement

LEMMA SolutionExists ==
  ASSUME NEW f, NEW S, IsFiniteSet(S)
  PROVE  Solves(f, Solution(f, S), S)
<1> DEFINE Upto(g, k) == \A s \in SUBSET S : Cardinality(s) <= k => g[s] = Body(f, g, s)
           T == {k \in Nat : \E g : Upto(g, k)}
<1>1. \A s \in SUBSET S : IsFiniteSet(s) /\ Cardinality(s) \in Nat /\ Cardinality(s) <= Cardinality(S)
  BY FS_Subset, FS_CardinalityType
<1>2. 0 \in T
  <2> DEFINE g == [s \in SUBSET S |-> 0]
  <2>1. ASSUME NEW s \in SUBSET S, Cardinality(s) <= 0 PROVE g[s] = Body(f, g, s)
    <3>1. s = {}
      BY <1>1, <2>1, FS_EmptySet
    <3> QED BY <3>1 DEF Body
  <2>2. Upto(g, 0)
    BY <2>1
  <2> QED BY <2>2
<1>3. ASSUME NEW k \in Nat, k \in T PROVE k + 1 \in T
  <2>1. PICK g : Upto(g, k)
    BY <1>3
  <2> DEFINE h == [s \in SUBSET S |-> Body(f, g, s)]
  <2>2. ASSUME NEW s \in SUBSET S, Cardinality(s) <= k + 1 PROVE h[s] = Body(f, h, s)
    <3>1. CASE s = {}
      BY <3>1 DEF Body
    <3>2. CASE s # {}
      <4> DEFINE r == s \ {First(s)}
      <4>1. r \in SUBSET S /\ Cardinality(r) <= k
        BY <1>1, <2>2, <3>2, WithoutFirst
      <4>2. h[r] = g[r]
        BY <2>1, <4>1
      <4> QED BY <3>2, <4>2 DEF Body
    <3> QED BY <3>1, <3>2
  <2>3. Upto(h, k + 1)
    BY <2>2
  <2> HIDE DEF h, Upto
  <2> QED BY <2>3
<1>4. Cardinality(S) \in T
  <2> HIDE DEF T
  <2>1. Nat \subseteq T
    BY <1>2, <1>3, SetInduction
  <2> QED BY <1>1, <2>1
<1>5. PICK g : Upto(g, Cardinality(S))
  BY <1>4
<1> DEFINE h == [s \in SUBSET S |-> g[s]]
<1>6. \A s \in SUBSET S : h[s] = Body(f, h, s)
  <2> SUFFICES ASSUME NEW s \in SUBSET S PROVE h[s] = Body(f, h, s)
    OBVIOUS
  <2>1. g[s] = Body(f, g, s)
    BY <1>1, <1>5
  <2>2. CASE s = {}
    BY <2>1, <2>2 DEF Body
  <2>3. CASE s # {}
    <3>1. s \ {First(s)} \in SUBSET S
      OBVIOUS
    <3> QED BY <2>1, <2>3, <3>1 DEF Body
  <2> QED BY <2>2, <2>3
<1>7. h = [s \in SUBSET S |-> h[s]]
  OBVIOUS
<1>8. Solves(f, h, S)
  <2> HIDE DEF h
  <2> QED BY <1>6, <1>7 DEF Solves
<1> QED BY <1>8 DEF Solution

LEMMA SolutionUnique ==
  ASSUME NEW f, NEW S, IsFiniteSet(S), NEW R \in SUBSET S
  PROVE  \A s \in SUBSET R : Solution(f, S)[s] = Solution(f, R)[s]
<1> DEFINE g == Solution(f, S)
           h == Solution(f, R)
           T == {k \in Nat : \A s \in SUBSET R : Cardinality(s) = k => g[s] = h[s]}
<1>1. IsFiniteSet(R) /\ \A s \in SUBSET R : IsFiniteSet(s) /\ Cardinality(s) \in Nat
  BY FS_Subset, FS_CardinalityType
<1>2. /\ \A s \in SUBSET R : g[s] = Body(f, g, s)
      /\ \A s \in SUBSET R : h[s] = Body(f, h, s)
  <2>1. Solves(f, g, S) /\ Solves(f, h, R)
    BY <1>1, SolutionExists
  <2> HIDE DEF g, h
  <2>2. /\ \A s \in SUBSET S : g[s] = Body(f, g, s)
        /\ \A s \in SUBSET R : h[s] = Body(f, h, s)
    BY <2>1 DEF Solves
  <2> QED BY <2>2
<1> HIDE DEF g, h
<1>3. 0 \in T
  <2>1. \A s \in SUBSET R : Cardinality(s) = 0 => s = {}
    BY <1>1, FS_EmptySet
  <2>2. g[{}] = 0 /\ h[{}] = 0
    BY <1>2 DEF Body
  <2> QED BY <2>1, <2>2
<1>4. ASSUME NEW k \in Nat, k \in T PROVE k + 1 \in T
  <2>1. ASSUME NEW s \in SUBSET R, Cardinality(s) = k + 1 PROVE g[s] = h[s]
    <3>1. s # {}
      BY <2>1, FS_EmptySet
    <3>2. s \ {First(s)} \in SUBSET R /\ Cardinality(s \ {First(s)}) = k
      <4>1. Cardinality(s \ {First(s)}) = Cardinality(s) - 1
        BY <1>1, <3>1, WithoutFirst
      <4> QED BY <2>1, <4>1
    <3>3. g[s \ {First(s)}] = h[s \ {First(s)}]
      BY <1>4, <3>2
    <3> QED BY <1>2, <3>1, <3>3 DEF Body
  <2> QED BY <2>1
<1>5. Nat \subseteq T
  <2> HIDE DEF T
  <2> QED BY <1>3, <1>4, SetInduction
<1> QED BY <1>1, <1>5 DEF g, h

----------------------------------------------------------------------------
(***************************************************************************)
(* Sums                                                                    *)
(***************************************************************************)
LEMMA SumEmpty ==
  ASSUME NEW f
  PROVE  SumOver(f, {}) = 0
<1>1. Solves(f, Solution(f, {}), {})
  BY FS_EmptySet, SolutionExists
<1>2. Solution(f, {})[{}] = Body(f, Solution(f, {}), {})
  BY <1>1 DEF Solves
<1> QED BY <1>2, SumUnfolded DEF Body

LEMMA SumFirst ==
  ASSUME NEW f, NEW S, IsFiniteSet(S), S # {}
  PROVE  SumOver(f, S) = f[First(S)] + SumOver(f, S \ {First(S)})
<1> DEFINE R == S \ {First(S)}
<1>1. Solution(f, S)[S] = Body(f, Solution(f, S), S)
  <2>1. Solves(f, Solution(f, S), S)
    BY SolutionExists
  <2> QED BY <2>1 DEF Solves
<1>2. Solution(f, S)[R] = Solution(f, R)[R]
  BY SolutionUnique
<1> QED BY <1>1, <1>2, SumUnfolded DEF Body

LEMMA SumInt ==
  ASSUME NEW f, NEW S, IsFiniteSet(S), Numbers(f, S)
  PROVE  SumOver(f, S) \in Int
<1> DEFINE T == {k \in Nat : \A s \in SUBSET S : Cardinality(s) = k => SumOver(f, s) \in Int}
<1>1. \A s \in SUBSET S : IsFiniteSet(s) /\ Cardinality(s) \in Nat
  BY FS_Subset, FS_CardinalityType
<1>2. 0 \in T
  BY <1>1, FS_EmptySet, SumEmpty
<1>3. ASSUME NEW k \in Nat, k \in T PROVE k + 1 \in T
  <2>1. ASSUME NEW s \in SUBSET S, Cardinality(s) = k + 1 PROVE SumOver(f, s) \in Int
    <3>1. s # {}
      BY <2>1, FS_EmptySet
    <3>2. SumOver(f, s) = f[First(s)] + SumOver(f, s \ {First(s)})
      BY <1>1, <3>1, SumFirst
    <3>3. First(s) \in S /\ Cardinality(s \ {First(s)}) = k
      BY <1>1, <2>1, <3>1, WithoutFirst
    <3>4. SumOver(f, s \ {First(s)}) \in Int
      BY <1>3, <3>3
    <3> QED BY <3>2, <3>3, <3>4 DEF Numbers
  <2> QED BY <2>1
<1>4. Nat \subseteq T
  <2> HIDE DEF T
  <2> QED BY <1>2, <1>3, SetInduction
<1> QED BY <1>1, <1>4

\* Any element may be the one taken out.
LEMMA SumRemove ==
  ASSUME NEW f, NEW S, IsFiniteSet(S), Numbers(f, S), NEW a \in S
  PROVE  SumOver(f, S) = f[a] + SumOver(f, S \ {a})
<1> DEFINE Splits(s) == \A x \in s : SumOver(f, s) = f[x] + SumOver(f, s \ {x})
           T == {k \in Nat : \A s \in SUBSET S : Cardinality(s) = k => Splits(s)}
<1>1. \A s \in SUBSET S :
        /\ IsFiniteSet(s) /\ Cardinality(s) \in Nat
        /\ Numbers(f, s) /\ SumOver(f, s) \in Int
  <2>1. \A s \in SUBSET S : IsFiniteSet(s) /\ Cardinality(s) \in Nat /\ Numbers(f, s)
    BY FS_Subset, FS_CardinalityType DEF Numbers
  <2> QED BY <2>1, SumInt
<1>2. 0 \in T
  BY <1>1, FS_EmptySet
<1>3. ASSUME NEW k \in Nat, k \in T PROVE k + 1 \in T
  <2> SUFFICES ASSUME NEW s \in SUBSET S, Cardinality(s) = k + 1, NEW x \in s
               PROVE  SumOver(f, s) = f[x] + SumOver(f, s \ {x})
    OBVIOUS
  <2> DEFINE c == First(s)
             r == s \ {c, x}
  <2>1. /\ c \in s /\ Cardinality(s \ {c}) = k /\ Cardinality(s \ {x}) = k
        /\ SumOver(f, s) = f[c] + SumOver(f, s \ {c})
    <3>1. s # {} /\ IsFiniteSet(s)
      BY <1>1
    <3>2. Cardinality(s \ {x}) = Cardinality(s) - 1
      BY <3>1, FS_RemoveElement
    <3>3. Cardinality(s \ {c}) = Cardinality(s) - 1 /\ c \in s
      BY <3>1, WithoutFirst
    <3>4. Cardinality(s) - 1 = k
      OBVIOUS
    <3>5. SumOver(f, s) = f[c] + SumOver(f, s \ {c})
      BY <3>1, SumFirst
    <3> HIDE DEF c
    <3> QED BY <3>2, <3>3, <3>4, <3>5
  <2> HIDE DEF c
  <2>2. CASE x = c
    BY <2>1, <2>2
  <2>3. CASE x # c
    <3>1. Splits(s \ {c}) /\ Splits(s \ {x})
      BY <1>3, <2>1
    <3>2. (s \ {c}) \ {x} = r /\ (s \ {x}) \ {c} = r
      OBVIOUS
    <3>3. /\ SumOver(f, s \ {c}) = f[x] + SumOver(f, r)
          /\ SumOver(f, s \ {x}) = f[c] + SumOver(f, r)
      BY <2>1, <2>3, <3>1, <3>2
    <3>4. f[x] \in Int /\ f[c] \in Int /\ SumOver(f, r) \in Int
      BY <1>1, <2>1 DEF Numbers
    <3> QED BY <2>1, <3>3, <3>4
  <2> QED BY <2>2, <2>3
<1>4. Nat \subseteq T
  <2> HIDE DEF T
  <2> QED BY <1>2, <1>3, SetInduction
<1> QED BY <1>1, <1>4

LEMMA SumAdd ==
  ASSUME NEW f, NEW S, IsFiniteSet(S), NEW a, a \notin S, Numbers(f, S \cup {a})
  PROVE  SumOver(f, S \cup {a}) = f[a] + SumOver(f, S)
<1>1. IsFiniteSet(S \cup {a}) /\ (S \cup {a}) \ {a} = S
  BY FS_AddElement
<1> QED BY <1>1, SumRemove

LEMMA SumOne ==
  ASSUME NEW f, NEW a, f[a] \in Int
  PROVE  SumOver(f, {a}) = f[a]
<1>1. Numbers(f, {} \cup {a}) /\ {} \cup {a} = {a}
  BY DEF Numbers
<1>2. SumOver(f, {} \cup {a}) = f[a] + SumOver(f, {})
  BY <1>1, FS_EmptySet, SumAdd
<1> QED BY <1>1, <1>2, SumEmpty

LEMMA SumCongruent ==
  ASSUME NEW f, NEW g, NEW S, IsFiniteSet(S), Numbers(f, S), \A x \in S : f[x] = g[x]
  PROVE  SumOver(f, S) = SumOver(g, S)
<1> DEFINE T == {k \in Nat : \A s \in SUBSET S :
                   Cardinality(s) = k => SumOver(f, s) = SumOver(g, s)}
<1>1. \A s \in SUBSET S : IsFiniteSet(s) /\ Cardinality(s) \in Nat
  BY FS_Subset, FS_CardinalityType
<1>2. 0 \in T
  BY <1>1, FS_EmptySet, SumEmpty
<1>3. ASSUME NEW k \in Nat, k \in T PROVE k + 1 \in T
  <2> SUFFICES ASSUME NEW s \in SUBSET S, Cardinality(s) = k + 1
               PROVE  SumOver(f, s) = SumOver(g, s)
    OBVIOUS
  <2>1. IsFiniteSet(s) /\ s # {}
    BY <1>1, FS_EmptySet
  <2>2. Cardinality(s \ {First(s)}) = Cardinality(s) - 1 /\ First(s) \in s
    BY <2>1, WithoutFirst
  <2>3. SumOver(f, s \ {First(s)}) = SumOver(g, s \ {First(s)})
    <3>1. Cardinality(s) - 1 = k
      OBVIOUS
    <3>2. s \ {First(s)} \in SUBSET S /\ Cardinality(s \ {First(s)}) = k
      BY <2>2, <3>1
    <3> QED BY <1>3, <3>2
  <2>4. /\ SumOver(f, s) = f[First(s)] + SumOver(f, s \ {First(s)})
        /\ SumOver(g, s) = g[First(s)] + SumOver(g, s \ {First(s)})
    BY <2>1, SumFirst
  <2>5. f[First(s)] = g[First(s)]
    BY <2>2
  <2> QED BY <2>3, <2>4, <2>5
<1>4. Nat \subseteq T
  <2> HIDE DEF T
  <2> QED BY <1>2, <1>3, SetInduction
<1> QED BY <1>1, <1>4

LEMMA SumScaled ==
  ASSUME NEW f, NEW g, NEW S, IsFiniteSet(S), Numbers(f, S), NEW c \in Int,
         \A x \in S : g[x] = f[x] * c
  PROVE  SumOver(g, S) = SumOver(f, S) * c
<1> DEFINE T == {k \in Nat : \A s \in SUBSET S :
                   Cardinality(s) = k => SumOver(g, s) = SumOver(f, s) * c}
<1>1. \A s \in SUBSET S :
        /\ IsFiniteSet(s) /\ Cardinality(s) \in Nat
        /\ Numbers(f, s) /\ SumOver(f, s) \in Int
  <2>1. \A s \in SUBSET S : IsFiniteSet(s) /\ Cardinality(s) \in Nat /\ Numbers(f, s)
    BY FS_Subset, FS_CardinalityType DEF Numbers
  <2> QED BY <2>1, SumInt
<1>2. 0 \in T
  <2>1. ASSUME NEW s \in SUBSET S, Cardinality(s) = 0 PROVE SumOver(g, s) = SumOver(f, s) * c
    <3>1. s = {}
      BY <1>1, <2>1, FS_EmptySet
    <3>2. 0 * c = 0
      OBVIOUS
    <3> QED BY <3>1, <3>2, SumEmpty
  <2> QED BY <2>1
<1>3. ASSUME NEW k \in Nat, k \in T PROVE k + 1 \in T
  <2> SUFFICES ASSUME NEW s \in SUBSET S, Cardinality(s) = k + 1
               PROVE  SumOver(g, s) = SumOver(f, s) * c
    OBVIOUS
  <2>1. IsFiniteSet(s) /\ s # {}
    BY <1>1, FS_EmptySet
  <2> DEFINE a == First(s)
             r == s \ {a}
  <2>2. Cardinality(r) = Cardinality(s) - 1 /\ a \in s
    BY <2>1, WithoutFirst
  <2>3. SumOver(g, r) = SumOver(f, r) * c
    <3>1. Cardinality(s) - 1 = k
      OBVIOUS
    <3>2. r \in SUBSET S /\ Cardinality(r) = k
      BY <2>2, <3>1
    <3> QED BY <1>3, <3>2
  <2>4. /\ SumOver(f, s) = f[a] + SumOver(f, r)
        /\ SumOver(g, s) = g[a] + SumOver(g, r)
    BY <2>1, SumFirst
  <2>5. g[a] = f[a] * c /\ f[a] \in Int /\ SumOver(f, r) \in Int
    BY <1>1, <2>2 DEF Numbers
  <2> HIDE DEF a, r
  <2>6. (f[a] + SumOver(f, r)) * c = f[a] * c + SumOver(f, r) * c
    BY <2>5
  <2> QED BY <2>3, <2>4, <2>5, <2>6
<1>4. Nat \subseteq T
  <2> HIDE DEF T
  <2> QED BY <1>2, <1>3, SetInduction
<1> QED BY <1>1, <1>4

LEMMA SumUnion ==
  ASSUME NEW f, NEW A, NEW B, IsFiniteSet(A), IsFiniteSet(B), A \cap B = {},
         Numbers(f, A \cup B)
  PROVE  SumOver(f, A \cup B) = SumOver(f, A) + SumOver(f, B)
<1> DEFINE T == {k \in Nat : \A s \in SUBSET B : Cardinality(s) = k =>
                   SumOver(f, A \cup s) = SumOver(f, A) + SumOver(f, s)}
<1>1. \A s \in SUBSET B :
        /\ IsFiniteSet(s) /\ Cardinality(s) \in Nat
        /\ IsFiniteSet(A \cup s) /\ Numbers(f, A \cup s) /\ SumOver(f, A \cup s) \in Int
        /\ Numbers(f, s) /\ SumOver(f, s) \in Int
  <2>1. \A s \in SUBSET B : IsFiniteSet(s) /\ Cardinality(s) \in Nat
    BY FS_Subset, FS_CardinalityType
  <2>2. \A s \in SUBSET B : IsFiniteSet(A \cup s)
    BY <2>1, FS_Union
  <2>3. \A s \in SUBSET B : Numbers(f, A \cup s) /\ Numbers(f, s)
    BY DEF Numbers
  <2> QED BY <2>1, <2>2, <2>3, SumInt
<1>a. SumOver(f, A) \in Int
  BY SumInt DEF Numbers
<1>2. 0 \in T
  <2>1. ASSUME NEW s \in SUBSET B, Cardinality(s) = 0
        PROVE  SumOver(f, A \cup s) = SumOver(f, A) + SumOver(f, s)
    <3>1. s = {} /\ A \cup s = A
      BY <1>1, <2>1, FS_EmptySet
    <3>2. SumOver(f, s) = 0
      BY <3>1, SumEmpty
    <3> QED BY <1>a, <3>1, <3>2
  <2> QED BY <2>1
<1>3. ASSUME NEW k \in Nat, k \in T PROVE k + 1 \in T
  <2> SUFFICES ASSUME NEW s \in SUBSET B, Cardinality(s) = k + 1
               PROVE  SumOver(f, A \cup s) = SumOver(f, A) + SumOver(f, s)
    OBVIOUS
  <2>1. IsFiniteSet(s) /\ s # {}
    <3>1. IsFiniteSet(s)
      BY <1>1
    <3>2. Cardinality(s) # 0
      OBVIOUS
    <3> QED BY <3>1, <3>2, FS_EmptySet
  <2> DEFINE a == First(s)
             r == s \ {a}
  <2>2. Cardinality(r) = Cardinality(s) - 1 /\ a \in s
    BY <2>1, WithoutFirst
  <2> HIDE DEF a
  <2>3. r \in SUBSET B /\ a \notin r /\ s = r \cup {a}
    BY <2>2
  <2>4. SumOver(f, A \cup r) = SumOver(f, A) + SumOver(f, r)
    <3>1. Cardinality(s) - 1 = k
      OBVIOUS
    <3>2. Cardinality(r) = k
      BY <2>2, <3>1
    <3> QED BY <1>3, <2>3, <3>2
  <2>5. a \notin A /\ a \in A \cup s /\ (A \cup s) \ {a} = A \cup r
    BY <2>2
  <2>6. /\ SumOver(f, A \cup s) = f[a] + SumOver(f, A \cup r)
        /\ SumOver(f, s) = f[a] + SumOver(f, r)
    BY <1>1, <2>2, <2>5, SumRemove
  <2>7. f[a] \in Int /\ SumOver(f, r) \in Int
    BY <1>1, <2>2, <2>3 DEF Numbers
  <2> QED BY <1>a, <2>4, <2>6, <2>7
<1>4. Nat \subseteq T
  <2> HIDE DEF T
  <2> QED BY <1>2, <1>3, SetInduction
<1>5. A \cup B = A \cup B /\ Cardinality(B) \in T
  BY <1>1, <1>4
<1> QED BY <1>5

LEMMA SumNat ==
  ASSUME NEW f, NEW S, IsFiniteSet(S), \A x \in S : f[x] \in Nat
  PROVE  SumOver(f, S) \in Nat
<1> DEFINE T == {k \in Nat : \A s \in SUBSET S : Cardinality(s) = k => SumOver(f, s) \in Nat}
<1>1. \A s \in SUBSET S : IsFiniteSet(s) /\ Cardinality(s) \in Nat
  BY FS_Subset, FS_CardinalityType
<1>2. 0 \in T
  BY <1>1, FS_EmptySet, SumEmpty
<1>3. ASSUME NEW k \in Nat, k \in T PROVE k + 1 \in T
  <2>1. ASSUME NEW s \in SUBSET S, Cardinality(s) = k + 1 PROVE SumOver(f, s) \in Nat
    <3>1. s # {}
      BY <2>1, FS_EmptySet
    <3>2. SumOver(f, s) = f[First(s)] + SumOver(f, s \ {First(s)})
      BY <1>1, <3>1, SumFirst
    <3>3. First(s) \in S /\ Cardinality(s \ {First(s)}) = Cardinality(s) - 1
      BY <1>1, <3>1, WithoutFirst
    <3>4. Cardinality(s) - 1 = k
      BY <2>1
    <3>5. SumOver(f, s \ {First(s)}) \in Nat
      BY <1>3, <3>3, <3>4
    <3> QED BY <3>2, <3>3, <3>5
  <2> QED BY <2>1
<1>4. Nat \subseteq T
  <2> HIDE DEF T
  <2> QED BY <1>2, <1>3, SetInduction
<1> QED BY <1>1, <1>4

\* No term of a sum of naturals exceeds it.
LEMMA SumAtLeast ==
  ASSUME NEW f, NEW S, IsFiniteSet(S), \A x \in S : f[x] \in Nat, NEW a \in S
  PROVE  f[a] <= SumOver(f, S)
<1>1. SumOver(f, S) = f[a] + SumOver(f, S \ {a})
  BY SumRemove DEF Numbers
<1>2. SumOver(f, S \ {a}) \in Nat
  BY FS_RemoveElement, SumNat
<1> QED BY <1>1, <1>2

-----------------------------------------------------------------------------
(***************************************************************************)
(* The concatenation of the first j of n sequences                         *)
(***************************************************************************)
Joins(f, m, n) ==
  /\ f[0] = <<>>
  /\ \A j \in 1 .. n : f[j] = f[j - 1] \o m[j]

Flat(m, n) == CHOOSE f : Joins(f, m, n)

LEMMA FlatJoins ==
  ASSUME NEW m, NEW n \in Nat
  PROVE  Joins(Flat(m, n), m, n)
<1> DEFINE T == {k \in Nat : \E f : Joins(f, m, k)}
<1>1. 0 \in T
  <2>1. Joins([j \in {0} |-> <<>>], m, 0)
    BY DEF Joins
  <2> QED BY <2>1
<1>2. ASSUME NEW k \in Nat, k \in T PROVE k + 1 \in T
  <2>1. PICK f : Joins(f, m, k)
    BY <1>2
  <2> DEFINE g == [j \in 0 .. k + 1 |-> IF j = k + 1 THEN f[k] \o m[k + 1] ELSE f[j]]
  <2>2. g[0] = <<>>
    BY <2>1 DEF Joins
  <2>3. ASSUME NEW j \in 1 .. k + 1 PROVE g[j] = g[j - 1] \o m[j]
    <3>1. CASE j = k + 1
      <4>1. k + 1 \in 0 .. k + 1 /\ k \in 0 .. k + 1 /\ k # k + 1 /\ j - 1 = k
        BY <3>1
      <4>2. g[k + 1] = f[k] \o m[k + 1]
        BY <4>1
      <4>3. g[k] = f[k]
        BY <4>1
      <4> QED BY <3>1, <4>1, <4>2, <4>3
    <3>2. CASE j # k + 1
      <4>1. j \in 1 .. k /\ j - 1 \in 0 .. k + 1 /\ j - 1 # k + 1
        BY <3>2
      <4>2. g[j] = f[j] /\ g[j - 1] = f[j - 1]
        BY <3>2, <4>1
      <4> QED BY <2>1, <4>1, <4>2 DEF Joins
    <3> QED BY <3>1, <3>2
  <2>4. Joins(g, m, k + 1)
    BY <2>2, <2>3 DEF Joins
  <2> QED BY <2>4
<1>3. n \in T
  <2> HIDE DEF T
  <2>1. Nat \subseteq T
    BY <1>1, <1>2, SetInduction
  <2> QED BY <2>1
<1> QED BY <1>3 DEF Flat

LEMMA FlatZero == \A m : \A n \in Nat : Flat(m, n)[0] = <<>>
BY FlatJoins DEF Joins

LEMMA FlatNext ==
  ASSUME NEW m, NEW n \in Nat, NEW j \in 1 .. n
  PROVE  Flat(m, n)[j] = Flat(m, n)[j - 1] \o m[j]
BY FlatJoins DEF Joins

\* Induction up to a bound.
LEMMA BoundedInduction ==
  ASSUME NEW n \in Nat, NEW T, 0 \in T, \A j \in 1 .. n : j - 1 \in T => j \in T
  PROVE  \A j \in 0 .. n : j \in T
<1> DEFINE U == {k \in Nat : k <= n => k \in T}
<1>1. 0 \in U
  OBVIOUS
<1>2. ASSUME NEW k \in Nat, k \in U PROVE k + 1 \in U
  <2> SUFFICES ASSUME k + 1 <= n PROVE k + 1 \in T
    OBVIOUS
  <2>1. k \in T /\ k + 1 \in 1 .. n /\ (k + 1) - 1 = k
    BY <1>2
  <2> QED BY <2>1
<1>3. Nat \subseteq U
  <2> HIDE DEF U
  <2> QED BY <1>1, <1>2, SetInduction
<1> QED BY <1>3

\* FlattenSeq is defined by such a function.
Unrolled(f, m, n) == [i \in 1 .. n |-> IF i = 1 THEN m[i] ELSE f[i - 1] \o m[i]]

LEMMA UnrolledIsFlat ==
  ASSUME NEW m, NEW n \in Nat \ {0}, NEW S, m[1] \in Seq(S)
  PROVE  (CHOOSE f : f = Unrolled(f, m, n))[n] = Flat(m, n)[n]
<1> USE DEF Unrolled
<1> DEFINE c == CHOOSE f : f = Unrolled(f, m, n)
           g == [i \in 1 .. n |-> Flat(m, n)[i]]
<1>1. g = Unrolled(g, m, n)
  <2> SUFFICES ASSUME NEW i \in 1 .. n PROVE g[i] = IF i = 1 THEN m[i] ELSE g[i - 1] \o m[i]
    OBVIOUS
  <2>1. g[i] = Flat(m, n)[i - 1] \o m[i]
    BY FlatNext
  <2>2. CASE i = 1
    <3>1. Flat(m, n)[0] = <<>> /\ i - 1 = 0
      BY <2>2, FlatZero
    <3>2. g[i] = <<>> \o m[1]
      BY <2>1, <2>2, <3>1
    <3> QED BY <2>2, <3>2, ConcatEmptySeq
  <2>3. CASE i # 1
    <3>1. i - 1 \in 1 .. n
      BY <2>3
    <3> QED BY <2>1, <2>3, <3>1
  <2> QED BY <2>2, <2>3
<1>2. c = Unrolled(c, m, n)
  <2> HIDE DEF g, Unrolled
  <2> QED BY <1>1
<1> DEFINE T == {j \in Nat : j # 0 => c[j] = g[j]}
<1>3. ASSUME NEW j \in 1 .. n, j - 1 \in T PROVE j \in T
  <2>1. c[j] = IF j = 1 THEN m[j] ELSE c[j - 1] \o m[j]
    <3> HIDE DEF c, g
    <3> QED BY <1>2
  <2>2. g[j] = IF j = 1 THEN m[j] ELSE g[j - 1] \o m[j]
    <3> HIDE DEF c, g
    <3> QED BY <1>1
  <2>3. j # 1 => c[j - 1] = g[j - 1]
    <3> HIDE DEF c, g
    <3> QED BY <1>3
  <2> HIDE DEF c, g
  <2> QED BY <2>1, <2>2, <2>3
<1>4. n \in T
  <2>1. 0 \in T
    OBVIOUS
  <2> HIDE DEF T
  <2>2. \A j \in 0 .. n : j \in T
    BY <1>3, <2>1, BoundedInduction
  <2> QED BY <2>2
<1>5. c[n] = Flat(m, n)[n]
  <2> HIDE DEF c
  <2> QED BY <1>4
<1> QED BY <1>5

LEMMA FlatSeq ==
  ASSUME NEW m, NEW n \in Nat, NEW S, \A j \in 1 .. n : m[j] \in Seq(S)
  PROVE  \A j \in 0 .. n : Flat(m, n)[j] \in Seq(S)
<1> DEFINE T == {j \in 0 .. n : Flat(m, n)[j] \in Seq(S)}
<1>1. 0 \in T
  <2>1. Flat(m, n)[0] = <<>> /\ 0 \in 0 .. n
    BY FlatZero
  <2>2. <<>> \in Seq(S)
    BY EmptySeq
  <2> QED BY <2>1, <2>2
<1>2. ASSUME NEW j \in 1 .. n, j - 1 \in T PROVE j \in T
  <2>1. Flat(m, n)[j - 1] \in Seq(S) /\ m[j] \in Seq(S) /\ j \in 0 .. n
    BY <1>2
  <2>2. Flat(m, n)[j] = Flat(m, n)[j - 1] \o m[j]
    BY FlatNext
  <2> QED BY <2>1, <2>2, ConcatProperties
<1>3. \A j \in 0 .. n : j \in T
  <2> HIDE DEF T
  <2> QED BY <1>1, <1>2, BoundedInduction
<1> QED BY <1>3

=============================================================================
