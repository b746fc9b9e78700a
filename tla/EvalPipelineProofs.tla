------------------------- MODULE EvalPipelineProofs -------------------------
(***************************************************************************)
(* Proofs about EvalPipeline, for any number of samples and of runs.       *)
(*                                                                         *)
(* What compacting does to the answer file (CompactedFacts) and an append  *)
(* to the lines of a sample (AppendFacts) is proved first, about any file. *)
(* TypeInv: what the judge reads has no torn line. AskInv: only samples    *)
(* without an answer are asked. JudgedInv: what is judged and reported is  *)
(* the file. VerdictInv: who has a verdict deserves it. These hold         *)
(* wherever a kill cuts a line. RowsInv does unless it cuts just before    *)
(* the newline: while samples are asked each of them is still to be        *)
(* written or has a line, so compacting leaves one of each.                *)
(***************************************************************************)
EXTENDS EvalPipeline, FiniteSetTheorems, SequenceTheorems, WellFoundedInduction, TLAPS

Lines == Record \cup {Torn}

\* While the judge works, and afterwards.
Judging == {"judging", "judge_close"}
Ended == {"accuracy", "done"}

TypeInv ==
  /\ TypeOK
  /\ unended => answers # <<>>
  /\ pc \in {"judge"} \cup Judging => answers \in Seq(Record)
  /\ pc \in Judging => \A i \in DOMAIN data \ asked : verdict[i] # "none"
  /\ pc = "judge_close" => asked = {}
  /\ pc = "accuracy" => judged \in Seq(Record \X {"Yes", "No"})
  /\ \A u \in Samples : result[u] # "none" => u \in todo
  /\ pc # "asking" => todo = {}

AskInv == pc = "asking" => \A u \in todo : GoodLinesOf(u) = {}

\* What was judged is the answer file, line by line, and what is reported was judged.
JudgedInv ==
  /\ pc \in Judging \cup Ended => data = answers /\ answers \in Seq(Record)
  /\ pc \in Ended => /\ DOMAIN judged = DOMAIN data
                     /\ \A i \in DOMAIN data : judged[i][1] = data[i]
  /\ pc = "done" =>
       report = [correct |-> Cardinality({i \in DOMAIN data : judged[i][2] = "Yes"}),
                 total   |-> Len(data)]

\* The verdict on a record, where neither service failed.
Deserved(i, v) ==
  data[i].ans \notin Failures /\ i \notin gaveUp => (v = "Yes") = (data[i].ans = "right")

VerdictInv ==
  /\ pc \in Judging => \A i \in DOMAIN data \ asked : Deserved(i, verdict[i])
  /\ pc \in Ended => \A i \in DOMAIN data : Deserved(i, judged[i][2])

\* No wrong option is read as the right one, the letter of which is never "A".
NoKeyIsA == Kind = "mcq" => \A u \in Samples : Gold[u] # "A"

EachOnce == \A u \in Samples : \E k \in DOMAIN answers : LinesOf(u) = {k}

RowsInv ==
  /\ unended = FALSE
  /\ pc = "asking" => /\ answers \in Seq(Record)
                      /\ \A u \in Samples \ todo : LinesOf(u) # {}
  /\ pc \in {"judge"} \cup Judging \cup Ended => EachOnce

\* A line is cut before its newline nowhere.
NewlineKept == "newline" \notin Cuts

----------------------------------------------------------------------------
(***************************************************************************)
(* The first and the last line of a sample                                 *)
(***************************************************************************)
LEMMA HasLeast ==
  ASSUME NEW S, S \subseteq Nat, S # {}
  PROVE  \E i \in S : \A j \in S : i <= j
<1>1. PICK i \in S : \A j \in S : ~ (<<j, i>> \in OpToRel(<, Nat))
  BY NatLessThanWellFounded, WFMin
<1>2. ASSUME NEW j \in S PROVE i <= j
  <2>1. ~ (j < i)
    BY <1>1 DEF OpToRel
  <2> QED BY <2>1
<1> QED BY <1>2

LEMMA HasLatest ==
  ASSUME NEW n \in Nat, NEW S, S \subseteq 1 .. n, S # {}
  PROVE  LatestOf(S) \in S /\ \A j \in S : j <= LatestOf(S)
<1> DEFINE T == {d \in Nat : \E i \in S : d = n - i}
<1>1. \A i \in S : n - i \in T
  OBVIOUS
<1>2. T \subseteq Nat /\ T # {}
  BY <1>1
<1> HIDE DEF T
<1>3. PICK d \in T : \A e \in T : d <= e
  BY <1>2, HasLeast
<1>4. PICK i \in S : d = n - i
  BY <1>3 DEF T
<1>5. ASSUME NEW j \in S PROVE j <= i
  <2>1. n - i <= n - j
    BY <1>1, <1>3, <1>4
  <2>2. i \in Nat /\ j \in Nat
    OBVIOUS
  <2> QED BY <2>1, <2>2
<1> QED BY <1>5 DEF LatestOf

LEMMA LinesFacts ==
  ASSUME answers \in Seq(Lines)
  PROVE  /\ Len(answers) \in Nat /\ DOMAIN answers = 1 .. Len(answers)
         /\ \A i \in DOMAIN answers : answers[i] \in Lines
         /\ \A i \in DOMAIN answers : answers[i] # Torn => answers[i] \in Record
         /\ \A u : /\ LinesOf(u) \subseteq DOMAIN answers
                   /\ GoodLinesOf(u) \subseteq LinesOf(u)
         /\ \A u : \A i \in LinesOf(u) : answers[i] \in Record /\ answers[i].uid = u
<1>1. /\ Len(answers) \in Nat /\ DOMAIN answers = 1 .. Len(answers)
      /\ \A i \in DOMAIN answers : answers[i] \in Lines
  BY LenProperties, ElementOfSeq
<1> QED BY <1>1 DEF Lines, LinesOf, GoodLinesOf

\* A file without torn line: every line belongs to its sample.
LEMMA NoTorn ==
  ASSUME answers \in Seq(Record)
  PROVE  /\ answers \in Seq(Lines)
         /\ \A i \in DOMAIN answers : answers[i] \in Record /\ answers[i] # Torn
<1>1. answers \in Seq(Lines)
  BY SeqMonotonic DEF Lines
<1>2. \A i \in DOMAIN answers : answers[i] \in Record
  BY LenProperties, ElementOfSeq
<1> QED BY <1>1, <1>2, TornAssumption

LEMMA BestFacts ==
  ASSUME answers \in Seq(Lines), NEW u, LinesOf(u) # {}
  PROVE  /\ BestLine(u) \in LinesOf(u)
         /\ GoodLinesOf(u) # {} <=> ~ShouldRetry(answers[BestLine(u)])
<1> DEFINE S == IF GoodLinesOf(u) # {} THEN GoodLinesOf(u) ELSE LinesOf(u)
<1>1. S # {} /\ S \subseteq 1 .. Len(answers) /\ S \subseteq LinesOf(u) /\ Len(answers) \in Nat
  BY LinesFacts
<1>2. BestLine(u) = LatestOf(S)
  BY DEF BestLine
<1> HIDE DEF S
<1>3. BestLine(u) \in S
  BY <1>1, <1>2, HasLatest
<1>4. BestLine(u) \in LinesOf(u)
  BY <1>1, <1>3
<1>5. GoodLinesOf(u) # {} => BestLine(u) \in GoodLinesOf(u)
  BY <1>3 DEF S
<1> QED BY <1>4, <1>5 DEF GoodLinesOf

----------------------------------------------------------------------------
(***************************************************************************)
(* Compacting                                                              *)
(***************************************************************************)

\* NthFirst counts the first lines, each once.
LEMMA FirstsCounted ==
  ASSUME answers \in Seq(Lines)
  PROVE  /\ Cardinality(Firsts) \in Nat /\ Firsts \subseteq DOMAIN answers
         /\ \A k \in 1 .. Cardinality(Firsts) : NthFirst(k) \in Firsts
         /\ \A i \in Firsts : \E k \in 1 .. Cardinality(Firsts) : NthFirst(k) = i
         /\ \A k, m \in 1 .. Cardinality(Firsts) : NthFirst(k) = NthFirst(m) => k = m
<1> DEFINE n == Cardinality(Firsts)
           UpToLine(i) == {j \in Firsts : j <= i}
           Place(i) == Cardinality(UpToLine(i))
<1>1. /\ Firsts \subseteq 1 .. Len(answers) /\ Firsts \subseteq DOMAIN answers
      /\ IsFiniteSet(Firsts) /\ n \in Nat
  <2>1. /\ Firsts \subseteq 1 .. Len(answers) /\ Firsts \subseteq DOMAIN answers
        /\ Len(answers) \in Nat
    BY LinesFacts DEF Firsts
  <2>2. IsFiniteSet(1 .. Len(answers))
    BY <2>1, FS_Interval
  <2> QED BY <2>1, <2>2, FS_Subset, FS_CardinalityType
<1>2. IsFiniteSet(1 .. n) /\ Cardinality(1 .. n) = n
  <2>1. 1 \in Int /\ n \in Int
    BY <1>1
  <2>2. IsFiniteSet(1 .. n) /\ Cardinality(1 .. n) = IF 1 > n THEN 0 ELSE n - 1 + 1
    BY <2>1, FS_Interval
  <2> QED BY <1>1, <2>2
<1>3. \A i \in Firsts : i \in Nat
  BY <1>1
<1>4. ASSUME NEW i \in Firsts
      PROVE  i \in UpToLine(i) /\ IsFiniteSet(UpToLine(i)) /\ Place(i) \in 1 .. n
  <2>1. i \in UpToLine(i)
    BY <1>3
  <2>2. IsFiniteSet(UpToLine(i)) /\ Place(i) \in Nat /\ Place(i) <= n
    BY <1>1, FS_Subset, FS_CardinalityType
  <2>3. Place(i) # 0
    BY <2>1, <2>2, FS_EmptySet
  <2> QED BY <1>1, <2>1, <2>2, <2>3
<1>5. ASSUME NEW i \in Firsts, NEW j \in Firsts, i < j PROVE Place(i) # Place(j)
  <2>1. UpToLine(i) \subseteq UpToLine(j)
    BY <1>3, <1>5
  <2>2. j \notin UpToLine(i)
    BY <1>3, <1>5
  <2> QED BY <1>4, <2>1, <2>2, FS_Subset
<1>6. ASSUME NEW i \in Firsts, NEW j \in Firsts, Place(i) = Place(j) PROVE i = j
  <2> HIDE DEF Place
  <2>1. i < j \/ j < i \/ i = j
    BY <1>3
  <2> QED BY <1>5, <1>6, <2>1
<1> DEFINE R == [i \in Firsts |-> Place(i)]
<1>7. R \in Injection(Firsts, 1 .. n)
  <2> HIDE DEF Place
  <2>1. R \in [Firsts -> 1 .. n]
    BY <1>4
  <2>2. \A i, j \in Firsts : R[i] = R[j] => i = j
    BY <1>6
  <2> QED BY <2>1, <2>2 DEF Injection, IsInjective
<1>8. R \in Surjection(Firsts, 1 .. n)
  <2> HIDE DEF R
  <2> QED BY <1>1, <1>2, <1>7, FS_Injection
<1>9. ASSUME NEW k \in 1 .. n PROVE \E i \in Firsts : Place(i) = k
  <2>1. \E i \in Firsts : R[i] = k
    BY <1>8 DEF Surjection
  <2> QED BY <2>1
<1>10. ASSUME NEW k \in 1 .. n PROVE NthFirst(k) \in Firsts /\ Place(NthFirst(k)) = k
  <2>1. NthFirst(k) = CHOOSE i \in Firsts : Place(i) = k
    BY DEF NthFirst
  <2> HIDE DEF Place
  <2> QED BY <1>9, <2>1
<1> HIDE DEF Place
<1>11. ASSUME NEW i \in Firsts PROVE Place(i) \in 1 .. n /\ NthFirst(Place(i)) = i
  BY <1>4, <1>6, <1>10
<1> QED BY <1>1, <1>10, <1>11

\* Compacting leaves one line of each sample that has one: its best.
LEMMA CompactedFacts ==
  ASSUME answers \in Seq(Lines)
  PROVE  /\ Compacted \in Seq(Record)
         /\ DOMAIN Compacted = 1 .. Cardinality(Firsts)
         /\ \A k \in DOMAIN Compacted :
              /\ LinesOf(Compacted[k].uid) # {}
              /\ Compacted[k] = answers[BestLine(Compacted[k].uid)]
         /\ \A u : LinesOf(u) # {} => \E k \in DOMAIN Compacted : Compacted[k].uid = u
         /\ \A k, m \in DOMAIN Compacted : Compacted[k].uid = Compacted[m].uid => k = m
<1> DEFINE n == Cardinality(Firsts)
           c == Compacted
<1>1. n \in Nat /\ c = [k \in 1 .. n |-> answers[BestLine(answers[NthFirst(k)].uid)]]
  BY FirstsCounted DEF Compacted
<1>2. \A i \in Firsts : i \in LinesOf(answers[i].uid) /\ \A j \in LinesOf(answers[i].uid) : i <= j
  BY DEF Firsts, LinesOf
<1>3. ASSUME NEW k \in 1 .. n
      PROVE  /\ c[k] \in Record /\ c[k].uid = answers[NthFirst(k)].uid
             /\ LinesOf(c[k].uid) # {} /\ c[k] = answers[BestLine(c[k].uid)]
  <2> DEFINE u == answers[NthFirst(k)].uid
  <2>1. LinesOf(u) # {}
    BY <1>2, FirstsCounted
  <2>2. c[k] = answers[BestLine(u)]
    BY <1>1
  <2>3. BestLine(u) \in LinesOf(u)
    BY <2>1, BestFacts
  <2> HIDE DEF c, u
  <2>4. c[k] \in Record /\ c[k].uid = u
    BY <2>2, <2>3, LinesFacts
  <2> QED BY <2>1, <2>2, <2>4 DEF u
<1>4. c \in Seq(Record) /\ DOMAIN c = 1 .. n
  <2>1. c \in [1 .. n -> Record]
    <3>1. c = [k \in 1 .. n |-> c[k]]
      BY <1>1
    <3> HIDE DEF c
    <3> QED BY <1>3, <3>1
  <2> HIDE DEF c
  <2> QED BY <1>1, <2>1
<1>5. ASSUME NEW u, LinesOf(u) # {} PROVE \E k \in 1 .. n : c[k].uid = u
  <2>1. LinesOf(u) \subseteq Nat
    BY LinesFacts
  <2>2. PICK i \in LinesOf(u) : \A j \in LinesOf(u) : i <= j
    BY <1>5, <2>1, HasLeast
  <2>3. i \in Firsts /\ answers[i].uid = u
    BY <2>2 DEF Firsts, LinesOf
  <2>4. PICK k \in 1 .. n : NthFirst(k) = i
    BY <2>3, FirstsCounted
  <2> HIDE DEF c
  <2> QED BY <1>3, <2>3, <2>4
<1>6. ASSUME NEW k \in 1 .. n, NEW m \in 1 .. n, c[k].uid = c[m].uid PROVE k = m
  <2> DEFINE i == NthFirst(k)
             j == NthFirst(m)
  <2>1. i \in Firsts /\ j \in Firsts /\ i \in Nat /\ j \in Nat
    BY FirstsCounted, LinesFacts
  <2>2. answers[i].uid = answers[j].uid
    <3> HIDE DEF c
    <3> QED BY <1>3, <1>6
  <2>3. i <= j /\ j <= i
    BY <1>2, <2>1, <2>2
  <2>4. i = j
    BY <2>1, <2>3
  <2> QED BY <2>4, FirstsCounted
<1> HIDE DEF c
<1>7. \A k \in DOMAIN c : LinesOf(c[k].uid) # {} /\ c[k] = answers[BestLine(c[k].uid)]
  BY <1>3, <1>4
<1> QED BY <1>4, <1>5, <1>6, <1>7 DEF c

\* rewrite_output: one line of each sample that had one, a good one if there was.
LEMMA RewriteFacts ==
  ASSUME answers \in Seq(Lines), Rewrite
  PROVE  /\ answers' \in Seq(Record)
         /\ answers # <<>> /\ unended' => answers' # <<>>
         /\ \A u : LinesOf(u) = {} => LinesOf(u)' = {}
         /\ \A u : LinesOf(u) # {} => \E k \in DOMAIN answers' : LinesOf(u)' = {k}
         /\ \A u : GoodLinesOf(u)' # {} <=> GoodLinesOf(u) # {}
<1>1. answers' = Compacted /\ unended' = (unended /\ Compacted = answers)
  BY DEF Rewrite
<1>2. answers' \in Seq(Record)
  BY <1>1, CompactedFacts
<1>3. /\ \A k \in DOMAIN answers' : answers'[k] \in Record /\ answers'[k] # Torn
  <2>1. \A k \in DOMAIN answers' : answers'[k] \in Record
    BY <1>2, LenProperties, ElementOfSeq
  <2> QED BY <2>1, TornAssumption
<1>4. \A u : LinesOf(u)' = {k \in DOMAIN answers' : answers'[k].uid = u}
  BY <1>3 DEF LinesOf
<1>5. ASSUME NEW u, LinesOf(u) = {} PROVE LinesOf(u)' = {}
  BY <1>1, <1>4, <1>5, CompactedFacts
<1>6. ASSUME NEW u, LinesOf(u) # {}
      PROVE  \E k \in DOMAIN answers' : LinesOf(u)' = {k} /\ answers'[k] = answers[BestLine(u)]
  <2>1. PICK k \in DOMAIN answers' : answers'[k].uid = u
    BY <1>1, <1>6, CompactedFacts
  <2>2. answers'[k] = answers[BestLine(u)]
    BY <1>1, <2>1, CompactedFacts
  <2>3. LinesOf(u)' = {k}
    BY <1>1, <1>4, <2>1, CompactedFacts
  <2> QED BY <2>1, <2>2, <2>3
<1>7. ASSUME NEW u PROVE GoodLinesOf(u)' # {} <=> GoodLinesOf(u) # {}
  <2>1. CASE LinesOf(u) = {}
    BY <1>5, <2>1 DEF GoodLinesOf
  <2>2. CASE LinesOf(u) # {}
    <3>1. PICK k \in DOMAIN answers' : LinesOf(u)' = {k} /\ answers'[k] = answers[BestLine(u)]
      BY <1>6, <2>2
    <3>2. GoodLinesOf(u)' # {} <=> ~ShouldRetry(answers[BestLine(u)])
      BY <3>1 DEF GoodLinesOf, ShouldRetry
    <3> QED BY <2>2, <3>2, BestFacts
  <2> QED BY <2>1, <2>2
<1>8. answers # <<>> /\ unended' => answers' # <<>>
  BY <1>1
<1> QED BY <1>2, <1>5, <1>6, <1>7, <1>8

----------------------------------------------------------------------------
(***************************************************************************)
(* Appending                                                               *)
(***************************************************************************)

\* An append adds a line to one sample, or makes the last line unreadable.
LEMMA AppendFacts ==
  ASSUME answers \in Seq(Lines), NEW rec \in Lines, NEW cut, AppendLine(rec, cut),
         unended => answers # <<>>
  PROVE  /\ answers' \in Seq(Lines) /\ answers' # <<>> /\ unended' = cut
         /\ \A u : GoodLinesOf(u) = {} /\ (rec # Torn => rec.uid # u) => GoodLinesOf(u)' = {}
         /\ answers \in Seq(Record) /\ ~unended =>
              /\ rec # Torn => answers' \in Seq(Record)
              /\ \A u : LinesOf(u) \subseteq LinesOf(u)' /\ GoodLinesOf(u) \subseteq GoodLinesOf(u)'
              /\ rec # Torn => LinesOf(rec.uid)' # {}
<1> DEFINE n == Len(answers)
           merged == unended \/ (answers # <<>> /\ Last(answers) = Torn)
<1>1. /\ n \in Nat /\ DOMAIN answers = 1 .. n /\ Torn \in Lines
      /\ answers \in [1 .. n -> Lines]
  BY LenProperties DEF Lines
<1>2. unended' = cut
  BY DEF AppendLine
<1>3. CASE merged
  <2>1. answers # <<>> /\ n # 0
    BY <1>1, <1>3, EmptySeq
  <2>2. answers' = Append(SubSeq(answers, 1, n - 1), Torn)
    BY <1>3 DEF AppendLine, Front
  <2>3. /\ SubSeq(answers, 1, n - 1) \in Seq(Lines) /\ Len(SubSeq(answers, 1, n - 1)) = n - 1
        /\ \A i \in 1 .. n - 1 : SubSeq(answers, 1, n - 1)[i] = answers[i]
    BY <1>1, <2>1
  <2>4. /\ answers' \in Seq(Lines) /\ DOMAIN answers' = 1 .. n /\ answers' # <<>>
        /\ answers'[n] = Torn /\ \A i \in 1 .. n - 1 : answers'[i] = answers[i]
    <3> DEFINE front == SubSeq(answers, 1, n - 1)
    <3> HIDE DEF front
    <3>1. /\ front \in Seq(Lines) /\ Len(front) = n - 1 /\ answers' = Append(front, Torn)
          /\ \A i \in 1 .. n - 1 : front[i] = answers[i]
      BY <2>2, <2>3 DEF front
    <3>2. n - 1 + 1 = n
      BY <1>1
    <3>3. /\ answers' \in Seq(Lines) /\ Len(answers') = n - 1 + 1 /\ answers'[n - 1 + 1] = Torn
          /\ answers' # <<>> /\ \A i \in 1 .. n - 1 : answers'[i] = front[i]
      <4>1. Torn \in Lines
        BY <1>1
      <4> HIDE DEF n
      <4> QED BY <3>1, <4>1, AppendProperties
    <3> QED BY <3>1, <3>2, <3>3, LenProperties
  <2>5. \A u : LinesOf(u)' \subseteq LinesOf(u) /\ GoodLinesOf(u)' \subseteq GoodLinesOf(u)
    <3>1. ASSUME NEW u, NEW i \in LinesOf(u)' PROVE i \in LinesOf(u) /\ answers'[i] = answers[i]
      <4>1. i \in 1 .. n /\ i # n /\ answers'[i] # Torn /\ answers'[i].uid = u
        BY <2>4 DEF LinesOf
      <4>2. i \in 1 .. n - 1
        <5>1. n \in Nat /\ i \in 1 .. n /\ i # n
          BY <1>1, <4>1
        <5> HIDE DEF n
        <5> QED BY <5>1
      <4> QED BY <1>1, <2>4, <4>1, <4>2 DEF LinesOf
    <3> QED BY <3>1 DEF GoodLinesOf, ShouldRetry
  <2>6. ~ (answers \in Seq(Record) /\ ~unended)
    <3> SUFFICES ASSUME answers \in Seq(Record), ~unended PROVE FALSE
      OBVIOUS
    <3>1. answers[n] = Torn
      BY <1>3 DEF Last
    <3> QED BY <1>1, <2>1, <3>1, NoTorn
  <2> QED BY <1>2, <2>4, <2>5, <2>6
<1>4. CASE ~merged
  <2>1. answers' = Append(answers, rec)
    BY <1>4 DEF AppendLine
  <2>2. /\ answers' \in Seq(Lines) /\ DOMAIN answers' = 1 .. n + 1 /\ answers' # <<>>
        /\ answers'[n + 1] = rec /\ \A i \in 1 .. n : answers'[i] = answers[i]
    BY <1>1, <2>1, AppendProperties, LenProperties
  <2>3. \A u : LinesOf(u) \subseteq LinesOf(u)' /\ GoodLinesOf(u) \subseteq GoodLinesOf(u)'
    BY <1>1, <2>2 DEF LinesOf, GoodLinesOf, ShouldRetry
  <2>4. ASSUME NEW u, GoodLinesOf(u) = {}, rec # Torn => rec.uid # u PROVE GoodLinesOf(u)' = {}
    <3>1. ASSUME NEW i \in GoodLinesOf(u)' PROVE i \in GoodLinesOf(u)
      <4>1. i \in 1 .. n + 1 /\ answers'[i] # Torn /\ answers'[i].uid = u
        BY <2>2 DEF GoodLinesOf, LinesOf
      <4>2. i # n + 1
        BY <2>2, <2>4, <4>1
      <4>3. i \in 1 .. n /\ answers'[i] = answers[i]
        BY <1>1, <2>2, <4>1, <4>2
      <4> QED BY <1>1, <3>1, <4>3 DEF GoodLinesOf, LinesOf, ShouldRetry
    <3> QED BY <2>4, <3>1
  <2>5. ASSUME answers \in Seq(Record), rec # Torn
        PROVE  answers' \in Seq(Record) /\ LinesOf(rec.uid)' # {}
    <3>1. rec \in Record
      BY <2>5 DEF Lines
    <3>2. answers' \in Seq(Record)
      BY <2>1, <2>5, <3>1, AppendProperties
    <3>3. n + 1 \in LinesOf(rec.uid)'
      BY <1>1, <2>2, <2>5 DEF LinesOf
    <3> QED BY <3>2, <3>3
  <2> QED BY <1>2, <2>2, <2>3, <2>4, <2>5
<1> QED BY <1>3, <1>4

----------------------------------------------------------------------------
(***************************************************************************)
(* TypeInv                                                                 *)
(***************************************************************************)
LEMMA TypeInit == Init => TypeInv
<1> SUFFICES ASSUME Init PROVE TypeInv
  OBVIOUS
<1>1. /\ answers = <<>> /\ answers \in Seq(Lines) /\ data = <<>> /\ data \in Seq(Record)
      /\ DOMAIN data = {}
  BY EmptySeq DEF Init
<1>2. verdict \in [DOMAIN data -> {"Yes", "No", "none"}]
  BY <1>1 DEF Init
<1>3. /\ NoResults \in [Samples -> Answers \cup {"none"}]
      /\ \A u \in Samples : NoResults[u] = "none"
  BY DEF NoResults
<1>4. 0 \in 0 .. MaxRuns
  BY EvalAssumption
<1> QED BY <1>1, <1>2, <1>3, <1>4 DEF Init, TypeInv, TypeOK, Stages, Lines, Judging

\* The actions that touch neither the answer file nor the judge's lists.
LEMMA TypeScript ==
  ASSUME TypeInv, StartScript \/ Prepare
  PROVE  TypeInv'
<1>1. /\ UNCHANGED <<answers, unended, todo, result, data, verdict, asked, gaveUp, judged, report>>
      /\ pc' \in Stages \ ({"judge", "accuracy", "asking"} \cup Judging)
      /\ pc # "asking"
  BY DEF StartScript, Prepare, AnswerFile, InferVars, JudgeVars, Stages, Judging
<1>2. runs' \in 0 .. MaxRuns
  <2>1. MaxRuns \in Nat /\ runs \in 0 .. MaxRuns
    BY EvalAssumption DEF TypeInv, TypeOK
  <2>2. CASE StartScript
    <3>1. runs < MaxRuns /\ runs' = runs + 1
      BY <2>2 DEF StartScript
    <3> QED BY <2>1, <3>1
  <2>3. CASE Prepare
    BY <2>1, <2>3 DEF Prepare
  <2> QED BY <2>2, <2>3
<1>3. bench' \in {NoFile, Torn, Whole}
  BY DEF TypeInv, TypeOK, StartScript, Prepare
<1> QED BY <1>1, <1>2, <1>3 DEF TypeInv, TypeOK, Judging

\* infer.py between reading and rewriting the answer file.
LEMMA TypeInfer ==
  ASSUME TypeInv, InferStart \/ InferEnd
  PROVE  TypeInv'
<1>1. UNCHANGED <<bench, runs, data, verdict, asked, gaveUp, judged, report>>
  BY DEF InferStart, InferEnd, JudgeVars
<1>2. answers \in Seq(Lines)
  BY DEF TypeInv, TypeOK, Lines
<1>3. /\ NoResults \in [Samples -> Answers \cup {"none"}]
      /\ \A u \in Samples : NoResults[u] = "none"
  BY DEF NoResults
<1>4. CASE InferStart /\ bench = Torn
  BY <1>1, <1>4 DEF InferStart, TypeInv, TypeOK, Judging, Stages, AnswerFile, InferVars
<1>5. ASSUME Rewrite, pc' \in {"judge", "asking"}, pc' = "judge" => todo' = {},
             todo' \in SUBSET Samples, result' \in [Samples -> Answers \cup {"none"}],
             \A u \in Samples : result'[u] # "none" => u \in todo'
      PROVE  TypeInv'
  <2>1. answers' \in Seq(Record) /\ (unended' => answers' # <<>>)
    <3>1. unended' => unended
      BY <1>5 DEF Rewrite
    <3> QED BY <1>2, <1>5, <3>1, RewriteFacts DEF TypeInv
  <2>2. answers' \in Seq(Record \cup {Torn})
    BY <2>1, SeqMonotonic
  <2>3. unended' \in BOOLEAN
    BY <1>5 DEF Rewrite, TypeInv, TypeOK
  <2> QED BY <1>1, <1>5, <2>1, <2>2, <2>3 DEF TypeInv, TypeOK, Judging, Stages
<1>6. CASE InferStart /\ bench # Torn
  <2>1. /\ Rewrite /\ todo' = Samples \ Done /\ result' = NoResults
        /\ pc' = IF todo' = {} THEN "judge" ELSE "asking"
    BY <1>6 DEF InferStart
  <2> QED BY <1>3, <1>5, <2>1
<1>7. CASE InferEnd
  <2>1. result \in [Samples -> Answers \cup {"none"}] /\ todo \in SUBSET Samples
    BY DEF TypeInv, TypeOK
  <2>2. /\ Rewrite /\ pc' = "judge" /\ todo = {} /\ todo' = todo /\ result' = result
    BY <1>7 DEF InferEnd, InferVars
  <2>3. \A u \in Samples : result[u] # "none" => u \in todo
    BY DEF TypeInv
  <2> QED BY <1>5, <2>1, <2>2, <2>3
<1> QED BY <1>4, <1>6, <1>7

LEMMA TypeAsk ==
  ASSUME TypeInv, NEW u \in Samples, Ask(u)
  PROVE  TypeInv'
<1>1. /\ pc = "asking" /\ u \in todo
      /\ UNCHANGED <<bench, answers, unended, pc, runs, todo, data, verdict, asked, gaveUp, judged, report>>
  BY DEF Ask, AnswerFile, JudgeVars
<1>2. PICK ans \in Answers : result' = [result EXCEPT ![u] = ans]
  BY DEF Ask
<1>3. /\ result' \in [Samples -> Answers \cup {"none"}]
      /\ \A v \in Samples : result'[v] # "none" => v \in todo
  BY <1>1, <1>2 DEF TypeInv, TypeOK
<1> QED BY <1>1, <1>3 DEF TypeInv, TypeOK, Judging

\* What a call returned makes a record.
LEMMA ResultRecord ==
  ASSUME TypeInv, NEW u \in Samples, result[u] # "none"
  PROVE  /\ [uid |-> u, ans |-> result[u]] \in Record
         /\ [uid |-> u, ans |-> result[u]] # Torn
         /\ pc = "asking" /\ u \in todo
<1>1. result[u] \in Answers
  BY DEF TypeInv, TypeOK
<1>2. [uid |-> u, ans |-> result[u]] \in Record
  BY <1>1 DEF Record
<1> QED BY <1>2, TornAssumption DEF TypeInv

LEMMA TypeWrite ==
  ASSUME TypeInv, NEW u \in Samples, WriteResult(u)
  PROVE  TypeInv'
<1>1. /\ pc = "asking" /\ AppendLine([uid |-> u, ans |-> result[u]], FALSE)
      /\ result' = [result EXCEPT ![u] = "none"] /\ todo' = todo \ {u} /\ result[u] # "none"
      /\ UNCHANGED <<bench, pc, runs, data, verdict, asked, gaveUp, judged, report>>
  BY DEF WriteResult, JudgeVars
<1>2. answers' \in Seq(Lines) /\ unended' = FALSE
  <2>1. [uid |-> u, ans |-> result[u]] \in Lines
    BY <1>1, ResultRecord DEF Lines
  <2>2. answers \in Seq(Lines) /\ (unended => answers # <<>>)
    BY DEF TypeInv, TypeOK, Lines
  <2> QED BY <1>1, <2>1, <2>2, AppendFacts
<1>3. /\ result' \in [Samples -> Answers \cup {"none"}]
      /\ \A v \in Samples : result'[v] # "none" => v \in todo'
  BY <1>1 DEF TypeInv, TypeOK
<1> QED BY <1>1, <1>2, <1>3 DEF TypeInv, TypeOK, Judging, Lines

LEMMA TypeJudge ==
  ASSUME TypeInv, JudgeStart \/ (\E i \in DOMAIN data : JudgeItem(i)) \/ JudgeWrite
  PROVE  TypeInv'
<1>1. UNCHANGED <<bench, answers, unended, runs, todo, result, report>>
  BY DEF JudgeStart, JudgeItem, JudgeWrite, AnswerFile, InferVars
<1>2. CASE JudgeStart
  <2>1. /\ pc = "judge" /\ pc' = "judging" /\ data' = answers /\ gaveUp' = {} /\ judged' = judged
        /\ answers \in Seq(Record)
    BY <1>2 DEF JudgeStart, TypeInv
  <2>2. PICK grade \in [DOMAIN answers -> {"asked", "graded", "both"}] :
          /\ verdict' = [i \in DOMAIN answers |-> IF grade[i] = "asked" THEN "none" ELSE "Yes"]
          /\ asked' = {i \in DOMAIN answers : grade[i] # "graded"}
    BY <1>2 DEF JudgeStart
  <2>3. /\ verdict' \in [DOMAIN data' -> {"Yes", "No", "none"}] /\ asked' \in SUBSET (DOMAIN data')
        /\ gaveUp' \in SUBSET (DOMAIN data')
        /\ \A i \in DOMAIN data' \ asked' : verdict'[i] # "none"
    BY <2>1, <2>2
  <2> QED BY <1>1, <2>1, <2>3 DEF TypeInv, TypeOK, Stages, Judging
<1>3. ASSUME NEW i \in DOMAIN data, JudgeItem(i) PROVE TypeInv'
  <2>1. /\ pc = "judging" /\ pc' = pc /\ i \in asked /\ asked' = asked \ {i}
        /\ data' = data /\ judged' = judged
        /\ gaveUp' = gaveUp \/ gaveUp' = gaveUp \cup {i}
        /\ \E v \in {"Yes", "No"} : verdict' = [verdict EXCEPT ![i] = v]
    BY <1>3 DEF JudgeItem, Verdict
  <2>2. /\ verdict \in [DOMAIN data -> {"Yes", "No", "none"}]
        /\ \A j \in DOMAIN data \ asked : verdict[j] # "none"
    BY <2>1 DEF TypeInv, TypeOK, Judging
  <2>3. /\ verdict' \in [DOMAIN data -> {"Yes", "No", "none"}]
        /\ \A j \in DOMAIN data \ asked' : verdict'[j] # "none"
    BY <2>1, <2>2
  <2> QED BY <1>1, <2>1, <2>3 DEF TypeInv, TypeOK, Stages, Judging
<1>4. CASE JudgeWrite /\ pc = "judging"
  <2>1. asked = {} /\ pc' = "judge_close" /\ judged' = Torn
        /\ UNCHANGED <<data, verdict, asked, gaveUp>>
    BY <1>4 DEF JudgeWrite, JudgeVars
  <2> QED BY <1>1, <1>4, <2>1 DEF TypeInv, TypeOK, Stages, Judging
<1>5. CASE JudgeWrite /\ pc = "judge_close"
  <2>1. /\ pc' = "accuracy" /\ judged' = [i \in DOMAIN data |-> <<data[i], verdict[i]>>]
        /\ UNCHANGED <<data, verdict, asked, gaveUp>>
    BY <1>5 DEF JudgeWrite, JudgeVars
  <2>2. /\ data \in Seq(Record) /\ \A i \in DOMAIN data : verdict[i] \in {"Yes", "No"}
    BY <1>5 DEF TypeInv, TypeOK, Judging
  <2>3. DOMAIN data = 1 .. Len(data) /\ Len(data) \in Nat /\ \A i \in DOMAIN data : data[i] \in Record
    BY <2>2, LenProperties
  <2>4. judged' \in Seq(Record \X {"Yes", "No"})
    <3>1. judged' \in [1 .. Len(data) -> Record \X {"Yes", "No"}]
      BY <2>1, <2>2, <2>3
    <3> QED BY <2>3, <3>1
  <2> QED BY <1>1, <2>1, <2>4, <1>5 DEF TypeInv, TypeOK, Stages, Judging
<1>6. JudgeWrite => pc \in {"judging", "judge_close"}
  BY DEF JudgeWrite
<1> QED BY <1>2, <1>3, <1>4, <1>5, <1>6

LEMMA TypeAccuracy ==
  ASSUME TypeInv, Accuracy
  PROVE  TypeInv'
<1>1. /\ pc = "accuracy" /\ pc' = "done"
      /\ UNCHANGED <<bench, answers, unended, runs, todo, result, data, verdict, asked, gaveUp, judged>>
      /\ report' = [correct |-> Cardinality({i \in DOMAIN judged : judged[i][2] = "Yes"}),
                    total |-> Len(judged)]
  BY DEF Accuracy, AnswerFile, InferVars, JudgeVars
<1>2. Len(judged) \in Nat /\ DOMAIN judged = 1 .. Len(judged)
  BY <1>1, LenProperties DEF TypeInv
<1>3. Cardinality({i \in DOMAIN judged : judged[i][2] = "Yes"}) \in Nat
  <2>1. 1 \in Int /\ Len(judged) \in Int
    BY <1>2
  <2>2. IsFiniteSet(DOMAIN judged)
    BY <1>2, <2>1, FS_Interval
  <2> QED BY <2>2, FS_Subset, FS_CardinalityType
<1>4. report' \in [correct : Nat, total : Nat]
  BY <1>1, <1>2, <1>3
<1> QED BY <1>1, <1>4 DEF TypeInv, TypeOK, Stages, Judging

LEMMA TypeKill ==
  ASSUME TypeInv, Kill
  PROVE  TypeInv'
<1>1. /\ pc' = "down" /\ todo' = {} /\ result' = NoResults /\ data' = <<>> /\ verdict' = <<>>
      /\ asked' = {} /\ gaveUp' = {} /\ UNCHANGED <<bench, runs, judged, report>>
  BY DEF Kill
<1>2. /\ NoResults \in [Samples -> Answers \cup {"none"}]
      /\ \A u \in Samples : NoResults[u] = "none"
  BY DEF NoResults
<1>3. /\ answers' \in Seq(Record \cup {Torn}) /\ unended' \in BOOLEAN
      /\ unended' => answers' # <<>>
  <2>1. answers \in Seq(Lines) /\ (unended => answers # <<>>) /\ unended \in BOOLEAN
    BY DEF TypeInv, TypeOK, Lines
  <2>2. CASE UNCHANGED AnswerFile
    BY <2>1, <2>2 DEF AnswerFile, Lines
  <2>3. ASSUME NEW rec \in Lines, NEW cut \in BOOLEAN, AppendLine(rec, cut)
        PROVE  answers' \in Seq(Lines) /\ unended' \in BOOLEAN /\ answers' # <<>>
    BY <2>1, <2>3, AppendFacts
  <2>4. UNCHANGED AnswerFile \/ \E rec \in Lines, cut \in BOOLEAN : AppendLine(rec, cut)
    BY ResultRecord DEF Kill, Lines
  <2> QED BY <2>2, <2>3, <2>4 DEF Lines
<1>4. data' \in Seq(Record) /\ DOMAIN data' = {}
  BY <1>1, EmptySeq
<1>5. verdict' \in [DOMAIN data' -> {"Yes", "No", "none"}]
  BY <1>1, <1>4
<1> QED BY <1>1, <1>2, <1>3, <1>4, <1>5 DEF TypeInv, TypeOK, Stages, Judging

LEMMA TypeStep == TypeInv /\ [Next]_vars => TypeInv'
<1> SUFFICES ASSUME TypeInv, [Next]_vars PROVE TypeInv'
  OBVIOUS
<1>1. CASE UNCHANGED vars
  BY <1>1 DEF vars, TypeInv, TypeOK, Judging
<1>2. CASE Next
  BY <1>2, TypeScript, TypeInfer, TypeAsk, TypeWrite, TypeJudge, TypeAccuracy, TypeKill
     DEF Next, Progress
<1> QED BY <1>1, <1>2

\* Every variable keeps its type, and the judge reads whole records only, wherever a
\* kill cuts a line.
THEOREM TypeTheorem == Spec => []TypeOK
<1>1. TypeInv => TypeOK
  BY DEF TypeInv
<1> QED BY TypeInit, TypeStep, <1>1, PTL DEF Spec

----------------------------------------------------------------------------
(***************************************************************************)
(* Who is asked                                                            *)
(***************************************************************************)

\* The actions that leave the answer file and infer.py's lists alone.
LEMMA AnswersFrame ==
  ASSUME \/ StartScript \/ Prepare \/ JudgeStart \/ (\E i \in DOMAIN data : JudgeItem(i))
         \/ JudgeWrite \/ Accuracy \/ UNCHANGED vars
  PROVE  /\ UNCHANGED <<answers, unended, todo, result>>
         /\ pc' = pc \/ (pc # "asking" /\ pc' # "asking")
BY DEF StartScript, Prepare, JudgeStart, JudgeItem, JudgeWrite, Accuracy, vars,
       AnswerFile, InferVars

\* An action is in the frame or works on the answer file.
LEMMA NextSplit ==
  ASSUME [Next]_vars
  PROVE  \/ StartScript \/ Prepare \/ JudgeStart \/ (\E i \in DOMAIN data : JudgeItem(i))
         \/ JudgeWrite \/ Accuracy \/ UNCHANGED vars
         \/ InferStart \/ InferEnd \/ Kill
         \/ \E u \in Samples : Ask(u) \/ WriteResult(u)
BY DEF Next, Progress

LEMMA LinesFrame ==
  ASSUME answers' = answers
  PROVE  \A u : LinesOf(u)' = LinesOf(u) /\ GoodLinesOf(u)' = GoodLinesOf(u)
BY DEF LinesOf, GoodLinesOf, ShouldRetry

LEMMA AskStep == TypeInv /\ AskInv /\ [Next]_vars => AskInv'
<1> SUFFICES ASSUME TypeInv, AskInv, [Next]_vars, pc' = "asking", NEW u \in todo'
             PROVE  GoodLinesOf(u)' = {}
  BY DEF AskInv
<1>1. answers \in Seq(Lines) /\ (unended => answers # <<>>)
  BY DEF TypeInv, TypeOK, Lines
<1>2. ASSUME pc = "asking", answers' = answers, todo' = todo PROVE GoodLinesOf(u)' = {}
  BY <1>2, LinesFrame DEF AskInv
<1>3. CASE InferStart
  <2>1. Rewrite /\ todo' = Samples \ Done
    BY <1>3 DEF InferStart
  <2>2. u \in Samples /\ ~ (LinesOf(u) # {} /\ ~ShouldRetry(answers[BestLine(u)]))
    BY <2>1 DEF Done
  <2>3. GoodLinesOf(u) = {}
    <3>1. CASE LinesOf(u) = {}
      BY <3>1 DEF GoodLinesOf
    <3>2. CASE LinesOf(u) # {}
      BY <1>1, <2>2, <3>2, BestFacts
    <3> QED BY <3>1, <3>2
  <2> QED BY <1>1, <2>1, <2>3, RewriteFacts
<1>4. ASSUME NEW v \in Samples, WriteResult(v) PROVE GoodLinesOf(u)' = {}
  <2>1. /\ AppendLine([uid |-> v, ans |-> result[v]], FALSE) /\ result[v] # "none"
        /\ pc = "asking" /\ u \in todo /\ u # v
    BY <1>4 DEF WriteResult
  <2>2. GoodLinesOf(u) = {}
    BY <2>1 DEF AskInv
  <2>3. [uid |-> v, ans |-> result[v]] \in Lines
    BY <2>1, ResultRecord DEF Lines
  <2> QED BY <1>1, <2>1, <2>2, <2>3, AppendFacts
<1>5. ASSUME NEW v \in Samples, Ask(v) PROVE GoodLinesOf(u)' = {}
  BY <1>2, <1>5 DEF Ask, AnswerFile
<1>6. ~InferEnd /\ ~Kill
  BY DEF InferEnd, Kill
<1> QED BY <1>2, <1>3, <1>4, <1>5, <1>6, NextSplit, AnswersFrame

\* infer.py submits no sample again whose answer is in the file, in whichever order
\* answers, kills and restarts come and wherever they cut a line.
THEOREM AskedTheorem == Spec => AnsweredNotAskedAgain
<1>1. Init => AskInv
  BY DEF Init, AskInv
<1>2. ASSUME TypeInv, AskInv, [Next]_vars, NEW u \in Samples, result[u] = "none", result'[u] # "none"
      PROVE  GoodLinesOf(u) = {}
  <2>1. result' # result /\ result' # NoResults
    BY <1>2 DEF NoResults
  <2>2. ~ (InferStart \/ InferEnd \/ Kill)
    BY <2>1 DEF InferStart, InferEnd, Kill, InferVars
  <2>3. PICK v \in Samples : Ask(v) \/ WriteResult(v)
    BY <1>2, <2>1, <2>2, NextSplit, AnswersFrame
  <2>4. result \in [Samples -> Answers \cup {"none"}]
    BY <1>2 DEF TypeInv, TypeOK
  <2>5. ~WriteResult(v)
    <3>1. ASSUME WriteResult(v) PROVE FALSE
      <4>1. result' = [result EXCEPT ![v] = "none"]
        BY <3>1 DEF WriteResult
      <4> QED BY <1>2, <2>4, <4>1
    <3> QED BY <3>1
  <2>6. Ask(v) /\ pc = "asking" /\ v \in todo
    BY <2>3, <2>5 DEF Ask
  <2>7. u = v
    BY <1>2, <2>4, <2>6 DEF Ask
  <2> QED BY <1>2, <2>6, <2>7 DEF AskInv
<1>3. TypeInv /\ AskInv /\ [Next]_vars =>
        [\A u \in Samples :
           result[u] = "none" /\ result'[u] # "none" => GoodLinesOf(u) = {}]_vars
  BY <1>2
<1> QED BY TypeInit, TypeStep, AskStep, <1>1, <1>3, PTL DEF Spec, AnsweredNotAskedAgain

----------------------------------------------------------------------------
(***************************************************************************)
(* One line of each sample                                                 *)
(***************************************************************************)
LEMMA RowsStep == NewlineKept /\ TypeInv /\ RowsInv /\ [Next]_vars => RowsInv'
<1> SUFFICES ASSUME NewlineKept, TypeInv, RowsInv, [Next]_vars PROVE RowsInv'
  OBVIOUS
<1>1. answers \in Seq(Lines) /\ unended = FALSE
  BY DEF TypeInv, TypeOK, Lines, RowsInv
<1>2. ASSUME answers' = answers, unended' = unended,
             pc' = "asking" => pc = "asking" /\ todo' = todo,
             pc' \in {"judge"} \cup Judging \cup Ended => pc \in {"judge"} \cup Judging \cup Ended
      PROVE  RowsInv'
  <2>1. EachOnce' = EachOnce
    BY <1>2, LinesFrame DEF EachOnce
  <2> QED BY <1>2, <2>1, LinesFrame DEF RowsInv
<1>3. ASSUME StartScript \/ Prepare \/ JudgeStart \/ (\E i \in DOMAIN data : JudgeItem(i))
             \/ JudgeWrite \/ Accuracy \/ UNCHANGED vars
      PROVE  RowsInv'
  <2>1. pc' \in {"judge"} \cup Judging \cup Ended => pc \in {"judge"} \cup Judging \cup Ended
    BY <1>3 DEF StartScript, Prepare, JudgeStart, JudgeItem, JudgeWrite, Accuracy, vars,
                Judging, Ended
  <2> QED BY <1>2, <1>3, <2>1, AnswersFrame
<1>4. ASSUME Rewrite, pc' \in {"judge", "asking"}, todo' \in SUBSET Samples,
             pc' = "judge" => todo' = {}, \A u \in Samples \ todo' : LinesOf(u) # {}
      PROVE  RowsInv'
  <2>1. unended' = FALSE
    BY <1>1, <1>4 DEF Rewrite
  <2>2. answers' \in Seq(Record)
    BY <1>1, <1>4, RewriteFacts
  <2>3. \A u \in Samples \ todo' : \E k \in DOMAIN answers' : LinesOf(u)' = {k}
    BY <1>1, <1>4, RewriteFacts
  <2>4. \A u \in Samples \ todo' : LinesOf(u)' # {}
    BY <2>3
  <2>5. pc' = "judge" => EachOnce'
    BY <1>4, <2>3 DEF EachOnce
  <2> QED BY <1>4, <2>1, <2>2, <2>4, <2>5 DEF RowsInv, Judging, Ended
<1>5. CASE InferStart
  <2>1. CASE bench = Torn
    BY <1>1, <1>5, <2>1 DEF InferStart, RowsInv, AnswerFile, Judging, Ended
  <2>2. CASE bench # Torn
    <3>1. Rewrite /\ todo' = Samples \ Done /\ pc' = IF todo' = {} THEN "judge" ELSE "asking"
      BY <1>5, <2>2 DEF InferStart
    <3> QED BY <1>4, <3>1 DEF Done
  <2> QED BY <2>1, <2>2
<1>6. CASE InferEnd
  <2>1. Rewrite /\ todo = {} /\ todo' = {} /\ pc = "asking" /\ pc' = "judge"
    BY <1>6 DEF InferEnd, InferVars
  <2> QED BY <1>4, <2>1 DEF RowsInv
<1>7. ASSUME NEW v \in Samples, Ask(v) PROVE RowsInv'
  BY <1>2, <1>7 DEF Ask, AnswerFile
<1>8. ASSUME NEW v \in Samples, WriteResult(v) PROVE RowsInv'
  <2> DEFINE rec == [uid |-> v, ans |-> result[v]]
  <2>1. /\ AppendLine(rec, FALSE) /\ result[v] # "none" /\ pc = "asking" /\ pc' = "asking"
        /\ todo' = todo \ {v}
    BY <1>8 DEF WriteResult
  <2>2. rec \in Lines /\ rec # Torn /\ rec.uid = v
    BY <2>1, ResultRecord DEF Lines
  <2>3. answers \in Seq(Record) /\ \A u \in Samples \ todo : LinesOf(u) # {}
    BY <2>1 DEF RowsInv
  <2> HIDE DEF rec
  <2>4. /\ answers' \in Seq(Record) /\ unended' = FALSE /\ LinesOf(v)' # {}
        /\ \A u : LinesOf(u) \subseteq LinesOf(u)'
    BY <1>1, <2>1, <2>2, <2>3, AppendFacts
  <2>5. \A u \in Samples \ todo' : LinesOf(u)' # {}
    BY <2>1, <2>3, <2>4
  <2> QED BY <2>1, <2>4, <2>5 DEF RowsInv, Judging, Ended
<1>9. CASE Kill
  <2>1. pc' = "down" /\ unended' = FALSE
    BY <1>1, <1>9 DEF Kill, AnswerFile, AppendLine, NewlineKept
  <2> QED BY <2>1 DEF RowsInv, Judging, Ended
<1> QED BY <1>3, <1>5, <1>6, <1>7, <1>8, <1>9, NextSplit

LEMMA RowsInit == Init => RowsInv
BY DEF Init, RowsInv, Judging, Ended

\* What infer.py hands to the judge has exactly one record of each sample of the
\* benchmark, after any sequence of kills, torn lines, failures and repeated calls,
\* unless an append is cut just before its newline.
THEOREM OnceTheorem ==
  ASSUME NewlineKept
  PROVE  Spec => []EachSampleJudgedOnce
<1>1. ASSUME RowsInv PROVE EachSampleJudgedOnce
  <2> SUFFICES ASSUME pc \in {"judge"} \cup Judging, NEW u \in Samples
               PROVE  Cardinality(LinesOf(u)) = 1
    BY DEF EachSampleJudgedOnce, LinesOf, Judging
  <2>1. PICK k \in DOMAIN answers : LinesOf(u) = {k}
    BY <1>1 DEF RowsInv, EachOnce
  <2> QED BY <2>1, FS_Singleton
<1>2. TypeInv /\ RowsInv /\ [Next]_vars => (TypeInv /\ RowsInv)'
  BY TypeStep, RowsStep
<1> QED BY TypeInit, RowsInit, <1>1, <1>2, PTL DEF Spec

\* No step of infer.py and no kill in the middle of a line loses an answer the file has:
\* neither a later failure of the same sample nor a torn line behind it.
THEOREM SurviveTheorem ==
  ASSUME NewlineKept
  PROVE  Spec => AnswersSurvive
<1>1. ASSUME TypeInv, RowsInv, [Next]_vars, NEW u \in Samples, GoodLinesOf(u) # {}
      PROVE  GoodLinesOf(u)' # {}
  <2>1. answers \in Seq(Lines) /\ unended = FALSE
    BY <1>1 DEF TypeInv, TypeOK, Lines, RowsInv
  <2>2. ASSUME answers' = answers PROVE GoodLinesOf(u)' # {}
    BY <1>1, <2>2, LinesFrame
  <2>3. ASSUME Rewrite PROVE GoodLinesOf(u)' # {}
    BY <1>1, <2>1, <2>3, RewriteFacts
  <2>4. ASSUME NEW v \in Samples, result[v] # "none", NEW rec \in Lines, NEW cut,
               AppendLine(rec, cut)
        PROVE  GoodLinesOf(u)' # {}
    <3>1. answers \in Seq(Record)
      BY <1>1, <2>4, ResultRecord DEF RowsInv
    <3>2. GoodLinesOf(u) \subseteq GoodLinesOf(u)'
      BY <2>1, <2>4, <3>1, AppendFacts
    <3> QED BY <1>1, <3>2
  <2>5. CASE InferStart \/ InferEnd
    BY <2>2, <2>3, <2>5 DEF InferStart, InferEnd, AnswerFile
  <2>6. ASSUME NEW v \in Samples, Ask(v) PROVE GoodLinesOf(u)' # {}
    BY <2>2, <2>6 DEF Ask, AnswerFile
  <2>7. ASSUME NEW v \in Samples, WriteResult(v) PROVE GoodLinesOf(u)' # {}
    <3>1. result[v] # "none" /\ AppendLine([uid |-> v, ans |-> result[v]], FALSE)
      BY <2>7 DEF WriteResult
    <3>2. [uid |-> v, ans |-> result[v]] \in Lines
      BY <1>1, <3>1, ResultRecord DEF Lines
    <3> QED BY <2>4, <3>1, <3>2
  <2>8. CASE Kill
    <3>1. \/ UNCHANGED AnswerFile
          \/ \E v \in Samples : result[v] # "none" /\ AppendLine(Torn, FALSE)
      BY <1>1, <2>8 DEF Kill, NewlineKept
    <3>2. Torn \in Lines
      BY DEF Lines
    <3> QED BY <2>2, <2>4, <3>1, <3>2 DEF AnswerFile
  <2> QED BY <1>1, <2>2, <2>5, <2>6, <2>7, <2>8, NextSplit, AnswersFrame
<1>2. TypeInv /\ RowsInv /\ [Next]_vars =>
        [\A u \in Samples : GoodLinesOf(u) # {} => GoodLinesOf(u)' # {}]_vars
  BY <1>1
<1>3. TypeInv /\ RowsInv /\ [Next]_vars => (TypeInv /\ RowsInv)'
  BY TypeStep, RowsStep
<1> QED BY TypeInit, RowsInit, <1>2, <1>3, PTL DEF Spec, AnswersSurvive

----------------------------------------------------------------------------
(***************************************************************************)
(* Verdicts                                                                *)
(***************************************************************************)

\* Between the judge's start and the next run only the judge and the count act.
LEMMA JudgeSplit ==
  ASSUME [Next]_vars, pc' \in Judging \cup Ended
  PROVE  \/ JudgeStart
         \/ \E i \in DOMAIN data : JudgeItem(i)
         \/ JudgeWrite
         \/ Accuracy
         \/ /\ pc' = pc
            /\ UNCHANGED <<answers, data, verdict, asked, gaveUp, judged, report>>
<1>1. ~ (StartScript \/ Prepare \/ InferStart \/ InferEnd \/ Kill)
  BY DEF StartScript, Prepare, InferStart, InferEnd, Kill, Judging, Ended
<1>2. ~ \E u \in Samples : Ask(u) \/ WriteResult(u)
  BY DEF Ask, WriteResult, Judging, Ended
<1>3. UNCHANGED vars => /\ pc' = pc
                        /\ UNCHANGED <<answers, data, verdict, asked, gaveUp, judged, report>>
  BY DEF vars
<1> QED BY <1>1, <1>2, <1>3, NextSplit

LEMMA JudgedStep == TypeInv /\ JudgedInv /\ [Next]_vars => JudgedInv'
<1> SUFFICES ASSUME TypeInv, JudgedInv, [Next]_vars PROVE JudgedInv'
  OBVIOUS
<1>1. CASE pc' \notin Judging \cup Ended
  BY <1>1 DEF JudgedInv, Ended
<1>2. CASE JudgeStart
  <2>1. pc = "judge" /\ pc' = "judging" /\ data' = answers /\ answers' = answers
    BY <1>2 DEF JudgeStart, AnswerFile
  <2> QED BY <2>1 DEF JudgedInv, TypeInv, Ended
<1>3. ASSUME NEW i \in DOMAIN data, JudgeItem(i) PROVE JudgedInv'
  <2>1. pc = "judging" /\ pc' = "judging" /\ data' = data /\ answers' = answers
    BY <1>3 DEF JudgeItem, AnswerFile
  <2> QED BY <2>1 DEF JudgedInv, Ended, Judging
<1>4. CASE JudgeWrite
  <2>1. data' = data /\ answers' = answers /\ pc \in Judging
    BY <1>4 DEF JudgeWrite, AnswerFile, JudgeVars, Judging
  <2>2. \/ pc' = "judge_close"
        \/ pc' = "accuracy" /\ judged' = [i \in DOMAIN data |-> <<data[i], verdict[i]>>]
    BY <1>4 DEF JudgeWrite
  <2> QED BY <2>1, <2>2 DEF JudgedInv, Ended
<1>5. CASE Accuracy
  <2>1. /\ pc = "accuracy" /\ pc' = "done"
        /\ data' = data /\ answers' = answers /\ judged' = judged
        /\ report' = [correct |-> Cardinality({i \in DOMAIN judged : judged[i][2] = "Yes"}),
                      total |-> Len(judged)]
    BY <1>5 DEF Accuracy, AnswerFile, JudgeVars
  <2>2. /\ data = answers /\ answers \in Seq(Record) /\ DOMAIN judged = DOMAIN data
        /\ \A i \in DOMAIN data : judged[i][1] = data[i]
    BY <2>1 DEF JudgedInv, Ended
  <2>3. Len(judged) = Len(data)
    <3>1. judged \in Seq(Record \X {"Yes", "No"}) /\ data \in Seq(Record)
      BY <2>1, <2>2 DEF TypeInv
    <3>2. Len(judged) \in Nat /\ Len(data) \in Nat /\ 1 .. Len(judged) = 1 .. Len(data)
      BY <2>2, <3>1, LenProperties
    <3> QED BY <3>2
  <2> QED BY <2>1, <2>2, <2>3 DEF JudgedInv
<1>6. CASE /\ pc' = pc
           /\ UNCHANGED <<answers, data, verdict, asked, gaveUp, judged, report>>
  BY <1>6 DEF JudgedInv
<1> QED BY <1>1, <1>2, <1>3, <1>4, <1>5, <1>6, JudgeSplit

\* A grader that needs no judge marks right answers only.
LEMMA GradesDeserved ==
  ASSUME NoKeyIsA, NEW rec \in Record, RuleGrades(rec) # {"asked"}, rec.ans \notin Failures
  PROVE  rec.ans = "right"
<1>1. rec.uid \in Samples /\ rec.ans \in {"right", "wrong", "empty"}
  BY DEF Record, Answers
<1>2. Gold[rec.uid] \in {"A", "B", "F"}
  BY <1>1, EvalAssumption
<1>3. CASE rec.ans # "right"
  <2>1. Kind = "mcq" /\ Gold[rec.uid] \in FirstLetters(rec)
    BY <1>3 DEF RuleGrades
  <2>2. FirstLetters(rec) \subseteq {"A", "none"}
    BY <1>1, <1>3 DEF FirstLetters
  <2>3. Gold[rec.uid] # "A"
    BY <1>1, <2>1 DEF NoKeyIsA
  <2> QED BY <1>2, <2>1, <2>2, <2>3
<1> QED BY <1>3

LEMMA VerdictStep ==
  ASSUME NoKeyIsA, TypeInv, JudgedInv, VerdictInv, [Next]_vars
  PROVE  VerdictInv'
<1>1. CASE pc' \notin Judging \cup Ended
  BY <1>1 DEF VerdictInv
<1>2. CASE JudgeStart
  <2>1. pc = "judge" /\ pc' = "judging" /\ data' = answers /\ answers \in Seq(Record)
    BY <1>2 DEF JudgeStart, TypeInv
  <2>2. PICK grade \in [DOMAIN answers -> {"asked", "graded", "both"}] :
          /\ \A i \in DOMAIN answers : grade[i] \in RuleGrades(answers[i])
          /\ verdict' = [i \in DOMAIN answers |-> IF grade[i] = "asked" THEN "none" ELSE "Yes"]
          /\ asked' = {i \in DOMAIN answers : grade[i] # "graded"}
    BY <1>2 DEF JudgeStart
  <2>3. ASSUME NEW i \in DOMAIN data' \ asked', data'[i].ans \notin Failures
        PROVE  verdict'[i] = "Yes" /\ data'[i].ans = "right"
    <3>1. i \in DOMAIN answers /\ grade[i] = "graded"
      BY <2>1, <2>2
    <3>2. verdict'[i] = "Yes" /\ "graded" \in RuleGrades(answers[i])
      BY <2>2, <3>1
    <3>3. answers[i] \in Record /\ answers[i].ans \notin Failures
      BY <2>1, <2>3, <3>1, NoTorn
    <3> QED BY <2>1, <3>2, <3>3, GradesDeserved
  <2>4. \A i \in DOMAIN data' \ asked' : Deserved(i, verdict[i])'
    BY <2>3 DEF Deserved, Failures
  <2> QED BY <2>1, <2>4 DEF VerdictInv, Ended
<1>3. ASSUME NEW i \in DOMAIN data, JudgeItem(i) PROVE VerdictInv'
  <2>1. /\ pc = "judging" /\ pc' = "judging" /\ i \in asked /\ asked' = asked \ {i} /\ data' = data
        /\ \/ verdict' = [verdict EXCEPT ![i] = Verdict(i)] /\ gaveUp' = gaveUp
           \/ verdict' = [verdict EXCEPT ![i] = "No"] /\ gaveUp' = gaveUp \cup {i}
    BY <1>3 DEF JudgeItem
  <2>2. /\ DOMAIN verdict = DOMAIN data
        /\ \A j \in DOMAIN data \ asked : Deserved(j, verdict[j])
    BY <2>1 DEF TypeInv, TypeOK, VerdictInv, Judging
  <2>3. ASSUME NEW j \in DOMAIN data' \ asked' PROVE Deserved(j, verdict[j])'
    <3>1. CASE j = i
      BY <2>1, <2>2, <3>1 DEF Deserved, Verdict
    <3>2. CASE j # i
      <4>1. j \in DOMAIN data \ asked /\ verdict'[j] = verdict[j] /\ (j \in gaveUp <=> j \in gaveUp')
        BY <2>1, <2>2, <2>3, <3>2
      <4> QED BY <2>1, <2>2, <4>1 DEF Deserved, Failures
    <3> QED BY <3>1, <3>2
  <2> QED BY <2>1, <2>3 DEF VerdictInv, Ended
<1>4. CASE JudgeWrite
  <2>1. /\ UNCHANGED <<data, verdict, asked, gaveUp>> /\ pc \in Judging
        /\ \/ pc' = "judge_close"
           \/ /\ pc = "judge_close" /\ pc' = "accuracy"
              /\ judged' = [i \in DOMAIN data |-> <<data[i], verdict[i]>>]
    BY <1>4 DEF JudgeWrite, JudgeVars, Judging
  <2>2. \A i \in DOMAIN data \ asked : Deserved(i, verdict[i])
    BY <2>1 DEF VerdictInv
  <2>3. CASE pc' = "judge_close"
    BY <2>1, <2>2, <2>3 DEF VerdictInv, Deserved, Failures, Ended
  <2>4. CASE pc = "judge_close" /\ pc' = "accuracy"
             /\ judged' = [i \in DOMAIN data |-> <<data[i], verdict[i]>>]
    <3>1. asked = {}
      BY <2>4 DEF TypeInv
    <3>2. \A i \in DOMAIN data : judged'[i][2] = verdict[i]
      BY <2>4
    <3> QED BY <2>1, <2>2, <2>4, <3>1, <3>2 DEF VerdictInv, Deserved, Failures, Judging
  <2> QED BY <2>1, <2>3, <2>4
<1>5. CASE Accuracy
  <2>1. pc = "accuracy" /\ pc' = "done" /\ UNCHANGED <<data, gaveUp, judged>>
    BY <1>5 DEF Accuracy, JudgeVars
  <2> QED BY <2>1 DEF VerdictInv, Deserved, Failures, Judging, Ended
<1>6. CASE /\ pc' = pc
           /\ UNCHANGED <<answers, data, verdict, asked, gaveUp, judged, report>>
  BY <1>6 DEF VerdictInv, Deserved, Failures
<1> QED BY <1>1, <1>2, <1>3, <1>4, <1>5, <1>6, JudgeSplit

LEMMA VerdictInit == Init => JudgedInv /\ VerdictInv
BY DEF Init, JudgedInv, VerdictInv, Judging, Ended

\* Wherever neither service failed, an item of the judged file is marked "Yes" exactly
\* if its answer is right, in whichever order the judge's replies arrive and whatever
\* the rule graders took off its hands.
THEOREM VerdictTheorem ==
  ASSUME NoKeyIsA
  PROVE  Spec => []VerdictsBelongToTheirItems
<1>1. TypeInv /\ JudgedInv /\ VerdictInv /\ [Next]_vars => (TypeInv /\ JudgedInv /\ VerdictInv)'
  BY TypeStep, JudgedStep, VerdictStep
<1>2. JudgedInv /\ VerdictInv => VerdictsBelongToTheirItems
  BY DEF JudgedInv, VerdictInv, VerdictsBelongToTheirItems, Deserved, Ended
<1> QED BY TypeInit, VerdictInit, <1>1, <1>2, PTL DEF Spec

----------------------------------------------------------------------------
(***************************************************************************)
(* The report                                                              *)
(***************************************************************************)

\* Where each sample has one line, counting lines is counting samples.
LEMMA LinesCountSamples ==
  ASSUME answers \in Seq(Record), EachOnce, NEW T \in SUBSET DOMAIN answers
  PROVE  Cardinality(T) = Cardinality({u \in Samples : \E i \in T : i \in LinesOf(u)})
<1> DEFINE U == {u \in Samples : \E i \in T : i \in LinesOf(u)}
           f == [i \in T |-> answers[i].uid]
<1>1. /\ Len(answers) \in Nat /\ DOMAIN answers = 1 .. Len(answers)
      /\ \A i \in DOMAIN answers : answers[i] \in Record /\ answers[i] # Torn
  BY LenProperties, NoTorn
<1>2. IsFiniteSet(T)
  <2>1. 1 \in Int /\ Len(answers) \in Int
    BY <1>1
  <2>2. IsFiniteSet(DOMAIN answers)
    BY <1>1, <2>1, FS_Interval
  <2> QED BY <2>2, FS_Subset
<1>3. \A i \in T : answers[i].uid \in Samples /\ i \in LinesOf(answers[i].uid)
  BY <1>1 DEF Record, LinesOf
<1>4. f \in [T -> U]
  BY <1>3
<1>5. ASSUME NEW i \in T, NEW j \in T, f[i] = f[j] PROVE i = j
  <2>1. answers[i].uid \in Samples /\ i \in LinesOf(answers[i].uid) /\ j \in LinesOf(answers[i].uid)
    BY <1>3, <1>5
  <2> QED BY <2>1 DEF EachOnce
<1>6. ASSUME NEW u \in U PROVE \E i \in T : f[i] = u
  BY DEF LinesOf
<1> HIDE DEF f
<1>7. f \in Bijection(T, U)
  BY <1>4, <1>5, <1>6 DEF Bijection, Injection, Surjection, IsInjective
<1> QED BY <1>2, <1>7, FS_Bijection DEF ExistsBijection

\* The figures are about the whole benchmark: every sample is counted, and once, unless an
\* append was cut just before its newline.
THEOREM TotalTheorem ==
  ASSUME NewlineKept
  PROVE  Spec => []ReportCountsEachSample
<1>1. ASSUME JudgedInv, RowsInv PROVE ReportCountsEachSample
  <2> SUFFICES ASSUME pc = "done" PROVE report.total = Cardinality(Samples)
    BY DEF ReportCountsEachSample
  <2>1. data = answers /\ answers \in Seq(Record) /\ report.total = Len(data) /\ EachOnce
    BY <1>1 DEF JudgedInv, RowsInv, Ended
  <2>2. Cardinality(DOMAIN answers) = Len(answers)
    <3>1. Len(answers) \in Nat /\ 1 \in Int /\ Len(answers) \in Int /\ DOMAIN answers = 1 .. Len(answers)
      BY <2>1, LenProperties
    <3>2. Cardinality(1 .. Len(answers)) = IF 1 > Len(answers) THEN 0 ELSE Len(answers) - 1 + 1
      BY <3>1, FS_Interval
    <3> QED BY <3>1, <3>2
  <2>3. {u \in Samples : \E i \in DOMAIN answers : i \in LinesOf(u)} = Samples
    BY <2>1 DEF EachOnce
  <2> QED BY <2>1, <2>2, <2>3, LinesCountSamples
<1>2. TypeInv /\ RowsInv /\ JudgedInv /\ [Next]_vars => (TypeInv /\ RowsInv /\ JudgedInv)'
  BY TypeStep, RowsStep, JudgedStep
<1> QED BY TypeInit, RowsInit, VerdictInit, <1>1, <1>2, PTL DEF Spec

\* Where neither service failed, the correct ones of the report are the samples with a right
\* answer: no verdict is lost, doubled or given to another sample between file and figure.
THEOREM CorrectTheorem ==
  ASSUME NewlineKept, NoKeyIsA
  PROVE  Spec => []ReportCountsRightAnswers
<1>1. ASSUME JudgedInv, VerdictInv, RowsInv PROVE ReportCountsRightAnswers
  <2> SUFFICES ASSUME pc = "done", gaveUp = {},
                      \A i \in DOMAIN answers : answers[i].ans \notin Failures
               PROVE  report.correct =
                        Cardinality({u \in Samples : \E i \in LinesOf(u) : answers[i].ans = "right"})
    BY DEF ReportCountsRightAnswers
  <2>1. /\ data = answers /\ answers \in Seq(Record) /\ EachOnce
        /\ report.correct = Cardinality({i \in DOMAIN data : judged[i][2] = "Yes"})
        /\ \A i \in DOMAIN data : Deserved(i, judged[i][2])
    BY <1>1 DEF JudgedInv, RowsInv, VerdictInv, Ended
  <2> DEFINE T == {i \in DOMAIN answers : answers[i].ans = "right"}
  <2>2. {i \in DOMAIN data : judged[i][2] = "Yes"} = T
    BY <2>1 DEF Deserved
  <2>3. {u \in Samples : \E i \in T : i \in LinesOf(u)}
          = {u \in Samples : \E i \in LinesOf(u) : answers[i].ans = "right"}
    BY DEF LinesOf
  <2> QED BY <2>1, <2>2, <2>3, LinesCountSamples
<1>2. TypeInv /\ RowsInv /\ JudgedInv /\ VerdictInv /\ [Next]_vars
        => (TypeInv /\ RowsInv /\ JudgedInv /\ VerdictInv)'
  BY TypeStep, RowsStep, JudgedStep, VerdictStep
<1> QED BY TypeInit, RowsInit, VerdictInit, <1>1, <1>2, PTL DEF Spec

=============================================================================
