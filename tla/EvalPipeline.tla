---------------------------- MODULE EvalPipeline ----------------------------
(***************************************************************************)
(* eval/run_eval.sh for one benchmark and one model: prepare_data.py,      *)
(* infer.py, judge_qwenlm.py and cal_acc.py run in this order by one shell *)
(* (set -e), killed anywhere and started again on the same files.          *)
(*                                                                         *)
(* An answer is kept as what the later stages can tell apart: a right or a *)
(* wrong text, an empty one, or the text infer.py writes for a failure.    *)
(* The retry loops around the two services are one step with two outcomes. *)
(***************************************************************************)
EXTENDS Naturals, Sequences, FiniteSets, SequencesExt

CONSTANTS
  Samples,    \* the samples of the benchmark, each with its own sample_uid
  Kind,       \* the graders a benchmark has besides mathruler: "mcq" the first
              \* letter, "exact" those of POPE and MMVP, "open" none
  Gold,       \* Gold[u]: the letter of the right option of sample u
  Cuts,       \* where a kill may cut an append: "line", "newline"
  MaxRuns,    \* bound on the runs of the script
  NoFile,     \* a file that does not exist
  Torn,       \* a file that was cut short, or a line that does not parse
  Whole       \* a complete benchmark file

ASSUME EvalAssumption ==
  /\ IsFiniteSet(Samples) /\ Samples # {}
  /\ Kind \in {"mcq", "exact", "open"}
  /\ Gold \in [Samples -> {"A", "B", "F"}]
  /\ Cuts \subseteq {"line", "newline"}
  /\ MaxRuns \in Nat \ {0}
  /\ NoFile # Torn /\ Torn # Whole /\ NoFile # Whole

Failures == {"api_error", "future_error"}
Answers  == {"right", "wrong", "empty"} \cup Failures
Record   == [uid : Samples, ans : Answers]

ASSUME TornAssumption == Torn \notin Record

VARIABLES
  bench,      \* <benchmark>.json
  answers,    \* model_answer/.../<model>_answer.jsonl, its lines
  unended,    \* its last line has no newline
  pc,         \* what the script is doing; "down": it is not running
  runs,       \* how often it was started
  todo,       \* infer.py: todo_data
  result,     \* infer.py: result[u] of a finished call not yet written
  data,       \* judge_qwenlm.py: data_list
  verdict,    \* verdict[i]: the "judge" field of data[i]
  asked,      \* to_llm_indices without a reply yet
  gaveUp,     \* the items whose judge call failed three times
  judged,     \* judge/...: the file cal_acc.py reads
  report      \* the accuracy last printed: [correct, total]

vars == <<bench, answers, unended, pc, runs, todo, result, data, verdict,
          asked, gaveUp, judged, report>>

Stages == {"down", "prepare", "prepare_close", "infer", "asking", "judge",
           "judging", "judge_close", "accuracy", "done"}

TypeOK ==
  /\ bench \in {NoFile, Torn, Whole}
  /\ answers \in Seq(Record \cup {Torn})
  /\ unended \in BOOLEAN
  /\ pc \in Stages
  /\ runs \in 0 .. MaxRuns
  /\ todo \in SUBSET Samples
  /\ result \in [Samples -> Answers \cup {"none"}]
  /\ data \in Seq(Record)
  /\ verdict \in [DOMAIN data -> {"Yes", "No", "none"}]
  /\ asked \in SUBSET (DOMAIN data)
  /\ gaveUp \in SUBSET (DOMAIN data)
  /\ judged \in Seq(Record \X {"Yes", "No"}) \cup {NoFile, Torn}
  /\ report \in [correct : Nat, total : Nat] \cup {NoFile}

NoResults == [u \in Samples |-> "none"]

Init ==
  /\ bench = NoFile
  /\ answers = <<>>
  /\ unended = FALSE
  /\ pc = "down"
  /\ runs = 0
  /\ todo = {}
  /\ result = NoResults
  /\ data = <<>>
  /\ verdict = <<>>
  /\ asked = {}
  /\ gaveUp = {}
  /\ judged = NoFile
  /\ report = NoFile

AnswerFile == <<answers, unended>>
InferVars  == <<todo, result>>
JudgeVars  == <<data, verdict, asked, gaveUp>>

----------------------------------------------------------------------------
(***************************************************************************)
(* run_eval.sh and prepare_data.py                                         *)
(***************************************************************************)

StartScript ==
  /\ pc \in {"down", "done"}
  /\ runs < MaxRuns
  /\ pc' = "prepare"
  /\ runs' = runs + 1
  /\ UNCHANGED <<bench, AnswerFile, InferVars, JudgeVars, judged, report>>

\* An existing benchmark file is never looked into.
Prepare ==
  /\ \/ pc = "prepare" /\ bench # NoFile /\ pc' = "infer" /\ bench' = bench
     \/ pc = "prepare" /\ bench = NoFile /\ pc' = "prepare_close" /\ bench' = Torn
     \/ pc = "prepare_close" /\ pc' = "infer" /\ bench' = Whole
  /\ UNCHANGED <<AnswerFile, runs, InferVars, JudgeVars, judged, report>>

----------------------------------------------------------------------------
(***************************************************************************)
(* infer.py                                                                *)
(***************************************************************************)

ShouldRetry(rec) == rec.ans \in Failures \cup {"empty"}

LinesOf(u)     == {i \in DOMAIN answers : answers[i] # Torn /\ answers[i].uid = u}
GoodLinesOf(u) == {i \in LinesOf(u) : ~ShouldRetry(answers[i])}
LatestOf(S)        == CHOOSE i \in S : \A j \in S : j <= i

\* Mutant of BestLine: the first line wins.
MutFirstGoodLine(u) == CHOOSE i \in LinesOf(u) : \A j \in LinesOf(u) : i <= j

\* compact_existing_output: of the lines of a sample the last answer, or the
\* last failure when there is no answer.
BestLine(u) ==
  LatestOf(IF GoodLinesOf(u) # {} THEN GoodLinesOf(u) ELSE LinesOf(u))

\* ordered_uids: the first line of each sample that has one, and the k-th of them.
Firsts ==
  {i \in DOMAIN answers : answers[i] # Torn /\ \A j \in LinesOf(answers[i].uid) : i <= j}
NthFirst(k) == CHOOSE i \in Firsts : Cardinality({j \in Firsts : j <= i}) = k

Compacted ==
  [k \in 1 .. Cardinality(Firsts) |-> answers[BestLine(answers[NthFirst(k)].uid)]]

\* Mutant of Done: the first record of a sample tells, not the best one.
MutFirstTells ==
  {u \in Samples : \E i \in GoodLinesOf(u) : \A j \in LinesOf(u) : i <= j}

\* The samples with a record that need not be asked again.
Done == {u \in Samples : LinesOf(u) # {} /\ ~ShouldRetry(answers[BestLine(u)])}

\* rewrite_output, skipped when compacting changed nothing.
Rewrite ==
  /\ answers' = Compacted
  /\ unended' = (unended /\ Compacted = answers)


\* The benchmark is loaded, the answer file is compacted and replaced.
InferStart ==
  /\ pc = "infer"
  /\ IF bench = Torn
     THEN pc' = "down" /\ UNCHANGED <<AnswerFile, InferVars>>
     ELSE /\ Rewrite
          /\ todo' = Samples \ Done
          /\ result' = NoResults
          /\ pc' = IF todo' = {} THEN "judge" ELSE "asking"
  /\ UNCHANGED <<bench, runs, JudgeVars, judged, report>>

\* run_one in a worker thread: an answer, "[API_ERROR]" after max_retries
\* failed calls, or an exception (an unreadable image).
Ask(u) ==
  /\ pc = "asking"
  /\ u \in todo
  /\ result[u] = "none"
  /\ \E ans \in Answers : result' = [result EXCEPT ![u] = ans]
  /\ UNCHANGED <<bench, AnswerFile, pc, runs, todo, JudgeVars, judged, report>>

\* Behind a line without its newline the record becomes part of that line,
\* and together they do not parse.
AppendLine(rec, cut) ==
  /\ answers' = IF unended \/ (answers # <<>> /\ Last(answers) = Torn)
                THEN Append(Front(answers), Torn)
                ELSE Append(answers, rec)
  /\ unended' = cut

\* The main thread appends and flushes results as they complete.
WriteResult(u) ==
  /\ pc = "asking"
  /\ result[u] # "none"
  /\ AppendLine([uid |-> u, ans |-> result[u]], FALSE)
  /\ result' = [result EXCEPT ![u] = "none"]
  /\ todo' = todo \ {u}
  /\ UNCHANGED <<bench, pc, runs, JudgeVars, judged, report>>

\* Mutant of InferEnd: the final compaction is left out.
MutNoFinalCompaction ==
  /\ pc = "asking"
  /\ todo = {}
  /\ pc' = "judge"
  /\ UNCHANGED <<bench, AnswerFile, runs, InferVars, JudgeVars, judged, report>>

InferEnd ==
  /\ pc = "asking"
  /\ todo = {}
  /\ Rewrite
  /\ pc' = "judge"
  /\ UNCHANGED <<bench, runs, InferVars, JudgeVars, judged, report>>

----------------------------------------------------------------------------
(***************************************************************************)
(* judge_qwenlm.py                                                         *)
(***************************************************************************)

\* extract_first_option finds a letter in the text of a failure, and the "A" of
\* "Answer:" where no letter has a full stop, bracket or blank behind it.
FirstLetters(rec) ==
  CASE rec.ans = "api_error"    -> {"A"}
    [] rec.ans = "future_error" -> {"F"}
    [] rec.ans = "wrong"        -> {"A", "none"}
    [] rec.ans = "right"        -> {"A", Gold[rec.uid]}
    [] rec.ans = "empty"        -> {"none"}

\* What the graders that need no judge make of a record: "graded", left to the
\* judge, or "both", the exact graders marking the field before the test
\* for the other graders finds it marked.  Whether a right answer is
\* recognised depends on how it is worded.
RuleGrades(rec) ==
  {"asked"} \cup (IF rec.ans = "right" THEN {"graded"} ELSE {})
            \cup (IF rec.ans = "right" /\ Kind = "exact" THEN {"both"} ELSE {})
            \cup (IF Kind = "mcq" /\ Gold[rec.uid] \in FirstLetters(rec)
                  THEN {"graded"} ELSE {})

JudgeStart ==
  /\ pc = "judge"
  /\ pc' = "judging"
  /\ data' = answers
  /\ \E grade \in [DOMAIN answers -> {"asked", "graded", "both"}] :
        /\ \A i \in DOMAIN answers : grade[i] \in RuleGrades(answers[i])
        /\ verdict' = [i \in DOMAIN answers |->
                         IF grade[i] = "asked" THEN "none" ELSE "Yes"]
        /\ asked' = {i \in DOMAIN answers : grade[i] # "graded"}
  /\ gaveUp' = {}
  /\ UNCHANGED <<bench, AnswerFile, runs, InferVars, judged, report>>

Verdict(i) == IF data[i].ans = "right" THEN "Yes" ELSE "No"

\* Mutant of JudgeItem: a reply goes to the first item still waiting.
MutInOrderOfArrival(i) ==
  /\ pc = "judging"
  /\ i \in asked
  /\ LET k == CHOOSE k \in asked : \A m \in asked : k <= m
     IN  /\ verdict' = [verdict EXCEPT ![k] = Verdict(i)]
         /\ asked' = asked \ {k}
  /\ UNCHANGED <<bench, AnswerFile, pc, runs, InferVars, data, gaveUp, judged, report>>

\* call_one: the judge's reply, or "No" after three failed calls.
JudgeItem(i) ==
  /\ pc = "judging"
  /\ i \in asked
  /\ asked' = asked \ {i}
  /\ \/ verdict' = [verdict EXCEPT ![i] = Verdict(i)] /\ gaveUp' = gaveUp
     \/ verdict' = [verdict EXCEPT ![i] = "No"] /\ gaveUp' = gaveUp \cup {i}
  /\ UNCHANGED <<bench, AnswerFile, pc, runs, InferVars, data, judged, report>>

\* The judged file is truncated and then written.
JudgeWrite ==
  /\ \/ /\ pc = "judging"
        /\ asked = {}
        /\ pc' = "judge_close"
        /\ judged' = Torn
     \/ /\ pc = "judge_close"
        /\ pc' = "accuracy"
        /\ judged' = [i \in DOMAIN data |-> <<data[i], verdict[i]>>]
  /\ UNCHANGED <<bench, AnswerFile, runs, InferVars, JudgeVars, report>>

\* cal_acc.py: every item counts, the ones judged "Yes" as correct.
Accuracy ==
  /\ pc = "accuracy"
  /\ pc' = "done"
  /\ report' = [correct |-> Cardinality({i \in DOMAIN judged : judged[i][2] = "Yes"}),
                total   |-> Len(judged)]
  /\ UNCHANGED <<bench, AnswerFile, runs, InferVars, JudgeVars, judged>>

----------------------------------------------------------------------------
\* The script and its children are killed; a line being written is cut short.
\* The last run is spared.
Kill ==
  /\ pc \notin {"down", "done"}
  /\ runs < MaxRuns
  /\ pc' = "down"
  /\ \/ UNCHANGED AnswerFile
     \/ \E u \in Samples :
           /\ result[u] # "none"
           /\ \/ "line" \in Cuts /\ AppendLine(Torn, FALSE)
              \/ "newline" \in Cuts /\ AppendLine([uid |-> u, ans |-> result[u]], TRUE)
  /\ todo' = {}
  /\ result' = NoResults
  /\ data' = <<>>
  /\ verdict' = <<>>
  /\ asked' = {}
  /\ gaveUp' = {}
  /\ UNCHANGED <<bench, runs, judged, report>>

Progress ==
  \/ StartScript
  \/ Prepare
  \/ InferStart
  \/ \E u \in Samples : Ask(u) \/ WriteResult(u)
  \/ InferEnd
  \/ JudgeStart
  \/ \E i \in DOMAIN data : JudgeItem(i)
  \/ JudgeWrite
  \/ Accuracy

Next == Progress \/ Kill

Spec == Init /\ [][Next]_vars

\* The script keeps running and is started again when it died.
LiveSpec == Spec /\ WF_vars(Progress)

----------------------------------------------------------------------------
(***************************************************************************)
(* What the evaluation promises                                            *)
(***************************************************************************)

\* The judge sees one record of every sample of the benchmark, whatever was
\* killed, torn, retried or written twice on the way.
EachSampleJudgedOnce ==
  pc \in {"judge", "judging", "judge_close"} =>
     \A u \in Samples :
        Cardinality({i \in DOMAIN answers : answers[i] # Torn /\ answers[i].uid = u}) = 1

\* An answer that reached the file is never lost, neither to a later failure
\* of the same sample nor to a torn line.
AnswersSurvive ==
  [][\A u \in Samples : GoodLinesOf(u) # {} => GoodLinesOf(u)' # {}]_vars

\* A sample that has an answer is not asked again.
AnsweredNotAskedAgain ==
  [][\A u \in Samples :
        result[u] = "none" /\ result'[u] # "none" => GoodLinesOf(u) = {}]_vars

\* Where neither service failed, every verdict is the one the answer deserves.
VerdictsBelongToTheirItems ==
  pc = "accuracy" =>
     \A i \in DOMAIN judged :
        judged[i][1].ans \notin Failures /\ i \notin gaveUp =>
           (judged[i][2] = "Yes") = (judged[i][1].ans = "right")

\* What is reported is about the whole benchmark: each sample counts once, and where
\* neither service failed the correct ones are those that were answered right.
ReportCountsEachSample == pc = "done" => report.total = Cardinality(Samples)

ReportCountsRightAnswers ==
  pc = "done" /\ gaveUp = {} /\ (\A i \in DOMAIN answers : answers[i].ans \notin Failures) =>
     report.correct =
       Cardinality({u \in Samples : \E i \in LinesOf(u) : answers[i].ans = "right"})

\* No failure of a service is in the answers or among the judge's replies.
NothingFailed ==
  /\ \A i \in DOMAIN answers : answers[i] # Torn => answers[i].ans \notin Failures
  /\ gaveUp = {}


\* "failed inference ... stop[s] accuracy reporting instead of being silently
\* counted as incorrect".
FailedInferenceStopsReport ==
  pc = "done" => \A i \in DOMAIN data : data[i].ans \notin Failures

\* "exhausted judge retries stop accuracy reporting".
ExhaustedJudgeStopsReport == pc = "done" => gaveUp = {}

\* What a grader has recognised is not sent to the judge, so no judge takes it
\* back: "Calling LLM judge for ... remaining cases".
RecognisedStaysYes ==
  [][\A i \in DOMAIN data :
        verdict[i] = "Yes" /\ pc' = "judging" => verdict'[i] = "Yes"]_vars

\* A failed inference is not counted as a correct answer either.
NoCreditForFailures ==
  pc = "done" => \A i \in DOMAIN judged :
                    judged[i][1].ans \in Failures => judged[i][2] # "Yes"

=============================================================================
