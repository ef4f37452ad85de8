----------------------------- MODULE Evaluation -----------------------------
(***************************************************************************)
(* evaluation/: evaluators and their metrics; how benchmarks make their    *)
(* test cases; how results are compared with a baseline and collected by   *)
(* session; recordings and their replay; the searches for a best           *)
(* configuration. Each part has an Init and a Next of its own; a variable  *)
(* that parts have in common by name is declared with the first of them.   *)
(***************************************************************************)
EXTENDS Integers, Sequences, FiniteSets, SequencesExt

-----------------------------------------------------------------------------
(***************************************************************************)
(* evaluation/core.go: an Evaluator runs an agent over test cases, counts  *)
(* what passed, and measures every answer with its metrics (quality and    *)
(* context metrics, precision and recall); an ErrorTracker counts steps.   *)
(*                                                                         *)
(* A test case is what is expected of the answer; an answer is whether it  *)
(* contains that.  The evaluator hands the metrics the test case's         *)
(* "expected" entry, which is nil when the case has none.                  *)
(***************************************************************************)

CONSTANTS
    MaxCases,        \* test cases of an evaluation
    Latencies,       \* milliseconds
    MaxEvaluations   \* evaluations with the same metrics

VARIABLES
    cases, index,    \* the test cases and how many were run
    passed, failed,
    errors,          \* Metadata["errors"]
    latencies,       \* Metadata["latencies"]
    measured,        \* Metrics: metric -> its measurements
    labels,          \* PrecisionRecallMetric's four counts, which Reset clears
    done,            \* the evaluations that have ended
    stepResults, Enabled  \* ErrorTracker

evaluationVars == <<cases, index, passed, failed, errors, latencies, measured, labels, done,
          stepResults, Enabled>>
result == <<passed, failed, errors, latencies, measured>>
tracker == <<stepResults, Enabled>>

MetricNames == {"accuracy", "quality", "latency", "precision_recall"}
NoMeasures == [m \in MetricNames |-> <<>>]
NoLabels == [tp |-> 0, fp |-> 0, fn |-> 0, tn |-> 0]
\* "bad" has no input text; "none" has no expected entry; "validator" is a function.
Expectations == {"bad", "none", "text", "validator"}

EvaluationTypeOK ==
    /\ cases \in Seq(Expectations) /\ Len(cases) <= MaxCases /\ index \in 0 .. Len(cases)
    /\ {passed, failed, errors} \subseteq 0 .. MaxCases /\ latencies \in Seq(Latencies)
    /\ DOMAIN measured = MetricNames /\ DOMAIN labels = DOMAIN NoLabels
    /\ done \in 0 .. MaxEvaluations /\ stepResults \in Seq(BOOLEAN) /\ Enabled \in BOOLEAN

EvaluationInit ==
    /\ cases = <<>> /\ index = 0 /\ passed = 0 /\ failed = 0 /\ errors = 0 /\ latencies = <<>>
    /\ measured = NoMeasures /\ labels = NoLabels /\ done = 0 /\ stepResults = <<>>
    /\ Enabled \in BOOLEAN

-----------------------------------------------------------------------------
(* Metrics; truths are 0 and 1, and sums are taken instead of means.        *)

Total(s) == FoldLeft(LAMBDA a, b : a + b, 0, s)

\* The entry is there even when it is nil, and nil is looked for as a text.
AccuracyMeasure(expected, answer) == IF expected = "text" /\ answer THEN 1 ELSE 0

\* The accuracy's share of ruleBasedQuality, in halves.
ruleBasedQuality(expected, answer) == IF expected = "text" /\ answer THEN 2 ELSE 0

LatencyMeasure(latency) == latency

\* The label that is true and the one the agent gave; no labels, always right.
PrecisionRecallMeasure(true, predicted) ==
    [value |-> IF true = predicted THEN 1 ELSE 0,
     count |-> CASE true /\ predicted -> "tp" [] ~true /\ predicted -> "fp"
                 [] true /\ ~predicted -> "fn" [] OTHER -> "tn"]

AccuracyAggregate(ms) ==
    [total |-> Len(ms), correct |-> Total(ms), incorrect |-> Len(ms) - Total(ms)]

percentile(sorted, p) == sorted[((Len(sorted) * p) \div 100) + 1]

LatencyAggregate(ms) ==
    LET sorted == SortSeq(ms, <)
    IN [p50 |-> percentile(sorted, 50), p95 |-> percentile(sorted, 95),
        p99 |-> percentile(sorted, 99), min |-> sorted[1], max |-> sorted[Len(sorted)]]

\* Precision and recall as pairs of a count and what it is of.
PrecisionRecallAggregate ==
    [precision |-> <<labels.tp, labels.tp + labels.fp>>, recall |-> <<labels.tp, labels.tp + labels.fn>>]

-----------------------------------------------------------------------------
(* Evaluate. *)

checkTest(expected, answer) == expected = "text" => answer

Evaluate ==
    /\ index = Len(cases) /\ done < MaxEvaluations /\ cases = <<>>
    /\ cases' \in BoundedSeq(Expectations, MaxCases) \ {<<>>}
    /\ UNCHANGED <<index, result, labels, done, tracker>>

Running == index < Len(cases)
Expected == cases[index + 1]

BadCase ==
    /\ Running /\ Expected = "bad"
    /\ index' = index + 1 /\ failed' = failed + 1
    /\ UNCHANGED <<cases, passed, errors, latencies, measured, labels, done, tracker>>

AgentFails_Unnoticed ==
    /\ Running /\ Expected # "bad"
    /\ index' = index + 1 /\ errors' = errors + 1
    /\ UNCHANGED <<cases, passed, failed, latencies, measured, labels, done, tracker>>

AgentFails ==
    /\ Running /\ Expected # "bad"
    /\ index' = index + 1 /\ failed' = failed + 1 /\ errors' = errors + 1
    /\ UNCHANGED <<cases, passed, latencies, measured, labels, done, tracker>>

AgentAnswers(answer, latency, true, predicted) ==
    LET pr == PrecisionRecallMeasure(true, predicted)
    IN /\ Running /\ Expected # "bad"
       /\ index' = index + 1
       /\ IF checkTest(Expected, answer)
          THEN passed' = passed + 1 /\ UNCHANGED failed
          ELSE failed' = failed + 1 /\ UNCHANGED passed
       /\ latencies' = Append(latencies, latency)
       /\ measured' = [accuracy |-> Append(measured.accuracy, AccuracyMeasure(Expected, answer)),
                       quality |-> Append(measured.quality, ruleBasedQuality(Expected, answer)),
                       latency |-> Append(measured.latency, LatencyMeasure(latency)),
                       precision_recall |-> Append(measured.precision_recall, pr.value)]
       /\ labels' = [labels EXCEPT ![pr.count] = @ + 1]
       /\ UNCHANGED <<cases, errors, done, tracker>>

\* The aggregates are taken and the result returned; the metrics stay.
Finish ==
    /\ cases # <<>> /\ ~Running
    /\ done' = done + 1 /\ cases' = <<>> /\ index' = 0
    /\ passed' = 0 /\ failed' = 0 /\ errors' = 0 /\ latencies' = <<>> /\ measured' = NoMeasures
    /\ UNCHANGED <<labels, tracker>>

\* PrecisionRecallMetric's, between evaluations.
Reset ==
    /\ cases = <<>> /\ labels # NoLabels
    /\ labels' = NoLabels
    /\ UNCHANGED <<cases, index, result, done, tracker>>

-----------------------------------------------------------------------------
(* ErrorTracker. *)

RecordStep(success) ==
    /\ Len(stepResults) < MaxCases
    /\ stepResults' = IF Enabled THEN Append(stepResults, success) ELSE stepResults
    /\ UNCHANGED <<cases, index, result, labels, done, Enabled>>

ResetTracker ==
    /\ stepResults' = <<>>
    /\ UNCHANGED <<cases, index, result, labels, done, Enabled>>

TotalSteps == Len(stepResults)
FailedSteps == Len(SelectSeq(stepResults, LAMBDA s : ~s))

Power(b, n) == FoldLeft(LAMBDA a, x : a * b, 1, [i \in 1 .. n |-> i])
\* 1 - (1 - failed/total)^n, over total^n.
CumulativeFailureProbabilityOver(n) ==
    IF n <= 0 \/ TotalSteps = 0 THEN 0
    ELSE Power(TotalSteps, n) - Power(TotalSteps - FailedSteps, n)

-----------------------------------------------------------------------------
EvaluationNext ==
    \/ Evaluate \/ BadCase \/ AgentFails \/ Finish \/ Reset
    \/ \E answer, true, predicted \in BOOLEAN, latency \in Latencies :
         AgentAnswers(answer, latency, true, predicted)
    \/ cases = <<>> /\ ((\E s \in BOOLEAN : RecordStep(s)) \/ ResetTracker)

EvaluationSpec == EvaluationInit /\ [][EvaluationNext]_evaluationVars

-----------------------------------------------------------------------------
(* Properties. *)

answered == Len(latencies)

\* Evaluate: every test case passed or failed, exactly once; every answer, and
\* only an answer, has a latency and one measurement of every metric; a failed
\* case is a bad one, an agent's error or a wrong answer.
CasesAccounted ==
    /\ passed + failed = index
    /\ \A m \in MetricNames : Len(measured[m]) = answered
    /\ answered + errors + Cardinality({i \in 1 .. index : cases[i] = "bad"}) = index
    /\ passed >= Total(measured.accuracy)
    /\ AccuracyAggregate(measured.accuracy).incorrect >= 0

\* Aggregates are of what was measured: percentiles are latencies and in
\* order, precision and recall are fractions and share their hits, and the
\* tracker's chance of failure never falls as the chain gets longer.
AggregatesSound ==
    /\ answered > 0 =>
         LET a == LatencyAggregate(latencies)
         IN /\ a.min <= a.p50 /\ a.p50 <= a.p95 /\ a.p95 <= a.p99 /\ a.p99 <= a.max
            /\ {a.p50, a.p95, a.p99} \subseteq Range(latencies)
    /\ PrecisionRecallAggregate.precision[1] = PrecisionRecallAggregate.recall[1]
    /\ PrecisionRecallAggregate.precision[1] <= PrecisionRecallAggregate.precision[2]
    /\ \A n \in 0 .. 2 :
         CumulativeFailureProbabilityOver(n + 1) >= TotalSteps * CumulativeFailureProbabilityOver(n)

-----------------------------------------------------------------------------
(***************************************************************************)
(* evaluation/benchmarks.go and the needle test of context_metrics.go: how *)
(* test cases are made.  Facts (needles, numbered from 1) are embedded in  *)
(* filler, and the cases ask for them; a conversation plants facts at      *)
(* every PlantEvery-th turn and asks for all of them in the end.           *)
(***************************************************************************)

CONSTANTS
    MaxWords,        \* words of a haystack
    MaxTokens,       \* tokens of a test context
    MaxNeedles,
    Filler, Needle,  \* tokens of a filler message and of a needle
    MaxTurns,        \* turns of a conversation
    PlantEvery, Facts  \* a fact every so many turns; the facts there are

VARIABLES
    benchmark,       \* "haystack", "context", "retention"
    size, needles,   \* its parameters
    suite,           \* the benchmarks of a suite, by name
    text,            \* what was generated: 0 for filler, or a needle; for a conversation, facts planted
    asked            \* the facts the test cases ask for

benchmarksVars == <<benchmark, size, needles, suite, text, asked>>

Names == {"simple_qa", "needle_in_haystack", "information_retention"}
MaxSize == CHOOSE n \in {MaxWords, MaxTokens, MaxTurns} :
             \A m \in {MaxWords, MaxTokens, MaxTurns} : n >= m

BenchmarksTypeOK ==
    /\ benchmark \in {"haystack", "context", "retention"} /\ size \in 0 .. MaxSize
    /\ needles \in 0 .. MaxNeedles /\ suite \in Seq(Names)
    /\ text \in Seq(0 .. MaxNeedles + Facts) /\ asked \subseteq 1 .. MaxNeedles + Facts

BenchmarksInit ==
    /\ benchmark \in {"haystack", "context", "retention"}
    /\ size \in 0 .. CASE benchmark = "haystack" -> MaxWords [] benchmark = "context" -> MaxTokens
                       [] benchmark = "retention" -> MaxTurns
    /\ needles \in IF benchmark = "retention" THEN {0} ELSE 0 .. MaxNeedles
    /\ suite \in {<<>>, <<"simple_qa", "needle_in_haystack">>} /\ text = <<>> /\ asked = {}

-----------------------------------------------------------------------------
(* The words of a haystack, a needle before every interval-th.               *)

embedNeedles_Early(words, n) ==
    LET interval == words \div (n + 1)
        place(i) == IF \E k \in 1 .. n : i = interval * (k - 1)
                 THEN <<CHOOSE k \in 1 .. n : i = interval * (k - 1), 0>> ELSE <<0>>
    IN FlattenSeq([i \in 1 .. words |-> place(i)])

embedNeedles(words, n) ==
    LET interval == words \div (n + 1)
        place(needleIdx, i) == needleIdx < n /\ i = interval * (needleIdx + 1)
        add(acc, i) == IF place(acc.idx, i)
                       THEN [out |-> acc.out \o <<acc.idx + 1, 0>>, idx |-> acc.idx + 1]
                       ELSE [out |-> Append(acc.out, 0), idx |-> acc.idx]
    IN FoldLeft(add, [out |-> <<>>, idx |-> 0], [i \in 1 .. words |-> i - 1]).out

\* The messages of a context: a needle whenever its place has been reached.
RECURSIVE contextFrom(_, _, _, _, _)
contextFrom(target, n, tokens, idx, out) ==
    LET interval == target \div (n + 1)
    IN IF tokens >= target THEN out
       ELSE IF tokens >= interval * (idx + 1) /\ idx < n
            THEN contextFrom(target, n, tokens + Needle, idx + 1, Append(out, idx + 1))
            ELSE contextFrom(target, n, tokens + Filler, idx, Append(out, 0))

generateTestContext(target, n) == contextFrom(target, n, 0, 0, <<>>)

\* The turns at which a fact is planted: the first Facts multiples of PlantEvery.
planted(turns) == {k \in 1 .. Facts : k * PlantEvery < turns}

NeedleTestCases ==
    /\ text' = embedNeedles(size, needles) /\ asked' = 1 .. needles

RetentionTestCases ==
    /\ text' = SetToSortSeq(planted(size), <) /\ asked' = 1 .. Facts

\* testRetrieval asks for every needle.
EvaluateAtLengths ==
    /\ text' = generateTestContext(size, needles) /\ asked' = 1 .. needles

GenerateTestCases ==
    /\ text = <<>> /\ asked = {}
    /\ \/ benchmark = "haystack" /\ NeedleTestCases
       \/ benchmark = "context" /\ EvaluateAtLengths
       \/ benchmark = "retention" /\ RetentionTestCases
    /\ UNCHANGED <<benchmark, size, needles, suite>>

-----------------------------------------------------------------------------
(* BenchmarkSuite. *)

AddBenchmark(b) ==
    /\ Len(suite) < 3 /\ asked = {}
    /\ suite' = Append(suite, b)
    /\ UNCHANGED <<benchmark, size, needles, text, asked>>

RemoveBenchmark(b) ==
    /\ asked = {}
    /\ suite' = SelectSeq(suite, LAMBDA x : x # b)
    /\ UNCHANGED <<benchmark, size, needles, text, asked>>

BenchmarksNext == GenerateTestCases \/ (\E b \in Names : AddBenchmark(b) \/ RemoveBenchmark(b))

BenchmarksSpec == BenchmarksInit /\ [][BenchmarksNext]_benchmarksVars

-----------------------------------------------------------------------------
(* Properties. *)

there == {i \in DOMAIN text : text[i] # 0}

\* embedNeedles and generateTestContext: nothing of the haystack is lost, the
\* needles stand in their order and none twice; every needle is there when
\* there are more words than needles, or when a message of filler is no longer
\* than the distance between two needles.
NeedlesEmbedded ==
    asked # {} =>
      /\ \A i, j \in there : i < j => text[i] < text[j]
      /\ benchmark = "haystack" => Len(SelectSeq(text, LAMBDA w : w = 0)) = size
      /\ benchmark = "haystack" /\ size > needles => asked \subseteq Range(text)
      /\ benchmark = "context" /\ Filler + Needle <= size \div (needles + 1) => asked \subseteq Range(text)
      /\ benchmark = "retention" /\ size > Facts * PlantEvery => asked \subseteq Range(text)

-----------------------------------------------------------------------------
(***************************************************************************)
(* evaluation/regression.go: results are compared with a baseline, and     *)
(* their history shows a trend.  evaluation/metrics.go: sessions that      *)
(* measure, fail and end, and the collector of their results.              *)
(*                                                                         *)
(* A measure is a natural number, or None; a degradation is a fraction,    *)
(* compared with percentages by cross multiplication.                      *)
(***************************************************************************)

CONSTANTS
    Metrics,         \* those measured, of the five Detect knows
    Values,          \* the natural numbers they take
    MaxMeasured,     \* bound: metrics one result has
    thresholds,      \* NewRegressionDetector's, in percent, for some of the metrics
    MaxHistory, Windows,
    Sessions, MaxErrors, MaxMeasurements, MaxResults  \* bounds on sessions and the collector

VARIABLES
    baseline, history,   \* RegressionDetector; a nil baseline measures nothing
    reported,            \* what the last Detect returned, by metric
    session,             \* per session: the fields of its SessionResult
    results              \* MetricsCollector's

regressionsVars == <<baseline, history, reported, session, results>>
detector == <<baseline, history, reported>>
collector == <<session, results>>

None == -1
higherIsBetter(m) == m \in {"accuracy", "quality", "compression_ratio"}
Results == {r \in [Metrics -> Values \cup {None}] :
              Cardinality({m \in Metrics : r[m] # None}) <= MaxMeasured}
NoResult == [m \in Metrics |-> None]
NoReport == [m \in {} |-> None]
Ended == {"completed", "failed", "timeout", "cancelled"}

NewSessions == [s \in Sessions |->
    [status |-> "running", ended |-> FALSE, errors |-> 0, measurements |-> <<>>]]

RegressionsTypeOK ==
    /\ baseline \in Results /\ history \in Seq(Results) /\ Len(history) <= MaxHistory
    /\ DOMAIN reported \subseteq Metrics
    /\ \A s \in Sessions :
         /\ session[s].status \in Ended \cup {"running"} /\ session[s].ended \in BOOLEAN
         /\ session[s].errors \in 0 .. MaxErrors /\ session[s].measurements \in Seq(Values)
    /\ Len(results) <= MaxResults

RegressionsInit ==
    /\ baseline = NoResult /\ history = <<>> /\ reported = NoReport
    /\ session = NewSessions
    /\ results = <<>>

-----------------------------------------------------------------------------
(* RegressionDetector. *)

\* The degradation as <<part, whole>>; a baseline of 0 is a rule of its own.
degradation(m, base, current) ==
    IF base = 0 THEN <<IF current = 0 THEN 0 ELSE IF higherIsBetter(m) THEN 1 ELSE -1, 1>>
    ELSE <<IF higherIsBetter(m) THEN base - current ELSE current - base, base>>

below(d, percent) == 100 * d[1] < percent * d[2]

calculateSeverity(d) ==
    CASE below(d, 10) -> "none" [] below(d, 20) -> "minor" [] below(d, 50) -> "moderate"
      [] OTHER -> "critical"

threshold(m) == IF m \in DOMAIN thresholds THEN thresholds[m] ELSE 10

\* A fault: a metric at its threshold is reported.
checkMetric_AtThreshold(m, base, current) ==
    LET d == degradation(m, base, current)
    IN IF (base = 0 /\ current = 0) \/ below(d, threshold(m)) THEN {}
       ELSE {[severity |-> calculateSeverity(d), by |-> d, base |-> base, current |-> current]}

\* The regression, if there is one: beyond the threshold, not at it.
checkMetric(m, base, current) ==
    LET d == degradation(m, base, current)
    IN IF (base = 0 /\ current = 0) \/ 100 * d[1] <= threshold(m) * d[2] THEN {}
       ELSE {[severity |-> calculateSeverity(d), by |-> d, base |-> base, current |-> current]}

SetBaseline(r) ==
    /\ baseline' = r /\ reported' = NoReport
    /\ UNCHANGED <<history, collector>>

\* Every metric that both have is checked.
Detect(r, storeHistory) ==
    LET both == {m \in Metrics : r[m] # None /\ baseline[m] # None}
        found == {m \in both : checkMetric(m, baseline[m], r[m]) # {}}
    IN /\ storeHistory => Len(history) < MaxHistory
       /\ history' = IF storeHistory THEN Append(history, r) ELSE history
       /\ reported' = [m \in found |-> CHOOSE x \in checkMetric(m, baseline[m], r[m]) : TRUE]
       /\ UNCHANGED <<baseline, collector>>

ClearHistory ==
    /\ history # <<>> /\ history' = <<>>
    /\ UNCHANGED <<baseline, reported, collector>>

\* The values of the window; GetTrend knows nothing of the compression ratio.
windowValues(m, window) ==
    LET start == IF Len(history) < window THEN 1 ELSE Len(history) - window + 1
        recent == SubSeq(history, start, Len(history))
    IN SelectSeq([i \in DOMAIN recent |-> recent[i][m]],
                 LAMBDA v : v # None /\ m # "compression_ratio")

Sum(s) == FoldLeft(LAMBDA a, b : a + b, 0, s)
\* The numerator of the slope times the number of values: the slope's sign.
slope(values) ==
    Len(values) * Sum([i \in DOMAIN values |-> (i - 1) * values[i]])
      - Sum([i \in DOMAIN values |-> i - 1]) * Sum(values)

GetTrend(m, window) ==
    LET values == windowValues(m, window)
    IN IF Len(history) < 2 \/ Len(values) < 2 THEN "nil"
       ELSE CASE slope(values) > 0 -> "improving" [] slope(values) < 0 -> "degrading"
              [] OTHER -> "stable"

CompareResults(a, b) ==
    [m \in {x \in Metrics \cap {"accuracy", "quality", "latency"} : a[x] # None /\ b[x] # None} |->
       b[m] - a[m]]

-----------------------------------------------------------------------------
(* SessionResult and MetricsCollector. *)

AddMetricMeasurement(s, v) ==
    /\ Len(session[s].measurements) < MaxMeasurements
    /\ session' = [session EXCEPT ![s].measurements = Append(@, v)]
    /\ UNCHANGED <<detector, results>>

AddError(s) ==
    /\ session[s].errors < MaxErrors
    /\ session' = [session EXCEPT ![s].errors = @ + 1]
    /\ UNCHANGED <<detector, results>>

\* The end time is set once, and kept by a session set back to running.
SetStatus(s, st) ==
    /\ session' = [session EXCEPT ![s].status = st, ![s].ended = @ \/ st # "running"]
    /\ UNCHANGED <<detector, results>>

\* A copy: what happens to the session later is not in it.
AddResult(s) ==
    /\ Len(results) < MaxResults
    /\ results' = Append(results, session[s])
    /\ UNCHANGED <<detector, session>>

Clear ==
    /\ results # <<>> /\ results' = <<>>
    /\ UNCHANGED <<detector, session>>

countOf(P(_)) == Len(SelectSeq(results, P))
DurationSeconds(r) == r.ended    \* there is one

GetStatistics ==
    [session_count |-> Len(results),
     completed_count |-> countOf(LAMBDA r : r.status = "completed"),
     failed_count |-> countOf(LAMBDA r : r.status \in {"failed", "timeout", "cancelled"}),
     durations |-> countOf(DurationSeconds),
     total_errors |-> Sum([i \in DOMAIN results |-> results[i].errors])]

GetMetricAggregates ==
    LET values == FlattenSeq([i \in DOMAIN results |-> results[i].measurements])
    IN [count |-> Len(values), sum |-> Sum(values),
        min |-> FoldLeft(LAMBDA a, v : IF v < a THEN v ELSE a, IF values = <<>> THEN 0 ELSE values[1], values),
        max |-> FoldLeft(LAMBDA a, v : IF v > a THEN v ELSE a, 0, values)]

-----------------------------------------------------------------------------
\* The baseline, the history and the collector are never read together: each
\* is explored with the others at rest.
RegressionsNext ==
    \/ /\ history = <<>> /\ results = <<>> /\ session = NewSessions
       /\ \E r \in Results : SetBaseline(r) \/ Detect(r, FALSE)
    \/ /\ baseline = NoResult /\ session = NewSessions
       /\ ClearHistory \/ \E r \in Results : Detect(r, TRUE)
    \/ /\ history = <<>> /\ baseline = NoResult
       /\ \/ Clear
          \/ \E s \in Sessions : \/ AddError(s) \/ AddResult(s)
                                 \/ \E v \in Values : AddMetricMeasurement(s, v)
                                 \/ \E st \in Ended \cup {"running"} : SetStatus(s, st)

RegressionsSpec == RegressionsInit /\ [][RegressionsNext]_regressionsVars

-----------------------------------------------------------------------------
(* Properties. *)

Rank == [none |-> 0, minor |-> 1, moderate |-> 2, major |-> 3, critical |-> 4]
worse(m, base, current) == IF higherIsBetter(m) THEN current < base ELSE current > base
beyond(m, base, current) ==
    worse(m, base, current) /\ 100 * degradation(m, base, current)[1] > threshold(m) * base

\* Detect: against a baseline that is not 0, the metrics reported are exactly
\* those that got worse by more than their threshold, and of two of them the
\* one that lost the smaller part of its baseline is not the more severe.
RegressionsSound ==
    /\ \A m \in DOMAIN reported :
         reported[m].base # 0 => beyond(m, reported[m].base, reported[m].current)
    /\ \A m \in Metrics, v \in Values :
         baseline[m] \notin {None, 0} =>
           (checkMetric(m, baseline[m], v) # {} <=> beyond(m, baseline[m], v))
    /\ \A m, n \in DOMAIN reported :
         reported[m].by[1] * reported[n].by[2] <= reported[n].by[1] * reported[m].by[2] =>
           Rank[reported[m].severity] <= Rank[reported[n].severity]

\* GetTrend and CompareResults: a window whose values only rise is "improving"
\* and one whose values are equal is "stable"; no trend is drawn from fewer
\* than two results, and comparing two results the other way round turns the
\* sign of every change.
TrendsSound ==
    \A m \in Metrics, w \in Windows :
      LET values == windowValues(m, w)
      IN /\ (Len(values) >= 2 /\ \A i \in 1 .. Len(values) - 1 : values[i] < values[i + 1])
              => GetTrend(m, w) = "improving"
         /\ (Len(values) >= 2 /\ \A i, j \in DOMAIN values : values[i] = values[j])
              => GetTrend(m, w) = "stable"
         /\ (GetTrend(m, w) # "nil" => w >= 2 /\ Len(history) >= 2)
         /\ \A i, j \in DOMAIN history : \A x \in DOMAIN CompareResults(history[i], history[j]) :
              CompareResults(history[j], history[i])[x] = -CompareResults(history[i], history[j])[x]

\* MetricsCollector: every collected session that is not running counts once,
\* as completed or failed, and has a duration; the aggregates of a metric lie
\* between its extremes.
StatisticsSound ==
    /\ GetStatistics.completed_count + GetStatistics.failed_count
         + countOf(LAMBDA r : r.status = "running") = GetStatistics.session_count
    /\ GetStatistics.durations >= GetStatistics.completed_count + GetStatistics.failed_count
    /\ LET a == GetMetricAggregates IN a.min * a.count <= a.sum /\ a.sum <= a.max * a.count

-----------------------------------------------------------------------------
(***************************************************************************)
(* evaluation/recorder.go: agents wrapped to record their interactions by  *)
(* session, recordings finalized into a store in memory or in files, and   *)
(* replays of a recording compared with each other.                        *)
(*                                                                         *)
(* Nothing is locked: the wrapper looks for the session, starts it, runs   *)
(* the agent and records the interaction in separate steps.  An            *)
(* interaction is a number in the order of completion.                     *)
(***************************************************************************)

CONSTANTS
    RecordedSessions, Callers,
    MaxCalls,        \* calls of the wrapped agents
    MaxTime,         \* the clock's bound; times are in units of 1/Second of a second
    Second,          \* RFC3339 keeps whole seconds
    MaxReplays       \* replays of the recording that is loaded

VARIABLES
    storage,         \* "memory" or "file"
    active,          \* activeSessions: session -> recording
    stored,          \* session -> recording with the time of its save; unreadable files in broken
    broken,
    pc, at, begun,   \* per caller: where it is, its session; calls begun
    completed,       \* interactions recorded so far
    clock,
    loaded           \* the recording being replayed, in a sequence

recorderVars == <<storage, active, stored, broken, pc, at, begun, completed, clock, loaded, results>>
calling == <<pc, at, begun, completed>>
replaying == <<loaded, results>>

Outcomes == {"x", "y", "error"}
empty == [s \in {} |-> 0]
Without(f, s) == [t \in DOMAIN f \ {s} |-> f[t]]
With(f, s, v) == [t \in DOMAIN f \cup {s} |-> IF t = s THEN v ELSE f[t]]

RecorderTypeOK ==
    /\ storage \in {"memory", "file"} /\ DOMAIN active \subseteq RecordedSessions
    /\ DOMAIN stored \subseteq RecordedSessions /\ broken \subseteq RecordedSessions
    /\ pc \in [Callers -> {"idle", "look", "start", "run"}] /\ at \in [Callers -> RecordedSessions]
    /\ begun \in 0 .. MaxCalls /\ completed \in 0 .. begun /\ clock \in 0 .. MaxTime
    /\ Len(loaded) <= 1 /\ Len(results) <= MaxReplays

RecorderInit ==
    /\ storage \in {"memory", "file"} /\ active = empty /\ stored = empty /\ broken = {}
    /\ pc = [c \in Callers |-> "idle"] /\ at \in [Callers -> RecordedSessions]
    /\ begun = 0 /\ completed = 0 /\ clock = 0 /\ loaded = <<>> /\ results = <<>>

-----------------------------------------------------------------------------
(* SessionRecorder. *)

StartSession(s, agent) ==
    With(active, s, [agent |-> agent, start |-> clock, end |-> 0, items |-> <<>>])

\* Fault: the session is started whether or not it is active.
RecordInteraction_Restarts(s, i) ==
    With(active, s, [StartSession(s, "unknown")[s] EXCEPT !.items = Append(@, i)])

\* A session that is not active (any more) is started with an unknown agent.
RecordInteraction(s, i) ==
    LET sessions == IF s \in DOMAIN active THEN active ELSE StartSession(s, "unknown")
    IN [sessions EXCEPT ![s].items = Append(@, i)]

\* The wrapper's Process.
Call(c) ==
    /\ pc[c] = "idle" /\ begun < MaxCalls
    /\ begun' = begun + 1 /\ pc' = [pc EXCEPT ![c] = "look"]
    /\ UNCHANGED <<storage, active, stored, broken, at, completed, clock, replaying>>

Look(c) ==
    /\ pc[c] = "look"
    /\ pc' = [pc EXCEPT ![c] = IF at[c] \in DOMAIN active THEN "run" ELSE "start"]
    /\ UNCHANGED <<storage, active, stored, broken, at, begun, completed, clock, replaying>>

StartRecording(c) ==
    /\ pc[c] = "start"
    /\ active' = StartSession(at[c], "named") /\ pc' = [pc EXCEPT ![c] = "run"]
    /\ UNCHANGED <<storage, stored, broken, at, begun, completed, clock, replaying>>

\* The agent returned, with or without an error, and the interaction is recorded.
Record(c) ==
    /\ pc[c] = "run"
    /\ completed' = completed + 1
    /\ active' = RecordInteraction(at[c], completed + 1)
    /\ pc' = [pc EXCEPT ![c] = "idle"]
    /\ UNCHANGED <<storage, stored, broken, at, begun, clock, replaying>>

Process(c) == Call(c) \/ Look(c) \/ StartRecording(c) \/ Record(c)

\* SaveRecording in memory cannot fail.
SaveInMemory(s, r) ==
    stored' = With(stored, s, [recording |-> r, saved |-> clock]) /\ UNCHANGED broken

\* In a file: os.Create empties the file before the recording is encoded into it.
SaveToFile(s, r) ==
    \/ stored' = With(stored, s, [recording |-> r, saved |-> clock]) /\ broken' = broken \ {s}
    \/ UNCHANGED <<stored, broken>>
    \/ stored' = Without(stored, s) /\ broken' = broken \cup {s}

\* Fault: the session that was saved stays active.
FinalizeSession_KeepsActive(s) ==
    /\ s \in DOMAIN active
    /\ LET r == [active[s] EXCEPT !.end = clock]
       IN IF storage = "memory" THEN SaveInMemory(s, r) ELSE SaveToFile(s, r)
    /\ UNCHANGED <<storage, active, calling, clock, replaying>>

FinalizeSession(s) ==
    /\ s \in DOMAIN active
    /\ active' = Without(active, s)
    /\ LET r == [active[s] EXCEPT !.end = clock]
       IN IF storage = "memory" THEN SaveInMemory(s, r) ELSE SaveToFile(s, r)
    /\ UNCHANGED <<storage, calling, clock, replaying>>

DeleteRecording(s) ==
    /\ s \in DOMAIN stored \cup broken
    /\ stored' = Without(stored, s) /\ broken' = broken \ {s}
    /\ UNCHANGED <<storage, active, calling, clock, replaying>>

-----------------------------------------------------------------------------
(* Reading the store.  A file's times are those of its RFC 3339 text.        *)

RFC3339(t) == t - (t % Second)

FromDict(r) == [r EXCEPT !.start = RFC3339(@), !.end = RFC3339(@)]
Loaded(s) == IF storage = "memory" THEN stored[s].recording ELSE FromDict(stored[s].recording)

RecordedSeconds(r) == r.end - r.start

\* Newest first: by start in memory, by the file's time on disk; equals in any order.
newest(s) == IF storage = "memory" THEN stored[s].recording.start ELSE stored[s].saved
Orders ==
    LET all == DOMAIN stored \cup broken
        time(s) == IF s \in broken THEN 0 ELSE newest(s)
    IN {o \in [1 .. Cardinality(all) -> all] :
          /\ \A i, j \in DOMAIN o : o[i] = o[j] => i = j
          /\ \A i, j \in DOMAIN o : i < j /\ {o[i], o[j]} \cap broken = {} => time(o[i]) >= time(o[j])}

\* A page skips the files that cannot be read, after it was cut.
ListRecordings(order, limit, offset) ==
    LET end == IF offset + limit > Len(order) THEN Len(order) ELSE offset + limit
        page == IF offset >= Len(order) THEN <<>> ELSE SubSeq(order, offset + 1, end)
    IN SelectSeq(page, LAMBDA s : s \notin broken)

-----------------------------------------------------------------------------
(* SessionReplay. *)

\* A replay touches nothing of the recorder: it is followed once the calls are made.
LoadRecording(s) ==
    /\ loaded = <<>> /\ s \in DOMAIN stored /\ MaxReplays > 0
    /\ begun = MaxCalls /\ completed = begun
    /\ loaded' = <<Loaded(s)>> /\ results' = <<<<>>>>
    /\ UNCHANGED <<storage, active, stored, broken, calling, clock>>

\* One interaction is replayed, at the replay that is under way.
Replay ==
    /\ loaded # <<>> /\ Len(Last(results)) < Len(loaded[1].items)
    /\ \E o \in Outcomes : results' = [results EXCEPT ![Len(results)] = Append(@, o)]
    /\ UNCHANGED <<storage, active, stored, broken, calling, clock, loaded>>

replayed == loaded # <<>> /\ Len(Last(results)) = Len(loaded[1].items)

ReplayAgain ==
    /\ replayed /\ Len(results) < MaxReplays
    /\ results' = Append(results, <<>>)
    /\ UNCHANGED <<storage, active, stored, broken, calling, clock, loaded>>

errorsIn(r) == Len(SelectSeq(r, LAMBDA o : o = "error"))

\* The outputs that differ, where both replays have one.
Compare(a, b) ==
    [count |-> Len(a), errorDiff |-> errorsIn(b) - errorsIn(a),
     differences |-> {i \in DOMAIN a \cap DOMAIN b :
                        a[i] # "error" /\ b[i] # "error" /\ a[i] # b[i]}]

-----------------------------------------------------------------------------
Tick ==
    /\ clock < MaxTime /\ clock' = clock + 1
    /\ UNCHANGED <<storage, active, stored, broken, calling, replaying>>

RecorderNext ==
    \/ \E c \in Callers : Process(c)
    \/ \E s \in RecordedSessions : FinalizeSession(s) \/ DeleteRecording(s) \/ LoadRecording(s)
    \/ Replay \/ ReplayAgain \/ Tick

RecorderSpec == RecorderInit /\ [][RecorderNext]_recorderVars

-----------------------------------------------------------------------------
(* Properties. *)

recordings == {active[s] : s \in DOMAIN active} \cup {stored[s].recording : s \in DOMAIN stored}
kept == UNION {Range(r.items) : r \in recordings}

\* Recordings, active or saved, share no interaction; each has its
\* interactions in the order they completed, and what was saved was ended.
RecordingsDisjoint ==
    /\ \A r \in recordings : \A i, j \in DOMAIN r.items : i < j => r.items[i] < r.items[j]
    /\ \A s \in DOMAIN active, t \in DOMAIN stored :
         Range(active[s].items) \cap Range(stored[t].recording.items) = {}
    /\ \A s \in DOMAIN stored : stored[s].recording.end >= stored[s].recording.start

\* RecordInteraction and FinalizeSession: an interaction that was recorded goes
\* only with its recording: deleted, lost with a save, or replaced by a
\* recording of the same session that was started or saved after it.
KeptStep ==
    \A i \in kept \ kept' :
      \/ \E s \in DOMAIN active : i \in Range(active[s].items) /\
           (s \notin DOMAIN active' \/ active'[s].items = <<>>)
      \/ \E s \in DOMAIN stored : i \in Range(stored[s].recording.items) /\
           (s \notin DOMAIN stored' \/ s \notin DOMAIN active')
\* ListRecordings pages and SessionReplay: with the store unchanged and no two
\* equal times, pages of any size cover every readable recording exactly once;
\* the reloaded one has every interaction and is off by less than a second; a
\* replay follows the recording, and comparing replays the other way round
\* finds the same differences.
ReadsFaithful ==
    /\ Cardinality(Orders) = 1 =>
         \A limit \in 1 .. 2 : \A o \in Orders :
           ListRecordings(o, limit, 0) \o ListRecordings(o, Len(o), limit) =
             SelectSeq(o, LAMBDA s : s \notin broken)
    /\ \A s \in DOMAIN stored :
         /\ Loaded(s).items = stored[s].recording.items
         /\ RecordedSeconds(Loaded(s)) - RecordedSeconds(stored[s].recording) \in
              -(Second - 1) .. Second - 1
    /\ loaded # <<>> =>
         /\ \A k \in DOMAIN results : Len(results[k]) <= Len(loaded[1].items)
         /\ \A j, k \in DOMAIN results :
              /\ Compare(results[j], results[k]).differences = Compare(results[k], results[j]).differences
              /\ results[j] = results[k] => Compare(results[j], results[k]).differences = {}

-----------------------------------------------------------------------------
(***************************************************************************)
(* evaluation: the searches for a best configuration.  PromptOptimizer     *)
(* (grid, random, genetic), RandomSearchOptimizer and BayesianOptimizer    *)
(* evaluate configurations one after another, keep a history, and return   *)
(* the best.                                                               *)
(*                                                                         *)
(* What is random in the code is a choice here.  The Bayesian proposal is  *)
(* the best of a random sample of candidates, so it may be any candidate:  *)
(* the acquisition functions only weigh them.                              *)
(***************************************************************************)

CONSTANTS
    Variations,      \* parameter -> the sequence of its values
    Cases,           \* test cases: the accuracy of a prompt is the number that succeed
    Iterations,      \* nSamples, nIterations
    NInitial,        \* the Bayesian optimizer's random start
    PopulationSize, Generations,
    MaxMutations,    \* parameters of one member that are mutated in a generation
    MaxRuns          \* calls of Optimize on one optimizer

VARIABLES
    strategy,        \* "grid", "random", "genetic", "search", "bayesian"
    maximize, metric,\* the objective: its direction and the metric it looks up
    runs,
    plan,            \* the configurations still to evaluate, where the strategy fixes them
    population, fitness, generation,
    best,            \* the evaluations; the best so far, in a sequence
    spent,           \* evaluations of this call
    cancelled

optimizerVars == <<strategy, maximize, metric, pc, runs, plan, population, fitness, generation,
          history, best, spent, cancelled>>
setting == <<strategy, maximize, metric>>
genes == <<population, fitness, generation>>

Parameters == DOMAIN Variations
Configs == {c \in [Parameters -> UNION {Range(Variations[p]) : p \in Parameters}] :
              \A p \in Parameters : c[p] \in Range(Variations[p])}
Scores == [accuracy : 0 .. Cases]
Prompting == {"grid", "random", "genetic"}

OptimizerTypeOK ==
    /\ strategy \in Prompting \cup {"search", "bayesian"} /\ maximize \in BOOLEAN
    /\ metric \in {"accuracy", "missing"} /\ pc \in {"idle", "running", "done", "failed"}
    /\ runs \in 0 .. MaxRuns /\ \A i \in DOMAIN plan : plan[i] \in Configs
    /\ \A i \in DOMAIN population : population[i] \in Configs
    /\ Len(fitness) <= PopulationSize /\ generation \in 0 .. Generations
    /\ \A i \in DOMAIN history : history[i].config \in Configs /\ history[i].scores \in Scores
    /\ Len(best) <= 1 /\ spent \in 0 .. Len(history) /\ cancelled \in BOOLEAN

OptimizerInit ==
    /\ strategy \in Prompting \cup {"search", "bayesian"} /\ maximize \in BOOLEAN
    /\ metric \in IF strategy \in Prompting THEN {"accuracy", "missing"} ELSE {"accuracy"}
    /\ pc = "idle" /\ runs = 0 /\ plan = <<>> /\ population = <<>> /\ fitness = <<>>
    /\ generation = 0 /\ history = <<>> /\ best = <<>> /\ spent = 0 /\ cancelled = FALSE

-----------------------------------------------------------------------------
\* getObjectiveScore: a metric that was not measured counts as 0.
getObjectiveScore(scores) ==
    IF metric \notin DOMAIN scores THEN 0
    ELSE IF maximize THEN scores[metric] ELSE -scores[metric]

\* The configurations with the parameters taken in the order of keys.
RECURSIVE cartesianProduct(_, _, _)
cartesianProduct(keys, k, current) ==
    IF k > Len(keys) THEN <<current>>
    ELSE LET values == Variations[keys[k]]
             under(i) == cartesianProduct(keys, k + 1, [current EXCEPT ![keys[k]] = values[i]])
         IN FlattenSeq([i \in DOMAIN values |-> under(i)])

\* The order of the keys is a map's: any.
generateAllConfigs ==
    LET some == CHOOSE c \in Configs : TRUE
    IN {cartesianProduct(keys, 1, some) : keys \in SetToSeqs(Parameters)}

sampleConfig == Configs
Sample == Configs

\* evaluatePrompt: how many of the test cases the agent answered.
evaluatePrompt == Scores
\* An objective of the two other optimizers returns a score, or an error.
objective == Scores

-----------------------------------------------------------------------------
(* The steps the strategies share. *)

StartSearch(plans, populations, h, b) ==
    /\ pc \in {"idle", "done", "failed"} /\ runs < MaxRuns
    /\ pc' = "running" /\ runs' = runs + 1 /\ spent' = 0 /\ cancelled' = FALSE
    /\ plan' \in plans /\ population' \in populations
    /\ fitness' = <<>> /\ generation' = 0 /\ history' = h /\ best' = b
    /\ UNCHANGED setting

better_Ties(s, b) == b = <<>> \/ getObjectiveScore(s) >= getObjectiveScore(b[1].scores)

better(s, b) == b = <<>> \/ getObjectiveScore(s) > getObjectiveScore(b[1].scores)

\* One evaluation goes to the history, and replaces the best if it is better.
Evaluated(config, scores) ==
    LET e == [config |-> config, scores |-> scores]
    IN /\ history' = Append(history, e) /\ spent' = spent + 1
       /\ best' = IF better(scores, best) THEN <<e>> ELSE best
       /\ UNCHANGED <<setting, pc, runs, cancelled>>

Returned(how) == pc' = how /\ UNCHANGED <<setting, runs, plan, genes, history, best, spent, cancelled>>

\* ctx.Done is looked at before every evaluation.
GivesUp == pc = "running" /\ cancelled /\ Returned("failed")

-----------------------------------------------------------------------------
OptimizeGrid ==
    /\ strategy = "grid"
    /\ \/ StartSearch(generateAllConfigs, {<<>>}, <<>>, <<>>)
       \/ pc = "running" /\ plan = <<>> /\ Returned("done")
       \/ /\ pc = "running" /\ plan # <<>> /\ ~cancelled
          /\ \E s \in evaluatePrompt : Evaluated(Head(plan), s)
          /\ plan' = Tail(plan) /\ UNCHANGED genes
       \/ plan # <<>> /\ GivesUp

OptimizeRandom ==
    /\ strategy = "random"
    /\ \/ StartSearch({<<>>}, {<<>>}, <<>>, <<>>)
       \/ pc = "running" /\ spent = Iterations /\ Returned("done")
       \/ /\ pc = "running" /\ spent < Iterations /\ ~cancelled
          /\ \E c \in sampleConfig, s \in evaluatePrompt : Evaluated(c, s)
          /\ UNCHANGED <<plan, genes>>
       \/ spent < Iterations /\ GivesUp

\* A tournament of two different members.
winner(i, j) == IF fitness[j] > fitness[i] THEN population[j] ELSE population[i]
Members == 1 .. PopulationSize
tournament == {winner(i, j) : <<i, j>> \in {m \in Members \X Members : m[1] # m[2]}}

\* Parameters of a copied winner get one of their values, with the rate's chance.
mutated(c) == {d \in Configs : Cardinality({p \in Parameters : d[p] # c[p]}) <= MaxMutations}

\* Fault: one generation more.
moreGenerations_OneMore == generation <= Generations

moreGenerations == generation < Generations

OptimizeGenetic ==
    /\ strategy = "genetic"
    /\ \/ StartSearch({<<>>}, [Members -> sampleConfig], <<>>, <<>>)
       \/ /\ pc = "running" /\ Len(fitness) < PopulationSize /\ ~cancelled
          /\ \E s \in evaluatePrompt :
               /\ Evaluated(population[Len(fitness) + 1], s)
               /\ fitness' = Append(fitness, getObjectiveScore(s))
          /\ UNCHANGED <<plan, population, generation>>
       \/ Len(fitness) < PopulationSize /\ GivesUp
       \/ /\ pc = "running" /\ Len(fitness) = PopulationSize /\ moreGenerations
          /\ population' \in [Members -> UNION {mutated(c) : c \in tournament}]
          /\ fitness' = <<>> /\ generation' = generation + 1
          /\ UNCHANGED <<setting, pc, runs, plan, history, best, spent, cancelled>>
       \/ /\ pc = "running" /\ Len(fitness) = PopulationSize /\ ~moreGenerations
          /\ Returned("done")

RandomSearchOptimize ==
    /\ strategy = "search"
    /\ \/ StartSearch({<<>>}, {<<>>}, <<>>, <<>>)
       \/ pc = "running" /\ spent = Iterations /\ Returned("done")
       \/ /\ pc = "running" /\ spent < Iterations /\ ~cancelled
          /\ \/ \E c \in Sample, s \in objective : Evaluated(c, s) /\ UNCHANGED <<plan, genes>>
             \/ Returned("failed")
       \/ spent < Iterations /\ GivesUp

\* The best of a sample of candidates.
proposeNext == Sample

addObservation(c, s) == Evaluated(c, s) /\ UNCHANGED <<plan, genes>>

\* History and best are the optimizer's: a second call goes on from them.  The
\* context is the objective's business.
BayesianOptimize ==
    /\ strategy = "bayesian"
    /\ \/ StartSearch({<<>>}, {<<>>}, history, best)
       \/ pc = "running" /\ spent = Iterations /\ Returned("done")
       \/ /\ pc = "running" /\ spent < Iterations
          /\ \/ \E c \in IF spent < NInitial THEN Sample ELSE proposeNext, s \in objective :
                  addObservation(c, s)
             \/ Returned("failed")

Optimize == OptimizeGrid \/ OptimizeRandom \/ OptimizeGenetic

Cancel ==
    /\ pc = "running" /\ ~cancelled /\ cancelled' = TRUE
    /\ UNCHANGED <<setting, pc, runs, plan, genes, history, best, spent>>

OptimizerNext == Optimize \/ RandomSearchOptimize \/ BayesianOptimize \/ Cancel

OptimizerSpec == OptimizerInit /\ [][OptimizerNext]_optimizerVars

-----------------------------------------------------------------------------
(* Properties. *)

\* The best that is returned is an evaluation of the history, none of the
\* history is better, and it is the first of its score: for a minimizing
\* objective, for one that was never measured, and for a Bayesian optimizer
\* that is called again after it failed.
BestOfHistory ==
    best # <<>> =>
      \E i \in DOMAIN history :
        /\ history[i] = best[1]
        /\ \A j \in DOMAIN history :
             LET mine == getObjectiveScore(best[1].scores)
                 other == getObjectiveScore(history[j].scores)
             IN other <= mine /\ (j < i => other < mine)

\* A search that succeeds has made all its evaluations: the grid's every
\* configuration once, the samples asked for, and every member of every
\* generation.
SearchedAll ==
    pc = "done" =>
      CASE strategy = "grid" -> /\ Len(history) = Cardinality(Configs)
                                /\ {history[i].config : i \in DOMAIN history} = Configs
        [] strategy \in {"random", "search"} -> Len(history) = Iterations
        [] strategy = "genetic" -> Len(history) = PopulationSize * (Generations + 1)
        [] strategy = "bayesian" -> spent = Iterations /\ Len(history) >= Iterations
=============================================================================
