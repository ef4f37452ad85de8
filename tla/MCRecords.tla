------------------------------ MODULE MCRecords ------------------------------
(*****************************************************************************)
(* What is kept and measured, safety: the memories of sessions and of the    *)
(* hierarchy; recordings, optimizers of prompts, evaluations, benchmarks     *)
(* and regressions. Each behaviour exercises one of the components, the      *)
(* subject; the variables of the others are unused.                          *)
(*****************************************************************************)
EXTENDS Integers, Sequences

VARIABLES
    subject,
    clock, stored, pc, results, history,
    backend, tagForm, now, store, expiry, pending, selecting, accepted, cleared,
    expired, count,
    working, short, long, created, accessed, storing, deleting, finding, found, doomed,
    deleted, gone,
    storage, active, broken, at, begun, completed, loaded,
    strategy, maximize, metric, runs, plan, population, fitness, generation, best,
    spent, cancelled,
    cases, index, passed, failed, errors, latencies, measured, labels, done,
    stepResults, Enabled,
    benchmark, size, needles, suite, text, asked,
    baseline, reported, session

memoryVars == <<backend, tagForm, now, store, expiry, pending, selecting, accepted,
                cleared, expired, count>>
tiersVars == <<working, short, long, created, accessed, storing, deleting, finding,
               found, doomed, deleted, gone>>
recorderVars == <<storage, active, broken, at, begun, completed, loaded>>
optimizersVars == <<strategy, maximize, metric, runs, plan, population, fitness,
                    generation, best, spent, cancelled>>
evaluatorVars == <<cases, index, passed, failed, errors, latencies, measured, labels,
                   done, stepResults, Enabled>>
benchmarksVars == <<benchmark, size, needles, suite, text, asked>>
regressionsVars == <<baseline, reported, session>>
suiteVars == <<subject, clock, stored, pc, results, history, memoryVars, tiersVars,
               recorderVars, optimizersVars, evaluatorVars, benchmarksVars,
               regressionsVars>>

\* The value of the variables that the subject does not have.
Unused == "unused"

Messages == {[text |-> "a", rank |-> 1, imp |-> 3, own |-> 8, tags |-> {}, sim |-> 2],
             [text |-> "b", rank |-> 2, imp |-> 8, own |-> 5, tags |-> {"t"}, sim |-> 1]}

Mem == INSTANCE Memory WITH
    Backends <- {"ephemeral", "redis", "vector", "hierarchy", "endless"}, Sessions <-
    {"s1", "s2"}, Messages <- Messages, Callers <- {"c1", "c2"}, MaxSize <- 1, TTL <- 1,
    MinImportance <- 7, MinRecent <- 1, Threshold <- 6, Window <- 2, Limits <- {1, 2},
    MaxStores <- 2, MaxTime <- 1, Importance <- <<7, 3, 5>>, LongMinImportance <- 5,
    WorkingCap <- 1, ShortCap <- 2, ShortTTL <- 2, Limit <- 1, MaxClock <- 3
Rec == INSTANCE Evaluation WITH
    RecordedSessions <- {"s1", "s2"}, Callers <- {"c1", "c2"}, MaxCalls <- 2, MaxTime <-
    1, Second <- 2, MaxReplays <- 2, Variations <- [a |-> <<"x", "y">>, b |-> <<"u",
    "v">>], Cases <- 1, Iterations <- 2, NInitial <- 1, PopulationSize <- 2, Generations
    <- 1, MaxMutations <- 1, MaxRuns <- 2, MaxCases <- 2, Latencies <- {1, 2},
    MaxEvaluations <- 1, MaxWords <- 12, MaxTokens <- 40, MaxNeedles <- 3, Filler <- 5,
    Needle <- 2, MaxTurns <- 9, PlantEvery <- 2, Facts <- 3, Metrics <- {"accuracy",
    "latency", "compression_ratio"}, Values <- {0, 8, 10, 12}, MaxMeasured <- 2,
    thresholds <- [accuracy |-> 10, latency |-> 20], MaxHistory <- 2, Windows <- {1, 2,
    3}, Sessions <- {"s1"}, MaxErrors <- 1, MaxMeasurements <- 2, MaxResults <- 2

SuiteInit ==
    /\ subject \in {"memory", "tiers", "recorder", "optimizers", "evaluator",
                    "benchmarks", "regressions"}
    /\ IF subject = "memory" THEN Mem!SessionInit
       ELSE backend = Unused /\ tagForm = Unused /\ now = Unused /\ store = Unused /\ expiry =
            Unused /\ pending = Unused /\ selecting = Unused /\ accepted = Unused /\ cleared =
            Unused /\ expired = Unused /\ count = Unused
    /\ IF subject = "tiers" THEN Mem!TiersInit
       ELSE working = Unused /\ short = Unused /\ long = Unused /\ created = Unused /\ accessed
            = Unused /\ storing = Unused /\ deleting = Unused /\ finding = Unused /\ found =
            Unused /\ doomed = Unused /\ deleted = Unused /\ gone = Unused
    /\ IF subject = "recorder" THEN Rec!RecorderInit
       ELSE storage = Unused /\ active = Unused /\ broken = Unused /\ at = Unused /\ begun =
            Unused /\ completed = Unused /\ loaded = Unused
    /\ IF subject = "optimizers" THEN Rec!OptimizerInit
       ELSE strategy = Unused /\ maximize = Unused /\ metric = Unused /\ runs = Unused /\ plan =
            Unused /\ population = Unused /\ fitness = Unused /\ generation = Unused /\ best =
            Unused /\ spent = Unused /\ cancelled = Unused
    /\ IF subject = "evaluator" THEN Rec!EvaluationInit
       ELSE cases = Unused /\ index = Unused /\ passed = Unused /\ failed = Unused /\ errors =
            Unused /\ latencies = Unused /\ measured = Unused /\ labels = Unused /\ done =
            Unused /\ stepResults = Unused /\ Enabled = Unused
    /\ IF subject = "benchmarks" THEN Rec!BenchmarksInit
       ELSE benchmark = Unused /\ size = Unused /\ needles = Unused /\ suite = Unused /\ text =
            Unused /\ asked = Unused
    /\ IF subject = "regressions" THEN Rec!RegressionsInit
       ELSE baseline = Unused /\ reported = Unused /\ session = Unused
    /\ IF subject \in {"tiers", "recorder"} THEN TRUE
       ELSE clock = Unused /\ stored = Unused
    /\ IF subject \in {"recorder", "optimizers"} THEN TRUE
       ELSE pc = Unused
    /\ IF subject \in {"recorder", "regressions"} THEN TRUE
       ELSE results = Unused
    /\ IF subject \in {"optimizers", "regressions"} THEN TRUE
       ELSE history = Unused

\* What a step of a subject leaves alone.
memoryRest == <<subject, clock, stored, pc, results, history, tiersVars, recorderVars,
                optimizersVars, evaluatorVars, benchmarksVars, regressionsVars>>
tiersRest == <<subject, pc, results, history, memoryVars, recorderVars, optimizersVars,
               evaluatorVars, benchmarksVars, regressionsVars>>
recorderRest == <<subject, history, memoryVars, tiersVars, optimizersVars,
                  evaluatorVars, benchmarksVars, regressionsVars>>
optimizersRest == <<subject, clock, stored, results, memoryVars, tiersVars,
                    recorderVars, evaluatorVars, benchmarksVars, regressionsVars>>
evaluatorRest == <<subject, clock, stored, pc, results, history, memoryVars, tiersVars,
                   recorderVars, optimizersVars, benchmarksVars, regressionsVars>>
benchmarksRest == <<subject, clock, stored, pc, results, history, memoryVars, tiersVars,
                    recorderVars, optimizersVars, evaluatorVars, regressionsVars>>
regressionsRest == <<subject, clock, stored, pc, memoryVars, tiersVars, recorderVars,
                     optimizersVars, evaluatorVars, benchmarksVars>>

SuiteNext ==
    \/ subject = "memory" /\ Mem!SessionNext /\ UNCHANGED memoryRest
    \/ subject = "tiers" /\ Mem!TiersNext /\ UNCHANGED tiersRest
    \/ subject = "recorder" /\ Rec!RecorderNext /\ UNCHANGED recorderRest
    \/ subject = "optimizers" /\ Rec!OptimizerNext /\ UNCHANGED optimizersRest
    \/ subject = "evaluator" /\ Rec!EvaluationNext /\ UNCHANGED evaluatorRest
    \/ subject = "benchmarks" /\ Rec!BenchmarksNext /\ UNCHANGED benchmarksRest
    \/ subject = "regressions" /\ Rec!RegressionsNext /\ UNCHANGED regressionsRest

SuiteSpec == SuiteInit /\ [][SuiteNext]_suiteVars

-----------------------------------------------------------------------------
(* Properties. *)

\* The subject keeps its types: its counters, queues, tables and control
\* points stay in range.
SuiteTypeOK ==
    /\ subject = "memory" => Mem!SessionTypeOK
    /\ subject = "tiers" => Mem!TiersTypeOK
    /\ subject = "recorder" => Rec!RecorderTypeOK
    /\ subject = "optimizers" => Rec!OptimizerTypeOK
    /\ subject = "evaluator" => Rec!EvaluationTypeOK
    /\ subject = "benchmarks" => Rec!BenchmarksTypeOK
    /\ subject = "regressions" => Rec!RegressionsTypeOK

\* What was stored is found as the memories promise: within their bounds, from
\* the asked session only, the newest or the most important first, never what
\* was cleared, deleted or expired; and a summary, a window or an importance
\* selection leaves out only what it may.
MemorySound ==
    /\ subject = "memory" => Mem!RetrievesNewest /\ Mem!AcceptedIsKept /\ Mem!SelectionSound
    /\ subject = "tiers" => Mem!TiersCoherent

\* The best prompt an optimizer returns is the best of what it tried in this
\* run, and each search tries what it should: the whole grid, every iteration,
\* every generation.
SearchesSound == subject = "optimizers" => Rec!BestOfHistory /\ Rec!SearchedAll

\* What is reported of an evaluation is what happened: every case counts once
\* and the aggregates are those of the cases; needles stand where they were to
\* be planted; a regression is a change for the worse beyond its threshold,
\* and the statistics are those of the sessions.
ReportsSound ==
    /\ subject = "evaluator" => Rec!CasesAccounted /\ Rec!AggregatesSound
    /\ subject = "benchmarks" => Rec!NeedlesEmbedded
    /\ subject = "regressions" => Rec!RegressionsSound /\ Rec!TrendsSound /\ Rec!StatisticsSound

\* Recordings keep apart: each has its own interactions, in the order they
\* completed; the pages of a listing cover every readable recording once, what
\* is loaded is what was saved up to the second, and a replay follows its
\* recording.
RecordingsSound == subject = "recorder" => Rec!RecordingsDisjoint /\ Rec!ReadsFaithful

\* An interaction that was recorded goes only with its recording: deleted,
\* lost with a save that fails, or replaced by a recording of its session that
\* came after it.
InteractionsKept == [][subject = "recorder" => Rec!KeptStep]_suiteVars
=============================================================================
