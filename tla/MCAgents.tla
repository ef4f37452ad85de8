------------------------------ MODULE MCAgents -------------------------------
(*****************************************************************************)
(* Agents made of agents, and the techniques of reasoning: compositions,     *)
(* the patterns, and the searches. Each behaviour exercises one of the       *)
(* components, the subject; the variables of the others are unused.          *)
(*****************************************************************************)
EXTENDS Integers, Sequences

VARIABLES
    subject,
    cancelled, status, answer, pc, results, context, calls, ctx, outcome, history,
    steps, allowReplanning, nodes, edges,
    tree, works, route, started, input, arrived,
    plan, index,
    config, rounds, responses,
    agents, tasks, visited, stayed,
    timeout, completed, result, attempt, execCtx,
    goals, iterationCount, isRunning, goal, runs, stopped,
    hasPrompt, maxHistory, log, sent, turn,
    kind, tools, step, toolsUsed, thinkingSteps, executed, delegated,
    format, iteration, output, previousScore,
    deps, todo, executions, asked,
    configured, approver, confidence, content, approvals,
    votingStrategy, verifier, samples, winner, candidates, stored,
    technique, custom, compose, validate, plans, judged, validated, verdict, shown,
    strategy, open, node, branches,
    aggregator, pair

compositionVars == <<tree, works, route, started, input, arrived>>
supervisorVars == <<plan, index>>
collaborativeVars == <<config, rounds, responses>>
multiVars == <<agents, tasks, visited, stayed>>
taskVars == <<timeout, completed, result, attempt, execCtx>>
autonomousVars == <<goals, iterationCount, isRunning, goal, runs, stopped>>
conversationVars == <<hasPrompt, maxHistory, log, sent, turn>>
tooluseVars == <<kind, tools, step, toolsUsed, thinkingSteps, executed, delegated>>
reflectionVars == <<format, iteration, output, previousScore>>
planningVars == <<deps, todo, executions, asked>>
hitlVars == <<configured, approver, confidence, content, approvals>>
consistencyVars == <<votingStrategy, verifier, samples, winner, candidates, stored>>
stepsVars == <<technique, custom, compose, validate, plans, judged, validated, verdict,
               shown>>
totVars == <<strategy, open, node, branches>>
gotVars == <<aggregator, pair>>
suiteVars == <<subject, cancelled, status, answer, pc, results, context, calls, ctx,
               outcome, history, steps, allowReplanning, nodes, edges, compositionVars,
               supervisorVars, collaborativeVars, multiVars, taskVars, autonomousVars,
               conversationVars, tooluseVars, reflectionVars, planningVars, hitlVars,
               consistencyVars, stepsVars, totVars, gotVars>>

\* The value of the variables that the subject does not have.
Unused == "unused"

At(s, P) == subject = s /\ P

\* A composed agent of every kind above one of every kind.
Tree(outer, inner) ==
    [n \in {"root", "inner"} |->
        IF n = "root" THEN [kind |-> outer, kids |-> <<"inner", "c">>, default |-> 2]
        ELSE [kind |-> inner, kids |-> <<"a", "b">>, default |-> 0]]
Kinds == {"composition.Sequential", "patterns.Sequential", "SequentialPattern",
          "composition.Parallel", "patterns.Parallel", "ParallelPattern",
          "composition.Fallback", "patterns.Fallback", "Recovery",
          "Conditional", "Router", "RouterPattern", "Consensus"}
Trees == {Tree(outer, inner) : outer, inner \in Kinds}

InputKey == [p |-> "any", a |-> "query"]

\* No dependencies, a chain, a join, and one on a step that comes later.
Dependencies == {[i \in 1 .. 3 |-> {}], <<{}, {1}, {2}>>, <<{}, {}, {1, 2}>>, <<{2}, {}, {}>>}

\* Two spellings of one answer, another answer, and an empty one.
Responses == {[text |-> "x", norm |-> "x", len |-> 1], [text |-> "X", norm |-> "x", len |-> 3],
              [text |-> "y", norm |-> "y", len |-> 2], [text |-> "", norm |-> "", len |-> 0]}

C == INSTANCE Composition WITH
    Trees <- Trees, Leaves <- {"a", "b", "c"}
S == INSTANCE AgentTeams WITH
    Types <- {"t1", "t2"}, MaxSubtasks <- 3, Agents <- 4, MaxRounds <- 2, Opinions <-
    {"x", "y"}, Names <- {"n1", "n2"}, MaxCalls <- 2
T == INSTANCE StatefulAgents WITH
    Callers <- {"c1", "c2"}, Retries <- 2, MaxIterations <- 7, Priorities <- {1, 2},
    MaxGoals <- 2, MaxRuns <- 2, MaxTurns <- 3, Limits <- {0, 1, 3}
U == INSTANCE PromptedReasoning WITH
    InputKey <- InputKey, MaxSteps <- 2, MaxCalls <- 2, NumSamples <- 4, Responses <-
    Responses, MaxLines <- 3
R == INSTANCE ReviewedAgents WITH
    MaxIterations <- 4, QualityThreshold <- 9, ImprovementThreshold <- 1, Scores <- {0,
    3, 6, 9, 10, 80}, MaxSteps <- 3, MaxLines <- 4, Dependencies <- Dependencies, Levels
    <- {0, 3, 8, 10}
W == INSTANCE ThoughtSearch WITH
    BranchingFactor <- 2, MaxDepth <- 2, PruneThreshold <- 3, Scores <- {1, 5, 8},
    MaxNodes <- 4, MaxEdges <- 3, MaxPremises <- 4, MaxNew <- 3, MaxPath <- 6
Q == INSTANCE ReasoningGraph WITH
    GraphNodes <- 3, GraphEdges <- 4

\* The constants are those the proofs about tasks in ServiceProofs assume.
ASSUME AgentsAssumption == T!TaskAssumption

SuiteInit ==
    /\ subject \in {"composition", "supervisor", "collaborative", "multi", "task",
                    "autonomous", "conversation", "tooluse", "reflection", "planning",
                    "hitl", "consistency", "steps", "tot", "graphs", "got"}
    /\ IF subject = "composition" THEN C!Init
       ELSE tree = Unused /\ works = Unused /\ route = Unused /\ started = Unused /\ input =
            Unused /\ arrived = Unused
    /\ IF subject = "supervisor" THEN S!SupervisorInit ELSE plan = Unused /\ index = Unused
    /\ IF subject = "collaborative" THEN S!CollaborativeInit
       ELSE config = Unused /\ rounds = Unused /\ responses = Unused
    /\ IF subject = "multi" THEN S!MultiAgentInit
       ELSE agents = Unused /\ tasks = Unused /\ visited = Unused /\ stayed = Unused
    /\ IF subject = "task" THEN T!TaskInit
       ELSE timeout = Unused /\ completed = Unused /\ result = Unused /\ attempt = Unused 
            /\ execCtx = Unused
    /\ IF subject = "autonomous" THEN T!AutonomousInit
       ELSE goals = Unused /\ iterationCount = Unused /\ isRunning = Unused /\ goal = Unused 
            /\ runs = Unused /\ stopped = Unused
    /\ IF subject = "conversation" THEN T!ConversationalInit
       ELSE hasPrompt = Unused /\ maxHistory = Unused /\ log = Unused /\ sent = Unused /\ turn =
            Unused
    /\ IF subject = "tooluse" THEN U!ToolsInit
       ELSE kind = Unused /\ tools = Unused /\ step = Unused /\ toolsUsed = Unused 
            /\ thinkingSteps = Unused /\ executed = Unused /\ delegated = Unused
    /\ IF subject = "reflection" THEN R!ReflectionInit
       ELSE format = Unused /\ iteration = Unused /\ output = Unused /\ previousScore = Unused
    /\ IF subject = "planning" THEN R!PlanningInit
       ELSE deps = Unused /\ todo = Unused /\ executions = Unused /\ asked = Unused
    /\ IF subject = "hitl" THEN R!HumanInLoopInit
       ELSE configured = Unused /\ approver = Unused /\ confidence = Unused /\ content = Unused
            /\ approvals = Unused
    /\ IF subject = "consistency" THEN U!ConsistencyInit
       ELSE votingStrategy = Unused /\ verifier = Unused /\ samples = Unused /\ winner = Unused
            /\ candidates = Unused /\ stored = Unused
    /\ IF subject = "steps" THEN U!StepsInit
       ELSE technique = Unused /\ custom = Unused /\ compose = Unused /\ validate = Unused 
            /\ plans = Unused /\ judged = Unused /\ validated = Unused /\ verdict = Unused /\ shown
            = Unused
    /\ IF subject = "tot" THEN W!TreeInit
       ELSE strategy = Unused /\ open = Unused /\ node = Unused /\ branches = Unused
    /\ IF subject = "graphs" THEN Q!Init ELSE TRUE
    /\ IF subject = "got" THEN W!GotInit ELSE aggregator = Unused /\ pair = Unused
    /\ IF subject \in {"composition", "supervisor", "collaborative", "tooluse",
                      "reflection"} THEN TRUE
       ELSE cancelled = Unused
    /\ IF subject \in {"composition", "planning", "hitl"} THEN TRUE
       ELSE status = Unused
    /\ IF subject \in {"composition", "supervisor", "collaborative", "tooluse",
                      "reflection", "planning", "consistency", "steps", "tot", "got"} THEN TRUE
       ELSE answer = Unused
    /\ IF subject \in {"supervisor", "collaborative", "multi", "task", "autonomous",
                      "tooluse", "reflection", "planning", "hitl", "consistency",
                      "steps", "tot", "got"} THEN TRUE
       ELSE pc = Unused
    /\ IF subject \in {"supervisor", "multi", "autonomous", "steps"} THEN TRUE
       ELSE results = Unused
    /\ IF subject \in {"collaborative", "planning"} THEN TRUE
       ELSE context = Unused
    /\ IF subject \in {"multi", "tooluse"} THEN TRUE
       ELSE calls = Unused
    /\ IF subject \in {"task", "autonomous"} THEN TRUE
       ELSE ctx = Unused /\ outcome = Unused
    /\ IF subject \in {"conversation", "reflection"} THEN TRUE
       ELSE history = Unused
    /\ IF subject \in {"tooluse", "steps"} THEN TRUE
       ELSE steps = Unused
    /\ IF subject \in {"planning", "steps"} THEN TRUE
       ELSE allowReplanning = Unused
    /\ IF subject \in {"tot", "graphs", "got"} THEN TRUE
       ELSE nodes = Unused
    /\ IF subject \in {"graphs", "got"} THEN TRUE
       ELSE edges = Unused

\* What a step of a subject leaves alone.
compositionRest == <<subject, pc, results, context, calls, ctx, outcome, history, steps,
                     allowReplanning, nodes, edges, supervisorVars, collaborativeVars,
                     multiVars, taskVars, autonomousVars, conversationVars, tooluseVars,
                     reflectionVars, planningVars, hitlVars, consistencyVars, stepsVars,
                     totVars, gotVars>>
supervisorRest == <<subject, status, context, calls, ctx, outcome, history, steps,
                    allowReplanning, nodes, edges, compositionVars, collaborativeVars,
                    multiVars, taskVars, autonomousVars, conversationVars, tooluseVars,
                    reflectionVars, planningVars, hitlVars, consistencyVars, stepsVars,
                    totVars, gotVars>>
collaborativeRest == <<subject, status, results, calls, ctx, outcome, history, steps,
                       allowReplanning, nodes, edges, compositionVars, supervisorVars,
                       multiVars, taskVars, autonomousVars, conversationVars,
                       tooluseVars, reflectionVars, planningVars, hitlVars,
                       consistencyVars, stepsVars, totVars, gotVars>>
multiRest == <<subject, cancelled, status, answer, context, ctx, outcome, history,
               steps, allowReplanning, nodes, edges, compositionVars, supervisorVars,
               collaborativeVars, taskVars, autonomousVars, conversationVars,
               tooluseVars, reflectionVars, planningVars, hitlVars, consistencyVars,
               stepsVars, totVars, gotVars>>
taskRest == <<subject, cancelled, status, answer, results, context, calls, history,
              steps, allowReplanning, nodes, edges, compositionVars, supervisorVars,
              collaborativeVars, multiVars, autonomousVars, conversationVars,
              tooluseVars, reflectionVars, planningVars, hitlVars, consistencyVars,
              stepsVars, totVars, gotVars>>
autonomousRest == <<subject, cancelled, status, answer, context, calls, history, steps,
                    allowReplanning, nodes, edges, compositionVars, supervisorVars,
                    collaborativeVars, multiVars, taskVars, conversationVars,
                    tooluseVars, reflectionVars, planningVars, hitlVars,
                    consistencyVars, stepsVars, totVars, gotVars>>
conversationRest == <<subject, cancelled, status, answer, pc, results, context, calls,
                      ctx, outcome, steps, allowReplanning, nodes, edges,
                      compositionVars, supervisorVars, collaborativeVars, multiVars,
                      taskVars, autonomousVars, tooluseVars, reflectionVars,
                      planningVars, hitlVars, consistencyVars, stepsVars, totVars,
                      gotVars>>
tooluseRest == <<subject, status, results, context, ctx, outcome, history,
                 allowReplanning, nodes, edges, compositionVars, supervisorVars,
                 collaborativeVars, multiVars, taskVars, autonomousVars,
                 conversationVars, reflectionVars, planningVars, hitlVars,
                 consistencyVars, stepsVars, totVars, gotVars>>
reflectionRest == <<subject, status, results, context, calls, ctx, outcome, steps,
                    allowReplanning, nodes, edges, compositionVars, supervisorVars,
                    collaborativeVars, multiVars, taskVars, autonomousVars,
                    conversationVars, tooluseVars, planningVars, hitlVars,
                    consistencyVars, stepsVars, totVars, gotVars>>
planningRest == <<subject, cancelled, results, calls, ctx, outcome, history, steps,
                  nodes, edges, compositionVars, supervisorVars, collaborativeVars,
                  multiVars, taskVars, autonomousVars, conversationVars, tooluseVars,
                  reflectionVars, hitlVars, consistencyVars, stepsVars, totVars, gotVars>>
hitlRest == <<subject, cancelled, answer, results, context, calls, ctx, outcome,
              history, steps, allowReplanning, nodes, edges, compositionVars,
              supervisorVars, collaborativeVars, multiVars, taskVars, autonomousVars,
              conversationVars, tooluseVars, reflectionVars, planningVars,
              consistencyVars, stepsVars, totVars, gotVars>>
consistencyRest == <<subject, cancelled, status, results, context, calls, ctx, outcome,
                     history, steps, allowReplanning, nodes, edges, compositionVars,
                     supervisorVars, collaborativeVars, multiVars, taskVars,
                     autonomousVars, conversationVars, tooluseVars, reflectionVars,
                     planningVars, hitlVars, stepsVars, totVars, gotVars>>
stepsRest == <<subject, cancelled, status, context, calls, ctx, outcome, history, nodes,
               edges, compositionVars, supervisorVars, collaborativeVars, multiVars,
               taskVars, autonomousVars, conversationVars, tooluseVars, reflectionVars,
               planningVars, hitlVars, consistencyVars, totVars, gotVars>>
totRest == <<subject, cancelled, status, results, context, calls, ctx, outcome, history,
             steps, allowReplanning, edges, compositionVars, supervisorVars,
             collaborativeVars, multiVars, taskVars, autonomousVars, conversationVars,
             tooluseVars, reflectionVars, planningVars, hitlVars, consistencyVars,
             stepsVars, gotVars>>
graphsRest == <<subject, cancelled, status, answer, pc, results, context, calls, ctx,
                outcome, history, steps, allowReplanning, compositionVars,
                supervisorVars, collaborativeVars, multiVars, taskVars, autonomousVars,
                conversationVars, tooluseVars, reflectionVars, planningVars, hitlVars,
                consistencyVars, stepsVars, totVars, gotVars>>
gotRest == <<subject, cancelled, status, results, context, calls, ctx, outcome, history,
             steps, allowReplanning, compositionVars, supervisorVars, collaborativeVars,
             multiVars, taskVars, autonomousVars, conversationVars, tooluseVars,
             reflectionVars, planningVars, hitlVars, consistencyVars, stepsVars, totVars>>

SuiteNext ==
    \/ subject = "composition" /\ C!Next /\ UNCHANGED compositionRest
    \/ subject = "supervisor" /\ S!SupervisorNext /\ UNCHANGED supervisorRest
    \/ subject = "collaborative" /\ S!CollaborativeNext /\ UNCHANGED collaborativeRest
    \/ subject = "multi" /\ S!MultiAgentNext /\ UNCHANGED multiRest
    \/ subject = "task" /\ T!TaskNext /\ UNCHANGED taskRest
    \/ subject = "autonomous" /\ T!AutonomousNext /\ UNCHANGED autonomousRest
    \/ subject = "conversation" /\ T!ConversationalNext /\ UNCHANGED conversationRest
    \/ subject = "tooluse" /\ U!ToolsNext /\ UNCHANGED tooluseRest
    \/ subject = "reflection" /\ R!ReflectionNext /\ UNCHANGED reflectionRest
    \/ subject = "planning" /\ R!PlanningNext /\ UNCHANGED planningRest
    \/ subject = "hitl" /\ R!HumanInLoopNext /\ UNCHANGED hitlRest
    \/ subject = "consistency" /\ U!ConsistencyNext /\ UNCHANGED consistencyRest
    \/ subject = "steps" /\ U!StepsNext /\ UNCHANGED stepsRest
    \/ subject = "tot" /\ W!TreeNext /\ UNCHANGED totRest
    \/ subject = "graphs" /\ Q!Next /\ UNCHANGED graphsRest
    \/ subject = "got" /\ W!GotNext /\ UNCHANGED gotRest

compositionAll == <<compositionVars, cancelled, status, answer>>
supervisorAll == <<supervisorVars, pc, results, cancelled, answer>>
collaborativeAll == <<collaborativeVars, pc, context, cancelled, answer>>
multiAll == <<multiVars, pc, results, calls>>
taskAll == <<taskVars, pc, ctx, outcome>>
autonomousAll == <<autonomousVars, pc, results, ctx, outcome>>
conversationAll == <<conversationVars, history>>
tooluseAll == <<tooluseVars, pc, calls, steps, cancelled, answer>>
reflectionAll == <<reflectionVars, pc, history, cancelled, answer>>
planningAll == <<planningVars, allowReplanning, pc, status, context, answer>>
hitlAll == <<hitlVars, pc, status>>
consistencyAll == <<consistencyVars, pc, answer>>
stepsAll == <<stepsVars, allowReplanning, pc, steps, results, answer>>
totAll == <<totVars, nodes, pc, answer>>
gotAll == <<gotVars, nodes, edges, pc, answer>>

\* The fairness of the modules, each for its own subject; the steps of different
\* subjects are never enabled together, so that one condition may stand for several.
\* What it rests on: the agents, models and tools that are called return, and
\* goroutines that can run do. Nothing is assumed of cancellation, nor of
\* callers.
SuiteFairness ==
    /\ WF_compositionAll(subject = "composition" /\ (\E n \in C!Nodes : C!NodeSteps(n)))
    /\ WF_supervisorAll(subject = "supervisor" /\ S!SupervisorStep)
    /\ WF_collaborativeAll(subject = "collaborative" /\ S!CollaborativeStep)
    /\ WF_multiAll(subject = "multi" /\ (\E f \in BOOLEAN : S!AgentReturns(f)))
    /\ WF_multiAll(subject = "multi" /\ S!Return)
    /\ WF_multiAll(subject = "multi" /\ (\E n \in {"n1", "n2"} : S!CallAgent(n)))
    /\ WF_taskAll(subject = "task" /\ T!Step("c1"))
    /\ WF_taskAll(subject = "task" /\ T!Step("c2"))
    /\ WF_autonomousAll(subject = "autonomous" /\ T!Iterate)
    /\ WF_autonomousAll(subject = "autonomous" /\ T!WorkerReturns)
    /\ WF_conversationAll(subject = "conversation" /\ T!ChatReturns)
    /\ WF_tooluseAll(subject = "tooluse" /\ U!ToolStep)
    /\ WF_reflectionAll(subject = "reflection" /\ R!Step)
    /\ WF_planningAll(subject = "planning" /\ R!PlanningNext)
    /\ WF_hitlAll(subject = "hitl" /\ R!HumanInLoopNext)
    /\ WF_consistencyAll(subject = "consistency" /\ U!Step)
    /\ WF_stepsAll(subject = "steps" /\ U!StepsNext)
    /\ WF_totAll(subject = "tot" /\ W!TreeNext)
    /\ WF_gotAll(subject = "got" /\ W!GotNext)

SuiteSpec == SuiteInit /\ [][SuiteNext]_suiteVars /\ SuiteFairness

-----------------------------------------------------------------------------
(* Properties. *)

\* The subject keeps its types: its counters, queues, tables and control
\* points stay in range.
SuiteTypeOK ==
    /\ subject = "composition" => C!TypeOK
    /\ subject = "supervisor" => S!SupervisorTypeOK
    /\ subject = "collaborative" => S!CollaborativeTypeOK
    /\ subject = "multi" => S!MultiAgentTypeOK
    /\ subject = "task" => T!TaskTypeOK
    /\ subject = "autonomous" => T!AutonomousTypeOK
    /\ subject = "conversation" => T!ConversationalTypeOK
    /\ subject = "tooluse" => U!ToolsTypeOK
    /\ subject = "reflection" => R!ReflectionTypeOK
    /\ subject = "planning" => R!PlanningTypeOK
    /\ subject = "hitl" => R!HumanInLoopTypeOK
    /\ subject = "consistency" => U!ConsistencyTypeOK
    /\ subject = "steps" => U!StepsTypeOK
    /\ subject = "tot" => W!TreeTypeOK
    /\ subject = "graphs" => Q!TypeOK
    /\ subject = "got" => W!GotTypeOK

\* An agent made of agents answers what its composition says, in every
\* interleaving of its goroutines, and fails when it is cancelled: trees of
\* sequences, parallels, fallbacks and routers; a supervisor, with the results
\* of its whole plan; a consensus, only when the opinions agree; a vote, with
\* what most samples say.
AnswersAsComposed ==
    /\ subject = "composition" => C!AnswersAsComposed
    /\ subject = "supervisor" => S!WholePlan
    /\ subject = "collaborative" => S!ConsensusSound
    /\ subject = "consistency" => U!VoteCoherent

\* What an agent says it did is what it did: tasks and their results, a task
\* completed once by concurrent callers, goals and progress of the autonomous
\* loop, the tools that ran, the steps of a plan in their order, and no action
\* without the approval it needs; a conversation keeps its newest messages.
WorkTold ==
    /\ subject = "multi" => S!TasksTellResults
    /\ subject = "task" => T!CompletedOnce
    /\ subject = "autonomous" => T!WorkAccounted
    /\ subject = "tooluse" => U!StepsTellExecutions
    /\ subject = "planning" => R!PlanTruthful
    /\ subject = "steps" => U!PlanCarriedOut
    /\ subject = "hitl" => R!NothingUnapproved
    /\ subject = "conversation" => T!HistoryIsSuffix

\* A search ends where it should: reflection goes on exactly while it pays,
\* the tree search visits what its strategy and its pruning leave and answers
\* with the best path, the graph search combines each pair once; and the graph
\* algorithms (cycles, topological order, paths, ranks) agree with their
\* definitions.
SearchSound ==
    /\ subject = "reflection" => R!ReflectsWhileItPays
    /\ subject = "tot" => W!SearchComplete
    /\ subject = "graphs" => Q!GraphAlgorithmsRight
    /\ subject = "got" => W!GraphOfReasoning

\* A stop takes effect: the autonomous loop begins no iteration after Stop,
\* and a task that was completed is not run again.
StopHeeded ==
    [][/\ subject = "autonomous" => T!StopHeeded
       /\ subject = "task" => T!NoReuse]_suiteVars

Asked ==
    \/ At("composition", status["root"] # "done")
    \/ At("supervisor", pc # "done")
    \/ At("collaborative", pc # "done")
    \/ At("tooluse", pc # "done")
    \/ At("reflection", pc # "done")
    \/ At("planning", pc # "done")
    \/ At("hitl", pc # "done")
    \/ At("consistency", pc # "done")
    \/ At("steps", pc # "done")
    \/ At("tot", pc # "done")
    \/ At("got", pc # "done")
    \/ At("multi", pc # "idle")
    \/ At("task", pc["c1"] # "done")
    \/ At("autonomous", pc # "idle")
Answered ==
    \/ At("composition", status["root"] = "done")
    \/ At("supervisor", pc = "done")
    \/ At("collaborative", pc = "done")
    \/ At("tooluse", pc = "done")
    \/ At("reflection", pc = "done")
    \/ At("planning", pc = "done")
    \/ At("hitl", pc = "done")
    \/ At("consistency", pc = "done")
    \/ At("steps", pc = "done")
    \/ At("tot", pc = "done")
    \/ At("got", pc = "done")
    \/ At("multi", pc = "idle")
    \/ At("task", pc["c1"] = "done")
    \/ At("autonomous", pc = "idle")

\* Every request of a composed agent, a pattern or a technique returns once
\* the agents and the tools it calls do, whatever they answer: each loop is
\* bounded, and each search runs out.
AgentsReturn == Asked ~> Answered
=============================================================================
