------------------------------- MODULE Budget -------------------------------
(***************************************************************************)
(* budget/: the limiter and the warning around agents, and the choice of a *)
(* model by its price. Each part has an Init and a Next of its own; a      *)
(* variable that parts have in common by name is declared with the first   *)
(* of them.                                                                *)
(***************************************************************************)
EXTENDS Integers, FiniteSets, Sequences, Functions

-----------------------------------------------------------------------------
(***************************************************************************)
(* budget/: BudgetLimiter and BudgetWarning around agents, over one        *)
(* CostTracker with MemoryStorage.                                         *)
(*                                                                         *)
(* The limiter reads each total it compares in a critical section of its   *)
(* own and charges the cost in another one after the agent has answered.   *)
(* The warning holds its mutex over its check; its three readings concern  *)
(* different totals, which only grow, and are one step here.  Costs are    *)
(* small numbers; a response without usage is not charged.                 *)
(***************************************************************************)

CONSTANTS
    Callers,
    Sessions,            \* session ids of messages; NoSession is the id ""
    NoSession,
    AgentOf,             \* the agent each caller calls
    Limit,               \* the budgets that are set, by scope
    Thresholds,          \* warning thresholds of each budget, in the units of costs
    Costs,               \* what a response may cost
    Configs,             \* pairs of the wrappers in use and the action to choose from
    MaxCalls             \* bound

Scopes == <<"session", "agent", "global">>
Agents == {AgentOf[c] : c \in Callers}
MaxCost == CHOOSE m \in Costs : \A x \in Costs : x <= m

VARIABLES
    wrappers, action,    \* the wrappers, the limiter outermost; the limiter's action
    pc, session,         \* per caller: where its call is; its session id
    cost,                \* what its response costs: 0 without usage
    spent,               \* the costs stored, by session and agent
    warned,              \* sessionWarnings, agentWarnings, globalWarnings
    calls,               \* calls made
    used, logged         \* history: cost of all answers; warnings written

budgetVars == <<wrappers, action, pc, session, cost, spent, warned, calls, used, logged>>

Warning == [scope : DOMAIN Limit, key : Sessions \cup Agents \cup {"all"}, at : UNION {Thresholds[s] : s \in DOMAIN Limit}]

BudgetTypeOK ==
    /\ <<wrappers, action>> \in Configs
    /\ pc \in [Callers -> {"idle", "session", "agent", "global", "warn", "run", "record", "charge", "refused"}]
    /\ session \in [Callers -> Sessions] /\ cost \in [Callers -> Costs \cup {0}]
    /\ spent \in [Sessions \X Agents -> 0 .. 2 * MaxCalls * MaxCost]
    /\ warned \subseteq Warning /\ calls \in 0 .. MaxCalls
    /\ used \in 0 .. MaxCalls * MaxCost
    /\ logged \in [warned -> Nat]

BudgetInit ==
    /\ \E c \in Configs : wrappers = c[1] /\ action = c[2]
    /\ pc = [c \in Callers |-> "idle"]
    /\ session = [c \in Callers |-> NoSession] /\ cost = [c \in Callers |-> 0]
    /\ spent = [x \in Sessions \X Agents |-> 0] /\ warned = {} /\ calls = 0
    /\ used = 0 /\ logged = << >>

-----------------------------------------------------------------------------
(* CostTracker. *)

\* Query filters by session and by agent; an empty string filters nothing.
matching(scope, c) ==
    {x \in Sessions \X Agents : /\ scope = "session" => session[c] \in {NoSession, x[1]}
                                /\ scope = "agent" => x[2] = AgentOf[c]}
total(scope, c) == SumFunctionOnSet(spent, matching(scope, c))

\* Fault: the record replaces the earlier ones.
recorded_Overwrites(c) == [spent EXCEPT ![<<session[c], AgentOf[c]>>] = cost[c]]

\* RecordCost.
recorded(c) == [spent EXCEPT ![<<session[c], AgentOf[c]>>] = @ + cost[c]]

-----------------------------------------------------------------------------
(* Process of the two wrappers. *)

goto(c, l) == pc' = [pc EXCEPT ![c] = l]

\* Where a call goes after the limiter, and after the warning.
afterLimiter == IF "warning" \in wrappers THEN "warn" ELSE "run"

Call(c, s) ==
    /\ pc[c] \in {"idle", "refused"} /\ calls < MaxCalls
    /\ session' = [session EXCEPT ![c] = s] /\ calls' = calls + 1
    /\ goto(c, IF "limiter" \in wrappers THEN "session" ELSE afterLimiter)
    /\ UNCHANGED <<wrappers, action, cost, spent, warned, used, logged>>

\* Fault: a budget used up exactly is not exceeded.
exceeded_Beyond(scope, c) == scope \in DOMAIN Limit /\ total(scope, c) > Limit[scope]

\* One comparison of checkBudgets.
exceeded(scope, c) == scope \in DOMAIN Limit /\ total(scope, c) >= Limit[scope]

\* handleBudgetExceeded: an error, or a line in the log and no further check.
CheckBudget(c, k) ==
    /\ pc[c] = Scopes[k]
    /\ goto(c, IF exceeded(Scopes[k], c)
               THEN IF action = "error" THEN "refused" ELSE afterLimiter
               ELSE IF k = 3 THEN afterLimiter ELSE Scopes[k + 1])
    /\ UNCHANGED <<wrappers, action, session, cost, spent, warned, calls, used, logged>>

keyOf(scope, c) == CASE scope = "session" -> session[c] [] scope = "agent" -> AgentOf[c] [] OTHER -> "all"

\* The thresholds reached and not yet warned of.
dueWarnings(c) ==
    {w \in Warning \ warned : /\ w.key = keyOf(w.scope, c) /\ w.at \in Thresholds[w.scope]
                              /\ total(w.scope, c) >= w.at}

CheckWarnings(c) ==
    /\ pc[c] = "warn"
    /\ goto(c, "run")
    /\ warned' = warned \cup dueWarnings(c)
    /\ logged' = [w \in warned' |-> (IF w \in warned THEN logged[w] ELSE 0)
                                    + (IF w \in dueWarnings(c) THEN 1 ELSE 0)]
    /\ UNCHANGED <<wrappers, action, session, cost, spent, calls, used>>

\* The agent answers, with usage or without, or fails.
AgentAnswers(c, p) ==
    /\ pc[c] = "run"
    /\ cost' = [cost EXCEPT ![c] = p] /\ used' = used + p
    /\ goto(c, IF "warning" \in wrappers THEN "record" ELSE "charge")
    /\ UNCHANGED <<wrappers, action, session, spent, warned, calls, logged>>

AgentFails(c) ==
    /\ pc[c] = "run" /\ goto(c, "idle")
    /\ UNCHANGED <<wrappers, action, session, cost, spent, warned, calls, used, logged>>

\* The inner wrapper records, then the outer one.
RecordByWarning(c) ==
    /\ pc[c] = "record" /\ spent' = recorded(c)
    /\ goto(c, IF "limiter" \in wrappers THEN "charge" ELSE "idle")
    /\ UNCHANGED <<wrappers, action, session, cost, warned, calls, used, logged>>

RecordByLimiter(c) ==
    /\ pc[c] = "charge" /\ spent' = recorded(c)
    /\ goto(c, "idle")
    /\ UNCHANGED <<wrappers, action, session, cost, warned, calls, used, logged>>

BudgetNext ==
    \E c \in Callers :
        \/ \E s \in Sessions : Call(c, s)
        \/ \E k \in 1 .. 3 : CheckBudget(c, k)
        \/ CheckWarnings(c)
        \/ \E p \in Costs \cup {0} : AgentAnswers(c, p)
        \/ AgentFails(c) \/ RecordByWarning(c) \/ RecordByLimiter(c)

BudgetSpec == BudgetInit /\ [][BudgetNext]_budgetVars

-----------------------------------------------------------------------------
(* Properties. *)

\* With the action "error" a budget is overrun by less than one call for each
\* concurrent caller: the calls that passed the check before it was used up.
\* (A call under both wrappers is charged twice.)
OverrunBounded ==
    "limiter" \in wrappers /\ action = "error" =>
        \A scope \in DOMAIN Limit, c \in Callers :
            session[c] # NoSession \/ scope # "session" =>
                total(scope, c) < Limit[scope]
                                  + Cardinality(wrappers) * MaxCost * Cardinality(Callers)

\* A call is refused only if a budget that concerns it is used up: one session
\* or one agent never uses up the budget of another.
RefusedOnlyWhenSpent ==
    \A c \in Callers : pc[c] = "refused" =>
        /\ action = "error"
        /\ \E scope \in DOMAIN Limit : total(scope, c) >= Limit[scope]

\* Once all calls have returned, the tracker holds the cost of every answer
\* with usage, once for each wrapper around the agent.
ChargedOnce ==
    (\A c \in Callers : pc[c] \in {"idle", "refused"}) =>
        SumFunction(spent) = Cardinality(wrappers) * used

\* A threshold is warned of once, however many calls find it passed.
WarnedOnce == \A w \in warned : logged[w] = 1

-----------------------------------------------------------------------------
(***************************************************************************)
(* budget: ModelOptimizer sends a query to a model by its complexity, with *)
(* a fallback to cheaper ones; ModelPricing prices tokens, and the reports *)
(* of CostTracker read the costs recorded at the prices of their time.     *)
(*                                                                         *)
(* A query is what the heuristics look at.  A model is named for its role; *)
(* "custom" has a price only once UpdatePricing has set one.  Prices and   *)
(* costs are small numbers per token.                                      *)
(***************************************************************************)

CONSTANTS
    Price,           \* model -> [input, output]: NewModelPricing, with "default"
    NewPrices,       \* what UpdatePricing may set
    Tokens, CostSessions,
    MaxCosts,        \* bound: costs recorded
    Attempts         \* the values of maxAttempts

RoutingAssumption == Attempts \subseteq Nat

VARIABLES
    detector, method,\* the ComplexityDetector; Complete or CompleteWithFallback
    query, maxAttempts,
    complexity,
    attempt,         \* i, from 0
    failedModels,    \* the models that failed, in order
    answer,          \* Metadata of the response; model "" when there is none
    pricing, costs   \* ModelPricing.pricing; the records of the tracker

routingVars == <<detector, method, query, maxAttempts, pc, complexity, attempt, failedModels, answer,
          pricing, costs>>
optimizer == <<detector, method, query, maxAttempts, pc, complexity, attempt, failedModels, answer>>

Roles == {"cheap", "medium", "expensive"}
Complexities == {"simple", "medium", "complex"}
Queries == [empty : BOOLEAN, keyword : BOOLEAN, long : BOOLEAN, history : BOOLEAN]
Unset == ""   \* the zero value
NoAnswer == [model |-> Unset, complexity |-> Unset, attempt |-> 0]

RoutingTypeOK ==
    /\ detector \in {"heuristic", "llm"} /\ method \in {"complete", "fallback"}
    /\ query \in Queries /\ maxAttempts \in Attempts
    /\ pc \in {"idle", "detect", "try", "returned", "failed"}
    /\ complexity \in Complexities \cup {Unset} /\ attempt \in 0 .. 3
    /\ failedModels \in Seq(Roles) /\ answer.model \in Roles \cup {Unset}
    /\ Len(costs) <= MaxCosts

RoutingInit ==
    /\ detector \in {"heuristic", "llm"} /\ method \in {"complete", "fallback"}
    /\ query \in {q \in Queries : q.empty => ~q.keyword /\ ~q.long /\ ~q.history}
    /\ maxAttempts \in Attempts /\ pc = "idle" /\ complexity = Unset /\ attempt = 0
    /\ failedModels = <<>> /\ answer = NoAnswer /\ pricing = Price /\ costs = <<>>

-----------------------------------------------------------------------------
(* ComplexityDetector. *)

HeuristicDetect ==
    IF query.empty THEN "simple"
    ELSE IF query.long \/ query.keyword THEN "complex"
    ELSE IF query.history THEN "medium" ELSE "simple"

\* What the LLM may say; anything else, and an error, is "medium".
LLMDetect == IF query.empty THEN {"simple"} ELSE Complexities

Detect ==
    /\ pc = "detect" /\ pc' = "try"
    /\ complexity' \in IF detector = "heuristic" THEN {HeuristicDetect} ELSE LLMDetect
    /\ UNCHANGED <<detector, method, query, maxAttempts, attempt, failedModels, answer, pricing, costs>>

-----------------------------------------------------------------------------
(* ModelOptimizer. *)

GetModelForComplexity(x) ==
    CASE x = "simple" -> "cheap" [] x = "medium" -> "medium" [] x = "complex" -> "expensive"

fallbackModels(x) ==
    CASE x = "complex" -> <<"expensive", "medium", "cheap">> [] x = "medium" -> <<"medium", "cheap">>
      [] x = "simple" -> <<"cheap">>

CallModel ==
    /\ pc = "idle" /\ pc' = "detect"
    /\ UNCHANGED <<detector, method, query, maxAttempts, complexity, attempt, failedModels, answer, pricing, costs>>

Answers(m, n) ==
    /\ answer' = [model |-> m, complexity |-> complexity, attempt |-> n]
    /\ pc' = "returned" /\ UNCHANGED <<failedModels, attempt>>

Complete ==
    LET m == GetModelForComplexity(complexity)
    IN /\ method = "complete" /\ pc = "try"
       /\ \/ Answers(m, 0)
          \/ pc' = "failed" /\ failedModels' = <<m>> /\ UNCHANGED <<attempt, answer>>
       /\ UNCHANGED <<detector, method, query, maxAttempts, complexity, pricing, costs>>

\* Fault: one attempt more than was asked for.
given_Over == attempt > maxAttempts \/ attempt = Len(fallbackModels(complexity))

given == attempt >= maxAttempts \/ attempt = Len(fallbackModels(complexity))

CompleteWithFallback ==
    LET m == fallbackModels(complexity)[attempt + 1]
    IN /\ method = "fallback" /\ pc = "try"
       /\ IF given THEN pc' = "failed" /\ UNCHANGED <<failedModels, attempt, answer>>
          ELSE \/ Answers(m, attempt + 1)
               \/ /\ failedModels' = Append(failedModels, m) /\ attempt' = attempt + 1
                  /\ UNCHANGED <<pc, answer>>
       /\ UNCHANGED <<detector, method, query, maxAttempts, complexity, pricing, costs>>

-----------------------------------------------------------------------------
(* ModelPricing and CostTracker; used apart from the optimizer.              *)

Calculate(model, tokens, direction) ==
    tokens * (IF model \in DOMAIN pricing THEN pricing[model] ELSE pricing["default"])[direction]

UpdatePricing(model, price) ==
    /\ pricing' = [m \in DOMAIN pricing \cup {model} |-> IF m = model THEN price ELSE pricing[m]]
    /\ UNCHANGED <<optimizer, costs>>

\* Thinking tokens at the price of the output.
RecordCost(s, model, in, out, thinking) ==
    /\ Len(costs) < MaxCosts
    /\ costs' = Append(costs, [session |-> s, model |-> model, input |-> in, output |-> out,
                               cost |-> Calculate(model, in, "input") + Calculate(model, out, "output")
                                        + Calculate(model, thinking, "output")])
    /\ UNCHANGED <<optimizer, pricing>>

Sum(s) == SumFunction([i \in DOMAIN s |-> s[i].cost])
GetSessionCost(s) == Sum(SelectSeq(costs, LAMBDA c : c.session = s))
GetGlobalCost == Sum(costs)

GetBreakdown ==
    [m \in {c.model : c \in Range(costs)} |-> Sum(SelectSeq(costs, LAMBDA c : c.model = m))]

GetTopSessions(limit) ==
    LET sessions == {c.session : c \in Range(costs)}
        top == CHOOSE s \in Bijection(1 .. Cardinality(sessions), sessions) :
                   \A i, j \in DOMAIN s : i < j => GetSessionCost(s[i]) >= GetSessionCost(s[j])
    IN SubSeq(top, 1, IF Len(top) > limit THEN limit ELSE Len(top))

GetStatistics ==
    [total_cost |-> Sum(costs), total_requests |-> Len(costs),
     total_tokens |-> SumFunction([i \in DOMAIN costs |-> costs[i].input + costs[i].output])]

-----------------------------------------------------------------------------
\* Prices and records share nothing with a call: they are explored beside one
\* that has not begun.
RoutingNext ==
    \/ CallModel \/ Detect \/ Complete \/ CompleteWithFallback
    \/ /\ pc = "idle" /\ query.empty /\ maxAttempts = 0 /\ method = "complete" /\ detector = "heuristic"
       /\ \/ \E p \in NewPrices : UpdatePricing("custom", p)
          \/ \E s \in CostSessions, m \in {"cheap", "custom"}, i, o, t \in Tokens : RecordCost(s, m, i, o, t)

RoutingSpec == RoutingInit /\ [][RoutingNext]_routingVars

-----------------------------------------------------------------------------
(* Properties. *)

Rank == [cheap |-> 1, medium |-> 2, expensive |-> 3]

\* Complete and CompleteWithFallback: the model that answered is never dearer
\* than the complexity calls for, every one between was tried and failed, and
\* no more than maxAttempts were tried; a call fails only when all it may try
\* have failed, and the fallback alone tries a second one.
RoutedSound ==
    LET wanted == Rank[GetModelForComplexity(complexity)]
        limit == IF method = "complete" THEN 1 ELSE maxAttempts
    IN complexity # Unset =>
         /\ Len(failedModels) + (IF pc = "returned" THEN 1 ELSE 0) <= limit
         /\ pc = "returned" =>
              /\ Rank[answer.model] = wanted - Len(failedModels) /\ answer.complexity = complexity
              /\ method = "fallback" => answer.attempt = Len(failedModels) + 1
         /\ pc = "failed" =>
              \/ Len(failedModels) = limit
              \/ Range(failedModels) = {m \in Roles : Rank[m] <= wanted}

\* The reports agree: the costs of the sessions, and those of the models, add
\* up to the total whatever the prices have become since; of the sessions that
\* were left out of the top none cost more than one that was not.
ReportsAgree ==
    /\ SumFunction([s \in CostSessions |-> GetSessionCost(s)]) = GetGlobalCost
    /\ SumFunction(GetBreakdown) = GetGlobalCost /\ GetStatistics.total_cost = GetGlobalCost
    /\ \A limit \in 0 .. Cardinality(CostSessions), s \in CostSessions :
         LET top == GetTopSessions(limit)
         IN s \in {c.session : c \in Range(costs)} \ Range(top) =>
              \A t \in Range(top) : GetSessionCost(t) >= GetSessionCost(s)
=============================================================================
