----------------------------- MODULE MCServices ------------------------------
(*****************************************************************************)
(* The circuit breaker, the cache, the budget, the retries with an hourly    *)
(* budget, the choice of a model, the durable agent and the checkpoint       *)
(* stores, safety. Each behaviour exercises one of the components, the       *)
(* subject; the variables of the others are unused.                          *)
(*****************************************************************************)
EXTENDS CircuitBreaker, TLC

CONSTANTS Keys

VARIABLES
    subject,
    subNow, subPc, calls, session, attempt, backend,
    entries, cleanupCounter, key, response, size, dirty, epoch, hits, misses, evictions,
    invalidations, currentSize,
    wrappers, action, cost, spent, warned, used, logged,
    class, currentCost, retryCount, windowAge, recent, m, hours,
    detector, method, query, maxAttempts, complexity, failedModels, answer, pricing,
    costs,
    autoResume, manager, store, created, unsaved, travelled, faulty,
    retain, file, temps, dirs, index, modified, call, tried, saved, dropped

cacheVars == <<entries, cleanupCounter, key, response, size, dirty, epoch, hits, misses,
               evictions, invalidations, currentSize>>
budgetVars == <<wrappers, action, cost, spent, warned, used, logged>>
enhancedVars == <<class, currentCost, retryCount, windowAge, recent, m, hours>>
routingVars == <<detector, method, query, maxAttempts, complexity, failedModels, answer,
                 pricing, costs>>
durableVars == <<autoResume, manager, store, created, unsaved, travelled, faulty>>
storesVars == <<retain, file, temps, dirs, index, modified, call, tried, saved, dropped>>
suiteVars == <<subject, vars, subNow, subPc, calls, session, attempt, backend,
               cacheVars, budgetVars, enhancedVars, routingVars, durableVars, storesVars>>

\* The value of the variables that the subject does not have.
Unused == "unused"

\* Two callers of two agents, in one session or in none; warnings at one half
\* of each budget, in whole costs, and at all of it.
BudgetCallers == {"first", "second"}
BudgetSessions == {"one", "none"}
BudgetAgent == [c \in BudgetCallers |-> IF c = "first" THEN "agent1" ELSE "agent2"]
BudgetLimit == [session |-> 2, agent |-> 2, global |-> 3]
BudgetThresholds == [session |-> {1, 2}, agent |-> {1, 2}, global |-> {2, 3}]
BudgetConfigs == {<<{"limiter"}, "error">>, <<{"limiter", "warning"}, "warning">>,
                  <<{"warning"}, "error">>}

\* A class whose own limit is above that of the configuration, one at it, and
\* one that is not retried.
RetryStrategy ==
    [transient |-> [MaxRetries |-> 3, ShouldRetry |-> TRUE],
     server |-> [MaxRetries |-> 2, ShouldRetry |-> TRUE],
     client |-> [MaxRetries |-> 1, ShouldRetry |-> FALSE]]

RoutingPrice == [cheap |-> [input |-> 1, output |-> 2], default |-> [input |-> 0, output |-> 1]]

\* A volatile storage, and one whose stamps are whole seconds.
DurableConfigs == {<<"memory", FALSE>>, <<"local", TRUE>>}

Symmetry == Permutations(Callers) \cup Permutations(Keys)

C == INSTANCE Caching WITH
    MaxCacheSize <- 2, DefaultTTL <- 1, CleanupInterval <- 2, MaxCalls <- 3, MaxTime <-
    2, now <- subNow, pc <- subPc
U == INSTANCE Budget WITH
    Callers <- BudgetCallers, Sessions <- BudgetSessions, NoSession <- "none", AgentOf
    <- BudgetAgent, Limit <- BudgetLimit, Thresholds <- BudgetThresholds, Costs <- {1,
    2}, Configs <- BudgetConfigs, MaxCalls <- 3, pc <- subPc, Price <- RoutingPrice,
    NewPrices <- {[input |-> 3, output |-> 1]}, Tokens <- {1}, CostSessions <- {"s1",
    "s2", "s3"}, MaxCosts <- 3, Attempts <- 0 .. 3
E == INSTANCE EnhancedRetry WITH
    Callers <- {"e1", "e2"}, Strategy <- RetryStrategy, MaxRetries <- 2, MaxCost <- 2,
    Cost <- 1, MaxRetriesPerHour <- 2, BackpressureWindow <- 2, MaxHours <- 1, MaxCalls
    <- 2, pc <- subPc
D == INSTANCE Durable WITH
    Configs <- DurableConfigs, Interval <- 2, MaxSteps <- 3, MaxCheckpoints <- 2,
    MaxTime <- 0, MaxCount <- 1, now <- subNow
K == INSTANCE CheckpointStores WITH
    Backends <- {"memory", "local", "nfs", "s3"}, N <- 3, SessionOf <- <<"s", "s",
    "s">>, Parent <- <<0, 1, 2>>, Migrations <- {1}, Callers <- {"h1", "h2"}, KeepLast
    <- 1, MaxDepth <- 3, MaxCalls <- 2

\* The constants are those the proofs of ServiceProofs and ComponentProofs assume.
ASSUME ServicesAssumption ==
    U!RoutingAssumption /\ E!EnhancedAssumption /\ D!DurableAssumption

SuiteInit ==
    /\ subject \in {"breaker", "cache", "budget", "enhanced", "routing", "durable",
                    "stores"}
    /\ Init
    /\ IF subject = "cache" THEN C!Init
       ELSE entries = Unused /\ cleanupCounter = Unused /\ key = Unused /\ response = Unused 
            /\ size = Unused /\ dirty = Unused /\ epoch = Unused /\ hits = Unused /\ misses =
            Unused /\ evictions = Unused /\ invalidations = Unused /\ currentSize = Unused
    /\ IF subject = "budget" THEN U!BudgetInit
       ELSE wrappers = Unused /\ action = Unused /\ cost = Unused /\ spent = Unused /\ warned =
            Unused /\ used = Unused /\ logged = Unused
    /\ IF subject = "enhanced" THEN E!Init
       ELSE class = Unused /\ currentCost = Unused /\ retryCount = Unused /\ windowAge = Unused
            /\ recent = Unused /\ m = Unused /\ hours = Unused
    /\ IF subject = "routing" THEN U!RoutingInit
       ELSE detector = Unused /\ method = Unused /\ query = Unused /\ maxAttempts = Unused 
            /\ complexity = Unused /\ failedModels = Unused /\ answer = Unused /\ pricing = Unused
            /\ costs = Unused
    /\ IF subject = "durable" THEN D!Init
       ELSE autoResume = Unused /\ manager = Unused /\ store = Unused /\ created = Unused 
            /\ unsaved = Unused /\ travelled = Unused /\ faulty = Unused
    /\ IF subject = "stores" THEN K!Init
       ELSE retain = Unused /\ file = Unused /\ temps = Unused /\ dirs = Unused /\ index =
            Unused /\ modified = Unused /\ call = Unused /\ tried = Unused /\ saved = Unused 
            /\ dropped = Unused
    /\ IF subject \in {"cache", "durable"} THEN TRUE
       ELSE subNow = Unused
    /\ IF subject \in {"cache", "budget", "enhanced", "routing"} THEN TRUE
       ELSE subPc = Unused
    /\ IF subject \in {"cache", "budget", "enhanced", "stores"} THEN TRUE
       ELSE calls = Unused
    /\ IF subject \in {"budget", "durable"} THEN TRUE
       ELSE session = Unused
    /\ IF subject \in {"enhanced", "routing"} THEN TRUE
       ELSE attempt = Unused
    /\ IF subject \in {"durable", "stores"} THEN TRUE
       ELSE backend = Unused

\* What a step of a subject leaves alone.
cacheRest == <<subject, vars, session, attempt, backend, budgetVars, enhancedVars,
               routingVars, durableVars, storesVars>>
budgetRest == <<subject, vars, subNow, attempt, backend, cacheVars, enhancedVars,
                routingVars, durableVars, storesVars>>
enhancedRest == <<subject, vars, subNow, session, backend, cacheVars, budgetVars,
                  routingVars, durableVars, storesVars>>
routingRest == <<subject, vars, subNow, calls, session, backend, cacheVars, budgetVars,
                 enhancedVars, durableVars, storesVars>>
durableRest == <<subject, vars, subPc, calls, attempt, cacheVars, budgetVars,
                 enhancedVars, routingVars, storesVars>>
storesRest == <<subject, vars, subNow, subPc, session, attempt, cacheVars, budgetVars,
                enhancedVars, routingVars, durableVars>>

SuiteNext ==
    \/ /\ subject = "breaker" /\ Next
       /\ UNCHANGED <<subject, subNow, subPc, calls, session, attempt, backend,
                      cacheVars, budgetVars, enhancedVars, routingVars, durableVars,
                      storesVars>>
    \/ subject = "cache" /\ C!Next /\ UNCHANGED cacheRest
    \/ subject = "budget" /\ U!BudgetNext /\ UNCHANGED budgetRest
    \/ subject = "enhanced" /\ E!Next /\ UNCHANGED enhancedRest
    \/ subject = "routing" /\ U!RoutingNext /\ UNCHANGED routingRest
    \/ subject = "durable" /\ D!Next /\ UNCHANGED durableRest
    \/ subject = "stores" /\ K!Next /\ UNCHANGED storesRest

SuiteSpec == SuiteInit /\ [][SuiteNext]_suiteVars

-----------------------------------------------------------------------------
(* Properties. *)

\* The subject keeps its types: its counters, queues, tables and control
\* points stay in range.
SuiteTypeOK ==
    /\ subject = "breaker" => TypeOK
    /\ subject = "cache" => C!TypeOK
    /\ subject = "budget" => U!BudgetTypeOK
    /\ subject = "enhanced" => E!TypeOK
    /\ subject = "routing" => U!RoutingTypeOK
    /\ subject = "durable" => D!TypeOK
    /\ subject = "stores" => K!TypeOK

\* The cache holds at most MaxCacheSize entries, one per key, under concurrent
\* misses, and a response older than the last invalidation of its key only if
\* a call that was running at the time stored it.
CacheSound == subject = "cache" => C!StoreBounded /\ C!StaleOnlyFromRace

\* A budget is overrun by less than one call for each concurrent caller, and a
\* call is refused only if a budget that concerns it is used up; the hourly
\* budget of the enhanced retry is overrun by at most what concurrent calls
\* have under way, and each of its calls is counted once.
BudgetEnforced ==
    /\ subject = "budget" => U!OverrunBounded /\ U!RefusedOnlyWhenSpent
    /\ subject = "enhanced" => E!BudgetOverrunBounded /\ E!MetricsConserved

\* The tracker holds the cost of every answer with usage, once for each
\* wrapper, and a threshold of a budget is warned of once; reports by session
\* and by model add up to the same total whatever prices became since.
ChargedAndWarnedOnce ==
    /\ subject = "budget" => U!ChargedOnce /\ U!WarnedOnce
    /\ subject = "routing" => U!ReportsAgree

\* A query is answered by the dearest model of its complexity or by the first
\* cheaper one that works, within the attempts allowed, and fails only when
\* all it may try have failed.
RoutedSound == subject = "routing" => U!RoutedSound

\* A session restores what it was: the step number of a session and of its
\* checkpoints is the length of the history kept with it, steps do not grow
\* along parent links unless the session went back, and fewer than
\* checkpointInterval exchanges would be lost by a crash unless it went back
\* or the storage failed.
CheckpointsSound == subject = "durable" => D!CheckpointsSound

\* In every backend, with several hosts on it, a checkpoint that was saved is
\* there until it is deleted or pruned, listings are newest first, and a
\* replay goes forward along the parents.
StoresSound == subject = "stores" => K!KeptUntilDeleted /\ K!ListedInOrder /\ K!ReplaysForward
=============================================================================
