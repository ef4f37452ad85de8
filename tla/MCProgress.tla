----------------------------- MODULE MCProgress ------------------------------
(*****************************************************************************)
(* What goes on by itself, with fairness: batching and its shutdown, the     *)
(* breaker protocol, Retry around Timeout, streams with a deadline, the      *)
(* health checker, the registry, and the health marks of the load            *)
(* balancer. Each behaviour exercises one of the components, the subject;    *)
(* the variables of the others are unused.                                   *)
(*****************************************************************************)
EXTENDS Integers

VARIABLES
    subject,
    pc, outcome, totalRequests, waited, cancelled, ctx, consecutiveFailures,
    queue, queueClosed, shutdownClosed, resultChan, bp, draining, last, batch, results,
    runs, sd, early, totalBatches, successfulBatches, failedBatches, partialBatches,
    minBatchSize, maxBatchSize,
    state, failures, successes, calling,
    rpc, attempt, backoff, answer, totalAttempts, totalRetries, successfulFirstAttempt,
    successfulOnRetry, failedAfterRetries, tpc, agent, successfulRequests,
    timedOutRequests, failedRequests,
    sent, sourceMsg, msgClosed, sourceErr, errSent, errClosed, held, outMsg, outErr,
    received, recorded,
    StartupEnabled, agentUp, processOK, isAlive, isReady, startupComplete, underway,
    healthy, attempts, stopped,
    agents, age, heartbeats, waiting, pruneTask, pruneDone, stop,
    Strategy, EnableFailover, up, Healthy, ActiveConnections, TotalFailures,
    currentIndex, target, attempted, checking

batchingVars == <<queue, queueClosed, shutdownClosed, resultChan, bp, draining, last,
                  batch, results, runs, sd, early, totalBatches, successfulBatches,
                  failedBatches, partialBatches, minBatchSize, maxBatchSize>>
breakerVars == <<state, failures, successes, calling>>
retryVars == <<rpc, attempt, backoff, answer, totalAttempts, totalRetries,
               successfulFirstAttempt, successfulOnRetry, failedAfterRetries, tpc,
               agent, successfulRequests, timedOutRequests, failedRequests>>
streamVars == <<sent, sourceMsg, msgClosed, sourceErr, errSent, errClosed, held, outMsg,
                outErr, received, recorded>>
healthVars == <<StartupEnabled, agentUp, processOK, isAlive, isReady, startupComplete,
                underway, healthy, attempts, stopped>>
registryVars == <<agents, age, heartbeats, waiting, pruneTask, pruneDone, stop>>
balancerVars == <<Strategy, EnableFailover, up, Healthy, ActiveConnections,
                  TotalFailures, currentIndex, target, attempted, checking>>
suiteVars == <<subject, pc, outcome, totalRequests, waited, cancelled, ctx,
               consecutiveFailures, batchingVars, breakerVars, retryVars, streamVars,
               healthVars, registryVars, balancerVars>>

\* The value of the variables that the subject does not have.
Unused == "unused"

At(s, P) == subject = s /\ P

BalancerWeight == [b \in 0 .. 1 |-> 2 - b]
BalancerConfigs == {"RoundRobin", "LeastConnections", "WeightedRoundRobin", "Random"} \X {TRUE}
                   \cup {<<"RoundRobin", FALSE>>}

B == INSTANCE Batching WITH
    Callers <- {"b1", "b2"}, Deadlined <- {"b2"}, MaxBatchSize <- 2, MaxQueueSize <- 1
K == INSTANCE BreakerProtocol WITH
    Callers <- {"c1", "c2"}, FailureThreshold <- 2, SuccessThreshold <- 2,
    RecoveryTimeout <- 2
R == INSTANCE RetryTimeout WITH
    Requests <- {"r1"}, MaxRetries <- 3, InitialRetryDelay <- 2, MaxRetryDelay <- 3,
    RetryMultiplier <- 2, Retryable <- {"transient", "timeout"}, AgentErrors <-
    {"transient", "permanent"}, MaxMessages <- 3, SourceCap <- 1, OutCap <- 1
I == INSTANCE Infrastructure WITH
    LivenessFailureThreshold <- 1, ReadinessFailureThreshold <- 2,
    StartupFailureThreshold <- 1, Requests <- {"r1"}, N <- 2, Weight <- BalancerWeight,
    Configs <- BalancerConfigs, FailureThreshold <- 1, MaxDrift <- 0
G == INSTANCE Registry WITH
    Agents <- {"a1"}, heartbeatTimeout <- 2, MaxWait <- 2

SuiteInit ==
    /\ subject \in {"batching", "breaker", "retry", "stream", "health", "registry",
                    "balancer"}
    /\ IF subject = "batching" THEN B!Init
       ELSE queue = Unused /\ queueClosed = Unused /\ shutdownClosed = Unused /\ resultChan =
            Unused /\ bp = Unused /\ draining = Unused /\ last = Unused /\ batch = Unused 
            /\ results = Unused /\ runs = Unused /\ sd = Unused /\ early = Unused /\ totalBatches =
            Unused /\ successfulBatches = Unused /\ failedBatches = Unused /\ partialBatches =
            Unused /\ minBatchSize = Unused /\ maxBatchSize = Unused
    /\ IF subject = "breaker" THEN K!Init
       ELSE state = Unused /\ failures = Unused /\ successes = Unused /\ calling = Unused
    /\ IF subject = "retry" THEN R!Init
       ELSE rpc = Unused /\ attempt = Unused /\ backoff = Unused /\ answer = Unused 
            /\ totalAttempts = Unused /\ totalRetries = Unused /\ successfulFirstAttempt = Unused
            /\ successfulOnRetry = Unused /\ failedAfterRetries = Unused /\ tpc = Unused 
            /\ agent = Unused /\ successfulRequests = Unused /\ timedOutRequests = Unused 
            /\ failedRequests = Unused
    /\ IF subject = "stream" THEN R!StreamInit
       ELSE sent = Unused /\ sourceMsg = Unused /\ msgClosed = Unused /\ sourceErr = Unused 
            /\ errSent = Unused /\ errClosed = Unused /\ held = Unused /\ outMsg = Unused /\ outErr
            = Unused /\ received = Unused /\ recorded = Unused
    /\ IF subject = "health" THEN I!HealthInit
       ELSE StartupEnabled = Unused /\ agentUp = Unused /\ processOK = Unused /\ isAlive =
            Unused /\ isReady = Unused /\ startupComplete = Unused /\ underway = Unused 
            /\ healthy = Unused /\ attempts = Unused /\ stopped = Unused
    /\ IF subject = "registry" THEN G!Init
       ELSE agents = Unused /\ age = Unused /\ heartbeats = Unused /\ waiting = Unused 
            /\ pruneTask = Unused /\ pruneDone = Unused /\ stop = Unused
    /\ IF subject = "balancer" THEN I!BalancerInit
       ELSE Strategy = Unused /\ EnableFailover = Unused /\ up = Unused /\ Healthy = Unused 
            /\ ActiveConnections = Unused /\ TotalFailures = Unused /\ currentIndex = Unused 
            /\ target = Unused /\ attempted = Unused /\ checking = Unused
    /\ IF subject \in {"batching", "stream", "health", "balancer"} THEN TRUE
       ELSE pc = Unused
    /\ IF subject \in {"batching", "retry"} THEN TRUE
       ELSE outcome = Unused /\ totalRequests = Unused
    /\ IF subject \in {"breaker", "registry"} THEN TRUE
       ELSE waited = Unused
    /\ IF subject \in {"retry", "registry"} THEN TRUE
       ELSE cancelled = Unused
    /\ IF subject \in {"retry", "stream"} THEN TRUE
       ELSE ctx = Unused
    /\ IF subject \in {"health", "balancer"} THEN TRUE
       ELSE consecutiveFailures = Unused

\* What a step of a subject leaves alone.
batchingRest == <<subject, waited, cancelled, ctx, consecutiveFailures, breakerVars,
                  retryVars, streamVars, healthVars, registryVars, balancerVars>>
breakerRest == <<subject, pc, outcome, totalRequests, cancelled, ctx,
                 consecutiveFailures, batchingVars, retryVars, streamVars, healthVars,
                 registryVars, balancerVars>>
retryRest == <<subject, pc, waited, consecutiveFailures, batchingVars, breakerVars,
               streamVars, healthVars, registryVars, balancerVars>>
streamRest == <<subject, outcome, totalRequests, waited, cancelled, consecutiveFailures,
                batchingVars, breakerVars, retryVars, healthVars, registryVars,
                balancerVars>>
healthRest == <<subject, outcome, totalRequests, waited, cancelled, ctx, batchingVars,
                breakerVars, retryVars, streamVars, registryVars, balancerVars>>
registryRest == <<subject, pc, outcome, totalRequests, ctx, consecutiveFailures,
                  batchingVars, breakerVars, retryVars, streamVars, healthVars,
                  balancerVars>>
balancerRest == <<subject, outcome, totalRequests, waited, cancelled, ctx, batchingVars,
                  breakerVars, retryVars, streamVars, healthVars, registryVars>>

SuiteNext ==
    \/ subject = "batching" /\ B!Next /\ UNCHANGED batchingRest
    \/ subject = "breaker" /\ K!Next /\ UNCHANGED breakerRest
    \/ subject = "retry" /\ R!Next /\ UNCHANGED retryRest
    \/ subject = "stream" /\ R!StreamNext /\ UNCHANGED streamRest
    \/ subject = "health" /\ I!HealthNext /\ UNCHANGED healthRest
    \/ subject = "registry" /\ G!Next /\ UNCHANGED registryRest
    \/ subject = "balancer" /\ I!BalancerNext /\ UNCHANGED balancerRest

batchingAll == <<batchingVars, pc, outcome, totalRequests>>
breakerAll == <<breakerVars, waited>>
retryAll == <<retryVars, cancelled, ctx, outcome, totalRequests>>
streamAll == <<streamVars, ctx, pc>>
healthAll == <<healthVars, consecutiveFailures, pc>>
registryAll == <<registryVars, waited, cancelled>>
balancerAll == <<balancerVars, consecutiveFailures, pc>>

\* The fairness of the modules, each for its own subject; the steps of different
\* subjects are never enabled together, so that one condition may stand for several.
\* What it rests on: the batch processor runs and the agent behind a batch
\* returns; time passes, and a call through the breaker ends one way or the
\* other because its context has a deadline; the timers of Retry and Timeout
\* fire, and neither the agent nor the reader of a stream owes anything;
\* tickers tick, a health check that was begun ends, and a select with a tick
\* and stopChan both ready does not pick the tick for ever.
SuiteFairness ==
    /\ WF_batchingAll(subject = "batching" /\ B!Processor)
    /\ WF_batchingAll(subject = "batching" /\ B!ShutdownEnd)
    /\ WF_batchingAll(subject = "batching" /\ B!Enqueue("b1"))
    /\ WF_batchingAll(subject = "batching" /\ B!Enqueue("b2"))
    /\ WF_batchingAll(subject = "batching" /\ B!ReceiveResult("b1"))
    /\ WF_batchingAll(subject = "batching" /\ B!ReceiveResult("b2"))
    /\ WF_batchingAll(subject = "batching" /\ (B!AgentReturns("b1", "ok") \/ B!AgentReturns("b1", "err")))
    /\ WF_batchingAll(subject = "batching" /\ (B!AgentReturns("b2", "ok") \/ B!AgentReturns("b2", "err")))
    /\ WF_breakerAll(subject = "breaker" /\ K!Tick)
    /\ WF_breakerAll(subject = "breaker" /\ (K!Succeed("c1") \/ K!Fail("c1")))
    /\ WF_breakerAll(subject = "breaker" /\ (K!Succeed("c2") \/ K!Fail("c2")))
    /\ WF_breakerAll(subject = "breaker" /\ K!Admit("c1"))
    /\ WF_breakerAll(subject = "breaker" /\ K!Admit("c2"))
    /\ WF_retryAll(subject = "retry" /\ R!AttemptEnds("r1"))
    /\ WF_retryAll(subject = "retry" /\ R!TryAgain("r1"))
    /\ WF_retryAll(subject = "retry" /\ R!Expire("r1"))
    /\ WF_streamAll(subject = "stream" /\ (R!ExpireStream \/ R!CancelStream))
    /\ WF_streamAll(subject = "stream" /\ R!Proxy)
    /\ WF_healthAll(subject = "health" /\ I!LivenessLoop)
    /\ WF_healthAll(subject = "health" /\ I!ReadinessLoop)
    /\ WF_healthAll(subject = "health" /\ I!StartupLoop)
    /\ WF_healthAll(subject = "health" /\ I!ReadinessResult("user"))
    /\ WF_registryAll(subject = "registry" /\ G!ReadClock("pruneLoop"))
    /\ WF_registryAll(subject = "registry" /\ G!PruneStaleAgents("pruneLoop"))
    /\ WF_registryAll(subject = "registry" /\ G!Stop)
    /\ WF_balancerAll(subject = "balancer" /\ I!performHealthChecks)
    /\ SF_suiteVars(
         \/ subject = "health" /\ I!LoopExits("liveness") /\ UNCHANGED healthRest
         \/ subject = "registry" /\ G!LoopEnds /\ UNCHANGED registryRest)
    /\ SF_healthAll(subject = "health" /\ I!LoopExits("readiness"))

SuiteSpec == SuiteInit /\ [][SuiteNext]_suiteVars /\ SuiteFairness

-----------------------------------------------------------------------------
(* Properties. *)

Waiting ==
    \/ At("batching", "b1" \in early /\ pc["b1"] = "waiting")
    \/ At("retry", rpc["r1"] = "attempting")
    \/ At("stream", pc # "done")
Answered ==
    \/ At("batching", pc["b1"] = "returned")
    \/ At("retry", rpc["r1"] = "returned")
    \/ At("stream", pc = "done")

\* A request accepted before Shutdown of Batching is answered, a request of
\* Retry around Timeout returns even if the agent never does, and the proxy of
\* a stream ends although the agent hangs and the caller stopped reading.
RequestsReturn == Waiting ~> Answered

\* Shutdown returns, wherever the batch processor is when it is called.
ShutdownReturns == At("batching", sd = "waiting") ~> At("batching", sd = "done")

\* An open breaker probes again, and once the agent stops failing it ends up
\* closed for good.
ReopensAndRecovers ==
    /\ At("breaker", state = K!StateOpen) ~> At("breaker", state = K!StateHalfOpen)
    /\ []<><<At("breaker", \E c \in {"c1", "c2"} : K!Fail(c))>>_state \/ <>[](subject = "breaker" => state = K!StateClosed)

\* What is watched is seen in the end: the readiness and liveness verdicts
\* follow an agent and a process that stay as they are, the mark of a backend
\* follows its agent, and an agent whose heartbeats stopped leaves the
\* registry.
VerdictsFollow ==
    /\ <>[]At("health", agentUp /\ ~stopped /\ ~I!startupPending) => <>[]At("health", isReady)
    /\ <>[]At("health", ~agentUp /\ ~stopped) => <>[]At("health", ~isReady)
    /\ <>[]At("health", processOK /\ ~stopped) => <>[]At("health", isAlive)
    /\ <>[]At("health", ~processOK /\ ~stopped) => <>[]At("health", ~isAlive)
    /\ \A b \in 0 .. 1 : <>[]At("balancer", up[b]) => <>[]At("balancer", Healthy[b])
    /\ \A b \in 0 .. 1 : <>[]At("balancer", ~up[b]) => <>[]At("balancer", ~Healthy[b])
    /\ ~<>[]At("registry", "a1" \in agents /\ age["a1"] = G!MaxAge /\ pruneTask /\ ~cancelled /\ stop = "idle")
=============================================================================
