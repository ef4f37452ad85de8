---------------------------- MODULE MCMiddleware -----------------------------
(*****************************************************************************)
(* The decorators of middleware and the load balancer, safety:               *)
(* RateLimiter, PerUserRateLimiter, LoadBalancer, Batching, Retry around     *)
(* Timeout, streams with a deadline, the health checker, and the breaker     *)
(* protocol that CircuitBreaker implements. Each behaviour exercises one     *)
(* of the components, the subject; the variables of the others are unused.   *)
(*****************************************************************************)
EXTENDS RateLimiter, TLC

CONSTANTS Requests, NoUser

\* The bucket of a user holds one token.
ASSUME SuiteAssumption == IsFiniteSet(Requests) /\ TokensPerRequest = 1

VARIABLES
    subject,
    subPc, subTotalRequests, consecutiveFailures, outcome, ctx,
    buckets, subNow, subWakeAt, subResult, subSeen, subGrants, subAllowedRequests,
    subRejectedRequests, activeUsers,
    Strategy, EnableFailover, up, Healthy, ActiveConnections, TotalFailures,
    currentIndex, target, attempted, checking,
    queue, queueClosed, shutdownClosed, resultChan, bp, draining, last, batch, results,
    runs, sd, early, totalBatches, successfulBatches, failedBatches, partialBatches,
    minBatchSize, maxBatchSize,
    rpc, attempt, backoff, answer, cancelled, totalAttempts, totalRetries,
    successfulFirstAttempt, successfulOnRetry, failedAfterRetries, tpc, agent,
    successfulRequests, timedOutRequests, failedRequests,
    sent, sourceMsg, msgClosed, sourceErr, errSent, errClosed, held, outMsg, outErr,
    received, recorded,
    StartupEnabled, agentUp, processOK, isAlive, isReady, startupComplete, underway,
    healthy, attempts, stopped,
    state, failures, successes, waited, calling

usersVars == <<buckets, subNow, subWakeAt, subResult, subSeen, subGrants,
               subAllowedRequests, subRejectedRequests, activeUsers>>
balancerVars == <<Strategy, EnableFailover, up, Healthy, ActiveConnections,
                  TotalFailures, currentIndex, target, attempted, checking>>
batchingVars == <<queue, queueClosed, shutdownClosed, resultChan, bp, draining, last,
                  batch, results, runs, sd, early, totalBatches, successfulBatches,
                  failedBatches, partialBatches, minBatchSize, maxBatchSize>>
retryVars == <<rpc, attempt, backoff, answer, cancelled, totalAttempts, totalRetries,
               successfulFirstAttempt, successfulOnRetry, failedAfterRetries, tpc,
               agent, successfulRequests, timedOutRequests, failedRequests>>
streamVars == <<sent, sourceMsg, msgClosed, sourceErr, errSent, errClosed, held, outMsg,
                outErr, received, recorded>>
healthVars == <<StartupEnabled, agentUp, processOK, isAlive, isReady, startupComplete,
                underway, healthy, attempts, stopped>>
breakerVars == <<state, failures, successes, waited, calling>>
suiteVars == <<subject, rlVars, subPc, subTotalRequests, consecutiveFailures, outcome,
               ctx, usersVars, balancerVars, batchingVars, retryVars, streamVars,
               healthVars, breakerVars>>

\* The value of the variables that the subject does not have.
Unused == "unused"

\* Two callers of one user and one caller whose messages carry no user id.
UserCallers == {"alice1", "alice2", "nobody"}
MsgUser == [c \in UserCallers |-> IF c = "nobody" THEN NoUser ELSE "alice"]

BalancerConfigs == {"RoundRobin", "LeastConnections"} \X {TRUE}
BalancerWeight == [b \in 0 .. 1 |-> 2 - b]

BatchCallers == {"b1", "b2", "b3"}

Symmetry == Permutations(Callers) \cup Permutations(Requests)

\* The components, from the modules that hold the proofs about them where there is one:
\* MCMiddlewareProofs cites these proofs.  MiddlewareProofs is about batching and, as
\* its instance I, the load balancer and the health checker.
P == INSTANCE PerUserRateLimiterProofs WITH
    Callers <- UserCallers, MsgUser <- MsgUser, Rate <- 49, Capacity <- 1,
    MaxWaitTimeout <- 1, MaxGrants <- 2, MaxRequests <- 5, MaxTime <- 4, now <- subNow,
    pc <- subPc, wakeAt <- subWakeAt, result <- subResult, seen <- subSeen, grants <-
    subGrants, totalRequests <- subTotalRequests, allowedRequests <- subAllowedRequests,
    rejectedRequests <- subRejectedRequests
B == INSTANCE MiddlewareProofs WITH
    Callers <- BatchCallers, Deadlined <- {"b3"}, MaxBatchSize <- 2, MaxQueueSize <- 2,
    pc <- subPc, totalRequests <- subTotalRequests, N <- 2, Weight <- BalancerWeight,
    Configs <- BalancerConfigs, FailureThreshold <- 1, MaxDrift <- 1,
    LivenessFailureThreshold <- 2, ReadinessFailureThreshold <- 2,
    StartupFailureThreshold <- 1
R == INSTANCE RetryTimeoutProofs WITH
    MaxRetries <- 2, InitialRetryDelay <- 2, MaxRetryDelay <- 3, RetryMultiplier <- 2,
    Retryable <- {"transient", "timeout"}, AgentErrors <- {"transient", "permanent"},
    totalRequests <- subTotalRequests, MaxMessages <- 4, SourceCap <- 2, OutCap <- 2, pc
    <- subPc
K == INSTANCE BreakerProtocol WITH
    Callers <- {"k1", "k2"}, FailureThreshold <- 2, SuccessThreshold <- 2,
    RecoveryTimeout <- 2

SuiteInit ==
    /\ subject \in {"limiter", "users", "balancer", "batching", "retry", "stream",
                    "health", "breaker"}
    /\ RLInit
    /\ IF subject = "users" THEN P!Init
       ELSE buckets = Unused /\ subNow = Unused /\ subWakeAt = Unused /\ subResult = Unused 
            /\ subSeen = Unused /\ subGrants = Unused /\ subAllowedRequests = Unused 
            /\ subRejectedRequests = Unused /\ activeUsers = Unused
    /\ IF subject = "balancer" THEN B!I!BalancerInit
       ELSE Strategy = Unused /\ EnableFailover = Unused /\ up = Unused /\ Healthy = Unused 
            /\ ActiveConnections = Unused /\ TotalFailures = Unused /\ currentIndex = Unused 
            /\ target = Unused /\ attempted = Unused /\ checking = Unused
    /\ IF subject = "batching" THEN B!Init
       ELSE queue = Unused /\ queueClosed = Unused /\ shutdownClosed = Unused /\ resultChan =
            Unused /\ bp = Unused /\ draining = Unused /\ last = Unused /\ batch = Unused 
            /\ results = Unused /\ runs = Unused /\ sd = Unused /\ early = Unused /\ totalBatches =
            Unused /\ successfulBatches = Unused /\ failedBatches = Unused /\ partialBatches =
            Unused /\ minBatchSize = Unused /\ maxBatchSize = Unused
    /\ IF subject = "retry" THEN R!Init
       ELSE rpc = Unused /\ attempt = Unused /\ backoff = Unused /\ answer = Unused /\ cancelled
            = Unused /\ totalAttempts = Unused /\ totalRetries = Unused 
            /\ successfulFirstAttempt = Unused /\ successfulOnRetry = Unused /\ failedAfterRetries
            = Unused /\ tpc = Unused /\ agent = Unused /\ successfulRequests = Unused 
            /\ timedOutRequests = Unused /\ failedRequests = Unused
    /\ IF subject = "stream" THEN R!StreamInit
       ELSE sent = Unused /\ sourceMsg = Unused /\ msgClosed = Unused /\ sourceErr = Unused 
            /\ errSent = Unused /\ errClosed = Unused /\ held = Unused /\ outMsg = Unused /\ outErr
            = Unused /\ received = Unused /\ recorded = Unused
    /\ IF subject = "health" THEN B!I!HealthInit
       ELSE StartupEnabled = Unused /\ agentUp = Unused /\ processOK = Unused /\ isAlive =
            Unused /\ isReady = Unused /\ startupComplete = Unused /\ underway = Unused 
            /\ healthy = Unused /\ attempts = Unused /\ stopped = Unused
    /\ IF subject = "breaker" THEN K!Init
       ELSE state = Unused /\ failures = Unused /\ successes = Unused /\ waited = Unused 
            /\ calling = Unused
    /\ IF subject \in {"users", "balancer", "batching", "stream", "health"} THEN TRUE
       ELSE subPc = Unused
    /\ IF subject \in {"users", "batching", "retry"} THEN TRUE
       ELSE subTotalRequests = Unused
    /\ IF subject \in {"balancer", "health"} THEN TRUE
       ELSE consecutiveFailures = Unused
    /\ IF subject \in {"batching", "retry"} THEN TRUE
       ELSE outcome = Unused
    /\ IF subject \in {"retry", "stream"} THEN TRUE
       ELSE ctx = Unused

\* What a step of a subject leaves alone.
usersRest == <<subject, rlVars, consecutiveFailures, outcome, ctx, balancerVars,
               batchingVars, retryVars, streamVars, healthVars, breakerVars>>
balancerRest == <<subject, rlVars, subTotalRequests, outcome, ctx, usersVars,
                  batchingVars, retryVars, streamVars, healthVars, breakerVars>>
batchingRest == <<subject, rlVars, consecutiveFailures, ctx, usersVars, balancerVars,
                  retryVars, streamVars, healthVars, breakerVars>>
retryRest == <<subject, rlVars, subPc, consecutiveFailures, usersVars, balancerVars,
               batchingVars, streamVars, healthVars, breakerVars>>
streamRest == <<subject, rlVars, subTotalRequests, consecutiveFailures, outcome,
                usersVars, balancerVars, batchingVars, retryVars, healthVars,
                breakerVars>>
healthRest == <<subject, rlVars, subTotalRequests, outcome, ctx, usersVars,
                balancerVars, batchingVars, retryVars, streamVars, breakerVars>>
breakerRest == <<subject, rlVars, subPc, subTotalRequests, consecutiveFailures, outcome,
                 ctx, usersVars, balancerVars, batchingVars, retryVars, streamVars,
                 healthVars>>

SuiteNext ==
    \/ /\ subject = "limiter" /\ RLNext
       /\ UNCHANGED <<subject, subPc, subTotalRequests, consecutiveFailures, outcome,
                      ctx, usersVars, balancerVars, batchingVars, retryVars, streamVars,
                      healthVars, breakerVars>>
    \/ subject = "users" /\ P!Next /\ UNCHANGED usersRest
    \/ subject = "balancer" /\ B!I!BalancerNext /\ UNCHANGED balancerRest
    \/ subject = "batching" /\ B!Next /\ UNCHANGED batchingRest
    \/ subject = "retry" /\ R!Next /\ UNCHANGED retryRest
    \/ subject = "stream" /\ R!StreamNext /\ UNCHANGED streamRest
    \/ subject = "health" /\ B!I!HealthNext /\ UNCHANGED healthRest
    \/ subject = "breaker" /\ K!Next /\ UNCHANGED breakerRest

SuiteSpec == SuiteInit /\ [][SuiteNext]_suiteVars

-----------------------------------------------------------------------------
(* Properties. *)

\* The subject keeps its types: its counters, queues, tables and control
\* points stay in range.
SuiteTypeOK ==
    /\ subject = "limiter" => RLTypeOK
    /\ subject = "users" => P!TypeOK
    /\ subject = "balancer" => B!I!BalancerTypeOK
    /\ subject = "batching" => B!TypeOK
    /\ subject = "retry" => R!TypeOK
    /\ subject = "stream" => R!StreamTypeOK
    /\ subject = "health" => B!I!HealthTypeOK
    /\ subject = "breaker" => K!TypeOK

\* Every call is accounted for once although its counters are updated in
\* several critical sections: what a limiter counted was allowed, rejected, or
\* waits for its bucket, for all callers and for each user; Retry and Timeout
\* tell the same story of every attempt, and between batches Batching accounts
\* for every request that was run.
CallsAccountedFor ==
    /\ subject = "limiter" => MetricsConserved
    /\ subject = "users" => P!MetricsConserved
    /\ subject = "retry" => R!MetricsAgree
    /\ subject = "batching" => B!MetricsAccountForRuns

\* A caller gets the answer to its own request and nothing is lost or run
\* twice: a request that waits without a result is queued or in the batch, in
\* one place only, and Process returns the result of its one run; the caller
\* of a stream gets what the agent sent, in order, all of it when success is
\* recorded, and the outcome is recorded once.
AnswersFaithful ==
    /\ subject = "batching" => B!RequestsNotLostOrDuplicated /\ B!OwnResult
    /\ subject = "stream" => R!InOrderAndComplete /\ R!RecordedOnce

\* A request is tried again only after an error that ShouldRetry accepts, and
\* its answer is that of its last attempt, whatever attempts that were
\* abandoned at their deadline return later.
RetriesJustified == subject = "retry" => R!RetriesJustified

\* A call is refused, or fails, only for its own reasons: a limiter refuses a
\* caller that waited only if another took the tokens meanwhile, what one user
\* does never touches the bucket of another, and with failover a request fails
\* only after it tried every backend or when none was healthy.
RefusalsJustified ==
    [][/\ subject = "limiter" => RefusalStep
       /\ subject = "users" => P!BucketStep
       /\ subject = "balancer" => B!I!FailureStep]_suiteVars
=============================================================================
