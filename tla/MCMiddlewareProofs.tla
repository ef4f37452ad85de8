------------------------- MODULE MCMiddlewareProofs -------------------------
(***************************************************************************)
(* The properties that MCMiddleware checks, proved of its components       *)
(* together.  Each component has proofs of its own, for every value of its *)
(* constants; MCMiddleware takes the components from the modules that hold *)
(* these proofs, and the suite adds what is particular to it: a step is a  *)
(* step of one subject and leaves the variables of the others alone.       *)
(***************************************************************************)
EXTENDS MCMiddleware, RateLimiterProofs

\* The constants that MCMiddleware gives its components meet their assumptions.
LEMMA SuiteConstants ==
    /\ P!UsersAssumption /\ B!I!BalancerAssumption /\ B!I!HealthAssumption
    /\ B!BatchingAssumption /\ R!RetryAssumption /\ R!StreamAssumption
<1>1. IsFiniteSet(UserCallers) /\ IsFiniteSet(BatchCallers)
  BY Zenon, ThreeAreFinite DEF UserCallers, BatchCallers
<1>2. /\ P!IsFiniteSet(UserCallers) /\ B!IsFiniteSet(BatchCallers)
      /\ B!I!IsFiniteSet(Requests) /\ R!IsFiniteSet(Requests)
  BY Zenon, <1>1, SuiteAssumption
     DEF IsFiniteSet, P!IsFiniteSet, B!IsFiniteSet, B!I!IsFiniteSet, R!IsFiniteSet
<1>3. P!UsersAssumption
  BY <1>2, BucketAssumption, SuiteAssumption DEF P!UsersAssumption
<1>4. /\ B!BatchingAssumption /\ B!I!BalancerAssumption /\ B!I!HealthAssumption
      /\ R!RetryAssumption /\ R!StreamAssumption
  BY <1>2 DEF B!BatchingAssumption, B!I!BalancerAssumption, B!I!HealthAssumption,
              R!RetryAssumption, R!StreamAssumption
<1>5. QED
  BY Zenon, <1>3, <1>4

\* A step of the suite is a step of its subject; the limiter's variables move only
\* when the limiter is the subject.
LEMMA SubjectSteps ==
    ASSUME [SuiteNext]_suiteVars
    PROVE  /\ subject' = subject
           /\ [RLNext]_rlVars
           /\ subject = "users" => [P!Next]_(P!vars)
           /\ subject = "balancer" => [B!I!BalancerNext]_(B!I!balancerVars)
           /\ subject = "batching" => [B!Next]_(B!vars)
           /\ subject = "retry" => [R!Next]_(R!vars)
           /\ subject = "stream" => [R!StreamNext]_(R!streamVars)
           /\ subject = "health" => [B!I!HealthNext]_(B!I!healthVars)
           /\ subject = "breaker" => K!Next \/ UNCHANGED breakerVars
<1>1. CASE SuiteNext
  BY Zenon, <1>1 DEF SuiteNext, suiteVars, usersRest, balancerRest, batchingRest, retryRest,
              streamRest, healthRest, breakerRest
<1>2. CASE UNCHANGED suiteVars
  BY Zenon, <1>2 DEF suiteVars, usersVars, balancerVars, batchingVars, retryVars, streamVars,
              healthVars, breakerVars, P!vars, P!metricVars, B!I!balancerVars,
              B!I!healthVars, B!I!config, B!I!backendVars, B!I!requestVars, B!I!checkVars,
              B!I!environment, B!I!verdicts, B!I!counters, B!vars, B!chanVars, B!callerVars,
              B!batchVars, B!metricVars, R!vars, R!streamVars, R!retryVars,
              R!timeoutVars, R!srcVars, R!retryMetrics
<1>3. QED
  BY Zenon, <1>1, <1>2

\* The breaker protocol keeps its counts below the thresholds.
LEMMA BreakerTypes ==
    /\ K!Init => K!TypeOK
    /\ K!TypeOK /\ (K!Next \/ UNCHANGED breakerVars) => K!TypeOK'
  BY SMTT(60) DEF K!Init, K!Next, K!Admit, K!Succeed, K!Fail, K!Tick, K!TypeOK, K!StateClosed,
                  K!StateOpen, K!StateHalfOpen, breakerVars

-----------------------------------------------------------------------------
\* The inductive invariant of the suite: that of its subject, and that of the limiter,
\* whose variables keep their initial values when it is not the subject.
SuiteInv ==
    /\ LimiterInv
    /\ subject = "users" => P!UsersInv
    /\ subject = "balancer" => B!I!BalancerTypeOK
    /\ subject = "batching" => B!BatchingInv
    /\ subject = "retry" => R!RetryInv
    /\ subject = "stream" => R!StreamInv
    /\ subject = "health" => B!HealthInv
    /\ subject = "breaker" => K!TypeOK

\* The invariant of the suite follows from those of its components.
LEMMA SuiteAlways == SuiteSpec => []SuiteInv
<1>1. SuiteInit => SuiteInv
  BY Zenon, SuiteConstants, LimiterInit, P!UsersInit, B!BalancerInitType, B!BatchingInit,
     R!RetryInvInit, R!StreamInitInv, B!HealthInitInv, BreakerTypes
     DEF SuiteInit, SuiteInv
<1>2. SuiteInv /\ [SuiteNext]_suiteVars => SuiteInv'
  BY ZenonT(30), SuiteConstants, SubjectSteps, LimiterStep, P!UsersStep, B!BalancerStep,
     B!BatchingStep, R!RetryStep, R!StreamStep, B!HealthStep, BreakerTypes
     DEF SuiteInv
<1>3. QED
  BY <1>1, <1>2, PTL DEF SuiteSpec

\* What the suite's invariant says in the terms of the runs.
LEMMA SuiteProperties ==
    SuiteInv => /\ RateBound
                /\ CallsAccountedFor
                /\ AnswersFaithful
                /\ RetriesJustified
                /\ SuiteTypeOK
<1>1. /\ P!UsersInv => P!TypeOK /\ P!MetricsConserved
      /\ B!BatchingInv => B!TypeOK /\ B!RequestsNotLostOrDuplicated /\ B!OwnResult
                            /\ B!MetricsAccountForRuns
      /\ R!RetryInv => R!TypeOK /\ R!MetricsAgree /\ R!RetriesJustified
      /\ R!StreamInv => R!StreamTypeOK /\ R!InOrderAndComplete /\ R!RecordedOnce
      /\ B!HealthInv => B!I!HealthTypeOK
  BY Zenon, SuiteConstants, B!BatchingProperties, R!RetryProperties, R!StreamProperties
     DEF P!UsersInv, B!BatchingInv, R!RetryInv, R!StreamInv, B!HealthInv
<1>2. QED
  BY Zenon, <1>1 DEF SuiteInv, LimiterInv, BucketInv, CallsAccountedFor, AnswersFaithful,
              RetriesJustified, SuiteTypeOK

\* Whatever the subject, the limiter grants no more between any two grants than its
\* capacity and rate allow (RateLimiterDecorator.acquireTokens).
THEOREM SuiteRateBounded == SuiteSpec => []RateBound
  BY SuiteAlways, SuiteProperties, PTL

\* Every call is accounted for once although its counters are updated in several
\* critical sections: the limiters' allowed, rejected and waiting requests add up to
\* those they counted, Retry and Timeout agree on every attempt, and Batching counts
\* every run.
THEOREM SuiteCallsAccountedFor == SuiteSpec => []CallsAccountedFor
  BY SuiteAlways, SuiteProperties, PTL

\* A caller gets the answer to its own request and nothing is lost or run twice
\* (BatchingDecorator), and a stream is forwarded in order, completely when success is
\* recorded, with its outcome recorded once (TimeoutDecorator.Stream).
THEOREM SuiteAnswersFaithful == SuiteSpec => []AnswersFaithful
  BY SuiteAlways, SuiteProperties, PTL

\* A request is tried again only after an error that ShouldRetry accepts, and its answer
\* is that of its last attempt (RetryDecorator.Process around TimeoutDecorator.Process).
THEOREM SuiteRetriesJustified == SuiteSpec => []RetriesJustified
  BY SuiteAlways, SuiteProperties, PTL

\* The variables of the subject keep their types.
THEOREM SuiteTypesOK == SuiteSpec => []SuiteTypeOK
  BY SuiteAlways, SuiteProperties, PTL

\* A call is refused, or fails, only for its own reasons: the limiter refuses a caller
\* that waited only if another took the tokens meanwhile, a user's call moves no other
\* user's bucket, and with failover a request fails only when every backend was tried or
\* none was healthy.
THEOREM SuiteRefusalsJustified == SuiteSpec => RefusalsJustified
<1>1. SuiteInv /\ [SuiteNext]_suiteVars
        => [/\ subject = "limiter" => RefusalStep
            /\ subject = "users" => P!BucketStep
            /\ subject = "balancer" => B!I!FailureStep]_suiteVars
  BY ZenonT(30), SuiteConstants, SubjectSteps, LimiterSteps, RefusalLemma, P!UsersIndependent,
     B!FailureExplained
     DEF SuiteInv, LimiterInv
<1>2. QED
  BY <1>1, SuiteAlways, PTL DEF SuiteSpec, RefusalsJustified

=============================================================================
