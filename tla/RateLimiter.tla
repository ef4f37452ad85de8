---------------------------- MODULE RateLimiter -----------------------------
(***************************************************************************)
(* RateLimiterDecorator of middleware/rate_limiter.go: Process and Stream  *)
(* over the bucket of TokenBucket, with the metrics they keep.  A counter  *)
(* updated right after acquireTokens returns is updated with it here: each *)
(* has its own critical section and nothing is decided on them.  The total  *)
(* of the time slept, TotalWaitTime, is left out.                          *)
(***************************************************************************)
EXTENDS TokenBucket, FiniteSets

CONSTANT MaxRequests    \* bound on the number of calls of Process and Stream

ASSUME LimiterAssumption == IsFiniteSet(Callers) /\ MaxRequests \in Nat

VARIABLES
    op,              \* per caller: the operation it is in
    streams,         \* history: calls of Stream
    totalRequests, allowedRequests, rejectedRequests,
    currentTokens

metricVars == <<totalRequests, allowedRequests, rejectedRequests, currentTokens>>
rlVars == <<bucketVars, op, streams, metricVars>>

RLTypeOK ==
    /\ TypeOK
    /\ op \in [Callers -> {"Process", "Stream"}]
    /\ totalRequests \in Nat /\ allowedRequests \in Nat /\ rejectedRequests \in Nat
    /\ streams \in Nat
    /\ currentTokens \in -Epsilon .. Full

RLInit ==
    /\ Init
    /\ op = [c \in Callers |-> "Process"]
    /\ streams = 0
    /\ totalRequests = 0 /\ allowedRequests = 0 /\ rejectedRequests = 0
    /\ currentTokens = Full

\* Fault: the limiter counts a stream it has already counted.
begin_StreamTwice(c, o) ==
    /\ totalRequests + streams < MaxRequests
    /\ op' = [op EXCEPT ![c] = o]
    /\ totalRequests' = totalRequests + 1
    /\ streams' = IF o = "Stream" THEN streams + 1 ELSE streams

\* Process counts the request before it asks for tokens; Stream never does.
begin(c, o) ==
    /\ totalRequests + streams < MaxRequests
    /\ op' = [op EXCEPT ![c] = o]
    /\ IF o = "Process" THEN totalRequests' = totalRequests + 1 /\ UNCHANGED streams
                        ELSE streams' = streams + 1 /\ UNCHANGED totalRequests

\* Every locked section ends with CurrentTokens equal to the bucket's tokens.
Granted(c, o) ==
    /\ begin(c, o) /\ TakeNow(c)
    /\ allowedRequests' = allowedRequests + 1
    /\ currentTokens' = tokens'
    /\ UNCHANGED rejectedRequests

Refused(c, o) ==
    /\ begin(c, o) /\ RefuseNow(c)
    /\ rejectedRequests' = rejectedRequests + 1
    /\ currentTokens' = tokens'
    /\ UNCHANGED allowedRequests

Sleep(c, o) ==
    /\ begin(c, o) /\ StartWait(c)
    /\ currentTokens' = tokens'
    /\ UNCHANGED <<allowedRequests, rejectedRequests>>

CancelledWaiting(c) ==
    /\ Cancelled(c)
    /\ rejectedRequests' = rejectedRequests + 1
    /\ UNCHANGED <<op, streams, totalRequests, allowedRequests, currentTokens>>

\* Fault: CurrentTokens is left at the value of the refill.
GrantedAfterWait_StaleMetric(c) ==
    /\ WakeTake(c)
    /\ allowedRequests' = allowedRequests + 1
    /\ currentTokens' = refilled
    /\ UNCHANGED <<op, streams, totalRequests, rejectedRequests>>

GrantedAfterWait(c) ==
    /\ WakeTake(c)
    /\ allowedRequests' = allowedRequests + 1
    /\ currentTokens' = tokens'
    /\ UNCHANGED <<op, streams, totalRequests, rejectedRequests>>

RefusedAfterWait(c) ==
    /\ WakeRefuse(c)
    /\ rejectedRequests' = rejectedRequests + 1
    /\ currentTokens' = tokens'
    /\ UNCHANGED <<op, streams, totalRequests, allowedRequests>>

RLTick == Tick /\ UNCHANGED <<op, streams, metricVars>>

RLNext ==
    \/ \E c \in Callers, o \in {"Process", "Stream"} :
           Granted(c, o) \/ Refused(c, o) \/ Sleep(c, o)
    \/ \E c \in Callers : CancelledWaiting(c) \/ GrantedAfterWait(c) \/ RefusedAfterWait(c)
    \/ RLTick

RLSpec == RLInit /\ [][RLNext]_rlVars

\* The counters balance once the calls of Stream, which TotalRequests leaves
\* out and the other two count, are added to TotalRequests; CurrentTokens shows
\* the bucket; a grant is counted for every set of tokens handed out.
MetricsConserved ==
    /\ totalRequests + streams = allowedRequests + rejectedRequests
         + Cardinality({c \in Callers : pc[c] = "waiting"})
    /\ allowedRequests = Len(grants)
    /\ currentTokens = tokens
=============================================================================
