------------------------- MODULE PerUserRateLimiter -------------------------
(***************************************************************************)
(* PerUserRateLimiterDecorator of middleware/rate_limiter.go: a map of     *)
(* buckets under one lock, filled on demand.  A message without a user id  *)
(* is charged to the user "anonymous".  Each caller sends the messages of  *)
(* one user.                                                               *)
(***************************************************************************)
EXTENDS Integers, Sequences, FiniteSets

CONSTANTS
    Callers,
    MsgUser,           \* per caller: the user id of its messages, or NoUser
    NoUser,
    Units, Epsilon, Rate, Capacity, TokensPerRequest, MaxWaitTimeout,
    MaxGrants,         \* bound on the number of grants per user
    MaxRequests,       \* bound on the number of calls
    MaxTime

\* The amounts are as in TokenBucket (NewPerUserRateLimiterDecorator).
UsersAssumption ==
    /\ IsFiniteSet(Callers)
    /\ Units \in Nat \ {0} /\ Rate \in Nat \ {0}
    /\ Capacity \in Nat \ {0}
    /\ TokensPerRequest \in 1 .. Capacity
    /\ Epsilon \in Nat /\ Epsilon < Units
    /\ MaxWaitTimeout \in Nat /\ MaxGrants \in Nat
    /\ MaxRequests \in Nat /\ MaxTime \in Nat

userID(c) == IF MsgUser[c] = NoUser THEN "anonymous" ELSE MsgUser[c]

Users == {userID(c) : c \in Callers}
CallersOf(u) == {c \in Callers : userID(c) = u}

VARIABLES
    buckets,    \* user -> [tokens, lastUpdate], for the users seen so far
    now,
    pc, wakeAt, result, seen,    \* per caller, as in TokenBucket
    grants,     \* history: per user, the times of its grants
    totalRequests, allowedRequests, rejectedRequests, activeUsers

metricVars == <<totalRequests, allowedRequests, rejectedRequests, activeUsers>>
vars == <<buckets, now, pc, wakeAt, result, seen, grants, metricVars>>

Full == Capacity * Units
Needed == TokensPerRequest * Units

TypeOK ==
    /\ now \in Nat
    /\ DOMAIN buckets \subseteq Users
    /\ \A u \in DOMAIN buckets :
         buckets[u] \in [tokens : -Epsilon .. Full, lastUpdate : 0 .. now]
    /\ pc \in [Callers -> {"idle", "waiting"}]
    /\ wakeAt \in [Callers -> Nat]
    /\ result \in [Callers -> {"none", "granted", "refused", "cancelled"}]
    /\ seen \in [Callers -> [grants : Nat, cut : 0 .. Rate - 1]]
    /\ grants \in [Users -> Seq(0 .. now)]
    /\ totalRequests \in Nat /\ allowedRequests \in Nat /\ rejectedRequests \in Nat
    /\ activeUsers \in 0 .. Cardinality(Users)

Init ==
    /\ buckets = <<>> /\ now = 0
    /\ pc = [c \in Callers |-> "idle"]
    /\ wakeAt = [c \in Callers |-> 0]
    /\ result = [c \in Callers |-> "none"]
    /\ seen = [c \in Callers |-> [grants |-> 0, cut |-> 0]]
    /\ grants = [u \in Users |-> <<>>]
    /\ totalRequests = 0 /\ allowedRequests = 0 /\ rejectedRequests = 0
    /\ activeUsers = 0

-----------------------------------------------------------------------------
\* Fault: a new bucket is not filled; the first request has to wait.
getUserBucket_Empty(u) ==
    IF u \in DOMAIN buckets THEN buckets[u] ELSE [tokens |-> 0, lastUpdate |-> now]

getUserBucket(u) ==
    IF u \in DOMAIN buckets THEN buckets[u] ELSE [tokens |-> Full, lastUpdate |-> now]

\* refillUserTokens on the user's bucket.
refilled(u) ==
    LET b == getUserBucket(u)
        t == b.tokens + (now - b.lastUpdate) * Rate
    IN IF t < Full THEN t ELSE Full

waitDuration(u) == (Needed - refilled(u)) \div Rate
waitTooLong(u) == MaxWaitTimeout > 0 /\ waitDuration(u) > MaxWaitTimeout

\* The bucket after a locked section, created in the map if it is new.
putBucket(u, t) ==
    buckets' = [v \in DOMAIN buckets \cup {u} |->
                  IF v = u THEN [tokens |-> t, lastUpdate |-> now] ELSE buckets[v]]

\* getUserBucket sets ActiveUsers when it creates a bucket.
countUsers(u) ==
    activeUsers' = IF u \in DOMAIN buckets THEN activeUsers
                   ELSE Cardinality(DOMAIN buckets \cup {u})

\* Process counts the request before it asks for tokens.
begin(c) ==
    /\ pc[c] = "idle"
    /\ Len(grants[userID(c)]) < MaxGrants /\ totalRequests < MaxRequests
    /\ totalRequests' = totalRequests + 1

TakeNow(c) ==
    LET u == userID(c)
    IN /\ begin(c)
       /\ refilled(u) >= Needed
       /\ putBucket(u, refilled(u) - Needed) /\ countUsers(u)
       /\ grants' = [grants EXCEPT ![u] = Append(@, now)]
       /\ result' = [result EXCEPT ![c] = "granted"]
       /\ allowedRequests' = allowedRequests + 1
       /\ UNCHANGED <<now, pc, wakeAt, seen, rejectedRequests>>

RefuseNow(c) ==
    LET u == userID(c)
    IN /\ begin(c)
       /\ refilled(u) < Needed /\ waitTooLong(u)
       /\ putBucket(u, refilled(u)) /\ countUsers(u)
       /\ result' = [result EXCEPT ![c] = "refused"]
       /\ rejectedRequests' = rejectedRequests + 1
       /\ UNCHANGED <<now, pc, wakeAt, seen, grants, allowedRequests>>

StartWait(c) ==
    LET u == userID(c)
    IN /\ begin(c)
       /\ refilled(u) < Needed /\ ~waitTooLong(u)
       /\ putBucket(u, refilled(u)) /\ countUsers(u)
       /\ pc' = [pc EXCEPT ![c] = "waiting"]
       /\ wakeAt' = [wakeAt EXCEPT ![c] = now + waitDuration(u)]
       /\ seen' = [seen EXCEPT ![c] = [grants |-> Len(grants[u]),
                                       cut |-> (Needed - refilled(u)) % Rate]]
       /\ UNCHANGED <<now, result, grants, allowedRequests, rejectedRequests>>

Cancelled(c) ==
    /\ pc[c] = "waiting"
    /\ pc' = [pc EXCEPT ![c] = "idle"]
    /\ result' = [result EXCEPT ![c] = "cancelled"]
    /\ rejectedRequests' = rejectedRequests + 1
    /\ UNCHANGED <<buckets, now, wakeAt, seen, grants, totalRequests,
                   allowedRequests, activeUsers>>

\* Fault: the caller takes the tokens it slept for without looking again.
WakeTake_Unchecked(c) ==
    LET u == userID(c)
    IN /\ pc[c] = "waiting" /\ now >= wakeAt[c]
       /\ putBucket(u, refilled(u) - Needed)
       /\ grants' = [grants EXCEPT ![u] = Append(@, now)]
       /\ pc' = [pc EXCEPT ![c] = "idle"]
       /\ result' = [result EXCEPT ![c] = "granted"]
       /\ allowedRequests' = allowedRequests + 1
       /\ UNCHANGED <<now, wakeAt, seen, totalRequests, rejectedRequests, activeUsers>>

WakeTake(c) ==
    LET u == userID(c)
    IN /\ pc[c] = "waiting" /\ now >= wakeAt[c]
       /\ refilled(u) >= Needed - Epsilon
       /\ putBucket(u, refilled(u) - Needed)
       /\ grants' = [grants EXCEPT ![u] = Append(@, now)]
       /\ pc' = [pc EXCEPT ![c] = "idle"]
       /\ result' = [result EXCEPT ![c] = "granted"]
       /\ allowedRequests' = allowedRequests + 1
       /\ UNCHANGED <<now, wakeAt, seen, totalRequests, rejectedRequests, activeUsers>>

WakeRefuse(c) ==
    LET u == userID(c)
    IN /\ pc[c] = "waiting" /\ now >= wakeAt[c]
       /\ refilled(u) < Needed - Epsilon
       /\ putBucket(u, refilled(u))
       /\ pc' = [pc EXCEPT ![c] = "idle"]
       /\ result' = [result EXCEPT ![c] = "refused"]
       /\ rejectedRequests' = rejectedRequests + 1
       /\ UNCHANGED <<now, wakeAt, seen, grants, totalRequests, allowedRequests, activeUsers>>

Tick ==
    /\ now < MaxTime
    /\ now' = now + 1
    /\ UNCHANGED <<buckets, pc, wakeAt, result, seen, grants, metricVars>>

Next ==
    \/ \E c \in Callers : \/ TakeNow(c) \/ RefuseNow(c) \/ StartWait(c)
                          \/ Cancelled(c) \/ WakeTake(c) \/ WakeRefuse(c)
    \/ Tick

Spec == Init /\ [][Next]_vars

-----------------------------------------------------------------------------
\* What the callers of one user see of the limiter.
ownTokens(u) == IF u \in DOMAIN buckets THEN buckets[u].tokens ELSE Full
ownUpdate(u) == IF u \in DOMAIN buckets THEN buckets[u].lastUpdate ELSE 0
ownPc(u) == [c \in CallersOf(u) |-> pc[c]]
ownWakeAt(u) == [c \in CallersOf(u) |-> wakeAt[c]]
ownResult(u) == [c \in CallersOf(u) |-> result[c]]
ownSeen(u) == [c \in CallersOf(u) |-> seen[c]]

Alone(u) == INSTANCE TokenBucket WITH
    Callers <- CallersOf(u), tokens <- ownTokens(u), lastUpdate <- ownUpdate(u),
    pc <- ownPc(u), wakeAt <- ownWakeAt(u), result <- ownResult(u), seen <- ownSeen(u),
    grants <- grants[u]

\* The buckets are independent: what the callers of one user see is a behaviour
\* of a limiter that serves that user alone, whatever the others do ("maintains
\* separate token buckets for each user", acquireUserTokens).
BucketStep == \A u \in Users : [Alone(u)!Next]_(Alone(u)!bucketVars)
\* The counters of all users together balance, and ActiveUsers is the number of
\* users that own a bucket (Process, getUserBucket).
MetricsConserved ==
    /\ totalRequests = allowedRequests + rejectedRequests
                       + Cardinality({c \in Callers : pc[c] = "waiting"})
    /\ activeUsers = Cardinality(DOMAIN buckets)
=============================================================================
