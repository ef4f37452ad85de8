---------------------- MODULE PerUserRateLimiterProofs ----------------------
(***************************************************************************)
(* Proofs about PerUserRateLimiter for every set of callers and users: the *)
(* conservation of the metrics, and that each user has a bucket of its own *)
(* that nobody else touches.                                               *)
(***************************************************************************)
EXTENDS PerUserRateLimiter, FiniteSetTheorems, TLAPS

\* A caller that sleeps has a bucket in the map; the callers that sleep are counted.
SleepersKnown == \A c \in Callers : pc[c] = "waiting" => userID(c) \in DOMAIN buckets
Waiting == {c \in Callers : pc[c] = "waiting"}

\* The inductive invariant.
UsersInv == TypeOK /\ SleepersKnown /\ MetricsConserved

\* What the constructor guarantees about the amounts of tokens.
LEMMA Amounts ==
    ASSUME UsersAssumption
    PROVE  /\ Full \in Nat /\ Needed \in Nat /\ Needed <= Full /\ Epsilon < Needed
           /\ Rate \in Nat \ {0} /\ Epsilon \in Nat
<1>1. /\ Capacity * Units \in Nat /\ TokensPerRequest * Units \in Nat
      /\ TokensPerRequest * Units <= Capacity * Units /\ Units <= TokensPerRequest * Units
  BY DEF UsersAssumption
<1>2. QED
  BY <1>1 DEF Full, Needed, UsersAssumption

\* There are finitely many users, and a caller's user is one of them.
LEMMA UsersFinite ==
    ASSUME UsersAssumption
    PROVE  IsFiniteSet(Users) /\ \A c \in Callers : userID(c) \in Users
<1> DEFINE owner == [c \in Callers |-> userID(c)]
<1>1. owner \in Surjection(Callers, Users)
  BY DEF Surjection, Users
<1>2. QED
  BY <1>1, FS_Surjection DEF Users, UsersAssumption

\* The refill leaves between -Epsilon and a full bucket, also in the bucket that
\* getUserBucket creates.
LEMMA RefillRange ==
    ASSUME UsersAssumption, TypeOK, NEW u \in Users
    PROVE  refilled(u) \in -Epsilon .. Full
<1> DEFINE b == getUserBucket(u)
<1>1. b.tokens \in -Epsilon .. Full /\ b.lastUpdate \in 0 .. now
  BY Amounts DEF TypeOK, getUserBucket
<1>2. now - b.lastUpdate \in Nat /\ Rate \in Nat
  BY <1>1, Amounts DEF TypeOK
<1> DEFINE added == (now - b.lastUpdate) * Rate
<1>3. added \in Nat
  BY <1>2
<1>4. refilled(u) = IF b.tokens + added < Full THEN b.tokens + added ELSE Full
  BY DEF refilled
<1> HIDE DEF added, b
<1>5. QED
  BY <1>1, <1>3, <1>4, Amounts

\* A locked section changes the bucket of one user.
LEMMA PutBucket ==
    ASSUME UsersAssumption, TypeOK, NEW u \in Users, NEW t \in -Epsilon .. Full,
           putBucket(u, t), UNCHANGED now
    PROVE  /\ DOMAIN buckets' = DOMAIN buckets \cup {u}
           /\ DOMAIN buckets' \subseteq Users
           /\ \A v \in DOMAIN buckets' :
                buckets'[v] \in [tokens : -Epsilon .. Full, lastUpdate : 0 .. now']
           /\ Cardinality(DOMAIN buckets') \in 0 .. Cardinality(Users)
<1>1. /\ DOMAIN buckets' = DOMAIN buckets \cup {u}
      /\ buckets'[u] = [tokens |-> t, lastUpdate |-> now]
      /\ \A v \in DOMAIN buckets : v # u => buckets'[v] = buckets[v]
  BY DEF putBucket
<1>2. DOMAIN buckets' \subseteq Users
  BY <1>1 DEF TypeOK
<1>3. \A v \in DOMAIN buckets' :
        buckets'[v] \in [tokens : -Epsilon .. Full, lastUpdate : 0 .. now']
  BY <1>1 DEF TypeOK
<1>4. Cardinality(DOMAIN buckets') \in 0 .. Cardinality(Users)
  BY <1>2, UsersFinite, FS_Subset, FS_CardinalityType
<1>5. QED
  BY <1>1, <1>2, <1>3, <1>4

\* One caller that goes to sleep or wakes changes the number of sleepers by one.
LEMMA WaitingCount ==
    ASSUME UsersAssumption, TypeOK
    PROVE  /\ Cardinality(Waiting) \in Nat
           /\ pc' = pc => Waiting' = Waiting
           /\ \A c \in Callers :
                /\ pc[c] = "idle" /\ pc' = [pc EXCEPT ![c] = "waiting"] =>
                     Cardinality(Waiting') = Cardinality(Waiting) + 1
                /\ pc[c] = "waiting" /\ pc' = [pc EXCEPT ![c] = "idle"] =>
                     Cardinality(Waiting') = Cardinality(Waiting) - 1
<1>1. IsFiniteSet(Waiting)
  BY FS_Subset DEF Waiting, UsersAssumption
<1>2. Cardinality(Waiting) \in Nat
  BY <1>1, FS_CardinalityType
<1>3. ASSUME NEW c \in Callers, pc[c] = "idle", pc' = [pc EXCEPT ![c] = "waiting"]
      PROVE  Cardinality(Waiting') = Cardinality(Waiting) + 1
  <2>1. Waiting' = Waiting \cup {c} /\ c \notin Waiting
    BY <1>3 DEF Waiting, TypeOK
  <2>2. QED
    BY Zenon, <1>1, <2>1, FS_AddElement
<1>4. ASSUME NEW c \in Callers, pc[c] = "waiting", pc' = [pc EXCEPT ![c] = "idle"]
      PROVE  Cardinality(Waiting') = Cardinality(Waiting) - 1
  <2>1. Waiting' = Waiting \ {c} /\ c \in Waiting
    BY <1>4 DEF Waiting, TypeOK
  <2>2. QED
    BY <1>1, <2>1, FS_RemoveElement
<1>5. QED
  BY <1>2, <1>3, <1>4 DEF Waiting

\* A limiter without any user yet meets the invariant.
LEMMA UsersInit == ASSUME UsersAssumption, Init PROVE UsersInv
<1>1. Waiting = {} /\ DOMAIN buckets = {}
  BY DEF Init, Waiting
<1>2. Cardinality({}) = 0 /\ Cardinality(Users) \in Nat
  BY FS_EmptySet, FS_CardinalityType, UsersFinite
<1>3. TypeOK
  BY <1>1, <1>2, Amounts DEF Init, TypeOK
<1>4. SleepersKnown
  BY DEF Init, SleepersKnown
<1>5. Cardinality(Waiting) = 0 /\ Cardinality(DOMAIN buckets) = 0
  BY <1>1, <1>2
<1>6. totalRequests = 0 /\ allowedRequests = 0 /\ rejectedRequests = 0 /\ activeUsers = 0
  BY DEF Init
<1>7. MetricsConserved
  BY SMTT(30), <1>5, <1>6 DEF MetricsConserved, Waiting
<1>8. QED
  BY <1>3, <1>4, <1>7 DEF UsersInv

\* No order of the callers' locked sections loses a count or a bucket.
LEMMA UsersStep == ASSUME UsersAssumption, UsersInv, [Next]_vars PROVE UsersInv'
<1>1. TypeOK /\ SleepersKnown
  BY DEF UsersInv
<1>2. /\ totalRequests = allowedRequests + rejectedRequests + Cardinality(Waiting)
      /\ activeUsers = Cardinality(DOMAIN buckets)
      /\ totalRequests \in Nat /\ allowedRequests \in Nat /\ rejectedRequests \in Nat
      /\ Cardinality(Waiting) \in Nat
  BY <1>1, WaitingCount DEF UsersInv, MetricsConserved, Waiting, TypeOK
<1> DEFINE Balanced ==
             /\ totalRequests \in Nat /\ allowedRequests \in Nat /\ rejectedRequests \in Nat
             /\ totalRequests = allowedRequests + rejectedRequests + Cardinality(Waiting)
           Typed == /\ now \in Nat
                    /\ pc \in [Callers -> {"idle", "waiting"}]
                    /\ wakeAt \in [Callers -> Nat]
                    /\ result \in [Callers -> {"none", "granted", "refused", "cancelled"}]
                    /\ seen \in [Callers -> [grants : Nat, cut : 0 .. Rate - 1]]
                    /\ grants \in [Users -> Seq(0 .. now)]
           Mapped == /\ DOMAIN buckets \subseteq Users
                     /\ \A u \in DOMAIN buckets :
                          buckets[u] \in [tokens : -Epsilon .. Full, lastUpdate : 0 .. now]
                     /\ activeUsers \in 0 .. Cardinality(Users)
                     /\ activeUsers = Cardinality(DOMAIN buckets)
<1>3. Balanced /\ Typed /\ Mapped
  BY <1>1, <1>2 DEF TypeOK
<1> SUFFICES Balanced' /\ Typed' /\ Mapped' /\ SleepersKnown'
  BY SMTT(30) DEF UsersInv, TypeOK, MetricsConserved, Waiting
<1>4. ASSUME NEW c \in Callers, NEW t \in -Epsilon .. Full,
             putBucket(userID(c), t), UNCHANGED now,
             countUsers(userID(c)) \/ (pc[c] = "waiting" /\ UNCHANGED activeUsers),
             pc' = pc \/ pc' = [pc EXCEPT ![c] = "idle"] \/ pc' = [pc EXCEPT ![c] = "waiting"]
      PROVE  Mapped' /\ SleepersKnown'
  <2>1. userID(c) \in Users
    BY UsersFinite
  <2>2. /\ DOMAIN buckets' = DOMAIN buckets \cup {userID(c)}
        /\ DOMAIN buckets' \subseteq Users
        /\ \A v \in DOMAIN buckets' :
             buckets'[v] \in [tokens : -Epsilon .. Full, lastUpdate : 0 .. now']
        /\ Cardinality(DOMAIN buckets') \in 0 .. Cardinality(Users)
    BY SMTT(30), <1>1, <1>4, <2>1, PutBucket
  <2>3. activeUsers' = Cardinality(DOMAIN buckets')
    <3>1. userID(c) \in DOMAIN buckets => DOMAIN buckets' = DOMAIN buckets
      BY <2>2
    <3>2. pc[c] = "waiting" => userID(c) \in DOMAIN buckets
      BY <1>1 DEF SleepersKnown
    <3>3. QED
      BY <1>2, <1>4, <2>2, <3>1, <3>2 DEF countUsers
  <2>4. SleepersKnown'
    BY <1>1, <1>4, <2>2 DEF SleepersKnown, TypeOK
  <2>5. QED
    BY <2>2, <2>3, <2>4
<1>5. ASSUME NEW c \in Callers
      PROVE  /\ userID(c) \in Users
             /\ refilled(userID(c)) \in -Epsilon .. Full
             /\ refilled(userID(c)) \in Int
             /\ refilled(userID(c)) >= Needed - Epsilon =>
                  refilled(userID(c)) - Needed \in -Epsilon .. Full
  BY <1>1, UsersFinite, RefillRange, Amounts
<1>6. ASSUME NEW c \in Callers, grants' = [grants EXCEPT ![userID(c)] = Append(@, now)],
             UNCHANGED now
      PROVE  grants' \in [Users -> Seq(0 .. now')]
  <2>1. Append(grants[userID(c)], now) \in Seq(0 .. now)
    BY <1>3, <1>5
  <2>2. QED
    BY Zenon, <1>3, <1>6, <2>1
<1>7. ASSUME NEW c \in Callers, TakeNow(c) PROVE Balanced' /\ Typed' /\ Mapped' /\ SleepersKnown'
  <2>1. refilled(userID(c)) - Needed \in -Epsilon .. Full
    BY <1>5, <1>7, Amounts DEF TakeNow
  <2>2. Mapped' /\ SleepersKnown'
    BY <1>4, <1>7, <2>1 DEF TakeNow
  <2>3. Typed'
    BY Zenon, <1>3, <1>6, <1>7 DEF TakeNow
  <2>4. Balanced'
    BY SMTT(30), <1>1, <1>2, <1>7, WaitingCount DEF TakeNow, begin
  <2>5. QED
    BY SMTT(30), <2>2, <2>3, <2>4
<1>8. ASSUME NEW c \in Callers, RefuseNow(c)
      PROVE  Balanced' /\ Typed' /\ Mapped' /\ SleepersKnown'
  <2>1. Mapped' /\ SleepersKnown'
    BY <1>4, <1>5, <1>8 DEF RefuseNow
  <2>2. Typed'
    BY <1>3, <1>8 DEF RefuseNow
  <2>3. Balanced'
    BY SMTT(30), <1>1, <1>2, <1>8, WaitingCount DEF RefuseNow, begin
  <2>4. QED
    BY <2>1, <2>2, <2>3
<1>9. ASSUME NEW c \in Callers, StartWait(c)
      PROVE  Balanced' /\ Typed' /\ Mapped' /\ SleepersKnown'
  <2>1. Mapped' /\ SleepersKnown'
    BY Zenon, <1>4, <1>5, <1>9 DEF StartWait
  <2>2. Needed - refilled(userID(c)) \in Nat
    BY <1>5, <1>9, Amounts DEF StartWait
  <2>3. /\ waitDuration(userID(c)) \in Nat
        /\ (Needed - refilled(userID(c))) % Rate \in 0 .. Rate - 1
    BY <2>2, Amounts DEF waitDuration
  <2>4. Len(grants[userID(c)]) \in Nat
    BY <1>3, <1>5
  <2>5. Typed'
    BY SMTT(30), <1>3, <1>9, <2>3, <2>4 DEF StartWait
  <2>6. Balanced'
    <3>1. Cardinality(Waiting') = Cardinality(Waiting) + 1
      BY Zenon, <1>1, <1>9, WaitingCount DEF StartWait, begin
    <3>2. QED
      BY <1>2, <1>9, <3>1 DEF StartWait, begin
  <2>7. QED
    BY <2>1, <2>5, <2>6
<1>10. ASSUME NEW c \in Callers, Cancelled(c)
       PROVE  Balanced' /\ Typed' /\ Mapped' /\ SleepersKnown'
  <2>1. Mapped' /\ Typed'
    BY <1>3, <1>10 DEF Cancelled
  <2>2. SleepersKnown'
    BY <1>1, <1>10 DEF Cancelled, SleepersKnown, TypeOK
  <2>3. Balanced'
    <3>1. Cardinality(Waiting') = Cardinality(Waiting) - 1
      BY Zenon, <1>1, <1>10, WaitingCount DEF Cancelled
    <3>2. QED
      BY <1>2, <1>10, <3>1 DEF Cancelled
  <2>4. QED
    BY SMTT(30), <2>1, <2>2, <2>3
<1>11. ASSUME NEW c \in Callers, WakeTake(c)
       PROVE  Balanced' /\ Typed' /\ Mapped' /\ SleepersKnown'
  <2>1. Mapped' /\ SleepersKnown'
    BY Zenon, <1>4, <1>5, <1>11 DEF WakeTake
  <2>2. Typed'
    BY Zenon, <1>3, <1>6, <1>11 DEF WakeTake
  <2>3. Balanced'
    <3>1. Cardinality(Waiting') = Cardinality(Waiting) - 1
      BY Zenon, <1>1, <1>11, WaitingCount DEF WakeTake
    <3>2. QED
      BY <1>2, <1>11, <3>1 DEF WakeTake
  <2>4. QED
    BY <2>1, <2>2, <2>3
<1>12. ASSUME NEW c \in Callers, WakeRefuse(c)
       PROVE  Balanced' /\ Typed' /\ Mapped' /\ SleepersKnown'
  <2>1. Mapped' /\ SleepersKnown'
    BY Zenon, <1>4, <1>5, <1>12 DEF WakeRefuse
  <2>2. Typed'
    BY <1>3, <1>12 DEF WakeRefuse
  <2>3. Balanced'
    <3>1. Cardinality(Waiting') = Cardinality(Waiting) - 1
      BY Zenon, <1>1, <1>12, WaitingCount DEF WakeRefuse
    <3>2. QED
      BY <1>2, <1>12, <3>1 DEF WakeRefuse
  <2>4. QED
    BY <2>1, <2>2, <2>3
<1>13. CASE Tick
  <2>1. now \in Nat /\ now' \in Nat /\ 0 .. now \subseteq 0 .. now'
    BY <1>3, <1>13 DEF Tick
  <2>2. grants' \in [Users -> Seq(0 .. now')]
    <3>1. ASSUME NEW u \in Users PROVE grants[u] \in Seq(0 .. now')
      <4>1. grants[u] \in Seq(0 .. now)
        BY <1>3
      <4>2. QED
        BY <2>1, <4>1
    <3>2. QED
      BY <1>3, <1>13, <3>1 DEF Tick
  <2>3. Typed' /\ Mapped' /\ SleepersKnown' /\ Balanced'
    BY SMTT(30), <1>1, <1>3, <1>13, <2>1, <2>2 DEF Tick, metricVars, SleepersKnown, Waiting
  <2>4. QED
    BY SMTT(30), <2>3
<1>14. CASE UNCHANGED vars
  BY <1>1, <1>3, <1>14 DEF vars, metricVars, SleepersKnown, Waiting
<1>15. QED
  BY SMTT(30), <1>7, <1>8, <1>9, <1>10, <1>11, <1>12, <1>13, <1>14 DEF Next

\* The counters of all users together balance in every state between two locked
\* sections of Process, and ActiveUsers counts the buckets of getUserBucket.
THEOREM UsersConserved ==
    ASSUME UsersAssumption PROVE Spec => []MetricsConserved
<1>1. UsersInv => MetricsConserved
  BY DEF UsersInv
<1>2. Init => UsersInv
  BY UsersInit
<1>3. UsersInv /\ [Next]_vars => UsersInv'
  BY UsersStep
<1>4. QED
  BY <1>1, <1>2, <1>3, PTL DEF Spec

-----------------------------------------------------------------------------
(* The buckets are independent. *)

\* A user without a bucket has the tokens of one that has not been used: filling a
\* new bucket late (getUserBucket) is the same as filling it at the start.
LEMMA SameRefill ==
    ASSUME UsersAssumption, TypeOK, NEW u \in Users
    PROVE  /\ Alone(u)!refilled = refilled(u)
           /\ Alone(u)!waitDuration = waitDuration(u)
           /\ Alone(u)!waitTooLong <=> waitTooLong(u)
           /\ Alone(u)!Needed = Needed
<1>1. Alone(u)!Full = Full /\ Alone(u)!Needed = Needed
  BY SMTT(30) DEF Alone!Full, Full, Alone!Needed, Needed
<1>2. CASE u \in DOMAIN buckets
  <2>1. ownTokens(u) = getUserBucket(u).tokens /\ ownUpdate(u) = getUserBucket(u).lastUpdate
    BY Zenon, <1>2 DEF ownTokens, ownUpdate, getUserBucket
  <2>2. Alone(u)!refilled = refilled(u)
    BY Zenon, <1>1, <2>1 DEF Alone!refilled, refilled
  <2>3. QED
    BY Zenon, <1>1, <2>2 DEF Alone!waitDuration, waitDuration, Alone!waitTooLong, waitTooLong
<1>3. CASE u \notin DOMAIN buckets
  <2> DEFINE added == (now - 0) * Rate
  <2>1. added \in Nat /\ (now - now) * Rate = 0
    BY Amounts DEF TypeOK
  <2>2. refilled(u) = Full
    BY <1>3, <2>1, Amounts DEF refilled, getUserBucket
  <2>3. Alone(u)!refilled = IF Full + added < Full THEN Full + added ELSE Full
    BY <1>1, <1>3 DEF Alone!refilled, ownTokens, ownUpdate
  <2>4. Alone(u)!refilled = Full
    <3> HIDE DEF added
    <3>1. QED
      BY <2>1, <2>3, Amounts
  <2>5. QED
    BY Zenon, <1>1, <2>2, <2>4
       DEF Alone!waitDuration, waitDuration, Alone!waitTooLong, waitTooLong
<1>4. QED
  BY <1>2, <1>3

\* A locked section leaves the user its tokens and the time of the refill.
LEMMA OwnBucket ==
    ASSUME NEW u, NEW t, putBucket(u, t)
    PROVE  ownTokens(u)' = t /\ ownUpdate(u)' = now
<1>1. u \in DOMAIN buckets' /\ buckets'[u] = [tokens |-> t, lastUpdate |-> now]
  BY DEF putBucket
<1>2. QED
  BY <1>1 DEF ownTokens, ownUpdate

\* A caller of another user changes nothing that this user's callers see.
LEMMA OthersKept ==
    ASSUME TypeOK, NEW u \in Users, NEW c \in Callers, userID(c) # u,
           UNCHANGED buckets \/ (\E t : putBucket(userID(c), t)),
           pc' = pc \/ (\E x : pc' = [pc EXCEPT ![c] = x]),
           wakeAt' = wakeAt \/ (\E x : wakeAt' = [wakeAt EXCEPT ![c] = x]),
           result' = result \/ (\E x : result' = [result EXCEPT ![c] = x]),
           seen' = seen \/ (\E x : seen' = [seen EXCEPT ![c] = x]),
           grants' = grants \/ (\E x : grants' = [grants EXCEPT ![userID(c)] = x]),
           UNCHANGED now
    PROVE  UNCHANGED (Alone(u)!bucketVars)
<1>1. \A d \in CallersOf(u) : d \in Callers /\ d # c
  BY Zenon DEF CallersOf
<1>2. ownPc(u)' = ownPc(u)
  BY <1>1 DEF TypeOK, ownPc, CallersOf
<1>3. ownWakeAt(u)' = ownWakeAt(u)
  BY <1>1 DEF TypeOK, ownWakeAt, CallersOf
<1>4. ownResult(u)' = ownResult(u)
  BY <1>1 DEF TypeOK, ownResult, CallersOf
<1>5. ownSeen(u)' = ownSeen(u)
  BY <1>1 DEF TypeOK, ownSeen, CallersOf
<1>6. grants'[u] = grants[u]
  BY DEF TypeOK
<1>7. /\ u \in DOMAIN buckets' <=> u \in DOMAIN buckets
      /\ u \in DOMAIN buckets => buckets'[u] = buckets[u]
  BY DEF putBucket
<1>8. ownTokens(u)' = ownTokens(u) /\ ownUpdate(u)' = ownUpdate(u)
  BY Zenon, <1>7 DEF ownTokens, ownUpdate, Full
<1>9. QED
  BY Zenon, <1>2, <1>3, <1>4, <1>5, <1>6, <1>8 DEF Alone!bucketVars

\* A locked section of a caller is one of its user's bucket and of no other.
LEMMA UsersIndependent == ASSUME UsersAssumption, UsersInv, [Next]_vars PROVE BucketStep
<1> SUFFICES ASSUME NEW u \in Users PROVE [Alone(u)!Next]_(Alone(u)!bucketVars)
  BY DEF BucketStep
<1>1. TypeOK
  BY DEF UsersInv
<1>2. /\ Alone(u)!refilled = refilled(u)
      /\ Alone(u)!waitDuration = waitDuration(u)
      /\ Alone(u)!waitTooLong <=> waitTooLong(u)
      /\ Alone(u)!Needed = Needed
  BY <1>1, SameRefill
<1>4. ASSUME NEW c \in Callers, TakeNow(c) PROVE [Alone(u)!Next]_(Alone(u)!bucketVars)
  <2>1. CASE userID(c) # u
    BY Zenon, <1>1, <1>4, <2>1, OthersKept DEF TakeNow
  <2>2. CASE userID(c) = u
    <3>1. c \in CallersOf(u)
      BY Zenon, <2>2 DEF CallersOf
    <3>2. ownTokens(u)' = refilled(u) - Needed /\ ownUpdate(u)' = now
      BY Zenon, <1>4, <2>2, OwnBucket DEF TakeNow
    <3>3. ownPc(u)' = ownPc(u)
      BY Zenon, <1>4 DEF TakeNow, ownPc
    <3>4. ownWakeAt(u)' = ownWakeAt(u)
      BY Zenon, <1>4 DEF TakeNow, ownWakeAt
    <3>5. ownResult(u)' = [ownResult(u) EXCEPT ![c] = "granted"]
      BY Zenon, <1>1, <1>4, <3>1 DEF TakeNow, TypeOK, CallersOf, ownResult
    <3>6. ownSeen(u)' = ownSeen(u)
      BY Zenon, <1>4 DEF TakeNow, ownSeen
    <3>7. ownPc(u)[c] = pc[c] /\ ownWakeAt(u)[c] = wakeAt[c]
      BY Zenon, <3>1 DEF ownPc, ownWakeAt
    <3>8. grants'[u] = Append(grants[u], now)
      BY <1>1, <1>4, <2>2 DEF TakeNow, TypeOK
    <3>9. Alone(u)!TakeNow(c)
      BY Zenon, <1>2, <1>4, <2>2, <3>1, <3>2, <3>3, <3>4, <3>5, <3>6, <3>7, <3>8
         DEF TakeNow, Alone!TakeNow, Alone!take, begin
    <3>10. QED
      BY Zenon, <3>1, <3>9 DEF Alone!Next
  <2>3. QED
    BY Zenon, <2>1, <2>2
<1>5. ASSUME NEW c \in Callers, RefuseNow(c) PROVE [Alone(u)!Next]_(Alone(u)!bucketVars)
  <2>1. CASE userID(c) # u
    BY Zenon, <1>1, <1>5, <2>1, OthersKept DEF RefuseNow
  <2>2. CASE userID(c) = u
    <3>1. c \in CallersOf(u)
      BY Zenon, <2>2 DEF CallersOf
    <3>2. ownTokens(u)' = refilled(u) /\ ownUpdate(u)' = now
      BY Zenon, <1>5, <2>2, OwnBucket DEF RefuseNow
    <3>3. ownPc(u)' = ownPc(u)
      BY Zenon, <1>5 DEF RefuseNow, ownPc
    <3>4. ownWakeAt(u)' = ownWakeAt(u)
      BY Zenon, <1>5 DEF RefuseNow, ownWakeAt
    <3>5. ownResult(u)' = [ownResult(u) EXCEPT ![c] = "refused"]
      BY Zenon, <1>1, <1>5, <3>1 DEF RefuseNow, TypeOK, CallersOf, ownResult
    <3>6. ownSeen(u)' = ownSeen(u)
      BY Zenon, <1>5 DEF RefuseNow, ownSeen
    <3>7. ownPc(u)[c] = pc[c] /\ ownWakeAt(u)[c] = wakeAt[c]
      BY Zenon, <3>1 DEF ownPc, ownWakeAt
    <3>8. Alone(u)!RefuseNow(c)
      BY Zenon, <1>2, <1>5, <2>2, <3>1, <3>2, <3>3, <3>4, <3>5, <3>6, <3>7
         DEF RefuseNow, Alone!RefuseNow, Alone!refuse, begin
    <3>9. QED
      BY Zenon, <3>1, <3>8 DEF Alone!Next
  <2>3. QED
    BY Zenon, <2>1, <2>2
<1>6. ASSUME NEW c \in Callers, StartWait(c) PROVE [Alone(u)!Next]_(Alone(u)!bucketVars)
  <2>1. CASE userID(c) # u
    BY Zenon, <1>1, <1>6, <2>1, OthersKept DEF StartWait
  <2>2. CASE userID(c) = u
    <3>1. c \in CallersOf(u)
      BY Zenon, <2>2 DEF CallersOf
    <3>2. ownTokens(u)' = refilled(u) /\ ownUpdate(u)' = now
      BY Zenon, <1>6, <2>2, OwnBucket DEF StartWait
    <3>3. ownPc(u)' = [ownPc(u) EXCEPT ![c] = "waiting"]
      BY Zenon, <1>1, <1>6, <3>1 DEF StartWait, TypeOK, CallersOf, ownPc
    <3>4. ownWakeAt(u)' = [ownWakeAt(u) EXCEPT ![c] = now + waitDuration(u)]
      BY Zenon, <1>1, <1>6, <3>1 DEF StartWait, TypeOK, CallersOf, ownWakeAt
    <3>5. ownResult(u)' = ownResult(u)
      BY Zenon, <1>6 DEF StartWait, ownResult
    <3>6. ownSeen(u)' = [ownSeen(u) EXCEPT ![c] = [grants |-> Len(grants[u]), cut |-> (Needed - refilled(u)) % Rate]]
      BY Zenon, <1>1, <1>6, <3>1 DEF StartWait, TypeOK, CallersOf, ownSeen
    <3>7. ownPc(u)[c] = pc[c] /\ ownWakeAt(u)[c] = wakeAt[c]
      BY Zenon, <3>1 DEF ownPc, ownWakeAt
    <3>8. Alone(u)!StartWait(c)
      BY Zenon, <1>2, <1>6, <2>2, <3>1, <3>2, <3>3, <3>4, <3>5, <3>6, <3>7
         DEF StartWait, Alone!StartWait, begin
    <3>9. QED
      BY Zenon, <3>1, <3>8 DEF Alone!Next
  <2>3. QED
    BY Zenon, <2>1, <2>2
<1>7. ASSUME NEW c \in Callers, Cancelled(c) PROVE [Alone(u)!Next]_(Alone(u)!bucketVars)
  <2>1. CASE userID(c) # u
    BY Zenon, <1>1, <1>7, <2>1, OthersKept DEF Cancelled
  <2>2. CASE userID(c) = u
    <3>1. c \in CallersOf(u)
      BY Zenon, <2>2 DEF CallersOf
    <3>2. ownTokens(u)' = ownTokens(u) /\ ownUpdate(u)' = ownUpdate(u)
      BY Zenon, <1>7 DEF Cancelled, ownTokens, ownUpdate, Full
    <3>3. ownPc(u)' = [ownPc(u) EXCEPT ![c] = "idle"]
      BY Zenon, <1>1, <1>7, <3>1 DEF Cancelled, TypeOK, CallersOf, ownPc
    <3>4. ownWakeAt(u)' = ownWakeAt(u)
      BY Zenon, <1>7 DEF Cancelled, ownWakeAt
    <3>5. ownResult(u)' = [ownResult(u) EXCEPT ![c] = "cancelled"]
      BY Zenon, <1>1, <1>7, <3>1 DEF Cancelled, TypeOK, CallersOf, ownResult
    <3>6. ownSeen(u)' = ownSeen(u)
      BY Zenon, <1>7 DEF Cancelled, ownSeen
    <3>7. ownPc(u)[c] = pc[c] /\ ownWakeAt(u)[c] = wakeAt[c]
      BY Zenon, <3>1 DEF ownPc, ownWakeAt
    <3>8. Alone(u)!Cancelled(c)
      BY Zenon, <1>2, <1>7, <2>2, <3>1, <3>2, <3>3, <3>4, <3>5, <3>6, <3>7
         DEF Cancelled, Alone!Cancelled
    <3>9. QED
      BY Zenon, <3>1, <3>8 DEF Alone!Next
  <2>3. QED
    BY Zenon, <2>1, <2>2
<1>8. ASSUME NEW c \in Callers, WakeTake(c) PROVE [Alone(u)!Next]_(Alone(u)!bucketVars)
  <2>1. CASE userID(c) # u
    BY Zenon, <1>1, <1>8, <2>1, OthersKept DEF WakeTake
  <2>2. CASE userID(c) = u
    <3>1. c \in CallersOf(u)
      BY Zenon, <2>2 DEF CallersOf
    <3>2. ownTokens(u)' = refilled(u) - Needed /\ ownUpdate(u)' = now
      BY Zenon, <1>8, <2>2, OwnBucket DEF WakeTake
    <3>3. ownPc(u)' = [ownPc(u) EXCEPT ![c] = "idle"]
      BY Zenon, <1>1, <1>8, <3>1 DEF WakeTake, TypeOK, CallersOf, ownPc
    <3>4. ownWakeAt(u)' = ownWakeAt(u)
      BY Zenon, <1>8 DEF WakeTake, ownWakeAt
    <3>5. ownResult(u)' = [ownResult(u) EXCEPT ![c] = "granted"]
      BY Zenon, <1>1, <1>8, <3>1 DEF WakeTake, TypeOK, CallersOf, ownResult
    <3>6. ownSeen(u)' = ownSeen(u)
      BY Zenon, <1>8 DEF WakeTake, ownSeen
    <3>7. ownPc(u)[c] = pc[c] /\ ownWakeAt(u)[c] = wakeAt[c]
      BY Zenon, <3>1 DEF ownPc, ownWakeAt
    <3>8. grants'[u] = Append(grants[u], now)
      BY <1>1, <1>8, <2>2 DEF WakeTake, TypeOK
    <3>9. Alone(u)!WakeTake(c)
      BY Zenon, <1>2, <1>8, <2>2, <3>1, <3>2, <3>3, <3>4, <3>5, <3>6, <3>7, <3>8
         DEF WakeTake, Alone!WakeTake, Alone!take
    <3>10. QED
      BY Zenon, <3>1, <3>9 DEF Alone!Next
  <2>3. QED
    BY Zenon, <2>1, <2>2
<1>9. ASSUME NEW c \in Callers, WakeRefuse(c) PROVE [Alone(u)!Next]_(Alone(u)!bucketVars)
  <2>1. CASE userID(c) # u
    BY Zenon, <1>1, <1>9, <2>1, OthersKept DEF WakeRefuse
  <2>2. CASE userID(c) = u
    <3>1. c \in CallersOf(u)
      BY Zenon, <2>2 DEF CallersOf
    <3>2. ownTokens(u)' = refilled(u) /\ ownUpdate(u)' = now
      BY Zenon, <1>9, <2>2, OwnBucket DEF WakeRefuse
    <3>3. ownPc(u)' = [ownPc(u) EXCEPT ![c] = "idle"]
      BY Zenon, <1>1, <1>9, <3>1 DEF WakeRefuse, TypeOK, CallersOf, ownPc
    <3>4. ownWakeAt(u)' = ownWakeAt(u)
      BY Zenon, <1>9 DEF WakeRefuse, ownWakeAt
    <3>5. ownResult(u)' = [ownResult(u) EXCEPT ![c] = "refused"]
      BY Zenon, <1>1, <1>9, <3>1 DEF WakeRefuse, TypeOK, CallersOf, ownResult
    <3>6. ownSeen(u)' = ownSeen(u)
      BY Zenon, <1>9 DEF WakeRefuse, ownSeen
    <3>7. ownPc(u)[c] = pc[c] /\ ownWakeAt(u)[c] = wakeAt[c]
      BY Zenon, <3>1 DEF ownPc, ownWakeAt
    <3>8. Alone(u)!WakeRefuse(c)
      BY Zenon, <1>2, <1>9, <2>2, <3>1, <3>2, <3>3, <3>4, <3>5, <3>6, <3>7
         DEF WakeRefuse, Alone!WakeRefuse, Alone!refuse
    <3>9. QED
      BY Zenon, <3>1, <3>8 DEF Alone!Next
  <2>3. QED
    BY Zenon, <2>1, <2>2
<1>10. CASE Tick
  <2>1. Alone(u)!Tick
    BY Zenon, <1>10 DEF Tick, Alone!Tick, ownTokens, ownUpdate, ownPc, ownWakeAt, ownResult,
                        ownSeen, Full
  <2>2. QED
    BY Zenon, <2>1 DEF Alone!Next
<1>11. CASE UNCHANGED vars
  BY Zenon, <1>11 DEF vars, Alone!bucketVars, ownTokens, ownUpdate, ownPc, ownWakeAt,
                      ownResult, ownSeen, Full
<1>12. QED
  BY Zenon, <1>4, <1>5, <1>6, <1>7, <1>8, <1>9, <1>10, <1>11 DEF Next

\* What the callers of a user see is a behaviour of a limiter of their own, whatever
\* the callers of other users do.
THEOREM UsersAlone == ASSUME UsersAssumption PROVE Spec => [][BucketStep]_vars
<1>1. Init => UsersInv
  BY UsersInit
<1>2. UsersInv /\ [Next]_vars => UsersInv'
  BY UsersStep
<1>3. UsersInv /\ [Next]_vars => [BucketStep]_vars
  BY UsersIndependent
<1>4. QED
  BY <1>1, <1>2, <1>3, PTL DEF Spec

=============================================================================
