-------------------------- MODULE RateLimiterProofs --------------------------
(***************************************************************************)
(* Proofs about TokenBucket and RateLimiter for every set of callers, rate *)
(* and capacity: the rate bound, what a refusal after a wait means, and    *)
(* the conservation of the metrics.                                        *)
(***************************************************************************)
EXTENDS RateLimiter, FiniteSetTheorems, TLAPS

\* Three callers are finitely many.
LEMMA ThreeAreFinite == ASSUME NEW a, NEW b, NEW c PROVE IsFiniteSet({a, b, c})
<1>1. IsFiniteSet({a})
  BY FS_Singleton
<1>2. IsFiniteSet({a} \cup {b})
  BY <1>1, FS_AddElement
<1>3. IsFiniteSet(({a} \cup {b}) \cup {c})
  BY <1>2, FS_AddElement
<1>4. ({a} \cup {b}) \cup {c} = {a, b, c}
  OBVIOUS
<1>5. QED
  BY <1>3, <1>4


\* What the constructors guarantee about the amounts of tokens.
LEMMA Amounts ==
    /\ Full \in Nat /\ Needed \in Nat /\ Needed <= Full /\ Epsilon < Needed
    /\ Rate \in Nat \ {0} /\ Epsilon \in Nat
<1>1. /\ Capacity * Units \in Nat /\ TokensPerRequest * Units \in Nat
      /\ TokensPerRequest * Units <= Capacity * Units /\ Units <= TokensPerRequest * Units
  BY BucketAssumption
<1>2. QED
  BY <1>1, BucketAssumption DEF Full, Needed

\* Time that passes in two spans adds tokens in two parts.
LEMMA Spans ==
    ASSUME NEW a \in Int, NEW b \in Int, NEW c \in Int
    PROVE  (c - a) * Rate = (c - b) * Rate + (b - a) * Rate
BY BucketAssumption

\* A span of time adds no negative amount of tokens.
LEMMA SpanAdds == ASSUME NEW a \in Nat PROVE a * Rate \in Nat
BY BucketAssumption

\* A product of integers is one.
LEMMA Products == ASSUME NEW a \in Int, NEW b \in Int PROVE a * b \in Int
OBVIOUS

\* The wait in whole milliseconds and what its truncation cuts off.
LEMMA Truncation ==
    ASSUME NEW d \in Nat
    PROVE  /\ d \div Rate \in Nat /\ d % Rate \in 0 .. Rate - 1
           /\ (d \div Rate) * Rate + (d % Rate) = d
BY BucketAssumption

\* refillTokens never takes tokens out of the bucket, never adds more than the
\* rate allows, and adds exactly that unless the bucket becomes full.
LEMMA Refill ==
    ASSUME TypeOK
    PROVE  /\ refilled \in -Epsilon .. Full
           /\ tokens <= refilled
           /\ refilled <= tokens + (now - lastUpdate) * Rate
           /\ refilled = Full \/ refilled = tokens + (now - lastUpdate) * Rate
<1> DEFINE since == (now - lastUpdate) * Rate
<1>1. since \in Nat
  BY SMTT(30), SpanAdds DEF TypeOK
<1>2. tokens \in Int /\ tokens <= Full /\ -Epsilon <= tokens
  BY Amounts DEF TypeOK
<1>3. refilled = IF tokens + since < Full THEN tokens + since ELSE Full
  BY Zenon DEF refilled
<1>4. /\ refilled \in -Epsilon .. Full
      /\ tokens <= refilled /\ refilled <= tokens + since
      /\ refilled = Full \/ refilled = tokens + since
  <2> HIDE DEF since
  <2> QED
    BY <1>1, <1>2, <1>3, Amounts
<1>5. QED
  BY Zenon, <1>4

-----------------------------------------------------------------------------
(* Types. *)

\* Tokens, clocks, the callers' records and the history of grants keep their types
\* in every step of acquireTokens.
LEMMA BucketTypeStep == ASSUME TypeOK, [Next]_bucketVars PROVE TypeOK'
<1>0. /\ refilled \in -Epsilon .. Full
      /\ refilled \in Int /\ -Epsilon <= refilled /\ refilled <= Full
  BY Refill, Amounts
<1>00. ASSUME refilled < Needed PROVE Needed - refilled \in Nat
  BY <1>0, <1>00, Amounts
<1> USE <1>0, Amounts DEF TypeOK
<1>1. ASSUME NEW c \in Callers, refilled >= Needed - Epsilon, take(c), lastUpdate' = now,
             pc' = pc \/ pc' = [pc EXCEPT ![c] = "idle"], UNCHANGED <<now, wakeAt, seen>>
      PROVE  TypeOK'
  <2>1. grants' \in Seq(0 .. now') /\ Len(grants') = Len(grants) + 1
    BY <1>1 DEF take
  <2>2. seen' \in [Callers -> [grants : 0 .. Len(grants'), cut : 0 .. Rate - 1]]
    BY <1>1, <2>1
  <2>3. tokens' \in -Epsilon .. Full
    BY <1>1 DEF take
  <2>4. pc' \in [Callers -> {"idle", "waiting"}]
        /\ result' \in [Callers -> {"none", "granted", "refused", "cancelled"}]
    BY Zenon, <1>1 DEF take
  <2>5. QED
    BY <1>1, <2>1, <2>2, <2>3, <2>4
<1>2. ASSUME NEW c \in Callers, TakeNow(c) PROVE TypeOK'
  BY <1>1, <1>2 DEF TakeNow
<1>3. ASSUME NEW c \in Callers, RefuseNow(c) PROVE TypeOK'
  BY <1>3 DEF RefuseNow, refuse
<1>4. ASSUME NEW c \in Callers, StartWait(c) PROVE TypeOK'
  <2>0. refilled < Needed
    BY Zenon, <1>4 DEF StartWait
  <2>1. Needed - refilled \in Nat
    BY Zenon, <1>00, <2>0
  <2>2. (Needed - refilled) % Rate \in 0 .. Rate - 1 /\ waitDuration \in Nat
    BY Zenon, <2>1, Truncation DEF waitDuration
  <2>3. wakeAt' \in [Callers -> Nat]
    BY <1>4, <2>2 DEF StartWait
  <2>4. seen' \in [Callers -> [grants : 0 .. Len(grants), cut : 0 .. Rate - 1]]
    BY <1>4, <2>2 DEF StartWait
  <2>5. QED
    BY <1>4, <2>3, <2>4 DEF StartWait
<1>5. ASSUME NEW c \in Callers, Cancelled(c) PROVE TypeOK'
  BY <1>5 DEF Cancelled
<1>6. ASSUME NEW c \in Callers, WakeTake(c) PROVE TypeOK'
  BY Zenon, <1>1, <1>6 DEF WakeTake
<1>7. ASSUME NEW c \in Callers, WakeRefuse(c) PROVE TypeOK'
  BY <1>7 DEF WakeRefuse, refuse
<1>8. CASE Tick
  <2>1. now' \in Nat /\ 0 .. now \subseteq 0 .. now'
    BY <1>8 DEF Tick
  <2>2. grants' \in Seq(0 .. now')
    BY <1>8, <2>1 DEF Tick
  <2>3. QED
    BY <1>8, <2>1, <2>2 DEF Tick
<1>9. CASE UNCHANGED bucketVars
  BY <1>9 DEF bucketVars
<1>10. QED
  BY Zenon, <1>2, <1>3, <1>4, <1>5, <1>6, <1>7, <1>8, <1>9 DEF Next

-----------------------------------------------------------------------------
(* The rate bound and the meaning of a refusal. *)

\* What was granted since any grant, and is still in the bucket, came from a full
\* bucket and from the rate.
Spent ==
    \A i \in DOMAIN grants :
        /\ grants[i] <= lastUpdate
        /\ (Len(grants) - i + 1) * Needed + tokens <= Full + (lastUpdate - grants[i]) * Rate

\* If nobody was served since a caller went to sleep, the tokens it sleeps for are
\* there, or will be when it wakes, up to what the truncation cut off.
Deserved ==
    \A c \in Callers :
        pc[c] = "waiting" /\ seen[c].grants = Len(grants) =>
            \/ Needed - seen[c].cut <= tokens
            \/ Needed - seen[c].cut <= tokens + (wakeAt[c] - lastUpdate) * Rate

\* The inductive invariant: RateBound speaks of pairs of grants only, Spent of the
\* bucket from which the next grant is made.
BucketInv == TypeOK /\ RateBound /\ Spent /\ Deserved

\* A locked section first refills the bucket: what Spent says of the old bucket at the
\* old time it says of the refilled one now.
LEMMA SpentRefilled ==
    ASSUME TypeOK, Spent, NEW i \in DOMAIN grants
    PROVE  /\ grants[i] \in Nat /\ grants[i] <= now /\ i \in 1 .. Len(grants)
           /\ (Len(grants) - i + 1) * Needed \in Int /\ (now - grants[i]) * Rate \in Int
           /\ (Len(grants) - i + 1) * Needed + refilled <= Full + (now - grants[i]) * Rate
<1>1. /\ grants[i] \in 0 .. now /\ Len(grants) \in Nat /\ i \in 1 .. Len(grants)
      /\ now \in Nat /\ lastUpdate \in Nat /\ tokens \in Int
  BY Amounts DEF TypeOK
<1> DEFINE before == (lastUpdate - grants[i]) * Rate
           since == (now - lastUpdate) * Rate
           all == (now - grants[i]) * Rate
           used == (Len(grants) - i + 1) * Needed
<1>2. before \in Int /\ since \in Int /\ all \in Int /\ used \in Int
  <2>1. /\ lastUpdate - grants[i] \in Int /\ now - lastUpdate \in Int
        /\ now - grants[i] \in Int /\ Len(grants) - i + 1 \in Int
        /\ Rate \in Int /\ Needed \in Int
    BY <1>1, Amounts
  <2>2. QED
    BY <2>1, Products
<1>3. all = since + before
  BY <1>1, Spans
<1>4. used + tokens <= Full + before
  BY DEF Spent
<1>5. refilled \in Int /\ refilled <= tokens + since
  BY Refill, Amounts
<1>6. used + refilled <= Full + all
  <2> HIDE DEF before, since, all, used
  <2> QED
    BY <1>1, <1>2, <1>3, <1>4, <1>5, Amounts
<1>7. QED
  BY <1>1, <1>2, <1>6

\* A grant keeps the invariant (both places where acquireTokens takes tokens).
LEMMA TakeKeeps ==
    ASSUME BucketInv, TypeOK', NEW c \in Callers, refilled >= Needed - Epsilon,
           take(c), lastUpdate' = now, pc'[c] = "idle",
           \A d \in Callers \ {c} : pc'[d] = pc[d], UNCHANGED seen
    PROVE  BucketInv'
<1> DEFINE n == Len(grants)
<1>1. /\ n \in Nat /\ Len(grants') = n + 1 /\ DOMAIN grants' = 1 .. n + 1
      /\ \A i \in 1 .. n : grants'[i] = grants[i]
      /\ grants'[n + 1] = now /\ DOMAIN grants = 1 .. n /\ now \in Nat
  BY DEF BucketInv, TypeOK, take
<1>2. /\ tokens' = refilled - Needed /\ refilled \in Int /\ refilled <= Full
      /\ -Epsilon <= tokens'
  BY Refill, Amounts DEF BucketInv, take
<1>3. Spent'
  <2> SUFFICES ASSUME NEW i \in 1 .. n + 1
               PROVE  /\ grants'[i] <= now
                      /\ (n + 1 - i + 1) * Needed + tokens' <= Full + (now - grants'[i]) * Rate
    BY <1>1 DEF Spent
  <2>1. CASE i \in 1 .. n
    <3>1. /\ grants[i] \in Nat /\ grants[i] <= now
          /\ (n - i + 1) * Needed \in Int /\ (now - grants[i]) * Rate \in Int
          /\ (n - i + 1) * Needed + refilled <= Full + (now - grants[i]) * Rate
      BY <1>1, <2>1, SpentRefilled DEF BucketInv
    <3>2. (n + 1 - i + 1) * Needed = (n - i + 1) * Needed + Needed
      BY <1>1, <2>1, Amounts
    <3>3. QED
      BY <1>1, <1>2, <2>1, <3>1, <3>2, Amounts
  <2>2. CASE i = n + 1
    <3>1. (n + 1 - i + 1) * Needed = Needed /\ (now - now) * Rate = 0
      BY <1>1, <2>2, Amounts
    <3>2. QED
      BY <1>1, <1>2, <2>2, <3>1, Amounts
  <2>3. QED
    BY <2>1, <2>2, <1>1
<1>4. RateBound'
  <2> SUFFICES ASSUME NEW i \in 1 .. n + 1, NEW j \in 1 .. n + 1, i <= j
               PROVE  (j - i + 1) * Needed
                        <= Full + (grants'[j] - grants'[i]) * Rate + Epsilon
    BY <1>1 DEF RateBound
  <2>1. CASE j \in 1 .. n
    <3>1. i \in 1 .. n
      BY <1>1, <2>1
    <3>2. QED
      BY <1>1, <2>1, <3>1 DEF BucketInv, RateBound
  <2>2. CASE j = n + 1
    <3>0. grants'[i] \in Int /\ now - grants'[i] \in Int /\ n + 1 - i + 1 \in Int
      BY SMTT(30), <1>1 DEF TypeOK
    <3>1. /\ grants'[i] \in Int /\ (n + 1 - i + 1) * Needed \in Int
          /\ (now - grants'[i]) * Rate \in Int
      BY SMTT(30), <3>0, Products, Amounts
    <3>2. (n + 1 - i + 1) * Needed + tokens' <= Full + (now - grants'[i]) * Rate
      <4>1. i \in DOMAIN grants'
        BY <1>1
      <4>2. (Len(grants') - i + 1) * Needed + tokens'
              <= Full + (lastUpdate' - grants'[i]) * Rate
        BY <1>3, <4>1 DEF Spent
      <4>3. QED
        BY <1>1, <4>2
    <3>3. QED
      BY <1>1, <1>2, <2>2, <3>1, <3>2, Amounts
  <2>3. QED
    BY <2>1, <2>2, <1>1
<1>5. Deserved'
  <2> SUFFICES ASSUME NEW d \in Callers, pc'[d] = "waiting", seen'[d].grants = n + 1
               PROVE  FALSE
    BY <1>1 DEF Deserved
  <2>1. seen[d].grants \in 0 .. n
    BY SMTT(30) DEF BucketInv, TypeOK
  <2>2. QED
    BY <2>1, <1>1
<1>6. QED
  BY <1>3, <1>4, <1>5 DEF BucketInv

\* A locked section that only refills keeps the invariant and the claims
\* of those who sleep (refusals, the start of a wait).
LEMMA RefillKeeps ==
    ASSUME BucketInv, TypeOK', tokens' = refilled, lastUpdate' = now, UNCHANGED grants
    PROVE  /\ Spent' /\ RateBound'
           /\ \A d \in Callers :
                pc[d] = "waiting" /\ seen[d].grants = Len(grants) =>
                   \/ Needed - seen[d].cut <= tokens'
                   \/ Needed - seen[d].cut <= tokens' + (wakeAt[d] - lastUpdate') * Rate
<1>1. Spent'
  <2> SUFFICES ASSUME NEW i \in DOMAIN grants
               PROVE  /\ grants[i] <= now
                      /\ (Len(grants) - i + 1) * Needed + refilled
                            <= Full + (now - grants[i]) * Rate
    BY DEF Spent
  <2>1. QED
    BY SpentRefilled DEF BucketInv
<1>2. RateBound'
  BY DEF BucketInv, RateBound
<1>3. ASSUME NEW d \in Callers, pc[d] = "waiting", seen[d].grants = Len(grants)
      PROVE  \/ Needed - seen[d].cut <= refilled
             \/ Needed - seen[d].cut <= refilled + (wakeAt[d] - now) * Rate
  <2> DEFINE ahead == (wakeAt[d] - lastUpdate) * Rate
             left == (wakeAt[d] - now) * Rate
             since == (now - lastUpdate) * Rate
             owed == Needed - seen[d].cut
  <2>1. /\ wakeAt[d] \in Nat /\ now \in Nat /\ lastUpdate \in Nat /\ tokens \in Int
        /\ seen[d].cut \in Nat
    BY Amounts DEF BucketInv, TypeOK
  <2>2. ahead \in Int /\ left \in Int /\ since \in Int /\ owed \in Int /\ owed <= Full
    BY <2>1, Amounts
  <2>3. ahead = left + since
    BY <2>1, Amounts
  <2>4. owed <= tokens \/ owed <= tokens + ahead
    BY <1>3 DEF BucketInv, Deserved
  <2>5. /\ refilled \in Int /\ tokens <= refilled
        /\ refilled = Full \/ refilled = tokens + since
    BY Refill, Amounts DEF BucketInv
  <2> HIDE DEF ahead, left, since, owed
  <2>6. owed <= refilled \/ owed <= refilled + left
    BY <2>1, <2>2, <2>3, <2>4, <2>5, Amounts
  <2>7. QED
    BY <2>6 DEF owed, left
<1>4. QED
  BY <1>1, <1>2, <1>3

\* Every step of acquireTokens, by whatever caller, keeps the invariant.
LEMMA BucketInvStep == ASSUME BucketInv, [Next]_bucketVars PROVE BucketInv'
<1>0. TypeOK /\ TypeOK'
  BY BucketTypeStep DEF BucketInv
<1>1. ASSUME NEW c \in Callers, TakeNow(c) PROVE BucketInv'
  <2>1. refilled \in Int /\ refilled >= Needed - Epsilon
    BY <1>0, <1>1, Refill, Amounts DEF TakeNow
  <2>2. QED
    BY <1>0, <1>1, <2>1, TakeKeeps DEF TakeNow
<1>2. ASSUME NEW c \in Callers, RefuseNow(c) PROVE BucketInv'
  <2>1. Deserved'
    BY <1>0, <1>2, RefillKeeps DEF RefuseNow, refuse, Deserved
  <2>2. QED
    BY <1>0, <1>2, <2>1, RefillKeeps DEF RefuseNow, refuse, BucketInv
<1>3. ASSUME NEW c \in Callers, StartWait(c) PROVE BucketInv'
  <2> DEFINE d == Needed - refilled
  <2>1. d \in Nat /\ refilled \in Int
    BY <1>0, <1>3, Refill, Amounts DEF StartWait
  <2>2. /\ d \div Rate \in Nat /\ d % Rate \in Nat /\ (d \div Rate) * Rate + (d % Rate) = d
    BY <2>1, Truncation, Amounts
  <2>3. /\ tokens' = refilled /\ wakeAt'[c] = now + (d \div Rate) /\ lastUpdate' = now
        /\ seen'[c].cut = d % Rate /\ now \in Nat
    BY <1>0, <1>3 DEF StartWait, TypeOK, waitDuration
  <2>4. (wakeAt'[c] - lastUpdate') * Rate = (d \div Rate) * Rate
    BY <2>2, <2>3, Amounts
  <2>5. Needed - seen'[c].cut <= tokens' + (wakeAt'[c] - lastUpdate') * Rate
    BY <2>1, <2>2, <2>3, <2>4, Amounts
  <2>6. Deserved'
    <3>1. \A e \in Callers \ {c} :
             pc'[e] = pc[e] /\ seen'[e] = seen[e] /\ wakeAt'[e] = wakeAt[e]
      BY <1>0, <1>3 DEF StartWait, TypeOK
    <3>2. UNCHANGED grants
      BY <1>3 DEF StartWait
    <3>3. QED
      BY <1>0, <2>3, <2>5, <3>1, <3>2, RefillKeeps DEF Deserved
  <2>7. QED
    BY <1>0, <1>3, <2>6, RefillKeeps DEF StartWait, BucketInv
<1>4. ASSUME NEW c \in Callers, Cancelled(c) PROVE BucketInv'
  BY <1>0, <1>4 DEF Cancelled, BucketInv, TypeOK, RateBound, Spent, Deserved
<1>5. ASSUME NEW c \in Callers, WakeTake(c) PROVE BucketInv'
  BY SMTT(30), <1>0, <1>5, TakeKeeps DEF WakeTake, TypeOK
<1>6. ASSUME NEW c \in Callers, WakeRefuse(c) PROVE BucketInv'
  <2>1. \A d \in Callers : pc'[d] = "waiting" => pc[d] = "waiting"
    BY <1>0, <1>6 DEF WakeRefuse, TypeOK
  <2>2. Deserved'
    BY <1>0, <1>6, <2>1, RefillKeeps DEF WakeRefuse, refuse, Deserved
  <2>3. QED
    BY <1>0, <1>6, <2>2, RefillKeeps DEF WakeRefuse, refuse, BucketInv
<1>7. CASE Tick
  BY <1>0, <1>7 DEF Tick, BucketInv, RateBound, Spent, Deserved
<1>8. CASE UNCHANGED bucketVars
  BY <1>0, <1>8 DEF bucketVars, BucketInv, RateBound, Spent, Deserved
<1>9. QED
  BY <1>1, <1>2, <1>3, <1>4, <1>5, <1>6, <1>7, <1>8 DEF Next

\* The bucket starts full.
LEMMA BucketInvInit == ASSUME Init PROVE BucketInv
<1>1. TypeOK
  BY Amounts, BucketAssumption DEF Init, TypeOK
<1>2. DOMAIN grants = {}
  BY DEF Init
<1>3. RateBound /\ Spent
  BY <1>2 DEF RateBound, Spent
<1>4. Deserved
  BY DEF Init, Deserved
<1>5. QED
  BY <1>1, <1>3, <1>4 DEF BucketInv

\* A caller that slept is refused only if another was served meanwhile or the
\* truncation cut off more than the epsilon.
LEMMA RefusalLemma == ASSUME BucketInv, [Next]_bucketVars PROVE RefusalStep
<1> SUFFICES ASSUME NEW c \in Callers, pc[c] = "waiting",
                    pc'[c] = "idle", result'[c] = "refused", Len(grants) <= seen[c].grants
             PROVE  seen[c].cut > Epsilon
  BY Amounts DEF RefusalStep, BucketInv, TypeOK
<1>0. /\ seen[c].grants = Len(grants) /\ seen[c].cut \in Nat /\ wakeAt[c] \in Nat
      /\ now \in Nat /\ lastUpdate \in Nat /\ tokens \in Int
  BY SMTT(30), Amounts DEF BucketInv, TypeOK
<1>1. WakeRefuse(c)
  BY SMTT(30) DEF Next, bucketVars, TakeNow, RefuseNow, StartWait, Cancelled, WakeTake, WakeRefuse,
         Tick, take, BucketInv, TypeOK
<1>2. refilled \in Int /\ refilled < Needed - Epsilon /\ wakeAt[c] <= now
  BY <1>0, <1>1, Refill, Amounts DEF WakeRefuse, BucketInv
<1> DEFINE ahead == (wakeAt[c] - lastUpdate) * Rate
           late == (now - wakeAt[c]) * Rate
           since == (now - lastUpdate) * Rate
<1>3. ahead \in Int /\ late \in Nat /\ since \in Int /\ since = late + ahead
  <2>1. now - wakeAt[c] \in Nat
    BY <1>0, <1>2
  <2>2. late \in Nat
    BY <2>1, SpanAdds
  <2>3. QED
    BY SMTT(30), <1>0, <2>2, Amounts
<1>4. Needed - seen[c].cut <= tokens \/ Needed - seen[c].cut <= tokens + ahead
  BY <1>0 DEF BucketInv, Deserved
<1>5. tokens <= refilled /\ (refilled = Full \/ refilled = tokens + since)
  BY Refill DEF BucketInv
<1> HIDE DEF ahead, late, since
<1>6. QED
  BY <1>0, <1>2, <1>3, <1>4, <1>5, Amounts

\* The limit that acquireTokens enforces, over any window of grants.
THEOREM RateBounded == Spec => []RateBound
<1>1. BucketInv => RateBound
  BY DEF BucketInv
<1>2. QED
  BY <1>1, BucketInvInit, BucketInvStep, PTL DEF Spec

-----------------------------------------------------------------------------
(* The decorator around the bucket. *)

\* Process and Stream do to the bucket what acquireTokens does.
LEMMA LimiterSteps == ASSUME [RLNext]_rlVars PROVE [Next]_bucketVars
BY DEF RLNext, rlVars, Next, Granted, Refused, Sleep, CancelledWaiting, GrantedAfterWait,
       RefusedAfterWait, RLTick

\* The number of callers that sleep.
Waiting == {c \in Callers : pc[c] = "waiting"}

\* One caller that goes to sleep or wakes changes their number by one.
LEMMA WaitingCount ==
    ASSUME TypeOK
    PROVE  /\ Cardinality(Waiting) \in Nat
           /\ pc' = pc => Waiting' = Waiting
           /\ \A c \in Callers :
                /\ pc[c] = "idle" /\ pc' = [pc EXCEPT ![c] = "waiting"] =>
                     Cardinality(Waiting') = Cardinality(Waiting) + 1
                /\ pc[c] = "waiting" /\ pc' = [pc EXCEPT ![c] = "idle"] =>
                     Cardinality(Waiting') = Cardinality(Waiting) - 1
<1>1. IsFiniteSet(Waiting)
  BY LimiterAssumption, FS_Subset DEF Waiting
<1>2. Cardinality(Waiting) \in Nat
  BY <1>1, FS_CardinalityType
<1>3. ASSUME NEW c \in Callers, pc[c] = "idle", pc' = [pc EXCEPT ![c] = "waiting"]
      PROVE  Cardinality(Waiting') = Cardinality(Waiting) + 1
  <2>1. Waiting' = Waiting \cup {c} /\ c \notin Waiting
    BY <1>3 DEF Waiting, TypeOK
  <2>2. QED
    BY Zenon, <1>1, <2>1, FS_AddElement
<1>4. ASSUME NEW c \in Callers, pc[c] = "waiting", pc' = [pc EXCEPT ![c] = "idle"]
      PROVE  Cardinality(Waiting') = Cardinality(Waiting) - 1
  <2>1. Waiting' = Waiting \ {c} /\ c \in Waiting
    BY <1>4 DEF Waiting, TypeOK
  <2>2. QED
    BY <1>1, <2>1, FS_RemoveElement
<1>5. QED
  BY <1>2, <1>3, <1>4 DEF Waiting

\* The inductive invariant of the decorator.
LimiterInv == BucketInv /\ RLTypeOK /\ MetricsConserved

\* A limiter that was just made, with a full bucket, meets the invariant.
LEMMA LimiterInit == ASSUME RLInit PROVE LimiterInv
<1>1. BucketInv
  BY BucketInvInit DEF RLInit
<1>2. RLTypeOK
  BY <1>1, Amounts DEF RLInit, Init, RLTypeOK, BucketInv
<1>3. Waiting = {}
  BY DEF RLInit, Init, Waiting
<1>4. MetricsConserved
  <2>1. Cardinality(Waiting) = 0
    BY <1>3, FS_EmptySet
  <2>2. /\ totalRequests = 0 /\ streams = 0 /\ allowedRequests = 0 /\ rejectedRequests = 0
        /\ currentTokens = tokens /\ Len(grants) = 0
    BY DEF RLInit, Init
  <2>3. QED
    BY <2>1, <2>2 DEF MetricsConserved, Waiting
<1>5. QED
  BY <1>1, <1>2, <1>4 DEF LimiterInv

\* No order of the critical sections of Process and Stream loses or repeats a count.
LEMMA LimiterStep == ASSUME LimiterInv, [RLNext]_rlVars PROVE LimiterInv'
<1>1. BucketInv /\ BucketInv' /\ TypeOK /\ TypeOK'
  BY LimiterSteps, BucketInvStep DEF LimiterInv, BucketInv
<1>2. /\ op \in [Callers -> {"Process", "Stream"}]
      /\ totalRequests \in Nat /\ allowedRequests \in Nat /\ rejectedRequests \in Nat
      /\ streams \in Nat /\ currentTokens = tokens /\ allowedRequests = Len(grants)
      /\ totalRequests + streams = allowedRequests + rejectedRequests + Cardinality(Waiting)
      /\ Cardinality(Waiting) \in Nat
  BY <1>1, WaitingCount DEF LimiterInv, RLTypeOK, MetricsConserved, Waiting
<1> DEFINE Balanced ==
             /\ op \in [Callers -> {"Process", "Stream"}]
             /\ totalRequests \in Nat /\ allowedRequests \in Nat /\ rejectedRequests \in Nat
             /\ streams \in Nat /\ currentTokens = tokens /\ allowedRequests = Len(grants)
             /\ totalRequests + streams
                  = allowedRequests + rejectedRequests + Cardinality(Waiting)
<1> SUFFICES Balanced'
  BY Zenon, <1>1 DEF LimiterInv, RLTypeOK, MetricsConserved, Waiting, TypeOK, BucketInv
<1>3. ASSUME NEW c \in Callers, NEW o \in {"Process", "Stream"}, begin(c, o)
      PROVE  /\ op' \in [Callers -> {"Process", "Stream"}]
             /\ totalRequests' \in Nat /\ streams' \in Nat
             /\ totalRequests' + streams' = totalRequests + streams + 1
  BY <1>2, <1>3 DEF begin
<1>4. ASSUME NEW c \in Callers, take(c) PROVE Len(grants') = Len(grants) + 1
  BY <1>1, <1>4 DEF take, TypeOK
<1>5. ASSUME NEW c \in Callers, NEW o \in {"Process", "Stream"}, Granted(c, o)
      PROVE  Balanced'
  <2>1. Waiting' = Waiting
    BY <1>5 DEF Granted, TakeNow, Waiting
  <2>2. QED
    BY <1>2, <1>3, <1>4, <1>5, <2>1 DEF Granted, TakeNow
<1>6. ASSUME NEW c \in Callers, NEW o \in {"Process", "Stream"}, Refused(c, o)
      PROVE  Balanced'
  <2>1. Waiting' = Waiting /\ UNCHANGED grants
    BY <1>6 DEF Refused, RefuseNow, Waiting
  <2>2. QED
    BY <1>2, <1>3, <1>6, <2>1 DEF Refused
<1>7. ASSUME NEW c \in Callers, NEW o \in {"Process", "Stream"}, Sleep(c, o)
      PROVE  Balanced'
  <2>1. Cardinality(Waiting') = Cardinality(Waiting) + 1 /\ UNCHANGED grants
    BY Zenon, <1>1, <1>7, WaitingCount DEF Sleep, StartWait
  <2>2. QED
    BY <1>2, <1>3, <1>7, <2>1 DEF Sleep
<1>8. ASSUME NEW c \in Callers, CancelledWaiting(c) PROVE Balanced'
  <2>1. Cardinality(Waiting') = Cardinality(Waiting) - 1 /\ UNCHANGED <<grants, tokens>>
    BY Zenon, <1>1, <1>8, WaitingCount DEF CancelledWaiting, Cancelled
  <2>2. QED
    BY <1>2, <1>8, <2>1 DEF CancelledWaiting
<1>9. ASSUME NEW c \in Callers, GrantedAfterWait(c) PROVE Balanced'
  <2>1. Cardinality(Waiting') = Cardinality(Waiting) - 1
    BY Zenon, <1>1, <1>9, WaitingCount DEF GrantedAfterWait, WakeTake
  <2>2. QED
    BY <1>2, <1>4, <1>9, <2>1 DEF GrantedAfterWait, WakeTake
<1>10. ASSUME NEW c \in Callers, RefusedAfterWait(c) PROVE Balanced'
  <2>1. Cardinality(Waiting') = Cardinality(Waiting) - 1 /\ UNCHANGED grants
    BY Zenon, <1>1, <1>10, WaitingCount DEF RefusedAfterWait, WakeRefuse
  <2>2. QED
    BY <1>2, <1>10, <2>1 DEF RefusedAfterWait
<1>11. CASE RLTick
  BY <1>2, <1>11 DEF RLTick, Tick, Waiting, metricVars
<1>12. CASE UNCHANGED rlVars
  BY <1>2, <1>12 DEF rlVars, bucketVars, metricVars, Waiting
<1>13. QED
  BY <1>5, <1>6, <1>7, <1>8, <1>9, <1>10, <1>11, <1>12 DEF RLNext

\* The rate bound holds of the decorator (Process, Stream).
THEOREM LimiterRateBounded == RLSpec => []RateBound
<1>1. LimiterInv => RateBound
  BY DEF LimiterInv, BucketInv
<1>2. QED
  BY <1>1, LimiterInit, LimiterStep, PTL DEF RLSpec

\* Every call is accounted for, in every state between two critical sections.
THEOREM LimiterConserved == RLSpec => []MetricsConserved
<1>1. LimiterInv => MetricsConserved
  BY DEF LimiterInv
<1>2. QED
  BY <1>1, LimiterInit, LimiterStep, PTL DEF RLSpec

\* A caller that slept for its deficit is refused only because somebody else was
\* served or because the truncation cut off more than the epsilon.
THEOREM RefusalsExplained == RLSpec => [][RefusalStep]_rlVars
<1>1. LimiterInv /\ [RLNext]_rlVars => [RefusalStep]_rlVars
  BY LimiterSteps, RefusalLemma DEF LimiterInv
<1>2. QED
  BY <1>1, LimiterInit, LimiterStep, PTL DEF RLSpec

=============================================================================
