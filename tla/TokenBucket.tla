---------------------------- MODULE TokenBucket -----------------------------
(***************************************************************************)
(* RateLimiterDecorator.acquireTokens of middleware/rate_limiter.go: one   *)
(* bucket, several callers.                                                *)
(*                                                                         *)
(* Tokens are counted in fractions of a token (Units to the token), time   *)
(* in milliseconds, the grain waitDuration is truncated to.  A caller that *)
(* finds too few tokens sleeps without the lock and looks again once; the  *)
(* deficit it slept for may have been taken by somebody else meanwhile.    *)
(* Both callers of acquireTokens pass wait = true.                         *)
(***************************************************************************)
EXTENDS Integers, Sequences

CONSTANTS
    Callers,
    Units,             \* fractions per token
    Epsilon,           \* 0.01 token, in fractions
    Rate,              \* fractions added per millisecond
    Capacity,          \* tokens
    TokensPerRequest,
    MaxWaitTimeout,    \* 0: no limit
    MaxGrants,         \* bound on the number of grants
    MaxTime            \* bound on the clock

\* The constructors replace values that are not positive by defaults and cap
\* TokensPerRequest at Capacity.
ASSUME BucketAssumption ==
    /\ Units \in Nat \ {0} /\ Rate \in Nat \ {0}
    /\ Capacity \in Nat \ {0}
    /\ TokensPerRequest \in 1 .. Capacity
    /\ Epsilon \in Nat /\ Epsilon < Units
    /\ MaxWaitTimeout \in Nat /\ MaxGrants \in Nat /\ MaxTime \in Nat

VARIABLES
    tokens, lastUpdate, now,
    pc,         \* per caller: not in acquireTokens, or sleeping in it
    wakeAt,     \* per caller: when time.After fires
    result,     \* per caller: how its last call ended
    seen,       \* history, per caller: the grants made before it went to sleep, and
                \* the deficit that the truncation of its sleep cut off
    grants      \* history: the times of the grants

bucketVars == <<tokens, lastUpdate, now, pc, wakeAt, result, seen, grants>>

Full == Capacity * Units
Needed == TokensPerRequest * Units

TypeOK ==
    /\ tokens \in -Epsilon .. Full
    /\ now \in Nat /\ lastUpdate \in 0 .. now
    /\ pc \in [Callers -> {"idle", "waiting"}]
    /\ wakeAt \in [Callers -> Nat]
    /\ result \in [Callers -> {"none", "granted", "refused", "cancelled"}]
    /\ seen \in [Callers -> [grants : 0 .. Len(grants), cut : 0 .. Rate - 1]]
    /\ grants \in Seq(0 .. now)

Init ==
    /\ tokens = Full /\ lastUpdate = 0 /\ now = 0
    /\ pc = [c \in Callers |-> "idle"]
    /\ wakeAt = [c \in Callers |-> 0]
    /\ result = [c \in Callers |-> "none"]
    /\ seen = [c \in Callers |-> [grants |-> 0, cut |-> 0]]
    /\ grants = <<>>

-----------------------------------------------------------------------------
\* Fault: the bucket is not capped.
refilled_Uncapped == tokens + (now - lastUpdate) * Rate

\* refillTokens: the tokens after the refill every locked section starts with.
refilled ==
    LET t == tokens + (now - lastUpdate) * Rate IN IF t < Full THEN t ELSE Full

\* Truncated to whole milliseconds.
waitDuration == (Needed - refilled) \div Rate

waitTooLong == MaxWaitTimeout > 0 /\ waitDuration > MaxWaitTimeout

take(c) ==
    /\ tokens' = refilled - Needed
    /\ grants' = Append(grants, now)
    /\ result' = [result EXCEPT ![c] = "granted"]

refuse(c) ==
    /\ tokens' = refilled
    /\ result' = [result EXCEPT ![c] = "refused"]

TakeNow(c) ==
    /\ pc[c] = "idle" /\ Len(grants) < MaxGrants
    /\ refilled >= Needed
    /\ take(c) /\ lastUpdate' = now
    /\ UNCHANGED <<now, pc, wakeAt, seen>>

RefuseNow(c) ==
    /\ pc[c] = "idle" /\ Len(grants) < MaxGrants
    /\ refilled < Needed /\ waitTooLong
    /\ refuse(c) /\ lastUpdate' = now
    /\ UNCHANGED <<now, pc, wakeAt, seen, grants>>

StartWait(c) ==
    /\ pc[c] = "idle" /\ Len(grants) < MaxGrants
    /\ refilled < Needed /\ ~waitTooLong
    /\ tokens' = refilled /\ lastUpdate' = now
    /\ pc' = [pc EXCEPT ![c] = "waiting"]
    /\ wakeAt' = [wakeAt EXCEPT ![c] = now + waitDuration]
    /\ seen' = [seen EXCEPT ![c] = [grants |-> Len(grants), cut |-> (Needed - refilled) % Rate]]
    /\ UNCHANGED <<now, result, grants>>

\* ctx.Done wins the select; the bucket is not touched.
Cancelled(c) ==
    /\ pc[c] = "waiting"
    /\ pc' = [pc EXCEPT ![c] = "idle"]
    /\ result' = [result EXCEPT ![c] = "cancelled"]
    /\ UNCHANGED <<tokens, lastUpdate, now, wakeAt, seen, grants>>

\* Fault: the caller takes the tokens it slept for without looking again.
WakeTake_Unchecked(c) ==
    /\ pc[c] = "waiting" /\ now >= wakeAt[c]
    /\ take(c) /\ lastUpdate' = now
    /\ pc' = [pc EXCEPT ![c] = "idle"]
    /\ UNCHANGED <<now, wakeAt, seen>>

WakeTake(c) ==
    /\ pc[c] = "waiting" /\ now >= wakeAt[c]
    /\ refilled >= Needed - Epsilon
    /\ take(c) /\ lastUpdate' = now
    /\ pc' = [pc EXCEPT ![c] = "idle"]
    /\ UNCHANGED <<now, wakeAt, seen>>

\* Fault: the second look has the margin on the wrong side.
WakeRefuse_Margin(c) ==
    /\ pc[c] = "waiting" /\ now >= wakeAt[c]
    /\ refilled < Needed + Epsilon
    /\ refuse(c) /\ lastUpdate' = now
    /\ pc' = [pc EXCEPT ![c] = "idle"]
    /\ UNCHANGED <<now, wakeAt, seen, grants>>

\* "Should not happen, but handle defensively".
WakeRefuse(c) ==
    /\ pc[c] = "waiting" /\ now >= wakeAt[c]
    /\ refilled < Needed - Epsilon
    /\ refuse(c) /\ lastUpdate' = now
    /\ pc' = [pc EXCEPT ![c] = "idle"]
    /\ UNCHANGED <<now, wakeAt, seen, grants>>

Tick ==
    /\ now < MaxTime
    /\ now' = now + 1
    /\ UNCHANGED <<tokens, lastUpdate, pc, wakeAt, result, seen, grants>>

Next ==
    \/ \E c \in Callers : \/ TakeNow(c) \/ RefuseNow(c) \/ StartWait(c)
                          \/ Cancelled(c) \/ WakeTake(c) \/ WakeRefuse(c)
    \/ Tick

Spec == Init /\ [][Next]_bucketVars

-----------------------------------------------------------------------------
(* Properties. *)

\* The limit itself: between any two grants, whoever got them, no more tokens
\* are handed out than a full bucket plus what the rate adds in that time (and
\* the epsilon that acquireTokens lets the bucket go below zero).
RateBound ==
    \A i, j \in DOMAIN grants :
        i <= j => (j - i + 1) * Needed <= Full + (grants[j] - grants[i]) * Rate + Epsilon

\* A caller that slept for its deficit is refused afterwards only because
\* another caller was served while it slept, or because the truncation of the
\* sleep to milliseconds cut off more than the epsilon (the second check of
\* acquireTokens: "Should not happen, but handle defensively").
RefusalStep ==
    \A c \in Callers :
        pc[c] = "waiting" /\ pc'[c] = "idle" /\ result'[c] = "refused"
          => Len(grants) > seen[c].grants \/ seen[c].cut > Epsilon
=============================================================================
