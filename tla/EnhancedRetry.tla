--------------------------- MODULE EnhancedRetry ---------------------------
(***************************************************************************)
(* infrastructure/retry_enhanced.go: EnhancedRetryDecorator, with its      *)
(* error strategies, its hourly budget and its window of recent results.   *)
(*                                                                         *)
(* The budget is checked before an attempt, and charged in other critical  *)
(* sections after it.  Delays are not told apart, nor is the extra sleep   *)
(* under backpressure, which only delays an attempt.  EnableBudget is set. *)
(***************************************************************************)
EXTENDS Integers, Sequences, FiniteSets

CONSTANTS
    Callers,
    Strategy,            \* error class -> [MaxRetries, ShouldRetry]
    MaxRetries,          \* of the configuration
    MaxCost, Cost,       \* the cost budget; what CostTracker answers
    MaxRetriesPerHour,
    BackpressureWindow,
    MaxHours, MaxCalls   \* bounds

EnhancedAssumption ==
    /\ IsFiniteSet(Callers) /\ Callers # {}
    /\ MaxCost \in Nat /\ Cost \in Nat /\ MaxRetriesPerHour \in Nat

VARIABLES
    pc,                  \* per caller: "idle", "check", "run", "charge", "count", "sleep"
    attempt, class,      \* per caller: the attempt under way; the last error
    currentCost, retryCount, windowAge,   \* RetryBudget; windowAge counts hours since WindowStart
    recent,              \* RecentResults
    m,                   \* EnhancedRetryMetrics
    calls, hours         \* calls made; hours passed

vars == <<pc, attempt, class, currentCost, retryCount, windowAge, recent, m, calls, hours>>

Classes == DOMAIN Strategy
Counters == {"attempts", "first", "onRetry", "failed", "retries", "overBudget", "cancelled"}

TypeOK ==
    /\ pc \in [Callers -> {"idle", "check", "run", "charge", "count", "sleep"}]
    /\ attempt \in [Callers -> 1 .. MaxRetries + 1] /\ class \in [Callers -> Classes \cup {"none"}]
    /\ currentCost \in Nat /\ retryCount \in Nat /\ windowAge \in 0 .. MaxHours
    /\ recent \in Seq(BOOLEAN) /\ Len(recent) <= BackpressureWindow /\ m \in [Counters -> Nat]
    /\ calls \in 0 .. MaxCalls /\ hours \in 0 .. MaxHours

Init ==
    /\ pc = [c \in Callers |-> "idle"] /\ attempt = [c \in Callers |-> 1]
    /\ class = [c \in Callers |-> "none"]
    /\ currentCost = 0 /\ retryCount = 0 /\ windowAge = 0 /\ recent = << >>
    /\ m = [k \in Counters |-> 0] /\ calls = 0 /\ hours = 0

-----------------------------------------------------------------------------
goto(c, l) == pc' = [pc EXCEPT ![c] = l]

Call(c) ==
    /\ pc[c] = "idle" /\ calls < MaxCalls
    /\ calls' = calls + 1 /\ goto(c, "check")
    /\ attempt' = [attempt EXCEPT ![c] = 1]
    /\ class' = [class EXCEPT ![c] = "none"]
    /\ UNCHANGED <<currentCost, retryCount, windowAge, recent, m, hours>>

\* Fault: one retry too many.
withinBudget_Beyond(cost, count) == cost + Cost <= MaxCost /\ count <= MaxRetriesPerHour

\* The comparisons of checkBudget.
withinBudget(cost, count) == cost + Cost <= MaxCost /\ count < MaxRetriesPerHour

\* An attempt begins with checkBudget, which opens a new window after an hour.
CheckBudget(c) ==
    LET old == windowAge > 0
        cost == IF old THEN 0 ELSE currentCost
        count == IF old THEN 0 ELSE retryCount
        within == withinBudget(cost, count)
    IN /\ pc[c] = "check"
       /\ currentCost' = cost /\ retryCount' = count /\ windowAge' = 0
       /\ m' = [m EXCEPT !["attempts"] = @ + 1, !["overBudget"] = IF within THEN @ ELSE @ + 1]
       /\ goto(c, IF within THEN "run" ELSE "idle")
       /\ UNCHANGED <<attempt, class, recent, calls, hours>>

\* Fault: the window is not trimmed.
withResult_NoTrim(ok) == Append(recent, ok)

\* append, then the oldest result is dropped beyond the window.
withResult(ok) ==
    LET r == Append(recent, ok) IN IF Len(r) > BackpressureWindow THEN Tail(r) ELSE r

AgentSucceeds(c) ==
    /\ pc[c] = "run"
    /\ m' = [m EXCEPT ![IF attempt[c] = 1 THEN "first" ELSE "onRetry"] = @ + 1]
    /\ recent' = withResult(TRUE)
    /\ goto(c, "charge")
    /\ UNCHANGED <<attempt, class, currentCost, retryCount, windowAge, calls, hours>>

Charge(c) ==
    /\ pc[c] = "charge" /\ goto(c, "idle")
    /\ currentCost' = currentCost + Cost
    /\ UNCHANGED <<attempt, class, retryCount, windowAge, recent, m, calls, hours>>

\* The error is not retryable, or its class allows no further attempt.
givesUp(c, e) == ~Strategy[e].ShouldRetry \/ attempt[c] >= Strategy[e].MaxRetries

AgentFails(c, e) ==
    /\ pc[c] = "run"
    /\ recent' = withResult(FALSE)
    /\ class' = [class EXCEPT ![c] = e]
    /\ m' = [m EXCEPT !["failed"] = IF givesUp(c, e) THEN @ + 1 ELSE @,
                      !["retries"] = IF givesUp(c, e) THEN @ ELSE @ + 1]
    /\ goto(c, IF givesUp(c, e) THEN "idle" ELSE "count")
    /\ UNCHANGED <<attempt, currentCost, retryCount, windowAge, calls, hours>>

CountRetry(c) ==
    /\ pc[c] = "count" /\ goto(c, "sleep")
    /\ retryCount' = retryCount + 1
    /\ UNCHANGED <<attempt, class, currentCost, windowAge, recent, m, calls, hours>>

\* Fault: the last failure is not counted.
BackoffOver_Uncounted(c) ==
    /\ pc[c] = "sleep"
    /\ attempt' = [attempt EXCEPT ![c] = @ + 1]
    /\ IF attempt[c] < MaxRetries
       THEN goto(c, "check") /\ m' = m
       ELSE goto(c, "idle") /\ m' = m
    /\ UNCHANGED <<class, currentCost, retryCount, windowAge, recent, calls, hours>>

\* After the backoff the loop ends if the configuration allows no more attempts.
BackoffOver(c) ==
    /\ pc[c] = "sleep"
    /\ attempt' = [attempt EXCEPT ![c] = @ + 1]
    /\ IF attempt[c] < MaxRetries
       THEN goto(c, "check") /\ m' = m
       ELSE goto(c, "idle") /\ m' = [m EXCEPT !["failed"] = @ + 1]
    /\ UNCHANGED <<class, currentCost, retryCount, windowAge, recent, calls, hours>>

\* ctx.Done() during the backoff; counted here only.
Cancelled(c) ==
    /\ pc[c] = "sleep" /\ goto(c, "idle")
    /\ m' = [m EXCEPT !["cancelled"] = @ + 1]
    /\ UNCHANGED <<attempt, class, currentCost, retryCount, windowAge, recent, calls, hours>>

HourPasses ==
    /\ hours < MaxHours
    /\ hours' = hours + 1 /\ windowAge' = windowAge + 1
    /\ UNCHANGED <<pc, attempt, class, currentCost, retryCount, recent, m, calls>>

Process(c) ==
    \/ Call(c) \/ CheckBudget(c) \/ AgentSucceeds(c) \/ Charge(c)
    \/ \E e \in Classes : AgentFails(c, e)
    \/ CountRetry(c) \/ BackoffOver(c) \/ Cancelled(c)

Next ==
    \/ \E c \in Callers : Process(c)
    \/ HourPasses

Spec == Init /\ [][Next]_vars

-----------------------------------------------------------------------------
(* Properties. *)

inCall == {c \in Callers : pc[c] \notin {"idle", "charge"}}

\* Every call that was made succeeded, failed, ran out of budget or was
\* cancelled, once, or is under way.
MetricsConserved ==
    calls = m["first"] + m["onRetry"] + m["failed"] + m["overBudget"] + m["cancelled"] + Cardinality(inCall)

\* The hourly budget is overrun by what concurrent calls have under way when it
\* is used up: one attempt each.
BudgetOverrunBounded ==
    /\ currentCost <= MaxCost + (Cardinality(Callers) - 1) * Cost
    /\ retryCount <= MaxRetriesPerHour + Cardinality(Callers) - 1

=============================================================================
