--------------------------- MODULE CircuitBreaker ---------------------------
(***************************************************************************)
(* middleware/circuit_breaker.go: CircuitBreakerDecorator.                 *)
(*                                                                         *)
(* Callers run Process concurrently.  Process decides under c.mu whether   *)
(* the call is admitted, releases the lock while the wrapped agent runs,   *)
(* and takes the lock again to account for the outcome.  The breaker may   *)
(* therefore change state between a call's admission and its outcome: an   *)
(* outcome is always applied to the state of the moment it arrives in.     *)
(***************************************************************************)
EXTENDS Integers, FiniteSets

CONSTANTS
    Callers,           \* goroutines that call Process
    FailureThreshold,
    SuccessThreshold,
    RecoveryTimeout,   \* in clock ticks
    MaxRequests,       \* bound on the number of calls of Process
    MaxTime            \* bound on the clock

\* NewCircuitBreakerDecorator replaces values <= 0 by positive defaults.
ASSUME BreakerAssumption ==
    /\ IsFiniteSet(Callers)
    /\ FailureThreshold \in Nat \ {0}
    /\ SuccessThreshold \in Nat \ {0}
    /\ RecoveryTimeout \in Nat \ {0}
    /\ MaxRequests \in Nat
    /\ MaxTime \in Nat

StateClosed == "closed"
StateOpen == "open"
StateHalfOpen == "half_open"
States == {StateClosed, StateOpen, StateHalfOpen}

Nil == -1              \* the nil *time.Time

VARIABLES
    state, failureCount, successCount, lastFailureTime,
    totalRequests, successfulRequests, failedRequests, rejectedRequests,
    currentState,      \* metrics.CurrentState
    stateChanges,      \* metrics.StateChanges, one counter per transition
    lastStateChange,   \* metrics.LastStateChange
    now,               \* the clock
    pc,                \* where each caller is in Process
    streak             \* history: failed outcomes since the last success

breakerVars == <<state, failureCount, successCount, lastFailureTime>>
changeVars == <<state, currentState, stateChanges, lastStateChange>>
countVars == <<totalRequests, successfulRequests, failedRequests, rejectedRequests>>
vars == <<breakerVars, countVars, currentState, stateChanges, lastStateChange,
          now, pc, streak>>

PCs == {"idle", "calling"}

TypeOK ==
    /\ state \in States /\ currentState \in States
    /\ failureCount \in Nat /\ successCount \in Nat
    /\ now \in Nat
    /\ lastFailureTime \in (0 .. now) \cup {Nil}
    /\ lastStateChange \in (0 .. now) \cup {Nil}
    /\ totalRequests \in Nat /\ successfulRequests \in Nat
    /\ failedRequests \in Nat /\ rejectedRequests \in Nat
    /\ stateChanges \in [States \X States -> Nat]
    /\ pc \in [Callers -> PCs]
    /\ streak \in Nat

Init ==
    /\ state = StateClosed /\ currentState = StateClosed
    /\ failureCount = 0 /\ successCount = 0 /\ lastFailureTime = Nil
    /\ totalRequests = 0 /\ successfulRequests = 0
    /\ failedRequests = 0 /\ rejectedRequests = 0
    /\ stateChanges = [t \in States \X States |-> 0]
    /\ lastStateChange = Nil
    /\ now = 0
    /\ pc = [c \in Callers |-> "idle"]
    /\ streak = 0

-----------------------------------------------------------------------------
(* The helpers that run under c.mu. *)

\* Only ever called with a newState that differs from state.
changeState(newState) ==
    /\ state' = newState
    /\ currentState' = newState
    /\ lastStateChange' = now
    /\ stateChanges' = [stateChanges EXCEPT ![<<state, newState>>] = @ + 1]

\* Fault: the recovery timeout is off by one tick.
shouldAttemptReset_Early ==
    lastFailureTime # Nil /\ now - lastFailureTime >= RecoveryTimeout - 1

shouldAttemptReset ==
    lastFailureTime # Nil /\ now - lastFailureTime >= RecoveryTimeout

\* onSuccess in the closed state.
resetFailures == failureCount' = 0

onSuccess ==
    /\ successfulRequests' = successfulRequests + 1
    /\ streak' = 0
    /\ \/ /\ state = StateHalfOpen /\ successCount + 1 >= SuccessThreshold
          /\ changeState(StateClosed)
          /\ failureCount' = 0 /\ successCount' = 0
       \/ /\ state = StateHalfOpen /\ successCount + 1 < SuccessThreshold
          /\ successCount' = successCount + 1
          /\ UNCHANGED <<changeVars, failureCount>>
       \/ /\ state = StateClosed
          /\ resetFailures
          /\ UNCHANGED <<changeVars, successCount>>
       \/ /\ state = StateOpen
          /\ UNCHANGED <<changeVars, failureCount, successCount>>
    /\ UNCHANGED <<failedRequests, lastFailureTime>>

\* What onFailure does in every state, the open one included.
recordFailure ==
    /\ failedRequests' = failedRequests + 1
    /\ failureCount' = failureCount + 1
    /\ lastFailureTime' = now

\* Fault: reopening keeps the successes of the half-open period.
reopen_KeepSuccesses == changeState(StateOpen) /\ UNCHANGED successCount

\* onFailure in the half-open state.
reopen == changeState(StateOpen) /\ successCount' = 0

onFailure ==
    /\ recordFailure
    /\ streak' = streak + 1
    /\ \/ state = StateHalfOpen /\ reopen
       \/ /\ state = StateClosed /\ failureCount + 1 >= FailureThreshold
          /\ changeState(StateOpen)
          /\ UNCHANGED successCount
       \/ /\ \/ state = StateClosed /\ failureCount + 1 < FailureThreshold
             \/ state = StateOpen
          /\ UNCHANGED <<changeVars, successCount>>
    /\ UNCHANGED successfulRequests

-----------------------------------------------------------------------------
(* Process: admission, the agent's call, the outcome. *)

\* The first critical section: the call goes to the agent.
Admit(c) ==
    /\ pc[c] = "idle" /\ totalRequests < MaxRequests
    /\ totalRequests' = totalRequests + 1
    /\ pc' = [pc EXCEPT ![c] = "calling"]
    /\ \/ /\ state = StateOpen /\ shouldAttemptReset
          /\ changeState(StateHalfOpen)
          /\ successCount' = 0
       \/ /\ state # StateOpen
          /\ UNCHANGED <<changeVars, successCount>>
    /\ UNCHANGED <<failureCount, lastFailureTime, successfulRequests,
                   failedRequests, rejectedRequests, now, streak>>

\* The first critical section: still open, fail fast with a CircuitBreakerError.
Reject(c) ==
    /\ pc[c] = "idle" /\ totalRequests < MaxRequests
    /\ state = StateOpen /\ ~shouldAttemptReset
    /\ totalRequests' = totalRequests + 1
    /\ rejectedRequests' = rejectedRequests + 1
    /\ UNCHANGED <<breakerVars, currentState, stateChanges, lastStateChange,
                   successfulRequests, failedRequests, now, pc, streak>>

\* The agent returned an error; a missed deadline is one of them.
AgentFails(c) ==
    /\ pc[c] = "calling"
    /\ onFailure
    /\ pc' = [pc EXCEPT ![c] = "idle"]
    /\ UNCHANGED <<totalRequests, rejectedRequests, now>>

AgentSucceeds(c) ==
    /\ pc[c] = "calling"
    /\ onSuccess
    /\ pc' = [pc EXCEPT ![c] = "idle"]
    /\ UNCHANGED <<totalRequests, rejectedRequests, now>>

Tick ==
    /\ now < MaxTime
    /\ now' = now + 1
    /\ UNCHANGED <<breakerVars, countVars, currentState, stateChanges,
                   lastStateChange, pc, streak>>

Next ==
    \/ \E c \in Callers : \/ Admit(c) \/ Reject(c)
                          \/ AgentFails(c) \/ AgentSucceeds(c)
    \/ Tick

Spec == Init /\ [][Next]_vars

-----------------------------------------------------------------------------
(* Properties. *)

\* Every request the metrics count is exactly one of: answered by the agent,
\* failed, rejected, or still running in the agent (Process, onSuccess,
\* onFailure update four counters in separate critical sections).
MetricsConserved ==
    totalRequests = successfulRequests + failedRequests + rejectedRequests
                    + Cardinality({c \in Callers : pc[c] = "calling"})

\* The counters and the state agree, whatever stale outcomes arrive: a closed
\* breaker is below its failure threshold, an open or half-open one is at or
\* above it, and successes are only held while half-open and below the
\* threshold that closes the breaker (onSuccess, onFailure).
CountersMatchState ==
    /\ (state = StateClosed) <=> (failureCount < FailureThreshold)
    /\ successCount < SuccessThreshold
    /\ state # StateHalfOpen => successCount = 0
    /\ state # StateClosed => lastFailureTime # Nil

\* In the closed state failureCount is the number of failures since the last
\* success, over the outcomes of all callers in the order they arrive: the
\* breaker opens after FailureThreshold consecutive failures and never sooner.
CountsConsecutiveFailures ==
    state = StateClosed => failureCount = streak

\* The transition counters form a flow: every opening is matched by a closing
\* or accounts for the present state, every probe period ends in open or
\* closed, and no other transition is ever counted (changeState).
TransitionsBalanced ==
    LET n(s, t) == stateChanges[<<s, t>>]
    IN /\ currentState = state
       /\ n(StateClosed, StateOpen) = n(StateHalfOpen, StateClosed)
                                      + (IF state = StateClosed THEN 0 ELSE 1)
       /\ n(StateOpen, StateHalfOpen) =
            n(StateHalfOpen, StateOpen) + n(StateHalfOpen, StateClosed)
            + (IF state = StateHalfOpen THEN 1 ELSE 0)
       /\ n(StateClosed, StateHalfOpen) = 0 /\ n(StateOpen, StateClosed) = 0

\* The breaker stays open for at least RecoveryTimeout after it opened, even
\* though Process measures from the last failure and not from the opening.
NoEarlyProbe ==
    [][state = StateOpen /\ state' = StateHalfOpen
         => now - lastStateChange >= RecoveryTimeout]_vars

\* Every step of the detailed breaker is a step of the protocol or leaves it
\* unchanged: the promise of BreakerProtocol is kept (Process, onSuccess,
\* onFailure), with a closed breaker's failure count, a half-open one's success
\* count and the time since the last failure as the protocol's variables.
Protocol == INSTANCE BreakerProtocol WITH
    failures <- IF state = StateClosed THEN failureCount ELSE 0,
    successes <- successCount,
    waited <- IF lastFailureTime = Nil \/ now - lastFailureTime >= RecoveryTimeout
              THEN RecoveryTimeout ELSE now - lastFailureTime,
    calling <- {c \in Callers : pc[c] = "calling"}

ImplementsProtocol == Protocol!Spec
=============================================================================
