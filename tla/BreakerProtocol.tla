-------------------------- MODULE BreakerProtocol ---------------------------
(***************************************************************************)
(* What CircuitBreakerDecorator (middleware/circuit_breaker.go) promises,  *)
(* without metrics, absolute time or unbounded counters: the three states, *)
(* the consecutive outcomes that move between them, and the recovery       *)
(* timer.  Every quantity is bounded by a threshold, so the state space is *)
(* finite with callers that call forever, and liveness can be checked      *)
(* without cutting behaviours short.  CircuitBreaker implements it.        *)
(***************************************************************************)
EXTENDS Integers

CONSTANTS Callers, FailureThreshold, SuccessThreshold, RecoveryTimeout

StateClosed == "closed"
StateOpen == "open"
StateHalfOpen == "half_open"

VARIABLES
    state,
    failures,   \* consecutive failures in the closed state
    successes,  \* successes of the half-open period
    waited,     \* ticks since the last failure, up to RecoveryTimeout
    calling     \* callers whose request runs in the agent

vars == <<state, failures, successes, waited, calling>>

TypeOK ==
    /\ state \in {StateClosed, StateOpen, StateHalfOpen}
    /\ failures \in 0 .. FailureThreshold - 1
    /\ successes \in 0 .. SuccessThreshold - 1
    /\ waited \in 0 .. RecoveryTimeout
    /\ calling \subseteq Callers

\* No failure yet reads as a timer that has run out; only the open state,
\* which follows a failure, looks at it.
Init ==
    /\ state = StateClosed /\ failures = 0 /\ successes = 0
    /\ waited = RecoveryTimeout /\ calling = {}

Admit(c) ==
    /\ c \notin calling
    /\ calling' = calling \cup {c}
    /\ \/ state # StateOpen /\ state' = state
       \/ state = StateOpen /\ waited = RecoveryTimeout /\ state' = StateHalfOpen
    /\ UNCHANGED <<failures, successes, waited>>

\* Fault: the half-open branch clears the successes like the closed branch
\* clears the failures.
Succeed_ResetsSuccesses(c) ==
    /\ c \in calling
    /\ calling' = calling \ {c}
    /\ \/ /\ state = StateHalfOpen
          /\ \/ /\ successes + 1 < SuccessThreshold /\ successes' = 0
                /\ state' = state
             \/ /\ successes + 1 >= SuccessThreshold /\ successes' = 0
                /\ state' = StateClosed
          /\ UNCHANGED failures
       \/ /\ state # StateHalfOpen
          /\ failures' = 0
          /\ UNCHANGED <<state, successes>>
    /\ UNCHANGED waited

\* A success counts for whatever state it arrives in; an open breaker ignores it.
Succeed(c) ==
    /\ c \in calling
    /\ calling' = calling \ {c}
    /\ \/ /\ state = StateHalfOpen /\ successes + 1 < SuccessThreshold
          /\ successes' = successes + 1
          /\ UNCHANGED <<state, failures>>
       \/ /\ state = StateHalfOpen /\ successes + 1 >= SuccessThreshold
          /\ state' = StateClosed /\ successes' = 0
          /\ UNCHANGED failures
       \/ /\ state # StateHalfOpen
          /\ failures' = 0
          /\ UNCHANGED <<state, successes>>
    /\ UNCHANGED waited

\* Fault: the breaker opens one failure late.
Fail_Late(c) ==
    /\ c \in calling
    /\ calling' = calling \ {c}
    /\ waited' = 0
    /\ \/ /\ state = StateClosed /\ failures < FailureThreshold
          /\ failures' = failures + 1
          /\ UNCHANGED <<state, successes>>
       \/ /\ state # StateClosed \/ failures >= FailureThreshold
          /\ state' = StateOpen /\ successes' = 0 /\ failures' = 0

\* A failure restarts the timer in every state, the open one included.
Fail(c) ==
    /\ c \in calling
    /\ calling' = calling \ {c}
    /\ waited' = 0
    /\ \/ /\ state = StateClosed /\ failures + 1 < FailureThreshold
          /\ failures' = failures + 1
          /\ UNCHANGED <<state, successes>>
       \/ /\ state = StateClosed /\ failures + 1 >= FailureThreshold
          /\ state' = StateOpen /\ failures' = 0
          /\ UNCHANGED successes
       \/ /\ state # StateClosed
          /\ state' = StateOpen /\ successes' = 0
          /\ UNCHANGED failures

Tick ==
    /\ waited < RecoveryTimeout
    /\ waited' = waited + 1
    /\ UNCHANGED <<state, failures, successes, calling>>

Next ==
    \/ \E c \in Callers : Admit(c) \/ Succeed(c) \/ Fail(c)
    \/ Tick

Spec == Init /\ [][Next]_vars

=============================================================================
