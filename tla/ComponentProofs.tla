--------------------------- MODULE ComponentProofs --------------------------
(***************************************************************************)
(* Proofs about the circuit breaker, the retries under an hourly budget    *)
(* and the limiter of each user, each for every value of the component's   *)
(* constants.  A name that components have in common is declared once:     *)
(* each theorem is about one of them.                                      *)
(***************************************************************************)
EXTENDS CircuitBreaker, FiniteSetTheorems, TLAPS

-----------------------------------------------------------------------------
(* The circuit breaker, for every set of callers, all thresholds and every  *)
(* bound: type correctness, the agreement of counters and state, the flow   *)
(* of transition counters, the conservation of the request metrics, the     *)
(* minimum time spent open, and the refinement of the abstract protocol.    *)

\* Case split on the next-state relation: all proofs below go action by action.
LEMMA StatesDistinct ==
    /\ StateClosed \in States /\ StateOpen \in States /\ StateHalfOpen \in States
    /\ StateClosed # StateOpen /\ StateOpen # StateHalfOpen /\ StateClosed # StateHalfOpen
BY DEF States, StateClosed, StateOpen, StateHalfOpen

\* changeState keeps the types of what it writes (changeState).
LEMMA ChangeStateType ==
    ASSUME TypeOK, NEW s \in States, changeState(s)
    PROVE  /\ state' \in States /\ currentState' \in States
           /\ lastStateChange' \in (0 .. now) \cup {Nil}
           /\ stateChanges' \in [States \X States -> Nat]
<1>1. stateChanges[<<state, s>>] \in Nat
  BY DEF TypeOK
<1>2. QED
  BY <1>1 DEF TypeOK, changeState

\* Every step preserves the types of the breaker's fields, of the metrics and
\* of the callers' positions (Process and everything it calls).
LEMMA TypeStep == TypeOK /\ [Next]_vars => TypeOK'
<1> SUFFICES ASSUME TypeOK, [Next]_vars PROVE TypeOK'
  OBVIOUS
<1> USE StatesDistinct DEF TypeOK, PCs
<1>1. ASSUME NEW c \in Callers, Admit(c) PROVE TypeOK'
  <2>1. /\ state' \in States /\ currentState' \in States
        /\ lastStateChange' \in (0 .. now) \cup {Nil}
        /\ stateChanges' \in [States \X States -> Nat]
        /\ successCount' \in Nat
    BY <1>1, ChangeStateType DEF Admit, changeVars
  <2>2. QED
    BY <1>1, <2>1 DEF Admit
<1>2. ASSUME NEW c \in Callers, Reject(c) PROVE TypeOK'
  BY <1>2 DEF Reject, breakerVars
<1>4. ASSUME NEW c \in Callers, AgentFails(c) PROVE TypeOK'
  <2>1. /\ state' \in States /\ currentState' \in States
        /\ lastStateChange' \in (0 .. now) \cup {Nil}
        /\ stateChanges' \in [States \X States -> Nat]
        /\ successCount' \in Nat
    BY <1>4, ChangeStateType DEF AgentFails, onFailure, reopen, changeVars
  <2>2. QED
    BY <1>4, <2>1 DEF AgentFails, onFailure, recordFailure
<1>5. ASSUME NEW c \in Callers, AgentSucceeds(c) PROVE TypeOK'
  <2>1. /\ state' \in States /\ currentState' \in States
        /\ lastStateChange' \in (0 .. now) \cup {Nil}
        /\ stateChanges' \in [States \X States -> Nat]
        /\ successCount' \in Nat /\ failureCount' \in Nat
    BY <1>5, ChangeStateType DEF AgentSucceeds, onSuccess, resetFailures, changeVars
  <2>2. QED
    BY <1>5, <2>1 DEF AgentSucceeds, onSuccess
<1>6. CASE Tick
  BY <1>6 DEF Tick, breakerVars, countVars
<1>7. CASE UNCHANGED vars
  BY <1>7 DEF vars, breakerVars, countVars
<1>8. QED
  BY <1>1, <1>2, <1>4, <1>5, <1>6, <1>7 DEF Next

\* The breaker's fields and metrics always have their types (Process).
THEOREM TypeCorrect == Spec => []TypeOK
<1>1. Init => TypeOK
  BY StatesDistinct DEF Init, TypeOK, PCs
<1>2. QED
  BY <1>1, TypeStep, PTL DEF Spec

-----------------------------------------------------------------------------
(* Counters and state. *)

\* While open, the last failure is not older than the opening: the failure that
\* opened the breaker set both clocks, later failures only move the first on.
OpenedByFailure ==
    state = StateOpen => lastStateChange # Nil /\ lastFailureTime >= lastStateChange

\* The inductive invariant.  CountersMatchState alone carries the induction on
\* the counters; the other conjuncts are needed by the action properties.
Inv == TypeOK /\ CountersMatchState /\ CountsConsecutiveFailures /\ OpenedByFailure

\* No step, whatever stale outcome it applies, separates counters and state
\* (Process, onSuccess, onFailure).
LEMMA InvStep == Inv /\ [Next]_vars => Inv'
<1> SUFFICES ASSUME Inv, [Next]_vars PROVE Inv'
  OBVIOUS
<1>0. TypeOK /\ TypeOK'
  BY TypeStep DEF Inv
<1> SUFFICES (CountersMatchState /\ CountsConsecutiveFailures /\ OpenedByFailure)'
  BY <1>0 DEF Inv
<1> USE BreakerAssumption, StatesDistinct, <1>0
        DEF Inv, CountersMatchState, CountsConsecutiveFailures, OpenedByFailure
<1>1. ASSUME NEW c \in Callers, Admit(c)
      PROVE  (CountersMatchState /\ CountsConsecutiveFailures /\ OpenedByFailure)'
  BY <1>1 DEF TypeOK, Admit, changeState, changeVars, shouldAttemptReset
<1>2. ASSUME NEW c \in Callers, Reject(c)
      PROVE  (CountersMatchState /\ CountsConsecutiveFailures /\ OpenedByFailure)'
  BY <1>2 DEF Reject, breakerVars
<1>3. ASSUME NEW c \in Callers, AgentFails(c)
      PROVE  (CountersMatchState /\ CountsConsecutiveFailures /\ OpenedByFailure)'
  <2>1. CASE state = StateHalfOpen
    BY <1>3, <2>1 DEF TypeOK, AgentFails, onFailure, recordFailure, reopen, changeState,
                      changeVars, Nil
  <2>2. CASE state = StateClosed
    BY <1>3, <2>2 DEF TypeOK, AgentFails, onFailure, recordFailure, changeState, changeVars,
                      Nil
  <2>3. CASE state = StateOpen
    BY <1>3, <2>3 DEF TypeOK, AgentFails, onFailure, recordFailure, changeVars, Nil
  <2>4. QED
    BY <2>1, <2>2, <2>3 DEF TypeOK, States
<1>4. ASSUME NEW c \in Callers, AgentSucceeds(c)
      PROVE  (CountersMatchState /\ CountsConsecutiveFailures /\ OpenedByFailure)'
  BY <1>4 DEF TypeOK, AgentSucceeds, onSuccess, resetFailures, changeState, changeVars
<1>5. CASE Tick
  BY <1>5 DEF Tick, breakerVars
<1>6. CASE UNCHANGED vars
  BY <1>6 DEF vars, breakerVars
<1>7. QED
  BY <1>1, <1>2, <1>3, <1>4, <1>5, <1>6 DEF Next

\* The invariant holds always: no call, return or clock step breaks it.
LEMMA InvAlways == Spec => []Inv
<1>1. Init => Inv
  BY StatesDistinct, BreakerAssumption
     DEF Init, Inv, TypeOK, PCs, CountersMatchState, CountsConsecutiveFailures, OpenedByFailure
<1>2. QED
  BY <1>1, InvStep, PTL DEF Spec

\* A closed breaker is below its failure threshold, an open or half-open one at
\* or above it, and successes are held only while half-open (onSuccess,
\* onFailure), for all interleavings of any number of callers.
THEOREM CountersAgree == Spec => []CountersMatchState
BY InvAlways, PTL DEF Inv

\* The breaker opens on consecutive failures only (onSuccess, onFailure).
THEOREM OpensOnConsecutive == Spec => []CountsConsecutiveFailures
BY InvAlways, PTL DEF Inv

\* The breaker stays open for at least RecoveryTimeout (shouldAttemptReset).
THEOREM StaysOpen == Spec => NoEarlyProbe
<1> DEFINE Early == state = StateOpen /\ state' = StateHalfOpen
                    => now - lastStateChange >= RecoveryTimeout
<1>1. Inv /\ [Next]_vars => [Early]_vars
  <2> SUFFICES ASSUME Inv, [Next]_vars, state = StateOpen, state' = StateHalfOpen
               PROVE  now - lastStateChange >= RecoveryTimeout
    OBVIOUS
  <2> USE StatesDistinct, BreakerAssumption DEF Inv, TypeOK, OpenedByFailure
  <2>1. ASSUME NEW c \in Callers, Admit(c) PROVE shouldAttemptReset
    BY <2>1 DEF Admit, changeState, changeVars
  <2>2. ASSUME NEW c \in Callers, Reject(c) PROVE FALSE
    BY <2>2 DEF Reject, breakerVars
  <2>3. ASSUME NEW c \in Callers, AgentFails(c) \/ AgentSucceeds(c) PROVE FALSE
    BY <2>3 DEF AgentFails, AgentSucceeds, onFailure, onSuccess, changeState, changeVars, reopen
  <2>4. ~Tick /\ ~UNCHANGED vars
    BY DEF Tick, vars, breakerVars
  <2>5. shouldAttemptReset
    BY <2>1, <2>2, <2>3, <2>4 DEF Next
  <2>6. QED
    BY <2>5 DEF shouldAttemptReset, Nil
<1>2. QED
  BY <1>1, InvAlways, PTL DEF Spec, NoEarlyProbe

-----------------------------------------------------------------------------
(* The flow of transitions. *)

\* changeState counts exactly the transition it makes.
LEMMA ChangeStateCounts ==
    ASSUME TypeOK, NEW s \in States, changeState(s), NEW a \in States, NEW b \in States
    PROVE  stateChanges'[<<a, b>>] =
             IF a = state /\ b = s THEN stateChanges[<<a, b>>] + 1 ELSE stateChanges[<<a, b>>]
BY DEF TypeOK, changeState

\* The transition counters form a flow through the three states (changeState).
THEOREM FlowBalanced == Spec => []TransitionsBalanced
<1>1. Init => TransitionsBalanced
  BY StatesDistinct DEF Init, TransitionsBalanced
<1>2. TypeOK /\ TransitionsBalanced /\ [Next]_vars => TransitionsBalanced'
  <2> SUFFICES ASSUME TypeOK, TransitionsBalanced, [Next]_vars PROVE TransitionsBalanced'
    OBVIOUS
  <2> USE StatesDistinct
  <2>1. CASE UNCHANGED changeVars
    BY <2>1 DEF TransitionsBalanced, changeVars
  <2>2. CASE \/ state = StateOpen /\ changeState(StateHalfOpen)
             \/ state = StateHalfOpen /\ changeState(StateClosed)
             \/ state = StateHalfOpen /\ changeState(StateOpen)
             \/ state = StateClosed /\ changeState(StateOpen)
    <3> DEFINE n(a, b) == stateChanges[<<a, b>>]
    <3>1. /\ n(StateClosed, StateOpen) \in Nat /\ n(StateHalfOpen, StateClosed) \in Nat
          /\ n(StateOpen, StateHalfOpen) \in Nat /\ n(StateHalfOpen, StateOpen) \in Nat
      BY DEF TypeOK
    <3>2. state' = currentState'
      BY <2>2 DEF changeState
    <3>3. CASE state = StateOpen /\ changeState(StateHalfOpen)
      <4>1. \A a, b \in States : stateChanges'[<<a, b>>] =
              IF a = state /\ b = StateHalfOpen THEN stateChanges[<<a, b>>] + 1
              ELSE stateChanges[<<a, b>>]
        BY Zenon, <3>3, ChangeStateCounts
      <4>2. state' = StateHalfOpen
        BY <3>3 DEF changeState
      <4>3. QED
        BY <3>1, <3>2, <3>3, <4>1, <4>2 DEF TransitionsBalanced
    <3>4. CASE state = StateHalfOpen /\ changeState(StateClosed)
      <4>1. \A a, b \in States : stateChanges'[<<a, b>>] =
              IF a = state /\ b = StateClosed THEN stateChanges[<<a, b>>] + 1
              ELSE stateChanges[<<a, b>>]
        BY Zenon, <3>4, ChangeStateCounts
      <4>2. state' = StateClosed
        BY <3>4 DEF changeState
      <4>3. QED
        BY <3>1, <3>2, <3>4, <4>1, <4>2 DEF TransitionsBalanced
    <3>5. CASE state = StateHalfOpen /\ changeState(StateOpen)
      <4>1. \A a, b \in States : stateChanges'[<<a, b>>] =
              IF a = state /\ b = StateOpen THEN stateChanges[<<a, b>>] + 1
              ELSE stateChanges[<<a, b>>]
        BY Zenon, <3>5, ChangeStateCounts
      <4>2. state' = StateOpen
        BY <3>5 DEF changeState
      <4>3. QED
        BY <3>1, <3>2, <3>5, <4>1, <4>2 DEF TransitionsBalanced
    <3>6. CASE state = StateClosed /\ changeState(StateOpen)
      <4>1. \A a, b \in States : stateChanges'[<<a, b>>] =
              IF a = state /\ b = StateOpen THEN stateChanges[<<a, b>>] + 1
              ELSE stateChanges[<<a, b>>]
        BY Zenon, <3>6, ChangeStateCounts
      <4>2. state' = StateOpen
        BY <3>6 DEF changeState
      <4>3. QED
        BY <3>1, <3>2, <3>6, <4>1, <4>2 DEF TransitionsBalanced
    <3>7. QED
      BY <2>2, <3>3, <3>4, <3>5, <3>6
  <2>3. ASSUME NEW c \in Callers, Admit(c) PROVE TransitionsBalanced'
    BY <2>1, <2>2, <2>3 DEF Admit
  <2>4. ASSUME NEW c \in Callers, Reject(c) PROVE TransitionsBalanced'
    BY <2>1, <2>4 DEF Reject, breakerVars, changeVars
  <2>5. ASSUME NEW c \in Callers, AgentFails(c) PROVE TransitionsBalanced'
    BY <2>1, <2>2, <2>5 DEF AgentFails, onFailure, reopen
  <2>6. ASSUME NEW c \in Callers, AgentSucceeds(c) PROVE TransitionsBalanced'
    BY <2>1, <2>2, <2>6 DEF AgentSucceeds, onSuccess
  <2>7. CASE Tick \/ UNCHANGED vars
    BY <2>1, <2>7 DEF Tick, vars, breakerVars, changeVars
  <2>8. QED
    BY <2>3, <2>4, <2>5, <2>6, <2>7 DEF Next
<1>3. QED
  BY <1>1, <1>2, TypeCorrect, PTL DEF Spec

-----------------------------------------------------------------------------
(* Conservation of the request metrics. *)

Calling == {c \in Callers : pc[c] = "calling"}

\* One caller entering or leaving the agent changes their number by one.
LEMMA CallingCount ==
    ASSUME TypeOK, NEW c \in Callers, NEW p \in PCs, pc' = [pc EXCEPT ![c] = p]
    PROVE  /\ Cardinality(Calling) \in Nat
           /\ pc[c] # "calling" /\ p = "calling" =>
                Cardinality(Calling') = Cardinality(Calling) + 1
           /\ pc[c] = "calling" /\ p # "calling" =>
                Cardinality(Calling') = Cardinality(Calling) - 1
           /\ pc[c] # "calling" /\ p # "calling" =>
                Cardinality(Calling') = Cardinality(Calling)
<1>1. IsFiniteSet(Calling)
  BY BreakerAssumption, FS_Subset DEF Calling
<1>2. Cardinality(Calling) \in Nat
  BY <1>1, FS_CardinalityType
<1>3. CASE pc[c] # "calling" /\ p = "calling"
  <2>1. Calling' = Calling \cup {c} /\ c \notin Calling
    BY <1>3 DEF Calling, TypeOK
  <2>2. QED
    BY Zenon, <1>1, <1>2, <1>3, <2>1, FS_AddElement
<1>4. CASE pc[c] = "calling" /\ p # "calling"
  <2>1. Calling' = Calling \ {c} /\ c \in Calling
    BY <1>4 DEF Calling, TypeOK
  <2>2. QED
    BY Zenon, <1>1, <1>2, <1>4, <2>1, FS_RemoveElement
<1>5. CASE pc[c] # "calling" /\ p # "calling"
  <2>1. Calling' = Calling
    BY <1>5 DEF Calling, TypeOK
  <2>2. QED
    BY <1>2, <1>5, <2>1
<1>6. QED
  BY <1>2, <1>3, <1>4, <1>5

\* Every counted request is answered, failed, rejected or still running
\* (Process, onSuccess, onFailure), for any number of callers.
THEOREM RequestsConserved == Spec => []MetricsConserved
<1>1. Init => MetricsConserved
  <2> SUFFICES ASSUME Init PROVE MetricsConserved
    OBVIOUS
  <2>1. Calling = {}
    BY DEF Init, Calling
  <2>2. Cardinality(Calling) = 0
    BY Zenon, <2>1, FS_EmptySet
  <2>3. QED
    BY <2>2 DEF Init, MetricsConserved, Calling
<1>2. TypeOK /\ MetricsConserved /\ [Next]_vars => MetricsConserved'
  <2> SUFFICES ASSUME TypeOK, MetricsConserved, [Next]_vars PROVE MetricsConserved'
    OBVIOUS
  <2>0. /\ totalRequests \in Nat /\ successfulRequests \in Nat
        /\ failedRequests \in Nat /\ rejectedRequests \in Nat
    BY DEF TypeOK
  <2>a. totalRequests = successfulRequests + failedRequests + rejectedRequests
                        + Cardinality(Calling)
    BY DEF MetricsConserved, Calling
  <2>b. SUFFICES totalRequests' = successfulRequests' + failedRequests' + rejectedRequests'
                                  + Cardinality(Calling')
    BY DEF MetricsConserved, Calling
  <2> DEFINE Conserved == totalRequests = successfulRequests + failedRequests
                                          + rejectedRequests + Cardinality(Calling)
  <2>1. ASSUME NEW c \in Callers, Admit(c) PROVE Conserved'
    <3>1. pc' = [pc EXCEPT ![c] = "calling"] /\ "calling" \in PCs
      BY <2>1 DEF Admit, PCs
    <3>2. Cardinality(Calling) \in Nat /\ Cardinality(Calling') = Cardinality(Calling) + 1
      BY Zenon, <2>1, <3>1, CallingCount DEF Admit
    <3>3. QED
      BY <2>0, <2>a, <2>1, <3>2 DEF Admit
  <2>2. ASSUME NEW c \in Callers, Reject(c) PROVE Conserved'
    <3>1. Cardinality(Calling) \in Nat /\ Calling' = Calling
      BY <2>2, BreakerAssumption, FS_Subset, FS_CardinalityType DEF Reject, Calling
    <3>2. QED
      BY <2>0, <2>a, <2>2, <3>1 DEF Reject
  <2>4. ASSUME NEW c \in Callers, AgentFails(c) PROVE Conserved'
    <3>1. pc' = [pc EXCEPT ![c] = "idle"] /\ "idle" \in PCs
      BY <2>4 DEF AgentFails, PCs
    <3>2. Cardinality(Calling) \in Nat /\ Cardinality(Calling') = Cardinality(Calling) - 1
      BY Zenon, <2>4, <3>1, CallingCount DEF AgentFails
    <3>3. QED
      BY <2>0, <2>a, <2>4, <3>2 DEF AgentFails, onFailure, recordFailure
  <2>5. ASSUME NEW c \in Callers, AgentSucceeds(c) PROVE Conserved'
    <3>1. pc' = [pc EXCEPT ![c] = "idle"] /\ "idle" \in PCs
      BY <2>5 DEF AgentSucceeds, PCs
    <3>2. Cardinality(Calling) \in Nat /\ Cardinality(Calling') = Cardinality(Calling) - 1
      BY Zenon, <2>5, <3>1, CallingCount DEF AgentSucceeds
    <3>3. QED
      BY <2>0, <2>a, <2>5, <3>2 DEF AgentSucceeds, onSuccess
  <2>6. CASE Tick \/ UNCHANGED vars
    BY <2>a, <2>6 DEF Tick, vars, countVars, Calling
  <2>7. QED
    BY <2>1, <2>2, <2>4, <2>5, <2>6 DEF Next
<1>3. QED
  BY <1>1, <1>2, TypeCorrect, PTL DEF Spec

-----------------------------------------------------------------------------
(* Refinement: the breaker implements BreakerProtocol. *)

\* The refinement mapping, as BreakerProtocol sees it.
Failures == IF state = StateClosed THEN failureCount ELSE 0
Waited == IF lastFailureTime = Nil \/ now - lastFailureTime >= RecoveryTimeout
          THEN RecoveryTimeout ELSE now - lastFailureTime

\* Each step of Process or of the clock is a step of the protocol or a stutter
\* (Process, onSuccess, onFailure).
LEMMA ProtocolStep == Inv /\ [Next]_vars => [Protocol!Next]_(Protocol!vars)
<1> SUFFICES ASSUME Inv, [Next]_vars PROVE [Protocol!Next]_(Protocol!vars)
  OBVIOUS
<1> USE StatesDistinct, BreakerAssumption
<1>0. TypeOK /\ TypeOK' /\ CountersMatchState /\ Inv'
  BY InvStep, TypeStep DEF Inv
<1>1. ASSUME NEW c \in Callers, Admit(c) PROVE Protocol!Admit(c)
  <2>1. c \notin Calling /\ Calling' = Calling \cup {c}
    BY <1>0, <1>1 DEF Admit, Calling, TypeOK
  <2>2. /\ Failures' = Failures /\ successCount' = successCount /\ Waited' = Waited
        /\ \/ state # StateOpen /\ state' = state
           \/ state = StateOpen /\ Waited = RecoveryTimeout /\ state' = StateHalfOpen
    BY <1>0, <1>1 DEF Admit, Failures, Waited, changeState, changeVars, shouldAttemptReset,
                      CountersMatchState
  <2>3. QED
    BY <2>1, <2>2 DEF Protocol!Admit, Protocol!StateOpen, Protocol!StateHalfOpen, StateOpen,
                      StateHalfOpen, Failures, Waited, Calling
<1>2. ASSUME NEW c \in Callers, Reject(c) PROVE UNCHANGED Protocol!vars
  <2>1. Calling' = Calling
    BY <1>0, <1>2 DEF Reject, Calling, TypeOK
  <2>2. Failures' = Failures /\ Waited' = Waited /\ UNCHANGED <<state, successCount>>
    BY <1>2 DEF Reject, breakerVars, Failures, Waited
  <2>3. QED
    BY <2>1, <2>2 DEF Protocol!vars, Failures, Waited, Calling
<1>3. ASSUME NEW c \in Callers, AgentFails(c) PROVE Protocol!Fail(c)
  <2>1. c \in Calling /\ Calling' = Calling \ {c}
    BY <1>0, <1>3 DEF AgentFails, Calling, TypeOK
  <2>2. Waited' = 0
    BY <1>0, <1>3 DEF AgentFails, onFailure, recordFailure, Waited, TypeOK, Nil
  <2>3. \/ /\ state = StateClosed /\ Failures + 1 < FailureThreshold
           /\ Failures' = Failures + 1 /\ UNCHANGED <<state, successCount>>
        \/ /\ state = StateClosed /\ Failures + 1 >= FailureThreshold
           /\ state' = StateOpen /\ Failures' = 0 /\ UNCHANGED successCount
        \/ /\ state # StateClosed
           /\ state' = StateOpen /\ successCount' = 0 /\ UNCHANGED Failures
    BY <1>0, <1>3 DEF AgentFails, onFailure, recordFailure, reopen, changeState, changeVars,
                      Failures, TypeOK, CountersMatchState
  <2>4. QED
    BY <2>1, <2>2, <2>3 DEF Protocol!Fail, Protocol!StateClosed, Protocol!StateOpen,
                            StateClosed, StateOpen, Failures, Waited, Calling
<1>4. ASSUME NEW c \in Callers, AgentSucceeds(c) PROVE Protocol!Succeed(c)
  <2>1. c \in Calling /\ Calling' = Calling \ {c}
    BY <1>0, <1>4 DEF AgentSucceeds, Calling, TypeOK
  <2>2. Waited' = Waited
    BY <1>4 DEF AgentSucceeds, onSuccess, Waited
  <2>3. \/ /\ state = StateHalfOpen /\ successCount + 1 < SuccessThreshold
           /\ successCount' = successCount + 1 /\ UNCHANGED <<state, Failures>>
        \/ /\ state = StateHalfOpen /\ successCount + 1 >= SuccessThreshold
           /\ state' = StateClosed /\ successCount' = 0 /\ UNCHANGED Failures
        \/ /\ state # StateHalfOpen
           /\ Failures' = 0 /\ UNCHANGED <<state, successCount>>
    BY <1>0, <1>4 DEF AgentSucceeds, onSuccess, resetFailures, changeState, changeVars,
                      Failures, TypeOK
  <2>4. QED
    BY <2>1, <2>2, <2>3 DEF Protocol!Succeed, Protocol!StateClosed, Protocol!StateHalfOpen,
                            StateClosed, StateHalfOpen, Failures, Waited, Calling
<1>5. CASE Tick
  <2>1. Calling' = Calling /\ Failures' = Failures /\ UNCHANGED <<state, successCount>>
    BY <1>5 DEF Tick, breakerVars, Calling, Failures
  <2>2. \/ Waited' = Waited
        \/ Waited < RecoveryTimeout /\ Waited' = Waited + 1
    BY <1>0, <1>5 DEF Tick, breakerVars, Waited, TypeOK, Nil
  <2>3. QED
    BY <2>1, <2>2 DEF Protocol!Next, Protocol!Tick, Protocol!vars, Failures, Waited, Calling
<1>6. CASE UNCHANGED vars
  BY <1>6 DEF vars, breakerVars, Protocol!vars
<1>7. QED
  BY <1>1, <1>2, <1>3, <1>4, <1>5, <1>6 DEF Next, Protocol!Next

\* The breaker keeps the promise of the protocol: its outcomes, probes and
\* rejections are those of the three-state machine (Process).
THEOREM Implements == Spec => ImplementsProtocol
<1>1. Init => Protocol!Init
  BY DEF Init, Protocol!Init, Protocol!StateClosed, StateClosed, Nil
<1>2. QED
  BY <1>1, ProtocolStep, InvAlways, PTL DEF Spec, ImplementsProtocol, Protocol!Spec

-----------------------------------------------------------------------------
(* Retries under an hourly budget. *)

CONSTANTS Strategy, MaxRetries, MaxCost, Cost, MaxRetriesPerHour,
          BackpressureWindow, MaxHours, MaxCalls

VARIABLES attempt, class, currentCost, retryCount, windowAge, recent, m, calls, hours

E == INSTANCE EnhancedRetry

Points == {"idle", "check", "run", "charge", "count", "sleep"}

\* The callers at some control points.
At(p, P) == {d \in Callers : p[d] \in P}
Moved(p, c, l) == [p EXCEPT ![c] = l]

\* Moving one caller changes their number by one at most; a caller that is elsewhere leaves
\* room for one.
LEMMA MovesOne ==
    ASSUME IsFiniteSet(Callers), NEW p \in [Callers -> Points], NEW c \in Callers, NEW l, NEW P
    PROVE  LET q == Moved(p, c, l)
           IN /\ Cardinality(At(p, P)) \in Nat /\ Cardinality(At(q, P)) \in Nat
              /\ Cardinality(At(q, P)) = Cardinality(At(p, P)) + (IF l \in P THEN 1 ELSE 0)
                                         - (IF p[c] \in P THEN 1 ELSE 0)
              /\ p[c] \notin P => Cardinality(At(p, P)) <= Cardinality(Callers) - 1
<1> DEFINE q == Moved(p, c, l)
           R == At(p, P) \ {c}
<1>1. IsFiniteSet(R) /\ R \subseteq Callers /\ c \notin R /\ IsFiniteSet(At(p, P))
  BY FS_Subset DEF At
<1>2. At(p, P) = IF p[c] \in P THEN R \cup {c} ELSE R
  BY DEF At
<1>3. At(q, P) = IF l \in P THEN R \cup {c} ELSE R
  BY DEF At, Moved
<1> HIDE DEF R, q
<1>4. Cardinality(R) \in Nat /\ Cardinality(R \cup {c}) = Cardinality(R) + 1
  BY <1>1, FS_AddElement, FS_CardinalityType
<1>5. Cardinality(R \cup {c}) <= Cardinality(Callers) /\ Cardinality(Callers) \in Nat
  BY <1>1, FS_Subset, FS_CardinalityType, R \cup {c} \subseteq Callers
<1>6. QED
  BY <1>2, <1>3, <1>4, <1>5 DEF q

\* The attempts under way are paid for in advance: what they may yet charge and count is
\* within the bound already.
EnhancedInv ==
    /\ pc \in [Callers -> Points] /\ m \in [E!Counters -> Nat] /\ calls \in Nat
    /\ currentCost \in Nat /\ retryCount \in Nat
    /\ calls = m["first"] + m["onRetry"] + m["failed"] + m["overBudget"] + m["cancelled"]
               + Cardinality(At(pc, {"check", "run", "count", "sleep"}))
    /\ currentCost + Cardinality(At(pc, {"run", "charge"})) * Cost
         <= MaxCost + (Cardinality(Callers) - 1) * Cost
    /\ retryCount + Cardinality(At(pc, {"run", "count"}))
         <= MaxRetriesPerHour + Cardinality(Callers) - 1

\* More attempts under way cost no less, and one more costs one Cost more.
LEMMA MoreCost ==
    ASSUME NEW a \in Nat, NEW b \in Nat, NEW x \in Nat
    PROVE  /\ a * x \in Nat /\ b * x \in Nat /\ (a <= b => a * x <= b * x)
           /\ (b = a + 1 => b * x = a * x + x)
<1>1. a * x \in Nat /\ b * x \in Nat
  OBVIOUS
<1>2. ASSUME a <= b PROVE a * x <= b * x
  <2>1. (b - a) * x >= 0
    BY <1>2
  <2>2. b * x = a * x + (b - a) * x
    OBVIOUS
  <2>3. QED
    BY <2>1, <2>2
<1>3. QED
  BY <1>1, <1>2

\* What the assumption says of the constants the steps use.
LEMMA EnhancedConstants ==
    ASSUME E!EnhancedAssumption
    PROVE  /\ IsFiniteSet(Callers) /\ Cardinality(Callers) \in Nat \ {0} /\ MaxCost \in Nat
           /\ Cost \in Nat /\ MaxRetriesPerHour \in Nat
<1>1. IsFiniteSet(Callers)
  BY DEF E!EnhancedAssumption, E!IsFiniteSet, IsFiniteSet
<1>2. Cardinality(Callers) \in Nat \ {0}
  BY <1>1, FS_EmptySet, FS_CardinalityType DEF E!EnhancedAssumption
<1>3. QED
  BY <1>1, <1>2 DEF E!EnhancedAssumption

\* Every step of a retrying call and of the clock keeps the invariant.
LEMMA EnhancedStep ==
    ASSUME E!EnhancedAssumption, EnhancedInv, [E!Next]_E!vars PROVE EnhancedInv'
<1> DEFINE n == Cardinality(Callers)
           U(p) == Cardinality(At(p, {"check", "run", "count", "sleep"}))
           V(p) == Cardinality(At(p, {"run", "charge"}))
           W(p) == Cardinality(At(p, {"run", "count"}))
<1>1. /\ IsFiniteSet(Callers) /\ n \in Nat \ {0} /\ MaxCost \in Nat /\ Cost \in Nat
      /\ MaxRetriesPerHour \in Nat
  BY EnhancedConstants
<1>2. U(pc) \in Nat /\ V(pc) \in Nat /\ W(pc) \in Nat
  <2>1. \A P : IsFiniteSet(At(pc, P))
    BY <1>1, FS_Subset DEF At
  <2>2. QED
    BY <2>1, FS_CardinalityType
<1>3. ASSUME NEW c \in Callers, E!Process(c) PROVE EnhancedInv'
  <2>1. PICK l \in Points : pc' = [pc EXCEPT ![c] = l]
    BY Zenon, <1>3 DEF E!Process, E!Call, E!CheckBudget, E!AgentSucceeds, E!Charge, E!AgentFails,
                E!CountRetry, E!BackoffOver, E!Cancelled, E!goto, Points
  <2>2. pc' \in [Callers -> Points] /\ pc'[c] = l /\ pc[c] \in Points
    BY <2>1 DEF EnhancedInv
  <2>3. /\ U(pc') \in Nat /\ V(pc') \in Nat /\ W(pc') \in Nat
        /\ U(pc') = U(pc) + (IF l \in {"check", "run", "count", "sleep"} THEN 1 ELSE 0)
                    - (IF pc[c] \in {"check", "run", "count", "sleep"} THEN 1 ELSE 0)
        /\ V(pc') = V(pc) + (IF l \in {"run", "charge"} THEN 1 ELSE 0)
                    - (IF pc[c] \in {"run", "charge"} THEN 1 ELSE 0)
        /\ W(pc') = W(pc) + (IF l \in {"run", "count"} THEN 1 ELSE 0)
                    - (IF pc[c] \in {"run", "count"} THEN 1 ELSE 0)
        /\ pc[c] \notin {"run", "charge"} => V(pc) <= n - 1
        /\ pc[c] \notin {"run", "count"} => W(pc) <= n - 1
    <3>1. pc \in [Callers -> Points]
      BY DEF EnhancedInv
    <3>2. ASSUME NEW P
          PROVE  /\ Cardinality(At(pc', P)) \in Nat
                 /\ Cardinality(At(pc', P)) = Cardinality(At(pc, P)) + (IF l \in P THEN 1 ELSE 0)
                                              - (IF pc[c] \in P THEN 1 ELSE 0)
                 /\ pc[c] \notin P => Cardinality(At(pc, P)) <= n - 1
      <4> DEFINE q == Moved(pc, c, l)
      <4>1. /\ Cardinality(At(q, P)) \in Nat
            /\ Cardinality(At(q, P)) = Cardinality(At(pc, P)) + (IF l \in P THEN 1 ELSE 0)
                                       - (IF pc[c] \in P THEN 1 ELSE 0)
            /\ pc[c] \notin P => Cardinality(At(pc, P)) <= Cardinality(Callers) - 1
        BY <1>1, <3>1, MovesOne
      <4>2. pc' = q
        BY <2>1 DEF Moved
      <4>3. QED
        BY <4>1, <4>2
    <3>3. QED
      BY <3>2
  <2> DEFINE a == V(pc) * Cost
             b == V(pc') * Cost
             top == (n - 1) * Cost
  <2>4. /\ a \in Nat /\ b \in Nat /\ top \in Nat
        /\ V(pc) <= n - 1 => a <= top
        /\ V(pc') = V(pc) => b = a
        /\ V(pc') = V(pc) + 1 => b = a + Cost
        /\ V(pc) = V(pc') + 1 => a = b + Cost
    <3>1. V(pc) \in Nat /\ V(pc') \in Nat /\ n - 1 \in Nat /\ Cost \in Nat
      BY <1>1, <1>2, <2>3
    <3> HIDE DEF V, n
    <3>2. a \in Nat /\ b \in Nat /\ top \in Nat /\ (V(pc) <= n - 1 => a <= top)
      BY <3>1, MoreCost
    <3>3. V(pc') = V(pc) + 1 => b = a + Cost
      BY <3>1, MoreCost
    <3>4. V(pc) = V(pc') + 1 => a = b + Cost
      BY <3>1, MoreCost
    <3>5. QED
      BY <3>2, <3>3, <3>4
  <2>5. /\ currentCost + a <= MaxCost + top
        /\ retryCount + W(pc) <= MaxRetriesPerHour + n - 1
        /\ calls = m["first"] + m["onRetry"] + m["failed"] + m["overBudget"] + m["cancelled"]
                   + U(pc)
        /\ currentCost \in Nat /\ retryCount \in Nat /\ calls \in Nat /\ m \in [E!Counters -> Nat]
        /\ m["first"] \in Nat /\ m["onRetry"] \in Nat /\ m["failed"] \in Nat
        /\ m["overBudget"] \in Nat /\ m["cancelled"] \in Nat
    BY DEF EnhancedInv, E!Counters
  <2> HIDE DEF a, b, top, n, U, V, W
  <2> DEFINE Charged == currentCost' \in Nat /\ currentCost' + b <= MaxCost + top
             Counted == retryCount' \in Nat /\ retryCount' + W(pc') <= MaxRetriesPerHour + n - 1
             Conserved == /\ m' \in [E!Counters -> Nat] /\ calls' \in Nat
                          /\ calls' = m'["first"] + m'["onRetry"] + m'["failed"]
                                      + m'["overBudget"] + m'["cancelled"] + U(pc')
  <2>6. SUFFICES Charged /\ Counted /\ Conserved
    BY <2>2 DEF EnhancedInv, a, b, top, n, U, V, W
  <2>7. CASE E!Call(c)
    <3>1. pc[c] = "idle" /\ l = "check"
      BY <2>2, <2>7 DEF E!Call, E!goto, EnhancedInv
    <3>2. QED
      BY <1>1, <1>2, <2>3, <2>4, <2>5, <2>7, <3>1 DEF E!Call
  <2>8. CASE E!CheckBudget(c)
    <3>1. PICK cost \in {0, currentCost}, count \in {0, retryCount} :
            /\ currentCost' = cost /\ retryCount' = count /\ calls' = calls
            /\ pc[c] = "check"
            /\ m' = [m EXCEPT !["attempts"] = @ + 1,
                              !["overBudget"] = IF E!withinBudget(cost, count) THEN @ ELSE @ + 1]
            /\ pc' = [pc EXCEPT ![c] = IF E!withinBudget(cost, count) THEN "run" ELSE "idle"]
      BY Zenon, <2>8 DEF E!CheckBudget, E!goto
    <3>2. CASE E!withinBudget(cost, count)
      <4>1. l = "run" /\ cost + Cost <= MaxCost /\ count < MaxRetriesPerHour
        BY <2>2, <3>1, <3>2 DEF E!withinBudget, EnhancedInv
      <4>2. Charged
        BY <1>1, <1>2, <2>3, <2>4, <2>5, <3>1, <4>1
      <4>3. Counted
        BY <1>1, <1>2, <2>3, <2>5, <3>1, <4>1
      <4>4. Conserved
        BY <1>2, <2>3, <2>5, <3>1, <3>2, <4>1 DEF E!Counters
      <4>5. QED
        BY <4>2, <4>3, <4>4
    <3>3. CASE ~E!withinBudget(cost, count)
      <4>1. l = "idle"
        BY <2>2, <3>1, <3>3 DEF EnhancedInv
      <4>2. Charged
        BY <1>1, <1>2, <2>3, <2>4, <2>5, <3>1, <4>1
      <4>3. Counted
        BY <1>1, <1>2, <2>3, <2>5, <3>1, <4>1
      <4>4. Conserved
        BY <1>2, <2>3, <2>5, <3>1, <3>3, <4>1 DEF E!Counters
      <4>5. QED
        BY <4>2, <4>3, <4>4
    <3>4. QED
      BY <3>2, <3>3
  <2>9. CASE E!AgentSucceeds(c)
    <3>1. pc[c] = "run" /\ l = "charge"
      BY <2>2, <2>9 DEF E!AgentSucceeds, E!goto, EnhancedInv
    <3>2. Charged /\ Counted
      BY <1>1, <1>2, <2>3, <2>4, <2>5, <2>9, <3>1 DEF E!AgentSucceeds
    <3>3. Conserved
      BY <1>2, <2>3, <2>5, <2>9, <3>1 DEF E!AgentSucceeds, E!Counters
    <3>4. QED
      BY <3>2, <3>3
  <2>10. CASE E!Charge(c)
    <3>1. pc[c] = "charge" /\ l = "idle"
      BY <2>2, <2>10 DEF E!Charge, E!goto, EnhancedInv
    <3>2. QED
      BY <1>1, <1>2, <2>3, <2>4, <2>5, <2>10, <3>1 DEF E!Charge
  <2>11. ASSUME NEW e \in E!Classes, E!AgentFails(c, e) PROVE Charged /\ Counted /\ Conserved
    <3>1. pc[c] = "run" /\ l = IF E!givesUp(c, e) THEN "idle" ELSE "count"
      BY <2>2, <2>11 DEF E!AgentFails, E!goto, EnhancedInv
    <3>2. CASE E!givesUp(c, e)
      BY <1>1, <1>2, <2>3, <2>4, <2>5, <2>11, <3>1, <3>2 DEF E!AgentFails, E!Counters
    <3>3. CASE ~E!givesUp(c, e)
      BY <1>1, <1>2, <2>3, <2>4, <2>5, <2>11, <3>1, <3>3 DEF E!AgentFails, E!Counters
    <3>4. QED
      BY <3>2, <3>3
  <2>12. CASE E!CountRetry(c)
    <3>1. pc[c] = "count" /\ l = "sleep"
      BY <2>2, <2>12 DEF E!CountRetry, E!goto, EnhancedInv
    <3>2. QED
      BY <1>1, <1>2, <2>3, <2>4, <2>5, <2>12, <3>1 DEF E!CountRetry
  <2>13. CASE E!BackoffOver(c)
    <3>1. pc[c] = "sleep" /\ l = IF attempt[c] < MaxRetries THEN "check" ELSE "idle"
      BY <2>2, <2>13 DEF E!BackoffOver, E!goto, EnhancedInv
    <3>2. QED
      BY <1>1, <1>2, <2>3, <2>4, <2>5, <2>13, <3>1 DEF E!BackoffOver, E!Counters
  <2>14. CASE E!Cancelled(c)
    <3>1. pc[c] = "sleep" /\ l = "idle"
      BY <2>2, <2>14 DEF E!Cancelled, E!goto, EnhancedInv
    <3>2. QED
      BY <1>1, <1>2, <2>3, <2>4, <2>5, <2>14, <3>1 DEF E!Cancelled, E!Counters
  <2>15. QED
    BY <1>3, <2>7, <2>8, <2>9, <2>10, <2>11, <2>12, <2>13, <2>14 DEF E!Process
<1>4. CASE E!HourPasses \/ UNCHANGED E!vars
  BY <1>4 DEF E!HourPasses, E!vars, EnhancedInv
<1>5. QED
  BY <1>3, <1>4 DEF E!Next

\* For any number of callers, any error strategies and any hourly budget: concurrent calls,
\* which check the budget before an attempt and charge it after, overrun it by at most one
\* attempt for each other caller; and every call ended in one way, counted once, or is under
\* way (EnhancedRetryDecorator.Process).
THEOREM RetryBudgetEnforced ==
    ASSUME E!EnhancedAssumption
    PROVE  E!Spec => [](E!BudgetOverrunBounded /\ E!MetricsConserved)
<1>1. /\ IsFiniteSet(Callers) /\ Cardinality(Callers) \in Nat \ {0} /\ MaxCost \in Nat
      /\ Cost \in Nat /\ MaxRetriesPerHour \in Nat
  BY EnhancedConstants
<1>2. E!Init => EnhancedInv
  <2> SUFFICES ASSUME E!Init PROVE EnhancedInv
    OBVIOUS
  <2>1. /\ At(pc, {"check", "run", "count", "sleep"}) = {} /\ At(pc, {"run", "charge"}) = {}
        /\ At(pc, {"run", "count"}) = {}
    BY DEF E!Init, At
  <2>2. (Cardinality(Callers) - 1) * Cost \in Nat
    BY <1>1, MoreCost
  <2>3. m \in [E!Counters -> Nat] /\ pc \in [Callers -> Points]
    BY DEF E!Init, Points
  <2>4. /\ Cardinality(At(pc, {"check", "run", "count", "sleep"})) = 0
        /\ Cardinality(At(pc, {"run", "charge"})) = 0 /\ Cardinality(At(pc, {"run", "count"})) = 0
    BY <2>1, FS_EmptySet
  <2>5. /\ calls = 0 /\ currentCost = 0 /\ retryCount = 0
        /\ \A k \in {"first", "onRetry", "failed", "overBudget", "cancelled"} : m[k] = 0
    BY DEF E!Init, E!Counters
  <2>6. calls = m["first"] + m["onRetry"] + m["failed"] + m["overBudget"] + m["cancelled"]
                + Cardinality(At(pc, {"check", "run", "count", "sleep"}))
    BY <2>4, <2>5
  <2>7. currentCost + Cardinality(At(pc, {"run", "charge"})) * Cost
          <= MaxCost + (Cardinality(Callers) - 1) * Cost
    BY <1>1, <2>2, <2>4, <2>5, 0 * Cost = 0
  <2>8. retryCount + Cardinality(At(pc, {"run", "count"}))
          <= MaxRetriesPerHour + Cardinality(Callers) - 1
    BY <1>1, <2>4, <2>5
  <2>9. QED
    BY <2>3, <2>5, <2>6, <2>7, <2>8 DEF EnhancedInv
<1>3. EnhancedInv /\ [E!Next]_E!vars => EnhancedInv'
  BY EnhancedStep
<1>4. EnhancedInv => E!BudgetOverrunBounded /\ E!MetricsConserved
  <2> SUFFICES ASSUME EnhancedInv PROVE E!BudgetOverrunBounded /\ E!MetricsConserved
    OBVIOUS
  <2>1. E!inCall = At(pc, {"check", "run", "count", "sleep"})
    BY DEF E!inCall, At, EnhancedInv, Points
  <2>2. \A P : Cardinality(At(pc, P)) \in Nat
    BY <1>1, FS_Subset, FS_CardinalityType DEF At
  <2>3. /\ Cardinality(At(pc, {"run", "charge"})) * Cost \in Nat
        /\ (Cardinality(Callers) - 1) * Cost \in Nat
    BY <1>1, <2>2, MoreCost
  <2>4. E!BudgetOverrunBounded
    <3>1. E!Cardinality(Callers) = Cardinality(Callers)
      BY DEF E!Cardinality, Cardinality
    <3>2. /\ currentCost <= MaxCost + (Cardinality(Callers) - 1) * Cost
          /\ retryCount <= MaxRetriesPerHour + Cardinality(Callers) - 1
      BY <1>1, <2>2, <2>3 DEF EnhancedInv
    <3>3. QED
      BY <3>1, <3>2 DEF E!BudgetOverrunBounded
  <2>5. QED
    BY <2>1, <2>4 DEF EnhancedInv, E!MetricsConserved, E!Cardinality, Cardinality
<1>5. QED
  BY <1>2, <1>3, <1>4, PTL DEF E!Spec

-----------------------------------------------------------------------------
(* The limiter of each user. *)

CONSTANTS MsgUser, NoUser, Units, Epsilon, Rate, Capacity, TokensPerRequest, MaxWaitTimeout,
          MaxGrants, user

VARIABLES buckets, wakeAt, result, seen, grants, allowedRequests, activeUsers

L == INSTANCE PerUserRateLimiterProofs

\* The limiter of one user, with what is proved of a limiter.  The variables that the
\* decorator adds to the bucket have no part in that.
Own == INSTANCE RateLimiterProofs WITH
    Callers <- L!CallersOf(user), tokens <- L!ownTokens(user), lastUpdate <- L!ownUpdate(user),
    pc <- L!ownPc(user), wakeAt <- L!ownWakeAt(user), result <- L!ownResult(user),
    seen <- L!ownSeen(user), grants <- grants[user],
    op <- "Process", streams <- 0, currentTokens <- 0

\* A step of the user's bucket, seen as one of the limiter that the proofs are about.
LEMMA OwnSteps ==
    ASSUME [L!Alone(user)!Next]_(L!Alone(user)!bucketVars) PROVE [Own!Next]_(Own!bucketVars)
  BY Zenon DEF Own!Next, Own!bucketVars, Own!TakeNow, Own!RefuseNow, Own!StartWait,
        Own!Cancelled, Own!WakeTake, Own!WakeRefuse, Own!Tick, Own!take, Own!refuse,
        Own!refilled, Own!waitDuration, Own!waitTooLong, Own!Needed, Own!Full,
        L!Alone!Next, L!Alone!bucketVars, L!Alone!TakeNow, L!Alone!RefuseNow, L!Alone!StartWait,
        L!Alone!Cancelled, L!Alone!WakeTake, L!Alone!WakeRefuse, L!Alone!Tick, L!Alone!take,
        L!Alone!refuse, L!Alone!refilled, L!Alone!waitDuration, L!Alone!waitTooLong,
        L!Alone!Needed, L!Alone!Full

\* Whatever the other users do, what a user was granted in any interval is bounded by the
\* capacity of its own bucket and what the rate adds (PerUserRateLimiterDecorator).
THEOREM EachUserBounded ==
    ASSUME L!UsersAssumption, user \in L!Users PROVE L!Spec => []Own!RateBound
<1>1. Own!IsFiniteSet(L!CallersOf(user))
  <2>0. IsFiniteSet(Callers)
    BY Zenon DEF L!UsersAssumption, L!IsFiniteSet, IsFiniteSet
  <2>1. IsFiniteSet(L!CallersOf(user))
    BY Zenon, <2>0, FS_Subset DEF L!CallersOf
  <2>2. QED
    BY Zenon, <2>1 DEF IsFiniteSet, Own!IsFiniteSet
<1>2. L!Init => Own!BucketInv
  <2>1. L!Init => Own!Init
    BY DEF L!Init, Own!Init, L!CallersOf, Own!Full, L!Full, L!ownTokens, L!ownUpdate,
           L!ownPc, L!ownWakeAt, L!ownResult, L!ownSeen
  <2>2. QED
    BY Zenon, <1>1, <2>1, Own!BucketInvInit DEF L!UsersAssumption
<1>3. L!BucketStep => [Own!Next]_(Own!bucketVars)
  BY Zenon, OwnSteps DEF L!BucketStep
<1>4. Own!BucketInv /\ [Own!Next]_(Own!bucketVars) => Own!BucketInv'
  BY Zenon, <1>1, Own!BucketInvStep DEF L!UsersAssumption
<1>5. Own!BucketInv => Own!RateBound
  BY Zenon DEF Own!BucketInv
<1>6. L!Init => L!UsersInv
  BY Zenon, L!UsersInit
<1>7. L!UsersInv /\ [L!Next]_(L!vars) => L!UsersInv' /\ L!BucketStep
  BY Zenon, L!UsersStep, L!UsersIndependent
<1>8. QED
  BY <1>2, <1>3, <1>4, <1>5, <1>6, <1>7, PTL DEF L!Spec

=============================================================================
