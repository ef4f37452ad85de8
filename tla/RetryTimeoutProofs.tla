------------------------- MODULE RetryTimeoutProofs -------------------------
(***************************************************************************)
(* Proofs about RetryTimeout for every set of requests, every number of    *)
(* attempts and every length of a stream: the metrics of Retry and of      *)
(* Timeout agree, retries are justified, and a stream is forwarded in      *)
(* order, completely, and recorded once.                                   *)
(***************************************************************************)
EXTENDS RetryTimeout, FiniteSetTheorems, TLAPS

-----------------------------------------------------------------------------
(* Retry around Timeout. *)

\* The calls of a request: those of the attempts before the current one ended with
\* an error that may be retried, those after it have not begun.
CallsInOrder ==
    \A r \in Requests :
        /\ rpc[r] = "idle" <=> attempt[r] = 0
        /\ \A i \in 1 .. MaxRetries :
             /\ i < attempt[r] => tpc[<<r, i>>] = "returned" /\ outcome[<<r, i>>] \in Retryable
             /\ i = attempt[r] => tpc[<<r, i>>] = IF rpc[r] = "attempting" THEN "select"
                                                                         ELSE "returned"
             /\ i > attempt[r] => tpc[<<r, i>>] = "idle"
             /\ i = attempt[r] /\ rpc[r] = "sleeping" =>
                  outcome[<<r, i>>] \in Retryable \ {"ok"} /\ i < MaxRetries
             /\ i = attempt[r] /\ rpc[r] = "returned" =>
                  (answer[r] = "ok" <=> outcome[<<r, i>>] = "ok")
        /\ rpc[r] # "returned" => answer[r] = "none"

\* The goroutine of a call runs from its start; its result waits in the channel as
\* long as Process is in the select.
GoroutineOfCall ==
    \A c \in Attempts :
        /\ agent[c] = "idle" <=> tpc[c] = "idle"
        /\ tpc[c] = "select" => agent[c] # "gone"

\* The inductive invariant.
RetryInv == TypeOK /\ CallsInOrder /\ GoroutineOfCall /\ MetricsAgree

\* The requests in one of the phases p.
In(p) == {r \in Requests : rpc[r] \in p}

\* The calls of a request that sleeps and gives up stay in order (CancelSleep, giveUp).
LEMMA GivenUpInOrder ==
    ASSUME CallsInOrder, NEW r \in Requests, rpc[r] = "sleeping",
           \A s \in Requests : /\ rpc'[s] = IF s = r THEN "returned" ELSE rpc[s]
                               /\ answer'[s] = IF s = r THEN "error" ELSE answer[s],
           UNCHANGED <<attempt, tpc, outcome>>
    PROVE  CallsInOrder'
  BY SMTT(30) DEF CallsInOrder

\* The counts of MetricsAgree when one request moves to another phase.
LEMMA PhaseCount ==
    ASSUME RetryAssumption, RetryTypeOK, NEW p
    PROVE  /\ Cardinality(In(p)) \in Nat
           /\ rpc' = rpc => Cardinality(In(p)') = Cardinality(In(p))
           /\ \A r \in Requests : \A q :
                rpc' = [rpc EXCEPT ![r] = q] =>
                  /\ q \in p /\ rpc[r] \notin p => Cardinality(In(p)') = Cardinality(In(p)) + 1
                  /\ q \notin p /\ rpc[r] \in p => Cardinality(In(p)') = Cardinality(In(p)) - 1
                  /\ q \notin p /\ rpc[r] \notin p => Cardinality(In(p)') = Cardinality(In(p))
<1>1. IsFiniteSet(In(p))
  BY FS_Subset DEF In, RetryAssumption
<1>2. Cardinality(In(p)) \in Nat
  BY <1>1, FS_CardinalityType
<1>3. ASSUME NEW r \in Requests, NEW q, rpc' = [rpc EXCEPT ![r] = q]
      PROVE  /\ q \in p /\ rpc[r] \notin p => Cardinality(In(p)') = Cardinality(In(p)) + 1
             /\ q \notin p /\ rpc[r] \in p => Cardinality(In(p)') = Cardinality(In(p)) - 1
             /\ q \notin p /\ rpc[r] \notin p => Cardinality(In(p)') = Cardinality(In(p))
  <2>1. CASE q \in p /\ rpc[r] \notin p
    <3>1. In(p)' = In(p) \cup {r} /\ r \notin In(p)
      BY <1>3, <2>1 DEF In, RetryTypeOK
    <3>2. QED
      BY Zenon, <1>1, <2>1, <3>1, FS_AddElement
  <2>2. CASE q \notin p /\ rpc[r] \in p
    <3>1. In(p)' = In(p) \ {r} /\ r \in In(p)
      BY <1>3, <2>2 DEF In, RetryTypeOK
    <3>2. QED
      BY Zenon, <1>1, <2>2, <3>1, FS_RemoveElement
  <2>3. CASE q \notin p /\ rpc[r] \notin p
    <3>1. In(p)' = In(p)
      BY <1>3, <2>3 DEF In, RetryTypeOK
    <3>2. QED
      BY <2>3, <3>1
  <2>4. QED
    BY <2>1, <2>2, <2>3
<1>4. QED
  BY <1>2, <1>3 DEF In

\* The metrics in terms of the two counts.
LEMMA AgreeCounts ==
    MetricsAgree <=>
       /\ totalAttempts = totalRequests + Cardinality(In({"attempting"}))
       /\ successfulRequests = successfulFirstAttempt + successfulOnRetry
       /\ totalRequests = successfulRequests + timedOutRequests + failedRequests
       /\ successfulFirstAttempt + successfulOnRetry + failedAfterRetries
            = Cardinality(In({"returned"}))
BY DEF MetricsAgree, In

\* Before the first call the invariant holds: every counter is 0.
LEMMA RetryInvInit == ASSUME RetryAssumption, Init PROVE RetryInv
<1>1. TypeOK
  BY DEF Init, RetryInit, TimeoutInit, TypeOK, RetryTypeOK, TimeoutTypeOK, RetryAssumption
<1>2. CallsInOrder
  BY DEF Init, RetryInit, TimeoutInit, CallsInOrder, RetryAssumption, Attempts
<1>3. GoroutineOfCall
  BY DEF Init, TimeoutInit, GoroutineOfCall
<1>4. MetricsAgree
  <2>1. In({"attempting"}) = {} /\ In({"returned"}) = {}
    BY DEF Init, RetryInit, In
  <2>2. Cardinality(In({"attempting"})) = 0 /\ Cardinality(In({"returned"})) = 0
    BY <2>1, FS_EmptySet
  <2>3. /\ totalAttempts = 0 /\ totalRequests = 0 /\ successfulRequests = 0
        /\ successfulFirstAttempt = 0 /\ successfulOnRetry = 0 /\ timedOutRequests = 0
        /\ failedRequests = 0 /\ failedAfterRetries = 0
    BY DEF Init, RetryInit, TimeoutInit
  <2>4. QED
    BY <2>2, <2>3, AgreeCounts
<1>5. QED
  BY <1>1, <1>2, <1>3, <1>4 DEF RetryInv

\* The types of the counters, one by one.
LEMMA CounterTypes ==
    ASSUME TypeOK
    PROVE  /\ totalAttempts \in Nat /\ totalRetries \in Nat /\ successfulFirstAttempt \in Nat
           /\ successfulOnRetry \in Nat /\ failedAfterRetries \in Nat
           /\ totalRequests \in Nat /\ successfulRequests \in Nat
           /\ timedOutRequests \in Nat /\ failedRequests \in Nat
BY DEF TypeOK, RetryTypeOK, TimeoutTypeOK

\* A request starts its next attempt, which is a call of its own (Begin, TryAgain).
LEMMA AttemptStarts ==
    ASSUME RetryAssumption, RetryInv, NEW r \in Requests, NEW done \in BOOLEAN,
           rpc[r] \in {"idle", "sleeping"}, attempt[r] < MaxRetries,
           startAttempt(r), BeginCall(<<r, attempt[r] + 1>>, done),
           backoff' \in [Requests -> Nat],
           UNCHANGED <<answer, cancelled, totalRetries, successfulFirstAttempt,
                       successfulOnRetry, failedAfterRetries>>
    PROVE  RetryInv'
<1>1. TypeOK /\ RetryTypeOK /\ TimeoutTypeOK /\ CallsInOrder /\ GoroutineOfCall /\ MetricsAgree
  BY DEF RetryInv, TypeOK
<1> DEFINE n == attempt[r] + 1
           c == <<r, n>>
<1>2. n \in 1 .. MaxRetries /\ c \in Attempts /\ attempt[r] \in Nat
  BY <1>1 DEF RetryTypeOK, RetryAssumption, Attempts
<1>3. /\ rpc' \in [Requests -> {"idle", "attempting", "sleeping", "returned"}]
      /\ attempt' \in [Requests -> 0 .. MaxRetries]
      /\ \A s \in Requests : rpc'[s] = IF s = r THEN "attempting" ELSE rpc[s]
      /\ \A s \in Requests : attempt'[s] = IF s = r THEN n ELSE attempt[s]
  BY <1>1, <1>2 DEF startAttempt, RetryTypeOK
<1>4. /\ tpc' \in [Attempts -> {"idle", "select", "returned"}]
      /\ agent' \in [Attempts -> {"idle", "running", "gone", "ok"} \cup AgentErrors]
      /\ ctx' \in [Attempts -> {"live", "expired", "cancelled"}]
      /\ \A d \in Attempts : tpc'[d] = IF d = c THEN "select" ELSE tpc[d]
      /\ \A d \in Attempts : agent'[d] = IF d = c THEN "running" ELSE agent[d]
      /\ outcome' = outcome /\ UNCHANGED timeoutMetrics
  BY <1>1, <1>2 DEF BeginCall, TimeoutTypeOK
<1>5. TypeOK'
  <2>1. totalAttempts' \in Nat
    BY <1>1, CounterTypes DEF startAttempt
  <2>2. QED
    BY <1>1, <1>3, <1>4, <2>1 DEF TypeOK, RetryTypeOK, TimeoutTypeOK, timeoutMetrics
<1>6. CallsInOrder'
  <2>1. ASSUME NEW s \in Requests, NEW i \in 1 .. MaxRetries
        PROVE  <<s, i>> \in Attempts /\ (<<s, i>> = c <=> s = r /\ i = n)
    BY DEF Attempts
  <2>2. answer' = answer /\ answer[r] = "none"
    BY <1>1 DEF CallsInOrder
  <2>3. \A i \in 1 .. MaxRetries : i < n =>
           tpc[<<r, i>>] = "returned" /\ outcome[<<r, i>>] \in Retryable
    BY <1>1, <1>2 DEF CallsInOrder
  <2>4. ASSUME NEW s \in Requests
        PROVE  /\ rpc'[s] = "idle" <=> attempt'[s] = 0
               /\ rpc'[s] # "returned" => answer'[s] = "none"
    BY <1>1, <1>2, <1>3, <2>2 DEF CallsInOrder
  <2>5. ASSUME NEW s \in Requests, NEW i \in 1 .. MaxRetries
        PROVE  /\ i < attempt'[s] =>
                    tpc'[<<s, i>>] = "returned" /\ outcome'[<<s, i>>] \in Retryable
               /\ i = attempt'[s] =>
                    tpc'[<<s, i>>] = IF rpc'[s] = "attempting" THEN "select" ELSE "returned"
               /\ i > attempt'[s] => tpc'[<<s, i>>] = "idle"
               /\ i = attempt'[s] /\ rpc'[s] = "sleeping" =>
                    outcome'[<<s, i>>] \in Retryable \ {"ok"} /\ i < MaxRetries
               /\ i = attempt'[s] /\ rpc'[s] = "returned" =>
                    (answer'[s] = "ok" <=> outcome'[<<s, i>>] = "ok")
    <3>1. CASE s = r
      BY <1>1, <1>2, <1>3, <1>4, <2>1, <2>3, <3>1 DEF CallsInOrder
    <3>2. CASE s # r
      <4>1. tpc'[<<s, i>>] = tpc[<<s, i>>] /\ rpc'[s] = rpc[s] /\ attempt'[s] = attempt[s]
        BY <1>3, <1>4, <2>1, <3>2
      <4>2. QED
        BY <1>1, <1>4, <2>2, <4>1 DEF CallsInOrder
    <3>3. QED
      BY <3>1, <3>2
  <2>6. QED
    BY <2>4, <2>5 DEF CallsInOrder
<1>7. GoroutineOfCall'
  BY <1>1, <1>4 DEF GoroutineOfCall
<1>8. MetricsAgree'
  <2>1. rpc' = [rpc EXCEPT ![r] = "attempting"] /\ totalAttempts' = totalAttempts + 1
    BY DEF startAttempt
  <2>2. /\ Cardinality(In({"attempting"})') = Cardinality(In({"attempting"})) + 1
        /\ Cardinality(In({"attempting"})) \in Nat
    BY Zenon, <1>1, <2>1, PhaseCount
  <2>3. Cardinality(In({"returned"})') = Cardinality(In({"returned"}))
    <3>1. rpc[r] \notin {"returned"} /\ "attempting" \notin {"returned"}
      OBVIOUS
    <3>2. QED
      BY Zenon, <1>1, <2>1, <3>1, PhaseCount
  <2>4. QED
    BY <1>1, <1>4, <2>1, <2>2, <2>3, CounterTypes DEF timeoutMetrics, In, MetricsAgree
<1>9. QED
  BY <1>5, <1>6, <1>7, <1>8 DEF RetryInv

\* The current call of an attempt: it is in its select.
LEMMA CurrentCall ==
    ASSUME RetryAssumption, RetryInv, NEW r \in Requests, rpc[r] = "attempting"
    PROVE  /\ Current(r) \in Attempts /\ attempt[r] \in 1 .. MaxRetries
           /\ tpc[Current(r)] = "select" /\ agent[Current(r)] \notin {"idle", "gone"}
<1>1. attempt[r] \in 0 .. MaxRetries /\ attempt[r] # 0
  BY DEF RetryInv, TypeOK, RetryTypeOK, CallsInOrder
<1>2. attempt[r] \in 1 .. MaxRetries
  BY <1>1 DEF RetryAssumption
<1>3. Current(r) \in Attempts
  BY <1>2 DEF Current, Attempts
<1>4. QED
  BY <1>2, <1>3 DEF RetryInv, CallsInOrder, GoroutineOfCall, Current

\* The call of Timeout returns o into the loop of Retry, which succeeds, gives up or
\* goes to sleep: both sets of metrics move together.
LEMMA AttemptEnded ==
    ASSUME RetryAssumption, RetryInv, NEW r \in Requests, NEW o \in Outcomes,
           rpc[r] = "attempting", finish(Current(r), o),
           (o = "ok" /\ Succeed(r)) \/ (o # "ok" /\ Fail(r, o))
    PROVE  RetryInv'
<1>1. TypeOK /\ RetryTypeOK /\ TimeoutTypeOK /\ CallsInOrder /\ GoroutineOfCall /\ MetricsAgree
  BY DEF RetryInv, TypeOK
<1>2. /\ Current(r) \in Attempts /\ attempt[r] \in 1 .. MaxRetries
      /\ tpc[Current(r)] = "select" /\ agent[Current(r)] \notin {"idle", "gone"}
  BY CurrentCall
<1>3. /\ tpc' \in [Attempts -> {"idle", "select", "returned"}]
      /\ outcome' \in [Attempts -> {"none"} \cup Outcomes]
      /\ \A d \in Attempts : tpc'[d] = IF d = Current(r) THEN "returned" ELSE tpc[d]
      /\ \A d \in Attempts : outcome'[d] = IF d = Current(r) THEN o ELSE outcome[d]
      /\ agent' = agent /\ ctx' = ctx
  BY <1>1, <1>2 DEF finish, TimeoutTypeOK
<1>4. PICK q \in {"sleeping", "returned"} :
        /\ rpc' = [rpc EXCEPT ![r] = q]
        /\ q = "sleeping" =>
             o \in Retryable /\ o # "ok" /\ attempt[r] < MaxRetries /\ answer' = answer
        /\ q = "returned" => answer' = [answer EXCEPT ![r] = IF o = "ok" THEN "ok" ELSE "error"]
        /\ attempt' = attempt /\ backoff' = backoff /\ cancelled' = cancelled
  BY DEF Succeed, Fail, giveUp, mayRetry
<1>5. /\ totalAttempts' = totalAttempts
      /\ totalRetries' = totalRetries \/ totalRetries' = totalRetries + 1
      /\ o = "ok" => /\ successfulFirstAttempt' + successfulOnRetry'
                            = successfulFirstAttempt + successfulOnRetry + 1
                     /\ failedAfterRetries' = failedAfterRetries
                     /\ rpc' = [rpc EXCEPT ![r] = "returned"]
      /\ o # "ok" => /\ successfulFirstAttempt' = successfulFirstAttempt
                     /\ successfulOnRetry' = successfulOnRetry
                     /\ \/ /\ failedAfterRetries' = failedAfterRetries + 1
                           /\ rpc' = [rpc EXCEPT ![r] = "returned"]
                        \/ /\ failedAfterRetries' = failedAfterRetries
                           /\ rpc' = [rpc EXCEPT ![r] = "sleeping"]
      /\ successfulFirstAttempt' \in Nat /\ successfulOnRetry' \in Nat
      /\ failedAfterRetries' \in Nat
  BY <1>1, CounterTypes DEF Succeed, Fail, giveUp
<1>6. /\ totalRequests' = totalRequests + 1
      /\ successfulRequests' = successfulRequests + (IF o = "ok" THEN 1 ELSE 0)
      /\ timedOutRequests' = timedOutRequests + (IF o = "timeout" THEN 1 ELSE 0)
      /\ failedRequests' = failedRequests + (IF o \in AgentErrors THEN 1 ELSE 0)
  BY DEF finish, Record
<1>7. TypeOK'
  <2>1. /\ rpc' \in [Requests -> {"idle", "attempting", "sleeping", "returned"}]
        /\ answer' \in [Requests -> {"none", "ok", "error"}]
    BY <1>1, <1>4 DEF RetryTypeOK
  <2>2. /\ totalRetries' \in Nat /\ totalRequests' \in Nat /\ successfulRequests' \in Nat
        /\ timedOutRequests' \in Nat /\ failedRequests' \in Nat
    BY <1>1, <1>5, <1>6, CounterTypes
  <2>3. RetryTypeOK'
    BY <1>1, <1>4, <1>5, <2>1, <2>2 DEF RetryTypeOK
  <2>4. TimeoutTypeOK'
    BY <1>1, <1>3, <2>2 DEF TimeoutTypeOK
  <2>5. QED
    BY <2>3, <2>4 DEF TypeOK
<1>8. CallsInOrder'
  <2>1. ASSUME NEW s \in Requests, NEW i \in 1 .. MaxRetries
        PROVE  /\ <<s, i>> \in Attempts
               /\ (<<s, i>> = Current(r) <=> s = r /\ i = attempt[r])
    BY DEF Attempts, Current
  <2>2. \A s \in Requests : rpc'[s] = IF s = r THEN q ELSE rpc[s]
    BY <1>1, <1>4 DEF RetryTypeOK
  <2>3. ASSUME NEW s \in Requests
        PROVE  /\ rpc'[s] = "idle" <=> attempt'[s] = 0
               /\ rpc'[s] # "returned" => answer'[s] = "none"
    BY <1>1, <1>2, <1>4, <2>2 DEF CallsInOrder, RetryTypeOK
  <2>4. ASSUME NEW s \in Requests, NEW i \in 1 .. MaxRetries
        PROVE  /\ i < attempt'[s] =>
                    tpc'[<<s, i>>] = "returned" /\ outcome'[<<s, i>>] \in Retryable
               /\ i = attempt'[s] =>
                    tpc'[<<s, i>>] = IF rpc'[s] = "attempting" THEN "select" ELSE "returned"
               /\ i > attempt'[s] => tpc'[<<s, i>>] = "idle"
               /\ i = attempt'[s] /\ rpc'[s] = "sleeping" =>
                    outcome'[<<s, i>>] \in Retryable \ {"ok"} /\ i < MaxRetries
               /\ i = attempt'[s] /\ rpc'[s] = "returned" =>
                    (answer'[s] = "ok" <=> outcome'[<<s, i>>] = "ok")
    <3>1. CASE s = r /\ i = attempt[r]
      <4>1. /\ tpc'[<<s, i>>] = "returned" /\ outcome'[<<s, i>>] = o /\ rpc'[s] = q
            /\ attempt'[s] = i
            /\ q = "returned" => answer'[s] = IF o = "ok" THEN "ok" ELSE "error"
        BY SMTT(30), <1>1, <1>3, <1>4, <2>1, <2>2, <3>1 DEF RetryTypeOK
      <4>2. QED
        BY <1>2, <1>4, <3>1, <4>1
    <3>2. CASE s = r /\ i # attempt[r]
      <4>1. tpc'[<<s, i>>] = tpc[<<s, i>>] /\ outcome'[<<s, i>>] = outcome[<<s, i>>]
        BY Zenon, <1>3, <2>1, <3>2
      <4>2. QED
        BY SMTT(30), <1>1, <1>4, <3>2, <4>1 DEF CallsInOrder
    <3>3. CASE s # r
      <4>1. /\ tpc'[<<s, i>>] = tpc[<<s, i>>] /\ outcome'[<<s, i>>] = outcome[<<s, i>>]
            /\ rpc'[s] = rpc[s] /\ answer'[s] = answer[s]
        BY <1>1, <1>3, <1>4, <2>1, <2>2, <3>3 DEF RetryTypeOK
      <4>2. QED
        BY SMTT(30), <1>1, <1>4, <4>1 DEF CallsInOrder
    <3>4. QED
      BY <3>1, <3>2, <3>3
  <2>5. QED
    BY <2>3, <2>4 DEF CallsInOrder
<1>9. GoroutineOfCall'
  BY <1>1, <1>2, <1>3 DEF GoroutineOfCall
<1>10. MetricsAgree'
  <2>1. /\ Cardinality(In({"attempting"})') = Cardinality(In({"attempting"})) - 1
        /\ Cardinality(In({"attempting"})) \in Nat
    <3>1. q \notin {"attempting"} /\ rpc[r] \in {"attempting"}
      OBVIOUS
    <3>2. QED
      BY Zenon, <1>1, <1>4, <3>1, PhaseCount
  <2>2. /\ rpc' = [rpc EXCEPT ![r] = "returned"] =>
              Cardinality(In({"returned"})') = Cardinality(In({"returned"})) + 1
        /\ rpc' = [rpc EXCEPT ![r] = "sleeping"] =>
              Cardinality(In({"returned"})') = Cardinality(In({"returned"}))
    <3>1. /\ "returned" \in {"returned"} /\ "sleeping" \notin {"returned"}
          /\ rpc[r] \notin {"returned"}
      OBVIOUS
    <3>2. QED
      BY <1>1, <3>1, PhaseCount
  <2>3. /\ Cardinality(In({"returned"})) \in Nat
        /\ o = "ok" \/ o = "timeout" \/ o \in AgentErrors
        /\ ~(o \in AgentErrors /\ (o = "ok" \/ o = "timeout"))
    BY <1>1, PhaseCount DEF Outcomes, RetryAssumption
  <2> DEFINE running == Cardinality(In({"attempting"}))
             running1 == Cardinality(In({"attempting"})')
             ended == Cardinality(In({"returned"}))
             ended1 == Cardinality(In({"returned"})')
  <2>4. /\ totalAttempts = totalRequests + running
        /\ successfulRequests = successfulFirstAttempt + successfulOnRetry
        /\ totalRequests = successfulRequests + timedOutRequests + failedRequests
        /\ successfulFirstAttempt + successfulOnRetry + failedAfterRetries = ended
    BY <1>1, AgreeCounts
  <2>5. ended1 = ended + (failedAfterRetries' - failedAfterRetries) + (IF o = "ok" THEN 1 ELSE 0)
    BY <1>1, <1>5, <2>2, <2>3, CounterTypes
  <2>6. /\ totalAttempts' = totalRequests' + running1
        /\ successfulRequests' = successfulFirstAttempt' + successfulOnRetry'
        /\ totalRequests' = successfulRequests' + timedOutRequests' + failedRequests'
        /\ successfulFirstAttempt' + successfulOnRetry' + failedAfterRetries' = ended1
    <3> HIDE DEF running, running1, ended, ended1
    <3>1. running1 = running - 1 /\ running \in Nat /\ ended \in Nat
      BY <2>1, <2>3 DEF running, running1, ended
    <3>2. QED
      BY <1>1, <1>5, <1>6, <2>3, <2>4, <2>5, <3>1, CounterTypes
  <2>7. QED
    BY <2>6 DEF MetricsAgree, In
<1>11. QED
  BY <1>7, <1>8, <1>9, <1>10 DEF RetryInv

\* A step that only a goroutine, a deadline or a context takes.
LEMMA CallMoves ==
    ASSUME RetryAssumption, RetryInv,
           UNCHANGED <<rpc, attempt, backoff, answer, retryMetrics, tpc, outcome,
                       timeoutMetrics>>,
           cancelled' \in [Requests -> BOOLEAN],
           ctx' \in [Attempts -> {"live", "expired", "cancelled"}],
           agent' \in [Attempts -> {"idle", "running", "gone", "ok"} \cup AgentErrors],
           GoroutineOfCall'
    PROVE  RetryInv'
<1>1. TypeOK /\ CallsInOrder /\ MetricsAgree
  BY DEF RetryInv
<1>2. TypeOK'
  BY <1>1 DEF TypeOK, RetryTypeOK, TimeoutTypeOK, retryMetrics, timeoutMetrics
<1>3. CallsInOrder'
  BY <1>1 DEF CallsInOrder
<1>4. MetricsAgree'
  BY <1>1 DEF MetricsAgree, retryMetrics, timeoutMetrics
<1>5. QED
  BY <1>2, <1>3, <1>4 DEF RetryInv

\* Every step of the loops, of the calls, of the goroutines and of the contexts.
LEMMA RetryStep == ASSUME RetryAssumption, RetryInv, [Next]_vars PROVE RetryInv'
<1>1. TypeOK /\ RetryTypeOK /\ TimeoutTypeOK /\ CallsInOrder /\ GoroutineOfCall /\ MetricsAgree
  BY DEF RetryInv, TypeOK
<1>2. ASSUME NEW r \in Requests, Begin(r) PROVE RetryInv'
  <2>1. /\ attempt[r] = 0 /\ attempt[r] < MaxRetries /\ cancelled[r] \in BOOLEAN
        /\ attempt[r] + 1 = 1 /\ backoff' \in [Requests -> Nat]
    BY <1>1, <1>2 DEF Begin, Start, CallsInOrder, RetryTypeOK, RetryAssumption
  <2>2. BeginCall(<<r, attempt[r] + 1>>, cancelled[r])
    BY <1>2, <2>1 DEF Begin
  <2>3. QED
    BY <1>2, <2>1, <2>2, AttemptStarts DEF Begin, Start
<1>3. ASSUME NEW r \in Requests, TryAgain(r) PROVE RetryInv'
  <2>1. attempt[r] \in 1 .. MaxRetries /\ cancelled[r] \in BOOLEAN
    BY <1>1, <1>3 DEF TryAgain, Wake, CallsInOrder, RetryTypeOK, RetryAssumption
  <2>2. attempt[r] < MaxRetries
    BY Zenon, <1>1, <1>3, <2>1 DEF TryAgain, Wake, CallsInOrder
  <2>3. backoff' \in [Requests -> Nat]
    <3>1. \A b \in Nat : nextBackoff(b) \in Nat
      BY DEF nextBackoff, RetryAssumption
    <3>2. QED
      BY <1>1, <1>3, <3>1 DEF TryAgain, Wake, RetryTypeOK
  <2>4. QED
    BY <1>3, <2>1, <2>2, <2>3, AttemptStarts DEF TryAgain, Wake
<1>4. ASSUME NEW r \in Requests, AttemptEnds(r) PROVE RetryInv'
  <2>1. /\ Current(r) \in Attempts /\ agent[Current(r)] \notin {"idle", "gone"}
        /\ rpc[r] = "attempting"
    BY <1>4, CurrentCall DEF AttemptEnds
  <2>2. PICK o : /\ finish(Current(r), o)
                 /\ o = "timeout" \/ (o = agent[Current(r)] /\ agent[Current(r)] # "running")
    BY <1>4 DEF AttemptEnds, TakeResult, TakeDone
  <2>3. o \in Outcomes
    BY <1>1, <2>1, <2>2 DEF TimeoutTypeOK, Outcomes
  <2>4. outcome'[Current(r)] = o
    BY <1>1, <2>1, <2>2 DEF finish, TimeoutTypeOK
  <2>5. (o = "ok" /\ Succeed(r)) \/ (o # "ok" /\ Fail(r, o))
    BY <1>4, <2>4 DEF AttemptEnds
  <2>6. QED
    BY <2>1, <2>2, <2>3, <2>5, AttemptEnded
<1>5. ASSUME NEW r \in Requests, GiveUp(r) PROVE RetryInv'
  <2>1. /\ rpc[r] = "sleeping" /\ rpc' = [rpc EXCEPT ![r] = "returned"]
        /\ answer' = [answer EXCEPT ![r] = "error"]
        /\ failedAfterRetries' = failedAfterRetries + 1
        /\ UNCHANGED <<attempt, backoff, cancelled, totalAttempts, totalRetries,
                       successfulFirstAttempt, successfulOnRetry, timeoutVars>>
    BY <1>5 DEF GiveUp, CancelSleep, giveUp
  <2>2. TypeOK'
    <3>1. RetryTypeOK'
      BY <1>1, <2>1, CounterTypes DEF RetryTypeOK
    <3>2. TimeoutTypeOK'
      BY Zenon, <1>1, <2>1 DEF TimeoutTypeOK, timeoutVars
    <3>3. QED
      BY <3>1, <3>2 DEF TypeOK
  <2>3. CallsInOrder'
    <3>1. \A s \in Requests : /\ rpc'[s] = IF s = r THEN "returned" ELSE rpc[s]
                              /\ answer'[s] = IF s = r THEN "error" ELSE answer[s]
      BY <1>1, <2>1 DEF RetryTypeOK
    <3>2. UNCHANGED <<attempt, tpc, outcome>>
      BY Zenon, <2>1 DEF timeoutVars
    <3>3. QED
      BY Zenon, <1>1, <2>1, <3>1, <3>2, GivenUpInOrder
  <2>4. GoroutineOfCall'
    BY <1>1, <2>1 DEF GoroutineOfCall, timeoutVars
  <2>5. MetricsAgree'
    <3>1. /\ "returned" \in {"returned"} /\ rpc[r] \notin {"returned"}
          /\ "returned" \notin {"attempting"} /\ rpc[r] \notin {"attempting"}
      BY <2>1
    <3>2. /\ Cardinality(In({"returned"})') = Cardinality(In({"returned"})) + 1
          /\ Cardinality(In({"returned"})) \in Nat
      BY Zenon, <1>1, <2>1, <3>1, PhaseCount
    <3>3. Cardinality(In({"attempting"})') = Cardinality(In({"attempting"}))
      BY Zenon, <1>1, <2>1, <3>1, PhaseCount
    <3>4. QED
      BY <1>1, <2>1, <3>2, <3>3, CounterTypes DEF MetricsAgree, In, timeoutVars
  <2>6. QED
    BY <2>2, <2>3, <2>4, <2>5 DEF RetryInv
<1>6. ASSUME NEW r \in Requests, CancelRequest(r) PROVE RetryInv'
  <2>1. /\ cancelled' \in [Requests -> BOOLEAN]
        /\ ctx' \in [Attempts -> {"live", "expired", "cancelled"}]
    BY <1>1, <1>6 DEF CancelRequest, Cancel, CancelParent, RetryTypeOK, TimeoutTypeOK
  <2>2. QED
    BY <1>1, <1>6, <2>1, CallMoves
       DEF CancelRequest, Cancel, CancelParent, TimeoutTypeOK, GoroutineOfCall
<1>7. ASSUME NEW r \in Requests, Expire(r) PROVE RetryInv'
  <2>1. ctx' \in [Attempts -> {"live", "expired", "cancelled"}]
    BY Zenon, <1>1, <1>7 DEF Expire, ExpireCall, TimeoutTypeOK
  <2>2. QED
    BY <1>1, <1>7, <2>1, CallMoves
       DEF Expire, ExpireCall, retryVars, RetryTypeOK, TimeoutTypeOK, GoroutineOfCall
<1>8. ASSUME NEW r \in Requests, NEW i \in 1 .. MaxRetries,
             NEW res \in {"ok"} \cup AgentErrors, AgentReturns(r, i, res)
      PROVE  RetryInv'
  <2>1. <<r, i>> \in Attempts /\ res # "idle" /\ res # "gone"
    BY DEF Attempts, RetryAssumption
  <2>2. /\ agent' \in [Attempts -> {"idle", "running", "gone", "ok"} \cup AgentErrors]
        /\ \A d \in Attempts : agent'[d] = IF d = <<r, i>> THEN
                                  IF tpc[d] = "returned" THEN "gone" ELSE res ELSE agent[d]
        /\ agent[<<r, i>>] = "running" /\ tpc' = tpc
    BY <1>1, <1>8, <2>1 DEF AgentReturns, CallReturns, TimeoutTypeOK
  <2>3. GoroutineOfCall'
    BY <1>1, <2>1, <2>2 DEF GoroutineOfCall
  <2>4. QED
    BY <1>1, <1>8, <2>2, <2>3, CallMoves
       DEF AgentReturns, CallReturns, retryVars, RetryTypeOK, TimeoutTypeOK
<1>9. CASE UNCHANGED vars
  BY <1>1, <1>9, CallMoves
     DEF vars, retryVars, retryMetrics, timeoutVars, timeoutMetrics, RetryTypeOK,
         TimeoutTypeOK, GoroutineOfCall
<1>10. QED
  BY <1>2, <1>3, <1>4, <1>5, <1>6, <1>7, <1>8, <1>9 DEF Next

\* The retries of a request are justified by the invariant.
LEMMA RetryProperties == ASSUME RetryAssumption, RetryInv PROVE RetriesJustified
<1>1. ASSUME NEW r \in Requests
      PROVE  /\ \A i \in 1 .. attempt[r] - 1 : outcome[<<r, i>>] \in Retryable
             /\ answer[r] = "ok" <=> rpc[r] = "returned" /\ outcome[Current(r)] = "ok"
             /\ \A i \in attempt[r] + 1 .. MaxRetries : agent[<<r, i>>] = "idle"
  <2>1. attempt[r] \in 0 .. MaxRetries /\ MaxRetries \in Nat
    BY DEF RetryInv, TypeOK, RetryTypeOK, RetryAssumption
  <2>2. \A i \in 1 .. attempt[r] - 1 : i \in 1 .. MaxRetries /\ i < attempt[r]
    BY <2>1
  <2>3. \A i \in attempt[r] + 1 .. MaxRetries :
           i \in 1 .. MaxRetries /\ i > attempt[r] /\ <<r, i>> \in Attempts
    BY <2>1 DEF Attempts
  <2>4. rpc[r] = "returned" => attempt[r] \in 1 .. MaxRetries
    BY <2>1 DEF RetryInv, CallsInOrder
  <2>5. answer[r] = "ok" <=> rpc[r] = "returned" /\ outcome[Current(r)] = "ok"
    BY <2>4 DEF RetryInv, CallsInOrder, Current
  <2>6. \A i \in attempt[r] + 1 .. MaxRetries : agent[<<r, i>>] = "idle"
    BY <2>3 DEF RetryInv, CallsInOrder, GoroutineOfCall
  <2>7. QED
    BY <2>2, <2>5, <2>6 DEF RetryInv, CallsInOrder
<1>2. QED
  BY <1>1 DEF RetriesJustified

\* Retry and Timeout count every attempt and every request alike, whatever the
\* goroutines of abandoned attempts do.
THEOREM MetricsTogether == ASSUME RetryAssumption PROVE Spec => []MetricsAgree
<1>1. Init => RetryInv
  BY RetryInvInit
<1>2. RetryInv /\ [Next]_vars => RetryInv'
  BY RetryStep
<1>3. RetryInv => MetricsAgree
  BY DEF RetryInv
<1>4. QED
  BY <1>1, <1>2, <1>3, PTL DEF Spec

\* A request is tried again only after an error that ShouldRetry accepts, and its
\* answer is that of its last attempt.
THEOREM RetriesAreJustified == ASSUME RetryAssumption PROVE Spec => []RetriesJustified
<1>1. Init => RetryInv
  BY RetryInvInit
<1>2. RetryInv /\ [Next]_vars => RetryInv'
  BY RetryStep
<1>3. RetryInv => RetriesJustified
  BY RetryProperties
<1>4. QED
  BY <1>1, <1>2, <1>3, PTL DEF Spec

-----------------------------------------------------------------------------
(* The stream of Timeout. *)

\* The messages the proxy has taken from the source: those read by the caller, those
\* in the caller's channel and the one it holds.
Taken == Len(received) + Len(outMsg) + (IF held = 0 THEN 0 ELSE 1)

\* Each message stands at its place, from the source through the proxy to the caller.
InPlace ==
    /\ \A i \in 1 .. Len(received) : received[i] = i
    /\ \A i \in 1 .. Len(outMsg) : outMsg[i] = Len(received) + i
    /\ held # 0 => held = Len(received) + Len(outMsg) + 1
    /\ \A i \in 1 .. Len(sourceMsg) : sourceMsg[i] = Taken + i
    /\ sent = Taken + Len(sourceMsg)

\* What the proxy knows at each of its control points.
ProxyState ==
    /\ pc = "select" => held = 0
    /\ pc = "forward" => held # 0
    /\ pc # "done" => (sourceErr <=> errSent) /\ recorded = <<>> /\ outErr = "none"
    /\ pc = "done" => \/ recorded = <<"success">> /\ outErr = "none"
                      \/ recorded = <<"timeout">> /\ outErr = "timeout"
                      \/ recorded = <<"failure">> /\ outErr = "error"
    /\ recorded = <<"success">> => held = 0 /\ sourceMsg = <<>> /\ ~errSent /\ msgClosed

\* The inductive invariant.
StreamInv == StreamTypeOK /\ InPlace /\ ProxyState

\* Before Stream is called nothing was sent, forwarded or recorded.
LEMMA StreamInitInv == ASSUME StreamAssumption, StreamInit PROVE StreamInv
<1>1. StreamTypeOK
  <2>1. {msgClosed, sourceErr, errSent, errClosed} \subseteq BOOLEAN
    BY Zenon DEF StreamInit
  <2>2. /\ <<>> \in Seq(1 .. MaxMessages) /\ Len(<<>>) = 0
        /\ <<>> \in Seq({"success", "timeout", "failure"})
    OBVIOUS
  <2>3. QED
    BY <2>1, <2>2 DEF StreamInit, StreamTypeOK, StreamAssumption
<1>2. InPlace
  BY DEF StreamInit, InPlace, Taken
<1>3. ProxyState
  BY DEF StreamInit, ProxyState
<1>4. QED
  BY <1>1, <1>2, <1>3 DEF StreamInv

\* Sending and receiving on a buffered channel.
LEMMA SendReceive ==
    ASSUME NEW S, NEW s \in Seq(S)
    PROVE  /\ Len(s) \in Nat
           /\ \A e \in S : /\ Append(s, e) \in Seq(S) /\ Len(Append(s, e)) = Len(s) + 1
                           /\ \A i \in 1 .. Len(s) : Append(s, e)[i] = s[i]
                           /\ Append(s, e)[Len(s) + 1] = e
           /\ s # <<>> => /\ Len(s) > 0 /\ Head(s) = s[1] /\ Head(s) \in S
                          /\ Tail(s) \in Seq(S) /\ Len(Tail(s)) = Len(s) - 1
                          /\ \A i \in 1 .. Len(s) - 1 : Tail(s)[i] = s[i + 1]
  OBVIOUS

\* The steps of the agent, the clock and the caller.
LEMMA AroundProxy ==
    ASSUME StreamAssumption, StreamInv,
           \/ Produce \/ ProduceError \/ CloseSource \/ ExpireStream \/ CancelStream
           \/ Receive \/ UNCHANGED streamVars
    PROVE  StreamInv'
<1>1. StreamTypeOK /\ InPlace /\ ProxyState
  BY DEF StreamInv
<1>2. /\ Len(received) \in Nat /\ Len(outMsg) \in Nat /\ Len(sourceMsg) \in Nat
      /\ Taken \in Nat /\ sent \in 0 .. MaxMessages /\ held \in 0 .. MaxMessages
  BY <1>1 DEF StreamTypeOK, Taken, StreamAssumption
<1>3. CASE Produce
  <2>1. sent + 1 \in 1 .. MaxMessages
    BY <1>2, <1>3 DEF Produce, StreamAssumption
  <2>2. /\ sourceMsg' \in Seq(1 .. MaxMessages) /\ Len(sourceMsg') = Len(sourceMsg) + 1
        /\ \A i \in 1 .. Len(sourceMsg) : sourceMsg'[i] = sourceMsg[i]
        /\ sourceMsg'[Len(sourceMsg) + 1] = sent + 1
    BY <1>1, <1>3, <2>1, SendReceive DEF Produce, StreamTypeOK
  <2>3. StreamTypeOK'
    BY <1>1, <1>2, <1>3, <2>1, <2>2 DEF Produce, StreamTypeOK, StreamAssumption
  <2>4. InPlace'
    <3>1. Taken' = Taken
      BY <1>3 DEF Produce, Taken
    <3>2. ASSUME NEW i \in 1 .. Len(sourceMsg') PROVE sourceMsg'[i] = Taken' + i
      <4>1. i \in 1 .. Len(sourceMsg) \/ i = Len(sourceMsg) + 1
        BY <1>2, <2>2
      <4>2. sent = Taken + Len(sourceMsg)
        BY <1>1 DEF InPlace
      <4>3. CASE i \in 1 .. Len(sourceMsg)
        BY <1>1, <2>2, <3>1, <4>3 DEF InPlace
      <4>4. CASE i = Len(sourceMsg) + 1
        BY <1>2, <2>2, <3>1, <4>2, <4>4
      <4>5. QED
        BY <4>1, <4>3, <4>4
    <3>3. sent' = Taken' + Len(sourceMsg')
      BY <1>1, <1>2, <1>3, <2>2, <3>1 DEF Produce, InPlace
    <3>4. QED
      BY <1>1, <1>3, <3>2, <3>3 DEF Produce, InPlace
  <2>5. ProxyState'
    BY <1>1, <1>3 DEF Produce, ProxyState
  <2>6. QED
    BY <2>3, <2>4, <2>5 DEF StreamInv
<1>4. CASE ProduceError
  <2>1. StreamTypeOK'
    BY <1>1, <1>4 DEF ProduceError, StreamTypeOK
  <2>2. InPlace'
    BY <1>1, <1>4 DEF ProduceError, InPlace, Taken
  <2>3. ProxyState'
    BY <1>1, <1>4 DEF ProduceError, ProxyState
  <2>4. QED
    BY <2>1, <2>2, <2>3 DEF StreamInv
<1>5. CASE CloseSource
  <2>1. StreamTypeOK'
    BY Zenon, <1>1, <1>5 DEF CloseSource, StreamTypeOK
  <2>2. InPlace'
    BY <1>1, <1>5 DEF CloseSource, InPlace, Taken
  <2>3. ProxyState'
    BY <1>1, <1>5 DEF CloseSource, ProxyState
  <2>4. QED
    BY <2>1, <2>2, <2>3 DEF StreamInv
<1>6. CASE ExpireStream \/ CancelStream \/ UNCHANGED streamVars
  <2>1. StreamTypeOK'
    BY <1>1, <1>6 DEF ExpireStream, CancelStream, streamVars, srcVars, StreamTypeOK
  <2>2. InPlace'
    <3>1. UNCHANGED <<sent, sourceMsg, held, outMsg, received>>
      BY <1>6 DEF ExpireStream, CancelStream, streamVars, srcVars
    <3>2. QED
      BY <1>1, <3>1 DEF InPlace, Taken
  <2>3. ProxyState'
    <3>1. UNCHANGED <<sourceMsg, msgClosed, sourceErr, errSent, pc, held, outErr, recorded>>
      BY Zenon, <1>6 DEF ExpireStream, CancelStream, streamVars, srcVars
    <3>2. QED
      BY Zenon, <1>1, <3>1 DEF ProxyState
  <2>4. QED
    BY <2>1, <2>2, <2>3 DEF StreamInv
<1>7. CASE Receive
  <2>1. /\ outMsg' \in Seq(1 .. MaxMessages) /\ Len(outMsg') = Len(outMsg) - 1
        /\ \A i \in 1 .. Len(outMsg) - 1 : outMsg'[i] = outMsg[i + 1]
        /\ Head(outMsg) = outMsg[1] /\ Head(outMsg) \in 1 .. MaxMessages /\ Len(outMsg) > 0
    BY Zenon, <1>1, <1>7, SendReceive DEF Receive, StreamTypeOK
  <2>2. /\ received' \in Seq(1 .. MaxMessages) /\ Len(received') = Len(received) + 1
        /\ \A i \in 1 .. Len(received) : received'[i] = received[i]
        /\ received'[Len(received) + 1] = outMsg[1]
    BY <1>1, <1>7, <2>1, SendReceive DEF Receive, StreamTypeOK
  <2>3. StreamTypeOK'
    BY <1>1, <1>2, <1>7, <2>1, <2>2
       DEF Receive, srcVars, StreamTypeOK, StreamAssumption
  <2>4. InPlace'
    BY <1>1, <1>2, <1>7, <2>1, <2>2 DEF Receive, srcVars, InPlace, Taken
  <2>5. ProxyState'
    BY <1>1, <1>7 DEF Receive, srcVars, ProxyState
  <2>6. QED
    BY <2>3, <2>4, <2>5 DEF StreamInv
<1>8. QED
  BY <1>3, <1>4, <1>5, <1>6, <1>7

\* The proxy stops: the outcome is recorded and the caller told.
LEMMA ProxyEnds ==
    ASSUME StreamAssumption, StreamInv, NEW o \in {"success", "timeout", "failure"},
           pc # "done", end(o), sourceErr' \in BOOLEAN,
           UNCHANGED <<sent, sourceMsg, msgClosed, errSent, errClosed, ctx, held, outMsg,
                       received>>,
           o = "success" => held = 0 /\ sourceMsg = <<>> /\ ~errSent /\ msgClosed
    PROVE  StreamInv'
<1>1. StreamTypeOK /\ InPlace /\ ProxyState
  BY DEF StreamInv
<1>2. /\ pc' = "done" /\ recorded' = <<o>>
      /\ o = "success" => outErr' = "none"
      /\ o = "timeout" => outErr' = "timeout"
      /\ o = "failure" => outErr' = "error"
  BY <1>1 DEF end, ProxyState
<1>3. StreamTypeOK'
  BY <1>1, <1>2 DEF StreamTypeOK
<1>4. InPlace'
  BY <1>1 DEF InPlace, Taken
<1>5. ProxyState'
  <2>1. recorded' = <<"success">> => o = "success"
    BY <1>2
  <2>2. QED
    BY <1>2, <2>1 DEF ProxyState
<1>6. QED
  BY <1>3, <1>4, <1>5 DEF StreamInv

\* Every step of the agent, the proxy, the deadline and the caller keeps the messages in place.
LEMMA StreamStep == ASSUME StreamAssumption, StreamInv, [StreamNext]_streamVars PROVE StreamInv'
<1>1. StreamTypeOK /\ InPlace /\ ProxyState /\ sourceErr \in BOOLEAN /\ FALSE \in BOOLEAN
  BY DEF StreamInv, StreamTypeOK
<1>2. /\ Len(received) \in Nat /\ Len(outMsg) \in Nat /\ Len(sourceMsg) \in Nat
      /\ Taken \in Nat /\ held \in 0 .. MaxMessages
  BY <1>1 DEF StreamTypeOK, Taken, StreamAssumption
<1>3. CASE ReadMessage
  <2>1. /\ sourceMsg' \in Seq(1 .. MaxMessages) /\ Len(sourceMsg') = Len(sourceMsg) - 1
        /\ \A i \in 1 .. Len(sourceMsg) - 1 : sourceMsg'[i] = sourceMsg[i + 1]
        /\ held' = sourceMsg[1] /\ held' \in 1 .. MaxMessages /\ Len(sourceMsg) > 0
    BY Zenon, <1>1, <1>3, SendReceive DEF ReadMessage, StreamTypeOK
  <2>2. held = 0 /\ recorded = <<>>
    BY <1>1, <1>3 DEF ReadMessage, ProxyState
  <2>3. StreamTypeOK'
    BY <1>1, <1>2, <1>3, <2>1 DEF ReadMessage, StreamTypeOK, StreamAssumption
  <2>4. InPlace'
    <3>1. Taken = Len(received) + Len(outMsg) /\ Taken' = Taken + 1 /\ held' = Taken + 1
      <4>1. Taken = Len(received) + Len(outMsg)
        BY <1>2, <2>2 DEF Taken
      <4>2. held' # 0 /\ received' = received /\ outMsg' = outMsg
        BY <1>3, <2>1 DEF ReadMessage
      <4>3. sourceMsg[1] = Taken + 1
        BY <1>1, <1>2, <2>1 DEF InPlace
      <4>4. QED
        BY <1>2, <2>1, <4>1, <4>2, <4>3 DEF Taken
    <3>2. \A i \in 1 .. Len(sourceMsg') : sourceMsg'[i] = Taken' + i
      BY <1>1, <1>2, <2>1, <3>1 DEF InPlace
    <3>3. sent' = Taken' + Len(sourceMsg')
      BY <1>1, <1>2, <1>3, <2>1, <3>1 DEF ReadMessage, InPlace
    <3>4. QED
      BY <1>1, <1>3, <3>1, <3>2, <3>3 DEF ReadMessage, InPlace
  <2>5. ProxyState'
    BY <1>1, <1>3, <2>1, <2>2 DEF ReadMessage, ProxyState, StreamAssumption
  <2>6. QED
    BY <2>3, <2>4, <2>5 DEF StreamInv
<1>4. CASE Forward
  <2>1. held \in 1 .. MaxMessages /\ recorded = <<>>
    BY <1>1, <1>2, <1>4 DEF Forward, ProxyState, StreamAssumption
  <2>2. /\ outMsg' \in Seq(1 .. MaxMessages) /\ Len(outMsg') = Len(outMsg) + 1
        /\ \A i \in 1 .. Len(outMsg) : outMsg'[i] = outMsg[i]
        /\ outMsg'[Len(outMsg) + 1] = held
    BY <1>1, <1>4, <2>1, SendReceive DEF Forward, StreamTypeOK
  <2>3. StreamTypeOK'
    BY <1>1, <1>2, <1>4, <2>2 DEF Forward, srcVars, StreamTypeOK, StreamAssumption
  <2>4. InPlace'
    <3>1. Taken' = Taken /\ held = Len(received) + Len(outMsg) + 1 /\ held' = 0
      BY <1>1, <1>2, <1>4, <2>1, <2>2 DEF Forward, InPlace, Taken, StreamAssumption
    <3>2. ASSUME NEW i \in 1 .. Len(outMsg') PROVE outMsg'[i] = Len(received) + i
      <4>1. i \in 1 .. Len(outMsg) \/ i = Len(outMsg) + 1
        BY <1>2, <2>2
      <4>2. CASE i \in 1 .. Len(outMsg)
        BY <1>1, <2>2, <4>2 DEF InPlace
      <4>3. CASE i = Len(outMsg) + 1
        BY <1>2, <2>2, <3>1, <4>3
      <4>4. QED
        BY <4>1, <4>2, <4>3
    <3>3. QED
      BY <1>1, <1>4, <3>1, <3>2 DEF Forward, srcVars, InPlace
  <2>5. ProxyState'
    BY <1>1, <1>4, <2>1 DEF Forward, srcVars, ProxyState
  <2>6. QED
    BY <2>3, <2>4, <2>5 DEF StreamInv
<1>5. CASE MessagesEnd
  <2>1. CASE ~sourceErr
    <3>1. end("success") /\ held = 0 /\ sourceMsg = <<>> /\ ~errSent /\ msgClosed
      BY <1>1, <1>5, <2>1 DEF MessagesEnd, ProxyState
    <3>2. QED
      BY Zenon, <1>1, <1>5, <3>1, ProxyEnds DEF MessagesEnd
  <2>2. CASE sourceErr
    <3>1. PICK o \in {"timeout", "failure"} : end(o)
      BY <1>5, <2>2 DEF MessagesEnd
    <3>2. QED
      BY Zenon, <1>1, <1>5, <3>1, ProxyEnds DEF MessagesEnd
  <2>3. QED
    BY <1>1, <2>1, <2>2
<1>6. CASE ReadError
  <2>1. PICK o \in {"timeout", "failure"} : end(o)
    BY <1>6 DEF ReadError
  <2>2. QED
    BY Zenon, <1>1, <1>6, <2>1, ProxyEnds DEF ReadError
<1>7. CASE TimedOut
  BY <1>1, <1>7, ProxyEnds DEF TimedOut, srcVars
<1>8. QED
  BY <1>3, <1>4, <1>5, <1>6, <1>7, AroundProxy DEF StreamNext, Proxy

\* A sequence is a function on its indices.
LEMMA SequenceIsFunction == ASSUME NEW S, NEW s \in Seq(S) PROVE s \in [1 .. Len(s) -> S]
OBVIOUS

\* What the invariant says in the terms of the runs.
LEMMA StreamProperties ==
    ASSUME StreamAssumption, StreamInv PROVE InOrderAndComplete /\ RecordedOnce
<1>1. StreamTypeOK /\ InPlace /\ ProxyState
  BY DEF StreamInv
<1> DEFINE n == Len(received) + Len(outMsg)
<1>2. received \o outMsg = [i \in 1 .. n |-> i]
  <2>1. received \in Seq(1 .. MaxMessages) /\ outMsg \in Seq(1 .. MaxMessages)
    BY <1>1 DEF StreamTypeOK
  <2>2. /\ Len(received) \in Nat /\ Len(outMsg) \in Nat
        /\ received \o outMsg \in Seq(1 .. MaxMessages) /\ Len(received \o outMsg) = n
    BY <2>1
  <2>3. \A i \in 1 .. n :
           (received \o outMsg)[i] = IF i <= Len(received) THEN received[i]
                                                         ELSE outMsg[i - Len(received)]
    BY <2>1
  <2>4. \A i \in 1 .. n : (received \o outMsg)[i] = i
    BY <1>1, <2>2, <2>3 DEF InPlace
  <2>5. received \o outMsg \in [1 .. n -> 1 .. MaxMessages]
    BY Zenon, <2>2, SequenceIsFunction
  <2>6. QED
    BY Zenon, <2>4, <2>5
<1>3. recorded = <<"success">> => n = sent /\ ~errSent /\ msgClosed
  BY <1>1 DEF InPlace, ProxyState, Taken, StreamTypeOK
<1>4. RecordedOnce
  <2>1. /\ Len(<<>>) = 0 /\ Len(<<"success">>) = 1 /\ Len(<<"timeout">>) = 1
        /\ Len(<<"failure">>) = 1
        /\ <<"timeout">> \notin {<<>>, <<"success">>} /\ <<"failure">> \notin {<<>>, <<"success">>}
    OBVIOUS
  <2>2. QED
    BY <1>1, <2>1 DEF ProxyState, RecordedOnce
<1>5. QED
  BY <1>2, <1>3, <1>4 DEF InOrderAndComplete

\* What the caller of a stream gets is what the agent sent, in order and without gaps,
\* and all of it when success is recorded, for every capacity of the channels.
THEOREM StreamsComplete == ASSUME StreamAssumption PROVE StreamSpec => []InOrderAndComplete
<1>1. StreamInit => StreamInv
  BY StreamInitInv
<1>2. StreamInv /\ [StreamNext]_streamVars => StreamInv'
  BY StreamStep
<1>3. StreamInv => InOrderAndComplete
  BY StreamProperties
<1>4. QED
  BY <1>1, <1>2, <1>3, PTL DEF StreamSpec

\* A stream is recorded once, and the caller is told what was recorded.
THEOREM StreamsRecorded == ASSUME StreamAssumption PROVE StreamSpec => []RecordedOnce
<1>1. StreamInit => StreamInv
  BY StreamInitInv
<1>2. StreamInv /\ [StreamNext]_streamVars => StreamInv'
  BY StreamStep
<1>3. StreamInv => RecordedOnce
  BY StreamProperties
<1>4. QED
  BY <1>1, <1>2, <1>3, PTL DEF StreamSpec

=============================================================================
