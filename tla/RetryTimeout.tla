---------------------------- MODULE RetryTimeout ----------------------------
(***************************************************************************)
(* middleware/retry.go and middleware/timeout.go: the loop of attempts of  *)
(* Retry, the call with a deadline of Timeout, the one around the other,   *)
(* and the stream of Timeout.                                              *)
(***************************************************************************)
EXTENDS Integers, FiniteSets, Sequences

-----------------------------------------------------------------------------
(***************************************************************************)
(* middleware/retry.go: RetryDecorator.Process, the loop of attempts with  *)
(* exponential backoff.  How an attempt ends is a parameter of the action  *)
(* that handles it.  Several requests share the metrics.                   *)
(***************************************************************************)

CONSTANTS
    Requests,
    MaxRetries,            \* attempts, not retries
    InitialRetryDelay, MaxRetryDelay, RetryMultiplier,
    Retryable              \* the errors for which ShouldRetry holds

VARIABLES
    rpc,           \* per request: idle, attempting, sleeping, returned
    attempt, backoff,
    answer,        \* per request: what Process returned
    cancelled,     \* per request: its context is done
    totalAttempts, totalRetries,
    successfulFirstAttempt, successfulOnRetry, failedAfterRetries

retryMetrics == <<totalAttempts, totalRetries, successfulFirstAttempt,
                  successfulOnRetry, failedAfterRetries>>
retryVars == <<rpc, attempt, backoff, answer, cancelled, retryMetrics>>

RetryTypeOK ==
    /\ rpc \in [Requests -> {"idle", "attempting", "sleeping", "returned"}]
    /\ attempt \in [Requests -> 0 .. MaxRetries]
    /\ backoff \in [Requests -> Nat]
    /\ answer \in [Requests -> {"none", "ok", "error"}]
    /\ cancelled \in [Requests -> BOOLEAN]
    /\ \A n \in {totalAttempts, totalRetries, successfulFirstAttempt,
                 successfulOnRetry, failedAfterRetries} : n \in Nat

RetryInit ==
    /\ rpc = [r \in Requests |-> "idle"] /\ attempt = [r \in Requests |-> 0]
    /\ backoff = [r \in Requests |-> InitialRetryDelay]
    /\ answer = [r \in Requests |-> "none"]
    /\ cancelled = [r \in Requests |-> FALSE]
    /\ totalAttempts = 0 /\ totalRetries = 0 /\ successfulFirstAttempt = 0
    /\ successfulOnRetry = 0 /\ failedAfterRetries = 0

\* The top of the loop.
startAttempt(r) ==
    /\ rpc' = [rpc EXCEPT ![r] = "attempting"]
    /\ attempt' = [attempt EXCEPT ![r] = @ + 1]
    /\ totalAttempts' = totalAttempts + 1

Start(r) ==
    /\ rpc[r] = "idle"
    /\ startAttempt(r)
    /\ UNCHANGED <<backoff, answer, cancelled, totalRetries, successfulFirstAttempt,
                   successfulOnRetry, failedAfterRetries>>

Succeed(r) ==
    /\ rpc[r] = "attempting"
    /\ rpc' = [rpc EXCEPT ![r] = "returned"]
    /\ answer' = [answer EXCEPT ![r] = "ok"]
    /\ IF attempt[r] = 1
       THEN successfulFirstAttempt' = successfulFirstAttempt + 1 /\ UNCHANGED successfulOnRetry
       ELSE successfulOnRetry' = successfulOnRetry + 1 /\ UNCHANGED successfulFirstAttempt
    /\ UNCHANGED <<attempt, backoff, cancelled, totalAttempts, totalRetries, failedAfterRetries>>

\* FailedAfterRetries, then the error is returned.
giveUp(r) ==
    /\ rpc' = [rpc EXCEPT ![r] = "returned"]
    /\ answer' = [answer EXCEPT ![r] = "error"]
    /\ failedAfterRetries' = failedAfterRetries + 1
    /\ UNCHANGED <<attempt, backoff, cancelled, totalAttempts, totalRetries,
                   successfulFirstAttempt, successfulOnRetry>>

\* Fault: ShouldRetry is not asked.
mayRetry_Always(r, e) == attempt[r] < MaxRetries

mayRetry(r, e) == e \in Retryable /\ attempt[r] < MaxRetries

\* An attempt failed with error e: not worth retrying, the last one, or sleep.
Fail(r, e) ==
    /\ rpc[r] = "attempting"
    /\ \/ ~mayRetry(r, e) /\ giveUp(r)
       \/ /\ mayRetry(r, e)
          /\ totalRetries' = totalRetries + 1
          /\ rpc' = [rpc EXCEPT ![r] = "sleeping"]
          /\ UNCHANGED <<attempt, backoff, answer, cancelled, totalAttempts,
                         successfulFirstAttempt, successfulOnRetry, failedAfterRetries>>

CancelSleep(r) ==
    /\ rpc[r] = "sleeping" /\ cancelled[r]
    /\ giveUp(r)

nextBackoff(b) ==
    IF b * RetryMultiplier > MaxRetryDelay THEN MaxRetryDelay ELSE b * RetryMultiplier

\* time.After(backoff) fires; it may win against ctx.Done.
Wake(r) ==
    /\ rpc[r] = "sleeping"
    /\ backoff' = [backoff EXCEPT ![r] = nextBackoff(@)]
    /\ startAttempt(r)
    /\ UNCHANGED <<answer, cancelled, totalRetries, successfulFirstAttempt,
                   successfulOnRetry, failedAfterRetries>>

Cancel(r) ==
    /\ rpc[r] \in {"attempting", "sleeping"} /\ ~cancelled[r]
    /\ cancelled' = [cancelled EXCEPT ![r] = TRUE]
    /\ UNCHANGED <<rpc, attempt, backoff, answer, retryMetrics>>

-----------------------------------------------------------------------------
(***************************************************************************)
(* middleware/timeout.go: TimeoutDecorator.Process.                        *)
(*                                                                         *)
(* The agent runs in a goroutine of its own; Process waits for its result  *)
(* or for the deadline, whichever the select picks, and abandons the       *)
(* goroutine in the second case.  The buffered channel lets an abandoned   *)
(* goroutine end.  Durations are left out.                                 *)
(***************************************************************************)

CONSTANTS
    AgentErrors     \* the errors the agent can return

\* The constructor replaces limits that are not positive by defaults; an error of the
\* agent is not mistaken for a timeout or for a state of the call.
RetryAssumption ==
    /\ IsFiniteSet(Requests) /\ MaxRetries \in Nat \ {0}
    /\ InitialRetryDelay \in Nat /\ MaxRetryDelay \in Nat /\ RetryMultiplier \in Nat
    /\ AgentErrors \cap {"ok", "timeout", "none", "idle", "running", "gone"} = {}

VARIABLES
    tpc,            \* per call: idle, in the select, returned
    agent,          \* per call: the goroutine's state, or the result it sent
    ctx,            \* per call: timeoutCtx is live, expired or cancelled
    outcome,        \* per call: what Process returned
    totalRequests, successfulRequests, timedOutRequests, failedRequests

Attempts == Requests \X (1 .. MaxRetries)

timeoutMetrics == <<totalRequests, successfulRequests, timedOutRequests, failedRequests>>
Outcomes == {"ok", "timeout"} \cup AgentErrors

TimeoutTypeOK ==
    /\ tpc \in [Attempts -> {"idle", "select", "returned"}]
    /\ agent \in [Attempts -> {"idle", "running", "gone", "ok"} \cup AgentErrors]
    /\ ctx \in [Attempts -> {"live", "expired", "cancelled"}]
    /\ outcome \in [Attempts -> {"none"} \cup Outcomes]
    /\ \A n \in {totalRequests, successfulRequests, timedOutRequests, failedRequests} : n \in Nat

TimeoutInit ==
    /\ tpc = [c \in Attempts |-> "idle"] /\ agent = [c \in Attempts |-> "idle"]
    /\ ctx = [c \in Attempts |-> "live"] /\ outcome = [c \in Attempts |-> "none"]
    /\ totalRequests = 0 /\ successfulRequests = 0
    /\ timedOutRequests = 0 /\ failedRequests = 0

\* context.WithTimeout of a context that may be done already.
BeginCall(c, parentDone) ==
    /\ tpc[c] = "idle"
    /\ tpc' = [tpc EXCEPT ![c] = "select"]
    /\ agent' = [agent EXCEPT ![c] = "running"]
    /\ ctx' = [ctx EXCEPT ![c] = IF parentDone THEN "cancelled" ELSE "live"]
    /\ UNCHANGED <<outcome, timeoutMetrics>>

\* done <- result: also long after Process has returned, when nobody reads it.
CallReturns(c, r) ==
    /\ agent[c] = "running"
    /\ agent' = [agent EXCEPT ![c] = IF tpc[c] = "returned" THEN "gone" ELSE r]
    /\ UNCHANGED <<tpc, ctx, outcome, timeoutMetrics>>

ExpireCall(c) ==
    /\ tpc[c] = "select" /\ ctx[c] = "live"
    /\ ctx' = [ctx EXCEPT ![c] = "expired"]
    /\ UNCHANGED <<tpc, agent, outcome, timeoutMetrics>>

\* The parent context of the calls in C is cancelled.
CancelParent(C) ==
    /\ ctx' = [c \in Attempts |->
                 IF c \in C /\ tpc[c] = "select" /\ ctx[c] = "live" THEN "cancelled" ELSE ctx[c]]
    /\ UNCHANGED <<tpc, agent, outcome, timeoutMetrics>>

\* Fault: a timeout is recorded as a failure as well.
Record_Twice(o) ==
    /\ totalRequests' = totalRequests + 1
    /\ successfulRequests' = successfulRequests + (IF o = "ok" THEN 1 ELSE 0)
    /\ timedOutRequests' = timedOutRequests + (IF o = "timeout" THEN 1 ELSE 0)
    /\ failedRequests' = failedRequests + (IF o # "ok" THEN 1 ELSE 0)

\* RecordSuccess, RecordTimeout, RecordFailure.
Record(o) ==
    /\ totalRequests' = totalRequests + 1
    /\ successfulRequests' = successfulRequests + (IF o = "ok" THEN 1 ELSE 0)
    /\ timedOutRequests' = timedOutRequests + (IF o = "timeout" THEN 1 ELSE 0)
    /\ failedRequests' = failedRequests + (IF o \in AgentErrors THEN 1 ELSE 0)

finish(c, o) ==
    /\ tpc' = [tpc EXCEPT ![c] = "returned"]
    /\ outcome' = [outcome EXCEPT ![c] = o]
    /\ Record(o)
    /\ UNCHANGED <<agent, ctx>>

\* The select picks done; an error after the deadline is taken for its effect.
TakeResult(c) ==
    /\ tpc[c] = "select" /\ agent[c] \notin {"idle", "running"}
    /\ finish(c, IF agent[c] # "ok" /\ ctx[c] = "expired" THEN "timeout" ELSE agent[c])

\* Fault: the call waits for the goroutine after the deadline.
TakeDone_Waits(c) ==
    /\ tpc[c] = "select" /\ ctx[c] # "live" /\ agent[c] # "running"
    /\ finish(c, "timeout")

\* The select picks timeoutCtx.Done(): a cancelled parent reads as a timeout.
TakeDone(c) ==
    /\ tpc[c] = "select" /\ ctx[c] # "live"
    /\ finish(c, "timeout")

-----------------------------------------------------------------------------
(***************************************************************************)
(* RetryDecorator around TimeoutDecorator around an agent: every attempt   *)
(* of Retry is a call of Timeout, and what that call returns is how the    *)
(* attempt ends.  An attempt that timed out leaves its goroutine behind,   *)
(* running the same request while the next attempt runs it again.          *)
(***************************************************************************)

timeoutVars == <<tpc, agent, ctx, outcome, totalRequests, successfulRequests,
                 timedOutRequests, failedRequests>>
vars == <<retryVars, timeoutVars>>

TypeOK == RetryTypeOK /\ TimeoutTypeOK

Init == RetryInit /\ TimeoutInit

Current(r) == <<r, attempt[r]>>

Begin(r) == Start(r) /\ BeginCall(<<r, 1>>, cancelled[r])

TryAgain(r) == Wake(r) /\ BeginCall(<<r, attempt[r] + 1>>, cancelled[r])

\* Process of Timeout returns into the loop of Retry.
AttemptEnds(r) ==
    /\ rpc[r] = "attempting"
    /\ TakeResult(Current(r)) \/ TakeDone(Current(r))
    /\ \/ outcome'[Current(r)] = "ok" /\ Succeed(r)
       \/ outcome'[Current(r)] # "ok" /\ Fail(r, outcome'[Current(r)])

GiveUp(r) == CancelSleep(r) /\ UNCHANGED timeoutVars

CancelRequest(r) == Cancel(r) /\ CancelParent({<<r, i>> : i \in 1 .. MaxRetries})

AgentReturns(r, i, res) == CallReturns(<<r, i>>, res) /\ UNCHANGED retryVars

Expire(r) == rpc[r] = "attempting" /\ ExpireCall(Current(r)) /\ UNCHANGED retryVars

Next ==
    \E r \in Requests :
        \/ Begin(r) \/ TryAgain(r) \/ AttemptEnds(r) \/ GiveUp(r) \/ CancelRequest(r)
        \/ Expire(r)
        \/ \E i \in 1 .. MaxRetries, res \in {"ok"} \cup AgentErrors : AgentReturns(r, i, res)

Spec == Init /\ [][Next]_vars

-----------------------------------------------------------------------------
(* Properties. *)

\* The two sets of metrics tell the same story: each attempt Retry counts is
\* counted once by Timeout when it ends, each success of the one is a success
\* of the other, and every request that was started succeeded, failed or runs.
MetricsAgree ==
    LET In(p) == Cardinality({r \in Requests : rpc[r] \in p})
    IN /\ totalAttempts = totalRequests + In({"attempting"})
       /\ successfulRequests = successfulFirstAttempt + successfulOnRetry
       /\ totalRequests = successfulRequests + timedOutRequests + failedRequests
       /\ successfulFirstAttempt + successfulOnRetry + failedAfterRetries = In({"returned"})

\* A request is tried again only after an error that ShouldRetry accepts, at
\* most MaxRetries times in all, and never after a success; the answer is that
\* of its last attempt, whatever abandoned attempts return later.
RetriesJustified ==
    \A r \in Requests :
        /\ \A i \in 1 .. attempt[r] - 1 : outcome[<<r, i>>] \in Retryable
        /\ answer[r] = "ok" <=> rpc[r] = "returned" /\ outcome[Current(r)] = "ok"
        /\ \A i \in attempt[r] + 1 .. MaxRetries : agent[<<r, i>>] = "idle"

-----------------------------------------------------------------------------
(***************************************************************************)
(* middleware/timeout.go: TimeoutDecorator.Stream, the proxy goroutine     *)
(* between the wrapped agent's channels and the caller's.  Messages are    *)
(* numbered in the order the agent sends them.  The agent sends at most    *)
(* one error, before it closes its channels; it may also hang, and the     *)
(* caller may stop reading.                                                *)
(***************************************************************************)

CONSTANTS
    MaxMessages,     \* bound on the messages of the source
    SourceCap,       \* buffer of the source's channel
    OutCap           \* buffer of outMsgCh, 10 in the code

StreamAssumption == MaxMessages \in Nat /\ SourceCap \in Nat /\ OutCap \in Nat

VARIABLES
    sent,            \* messages the agent has sent so far
    sourceMsg, msgClosed,\* sourceMsgCh
    sourceErr, errSent, errClosed,\* sourceErrCh: a pending error
    pc,              \* the proxy: select, forward, done
    held,            \* the message being forwarded
    outMsg, outErr,  \* outMsgCh and what was sent on outErrCh
    received,        \* messages the caller has read
    recorded         \* outcomes recorded in the metrics, in order

srcVars == <<sent, sourceMsg, msgClosed, sourceErr, errSent, errClosed>>
streamVars == <<srcVars, ctx, pc, held, outMsg, outErr, received, recorded>>

StreamTypeOK ==
    /\ sent \in 0 .. MaxMessages
    /\ sourceMsg \in Seq(1 .. MaxMessages) /\ Len(sourceMsg) <= SourceCap
    /\ outMsg \in Seq(1 .. MaxMessages) /\ Len(outMsg) <= OutCap
    /\ received \in Seq(1 .. MaxMessages)
    /\ {msgClosed, sourceErr, errSent, errClosed} \subseteq BOOLEAN
    /\ ctx \in {"live", "expired", "cancelled"}
    /\ pc \in {"select", "forward", "done"}
    /\ held \in 0 .. MaxMessages
    /\ outErr \in {"none", "timeout", "error"}
    /\ recorded \in Seq({"success", "timeout", "failure"})

StreamInit ==
    /\ sent = 0 /\ sourceMsg = <<>> /\ msgClosed = FALSE
    /\ sourceErr = FALSE /\ errSent = FALSE /\ errClosed = FALSE /\ ctx = "live"
    /\ pc = "select" /\ held = 0 /\ outMsg = <<>> /\ outErr = "none"
    /\ received = <<>> /\ recorded = <<>>

-----------------------------------------------------------------------------
(* The wrapped agent, the clock and the caller. *)

Produce ==
    /\ sent < MaxMessages /\ Len(sourceMsg) < SourceCap /\ ~msgClosed /\ ~errSent
    /\ sent' = sent + 1 /\ sourceMsg' = Append(sourceMsg, sent + 1)
    /\ UNCHANGED <<msgClosed, sourceErr, errSent, errClosed, ctx, pc, held, outMsg,
                   outErr, received, recorded>>

ProduceError ==
    /\ ~errSent /\ ~msgClosed /\ ~errClosed
    /\ sourceErr' = TRUE /\ errSent' = TRUE
    /\ UNCHANGED <<sent, sourceMsg, msgClosed, errClosed, ctx, pc, held, outMsg,
                   outErr, received, recorded>>

CloseSource ==
    /\ \/ ~msgClosed /\ msgClosed' = TRUE /\ UNCHANGED errClosed
       \/ ~errClosed /\ errClosed' = TRUE /\ UNCHANGED msgClosed
    /\ UNCHANGED <<sent, sourceMsg, sourceErr, errSent, ctx, pc, held, outMsg,
                   outErr, received, recorded>>

ExpireStream ==
    /\ ctx = "live" /\ ctx' = "expired"
    /\ UNCHANGED <<srcVars, pc, held, outMsg, outErr, received, recorded>>

CancelStream ==
    /\ ctx = "live" /\ ctx' = "cancelled"
    /\ UNCHANGED <<srcVars, pc, held, outMsg, outErr, received, recorded>>

Receive ==
    /\ outMsg # <<>>
    /\ received' = Append(received, Head(outMsg)) /\ outMsg' = Tail(outMsg)
    /\ UNCHANGED <<srcVars, ctx, pc, held, outErr, recorded>>

-----------------------------------------------------------------------------
(* The proxy. *)

\* RecordX, the error if there is one, and the deferred closes.
end(o) ==
    /\ pc' = "done"
    /\ recorded' = Append(recorded, o)
    /\ outErr' = CASE o = "success" -> outErr
                   [] o = "timeout" -> "timeout"
                   [] o = "failure" -> "error"

ReadMessage ==
    /\ pc = "select" /\ sourceMsg # <<>>
    /\ held' = Head(sourceMsg) /\ sourceMsg' = Tail(sourceMsg)
    /\ pc' = "forward"
    /\ UNCHANGED <<sent, msgClosed, sourceErr, errSent, errClosed, ctx, outMsg,
                   outErr, received, recorded>>

\* Fault: a stream whose error channel is not looked at when the messages end.
MessagesEnd_Unchecked ==
    /\ pc = "select" /\ sourceMsg = <<>> /\ msgClosed
    /\ end("success")
    /\ UNCHANGED <<srcVars, ctx, held, outMsg, received>>

\* The message channel is drained and closed: look for an error, do not wait.
MessagesEnd ==
    /\ pc = "select" /\ sourceMsg = <<>> /\ msgClosed
    /\ end(CASE ~sourceErr -> "success"
             [] sourceErr /\ ctx = "expired" -> "timeout"
             [] sourceErr /\ ctx # "expired" -> "failure")
    /\ sourceErr' = FALSE
    /\ UNCHANGED <<sent, sourceMsg, msgClosed, errSent, errClosed, ctx, held, outMsg,
                   received>>

\* Fault: a message that meets a full channel is dropped.
Forward_Drops ==
    /\ pc = "forward"
    /\ outMsg' = IF Len(outMsg) < OutCap THEN Append(outMsg, held) ELSE outMsg
    /\ pc' = "select" /\ held' = 0
    /\ UNCHANGED <<srcVars, ctx, outErr, received, recorded>>

Forward ==
    /\ pc = "forward" /\ Len(outMsg) < OutCap
    /\ outMsg' = Append(outMsg, held)
    /\ pc' = "select" /\ held' = 0
    /\ UNCHANGED <<srcVars, ctx, outErr, received, recorded>>

ReadError ==
    /\ pc = "select" /\ sourceErr
    /\ sourceErr' = FALSE
    /\ end(IF ctx = "expired" THEN "timeout" ELSE "failure")
    /\ UNCHANGED <<sent, sourceMsg, msgClosed, errSent, errClosed, ctx, held, outMsg,
                   received>>

\* Fault: the deadline is not watched while a message waits for room.
TimedOut_NotForwarding ==
    /\ pc = "select" /\ ctx # "live"
    /\ end("timeout")
    /\ UNCHANGED <<srcVars, ctx, held, outMsg, received>>

\* timeoutCtx.Done, in the outer select or while a message waits for room.
TimedOut ==
    /\ pc \in {"select", "forward"} /\ ctx # "live"
    /\ end("timeout")
    /\ UNCHANGED <<srcVars, ctx, held, outMsg, received>>

Proxy == ReadMessage \/ MessagesEnd \/ Forward \/ ReadError \/ TimedOut

StreamNext == \/ Produce \/ ProduceError \/ CloseSource \/ ExpireStream \/ CancelStream \/ Receive
        \/ Proxy

StreamSpec == StreamInit /\ [][StreamNext]_streamVars

-----------------------------------------------------------------------------
(* Properties. *)

\* What the caller gets is what the agent sent, in order and without gaps, and
\* a stream recorded as successful delivered all of it and had no error.
InOrderAndComplete ==
    LET n == Len(received) + Len(outMsg)
    IN /\ received \o outMsg = [i \in 1 .. n |-> i]
       /\ recorded = <<"success">> => n = sent /\ ~errSent /\ msgClosed

\* Each stream is recorded exactly once, and the caller is told of an error or
\* a timeout exactly when that is what was recorded.
RecordedOnce ==
    /\ Len(recorded) = (IF pc = "done" THEN 1 ELSE 0)
    /\ outErr = "none" <=> recorded \in {<<>>, <<"success">>}
=============================================================================
