--------------------------- MODULE Observability ----------------------------
(***************************************************************************)
(* What is measured around calls: the tracer, the meter and the audit      *)
(* adapters of observability/, and the metrics of middleware/. Each part   *)
(* has an Init and a Next of its own; a variable that parts have in common *)
(* by name is declared with the first of them.                             *)
(***************************************************************************)
EXTENDS Integers, Sequences, FiniteSets, SequencesExt, FiniteSetsExt

-----------------------------------------------------------------------------
(***************************************************************************)
(* observability/: calls of an agent wrapped in TracingMiddleware and      *)
(* MetricsMiddleware, and AuditLogger.LogEvent, which hands an event to    *)
(* every adapter.  Calls run concurrently; a counter of the meter adds     *)
(* atomically, an adapter writes under its own lock.  A span is a number;  *)
(* a response may be sent on as the next message, with its metadata.       *)
(***************************************************************************)

CONSTANTS Callers, Adapters, MaxCalls

VARIABLES
    pc,
    calls,           \* calls begun
    message,         \* per caller: trace_context of its message, 0 for none
    span,            \* per caller: the span of its call
    outcome,         \* per caller: what the agent did
    parent,          \* per span: the span it was started under, 0 for a root
    ended,           \* per span: times it was ended
    status,          \* per span: status set on it
    requests, errors, latencies, sizes,   \* what the meter has recorded
    finished,        \* calls that returned an answer, failed or panicked: outcomes
    sink,            \* per adapter: the events written
    refused,         \* per adapter: the events it failed to write
    auditing         \* per caller: adapters still to be given its event

counters == <<requests, errors, latencies, sizes>>
observedVars == <<pc, calls, message, span, outcome, parent, ended, status, counters, finished, sink,
          refused, auditing>>

ObservedInit ==
    /\ pc = [c \in Callers |-> "idle"] /\ calls = 0
    /\ message = [c \in Callers |-> 0] /\ span = [c \in Callers |-> 0]
    /\ outcome = [c \in Callers |-> "none"]
    /\ parent = <<>> /\ ended = <<>> /\ status = <<>>
    /\ requests = [ok |-> 0, error |-> 0] /\ errors = 0 /\ latencies = 0 /\ sizes = 0
    /\ finished = <<>> /\ sink = [a \in 1 .. Adapters |-> <<>>]
    /\ refused = [a \in 1 .. Adapters |-> {}] /\ auditing = [c \in Callers |-> <<>>]

ObservedTypeOK ==
    /\ pc \in [Callers -> {"idle", "tracing", "metrics", "agent", "record", "count", "end"}]
    /\ requests \in [{"ok", "error"} -> 0 .. MaxCalls] /\ parent \in Seq(0 .. MaxCalls)
    /\ Len(ended) = Len(parent) /\ Len(status) = Len(parent)

to(c, p) == pc' = [pc EXCEPT ![c] = p]

\* A caller sends a message: a fresh one, or the response to its last call.
Call(c) ==
    /\ pc[c] = "idle" /\ calls < MaxCalls /\ auditing[c] = <<>>
    /\ calls' = calls + 1 /\ to(c, "tracing")
    /\ message' = [message EXCEPT ![c] = @] \/ message' = [message EXCEPT ![c] = 0]
    /\ UNCHANGED <<span, outcome, parent, ended, status, counters, finished, sink, refused, auditing>>

ExtractTraceContext(c) == message[c]

\* TracingMiddleware.Process starts a span under the context of the message.
TracingProcess(c) ==
    /\ pc[c] = "tracing" /\ to(c, "metrics")
    /\ parent' = Append(parent, ExtractTraceContext(c))
    /\ ended' = Append(ended, 0) /\ status' = Append(status, "unset")
    /\ span' = [span EXCEPT ![c] = Len(parent) + 1]
    /\ UNCHANGED <<calls, message, outcome, counters, finished, sink, refused, auditing>>

MetricsProcess(c) ==
    /\ pc[c] = "metrics" /\ to(c, "agent")
    /\ sizes' = sizes + 1
    /\ UNCHANGED <<calls, message, span, outcome, parent, ended, status, requests, errors,
                   latencies, finished, sink, refused, auditing>>

\* The agent answers, fails, or returns neither a response nor an error.
AgentReturns(c) ==
    /\ pc[c] = "agent" /\ to(c, "record")
    /\ \E o \in {"ok", "error", "nil"} : outcome' = [outcome EXCEPT ![c] = o]
    /\ UNCHANGED <<calls, message, span, parent, ended, status, counters, finished, sink, refused,
                   auditing>>

\* Fault: only calls that succeed are counted as requests.
MetricsRecord_OnlySuccess(c) ==
    /\ pc[c] = "record"
    /\ IF outcome[c] = "error" THEN errors' = errors + 1 /\ UNCHANGED requests
       ELSE requests' = [requests EXCEPT !.ok = @ + 1] /\ UNCHANGED errors
    /\ latencies' = latencies + 1 /\ to(c, "end")
    /\ UNCHANGED <<calls, message, span, outcome, parent, ended, status, sizes, finished, sink,
                   refused, auditing>>

MetricsRecord(c) ==
    /\ pc[c] = "record"
    /\ LET status_ == IF outcome[c] = "error" THEN "error" ELSE "ok"
       IN requests' = [requests EXCEPT ![status_] = @ + 1]
    /\ IF outcome[c] = "error" THEN to(c, "count") /\ UNCHANGED latencies
       ELSE latencies' = latencies + 1 /\ to(c, "end")
    /\ UNCHANGED <<calls, message, span, outcome, parent, ended, status, errors, sizes, finished,
                   sink, refused, auditing>>

MetricsRecordError(c) ==
    /\ pc[c] = "count" /\ to(c, "end")
    /\ errors' = errors + 1 /\ latencies' = latencies + 1
    /\ UNCHANGED <<calls, message, span, outcome, parent, ended, status, requests, sizes, finished,
                   sink, refused, auditing>>

\* The response carries the span's context; without a response the assignment to
\* its metadata panics, after the status was set.  The span ends in any case, and the
\* caller then logs the call.
InjectTraceContext(c) == IF outcome[c] = "ok" THEN span[c] ELSE 0

TracingEnds(c) ==
    /\ pc[c] = "end" /\ to(c, "idle")
    /\ status' = [status EXCEPT ![span[c]] = IF outcome[c] = "error" THEN "error" ELSE "ok"]
    /\ ended' = [ended EXCEPT ![span[c]] = @ + 1]
    /\ message' = [message EXCEPT ![c] = InjectTraceContext(c)]
    /\ finished' = Append(finished, outcome[c])
    /\ auditing' = [auditing EXCEPT ![c] = [a \in 1 .. Adapters |-> <<Len(finished) + 1, a>>]]
    /\ outcome' = [outcome EXCEPT ![c] = "none"] /\ span' = [span EXCEPT ![c] = 0]
    /\ UNCHANGED <<calls, parent, counters, sink, refused>>

\* AuditLogger.LogEvent: the adapters in turn; one that fails does not stop it.
LogEvent(c) ==
    /\ auditing[c] # <<>>
    /\ LET e == Head(auditing[c])[1]
           a == Head(auditing[c])[2]
       IN \/ sink' = [sink EXCEPT ![a] = Append(@, e)] /\ UNCHANGED refused
          \/ refused' = [refused EXCEPT ![a] = @ \cup {e}] /\ UNCHANGED sink
    /\ auditing' = [auditing EXCEPT ![c] = Tail(@)]
    /\ UNCHANGED <<pc, calls, message, span, outcome, parent, ended, status, counters, finished>>

Step(c) == TracingProcess(c) \/ MetricsProcess(c) \/ AgentReturns(c) \/ MetricsRecord(c)
           \/ MetricsRecordError(c) \/ TracingEnds(c) \/ LogEvent(c)
ObservedNext == \E c \in Callers : Call(c) \/ Step(c)
ObservedSpec == ObservedInit /\ [][ObservedNext]_observedVars
-----------------------------------------------------------------------------

count(P(_)) == Cardinality({i \in DOMAIN finished : P(i)})
at(p) == Cardinality({c \in Callers : pc[c] \in p})

\* The meter tells the calls apart: every call that has ended is one request and one
\* latency, and one error exactly when it failed; those still running account for
\* the rest.  A span is ended once, when its call ends, with that call's status, and
\* hangs under an older span that ended before it began: the one whose response was
\* sent on.  Every adapter has each event that was handed to it once, unless it failed.
CallsObserved ==
    /\ requests.ok + requests.error + at({"tracing", "metrics", "agent", "record"}) = calls
    /\ errors + at({"count"}) = requests.error
    /\ latencies + at({"count"}) = requests.ok + requests.error
    /\ sizes + at({"tracing", "metrics"}) = calls
    /\ requests.error >= count(LAMBDA i : finished[i] = "error")
    /\ \A s \in DOMAIN parent :
         /\ ended[s] = IF \E c \in Callers : span[c] = s THEN 0 ELSE 1
         /\ parent[s] # 0 => parent[s] < s /\ ended[parent[s]] = 1 /\ status[parent[s]] = "ok"
    /\ \A a \in 1 .. Adapters : \A e \in DOMAIN finished :
         LET due == \E c \in Callers : \E i \in DOMAIN auditing[c] : auditing[c][i] = <<e, a>>
             times == Cardinality({i \in DOMAIN sink[a] : sink[a][i] = e})
         IN times = IF due \/ e \in refused[a] THEN 0 ELSE 1

-----------------------------------------------------------------------------
(***************************************************************************)
(* middleware/metrics.go: concurrent calls of an agent wrapped in          *)
(* MetricsDecorator.  Process takes the mutex of the metrics three times:  *)
(* to count the call as in flight, to record it and, in the function it    *)
(* deferred first, to take it off; Reset may come in between.              *)
(***************************************************************************)

CONSTANTS
    Latencies,
    MaxMetered, MaxResets\* bounds

VARIABLES
    TotalRequests, SuccessRequests, ErrorRequests, InFlightRequests, MinLatency, MaxLatency,
    begun, resets,   \* calls and Resets so far
    forgotten        \* calls that were in flight at the last Reset

metrics == <<TotalRequests, SuccessRequests, ErrorRequests, InFlightRequests, MinLatency, MaxLatency>>
metersVars == <<pc, metrics, latencies, begun, resets, forgotten>>

inFlight == {c \in Callers : pc[c] # "idle"}

MetersTypeOK ==
    /\ pc \in [Callers -> {"idle", "agent", "recorded"}]
    /\ {TotalRequests, SuccessRequests, ErrorRequests} \subseteq 0 .. MaxMetered
    /\ InFlightRequests \in -(MaxResets * Cardinality(Callers)) .. Cardinality(Callers)
    /\ {MinLatency, MaxLatency} \subseteq Latencies \cup {0}

MetersInit ==
    /\ pc = [c \in Callers |-> "idle"]
    /\ TotalRequests = 0 /\ SuccessRequests = 0 /\ ErrorRequests = 0 /\ InFlightRequests = 0
    /\ MinLatency = 0 /\ MaxLatency = 0
    /\ latencies = <<>> /\ begun = 0 /\ resets = 0 /\ forgotten = 0

\* The call is counted as in flight before the agent is called.
Process(c) ==
    /\ pc[c] = "idle" /\ begun < MaxMetered
    /\ pc' = [pc EXCEPT ![c] = "agent"] /\ begun' = begun + 1
    /\ InFlightRequests' = InFlightRequests + 1
    /\ UNCHANGED <<TotalRequests, SuccessRequests, ErrorRequests, MinLatency, MaxLatency, latencies,
                   resets, forgotten>>

\* A least latency of zero is taken for none.
Record(c, latency, failed) ==
    /\ pc[c] = "agent" /\ pc' = [pc EXCEPT ![c] = "recorded"]
    /\ TotalRequests' = TotalRequests + 1
    /\ MinLatency' = IF MinLatency = 0 \/ latency < MinLatency THEN latency ELSE MinLatency
    /\ MaxLatency' = Max({MaxLatency, latency})
    /\ IF failed THEN ErrorRequests' = ErrorRequests + 1 /\ UNCHANGED SuccessRequests
       ELSE SuccessRequests' = SuccessRequests + 1 /\ UNCHANGED ErrorRequests
    /\ latencies' = Append(latencies, latency)
    /\ UNCHANGED <<InFlightRequests, begun, resets, forgotten>>

TakenOff(c) ==
    /\ pc[c] = "recorded" /\ pc' = [pc EXCEPT ![c] = "idle"]
    /\ InFlightRequests' = InFlightRequests - 1
    /\ UNCHANGED <<TotalRequests, SuccessRequests, ErrorRequests, MinLatency, MaxLatency, latencies,
                   begun, resets, forgotten>>

\* Fault: the latencies survive a Reset.
Reset_KeepsLatencies ==
    /\ resets < MaxResets /\ resets' = resets + 1
    /\ TotalRequests' = 0 /\ SuccessRequests' = 0 /\ ErrorRequests' = 0 /\ InFlightRequests' = 0
    /\ latencies' = <<>> /\ forgotten' = Cardinality(inFlight)
    /\ UNCHANGED <<pc, begun, MinLatency, MaxLatency>>

\* Calls that are in flight are forgotten, and still taken off when they return.
Reset ==
    /\ resets < MaxResets /\ resets' = resets + 1
    /\ TotalRequests' = 0 /\ SuccessRequests' = 0 /\ ErrorRequests' = 0 /\ InFlightRequests' = 0
    /\ MinLatency' = 0 /\ MaxLatency' = 0
    /\ latencies' = <<>> /\ forgotten' = Cardinality(inFlight)
    /\ UNCHANGED <<pc, begun>>

MetersNext ==
    \/ \E c \in Callers :
         \/ Process(c) \/ TakenOff(c)
         \/ \E latency \in Latencies, failed \in BOOLEAN : Record(c, latency, failed)
    \/ Reset

MetersSpec == MetersInit /\ [][MetersNext]_metersVars
-----------------------------------------------------------------------------

\* the latencies after the last one that was zero
sinceZero ==
    LET zeros == {i \in DOMAIN latencies : latencies[i] = 0}
    IN {latencies[i] : i \in {i \in DOMAIN latencies : \A z \in zeros : z < i}}

\* However calls and Resets interleave, the requests are the successes and the
\* errors recorded since the last Reset; the gauge of calls in flight stays below
\* their number, for good, by those that were in flight at that Reset; the greatest
\* latency is that of the calls recorded, and the least one forgets whatever was
\* recorded before a latency of zero.
MetricsFollowCalls ==
    /\ TotalRequests = Len(latencies) /\ TotalRequests = SuccessRequests + ErrorRequests
    /\ InFlightRequests = Cardinality(inFlight) - forgotten
    /\ latencies # <<>> => MaxLatency = Max(ToSet(latencies))
    /\ MinLatency = IF sinceZero = {} THEN 0 ELSE Min(sinceZero)
=============================================================================
