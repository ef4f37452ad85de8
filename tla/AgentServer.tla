----------------------------- MODULE AgentServer ----------------------------
(***************************************************************************)
(* The servers that expose an agent: adapter/http/http_server.go (unary    *)
(* requests, server-sent events, WebSocket) and adapter/grpc/              *)
(* grpc_server.go (unary, server streaming).                               *)
(*                                                                         *)
(* A request carries the set of its defects, looked for in the order of    *)
(* the handler; the agent answers or fails, or streams chunks over a       *)
(* channel of capacity ChanCap and an error over another, closing the two  *)
(* in either order; the client may go away.                                *)
(***************************************************************************)
EXTENDS Integers, Sequences, FiniteSets, SequencesExt, FiniteSetsExt

CONSTANTS
    Calls,           \* requests made
    MaxChunks,       \* bound: chunks of a stream
    ChanCap,         \* capacity of the agent's message channel
    MaxDefects,      \* bound: defects of one request
    MaxStarts        \* bound: calls of Start

Fronts == {"http", "ws", "grpc"}
Methods == {"process", "stream"}
Defects == {"method", "body", "envelope", "message", "fields", "unstreaming"}

VARIABLES
    kind,            \* which server it is: "http" (with "ws") or "grpc"
    life,            \* of the listener: "new", "serving", "draining", "stopped"
    running,         \* s.running of the gRPC server
    starts,          \* calls of Start
    http3,           \* the HTTP/3 server beside: "off", "on", "closed"
    stopped,         \* what the last Stop returned: "none", "ok", "error"
    call             \* per request: the handler, its agent and the client

vars == <<kind, life, running, starts, http3, stopped, call>>
server == <<kind, life, running, starts, http3, stopped>>

fresh == [pc |-> "new", front |-> "http", method |-> "process",
          emitted |-> 0, chan |-> <<>>, msgOpen |-> TRUE,      \* the agent's stream
          errs |-> 0, errOpen |-> TRUE, failed |-> FALSE,
          msgSeen |-> FALSE, errSeen |-> FALSE,                \* messageChanClosed, errorChanClosed
          gone |-> FALSE, out |-> <<>>]                        \* the client, and what it was sent

active(c) == call[c].pc \in {"process", "fallback", "stream"}

TypeOK ==
    /\ kind \in {"http", "grpc"} /\ life \in {"new", "serving", "draining", "stopped"}
    /\ running \in BOOLEAN /\ starts \in 0 .. MaxStarts
    /\ http3 \in {"off", "on", "closed"} /\ stopped \in {"none", "ok", "error"}
    /\ \A c \in Calls : /\ DOMAIN call[c] = DOMAIN fresh
                        /\ call[c].front \in Fronts /\ call[c].method \in Methods
                        /\ Len(call[c].chan) <= ChanCap /\ call[c].emitted \in 0 .. MaxChunks

Init ==
    /\ kind \in {"http", "grpc"} /\ life = "new" /\ running = FALSE /\ starts = 0
    /\ http3 \in IF kind = "http" THEN {"off", "on"} ELSE {"off"}
    /\ stopped = "none" /\ call = [c \in Calls |-> fresh]

-----------------------------------------------------------------------------
(* Start and Stop. *)

\* A gRPC server that runs refuses; a stopped one "starts" and serves nothing.
\* The HTTP server never refuses, and serves nothing either.
Start ==
    /\ starts < MaxStarts /\ life # "draining"
    /\ starts' = starts + 1
    /\ life' = IF life = "new" THEN "serving" ELSE life
    /\ running' = (kind = "grpc" \/ running)
    /\ UNCHANGED <<kind, http3, stopped, call>>

Stop ==
    /\ life \in {"serving", "stopped"} /\ (kind = "grpc" => running)
    /\ life' = "draining"
    /\ UNCHANGED <<kind, running, starts, http3, stopped, call>>

\* GracefulStop waits for every call; Shutdown does not for hijacked connections.
drained == \A c \in Calls : ~(active(c) /\ call[c].front # "ws")

StopReturns ==
    /\ life = "draining" /\ drained
    /\ life' = "stopped" /\ stopped' = "ok" /\ running' = FALSE
    /\ http3' = IF http3 = "on" THEN "closed" ELSE http3
    /\ UNCHANGED <<kind, starts, call>>

\* The 5 seconds of Shutdown are over: the HTTP/3 server is left as it is.
StopTimesOut ==
    /\ life = "draining" /\ kind = "http" /\ ~drained
    /\ life' = "stopped" /\ stopped' = "error"
    /\ UNCHANGED <<kind, running, starts, http3, call>>

-----------------------------------------------------------------------------
(* Requests. *)

\* What the handlers look at, in order, and the error they send.  An assertion on
\* a field that fails panics: the connection ends.
streamChecks(method) == IF method = "stream" THEN << <<"unstreaming", "NOT_IMPLEMENTED">> >> ELSE <<>>
messageChecks == << <<"message", "INVALID_MESSAGE">>, <<"fields", "panic">> >>

httpChecks(method) ==
    << <<"method", "405">> >> \o streamChecks(method)
    \o << <<"body", "INVALID_REQUEST">>, <<"envelope", "INVALID_MESSAGE">> >> \o messageChecks

wsChecks(method) ==
    << <<"body", "INVALID_MESSAGE">>, <<"envelope", "INVALID_MESSAGE">>, <<"method", "INVALID_MESSAGE">> >>
    \o streamChecks(method) \o messageChecks

grpcChecks == << <<"message", "InvalidArgument">> >>

checks(front, method) ==
    CASE front = "grpc" -> grpcChecks
      [] front = "http" -> httpChecks(method)
      [] front = "ws" -> wsChecks(method)

rejection(front, method, defects) ==
    LET cs == SelectSeq(checks(front, method), LAMBDA k : k[1] \in defects)
    IN IF cs = <<>> THEN "none" ELSE cs[1][2]

\* A frame to the client: what it is, and which chunk.
frame(type) == <<type, 0>>

Request(c) ==
    /\ call[c].pc = "new" /\ life = "serving"
    /\ \E front \in (IF kind = "grpc" THEN {"grpc"} ELSE {"http", "ws"}), method \in Methods,
          defects \in UNION {kSubset(n, Defects) : n \in 0 .. MaxDefects} :
        LET code == rejection(front, method, defects)
            started == [fresh EXCEPT !.front = front, !.method = method]
        IN call' = [call EXCEPT ![c] =
              IF code # "none" THEN [started EXCEPT !.pc = "returned", !.out = <<frame(code)>>]
              ELSE [started EXCEPT !.pc = IF method = "stream" /\ "unstreaming" \in defects
                                          THEN "fallback" ELSE method]]
    /\ UNCHANGED server

\* What a connection that may be gone is sent.
sends(k, frames) == IF k.gone THEN k ELSE [k EXCEPT !.out = @ \o frames]
returns(k, frames) == [sends(k, frames) EXCEPT !.pc = "returned"]

\* agent.Process returned: its message, or an error.
ProcessReturns(c, code) ==
    /\ call[c].pc = "process"
    /\ \E fails \in BOOLEAN :
         call' = [call EXCEPT ![c] =
            returns([call[c] EXCEPT !.failed = fails],
                    <<frame(IF fails THEN code ELSE "message")>>)]
    /\ UNCHANGED server

handleProcess(c) == call[c].front = "http" /\ ProcessReturns(c, "EXECUTION_ERROR")
handleWebSocketProcess(c) == call[c].front = "ws" /\ ProcessReturns(c, "EXECUTION_ERROR")
Process(c) == call[c].front = "grpc" /\ ProcessReturns(c, "AGENT_ERROR")

\* ProcessStream of an agent that cannot stream: one chunk, which is without a
\* message when Process failed, and the end.
FallbackReturns(c) ==
    /\ call[c].pc = "fallback"
    /\ \E fails \in BOOLEAN :
         call' = [call EXCEPT ![c] =
            returns([call[c] EXCEPT !.failed = fails],
                    <<frame(IF fails THEN "empty" ELSE "message"), frame("END")>>)]
    /\ UNCHANGED server

-----------------------------------------------------------------------------
(* The agent's stream. *)

step(c, k) == call' = [call EXCEPT ![c] = k] /\ UNCHANGED server

Emit(c) ==
    /\ call[c].pc = "stream" /\ call[c].msgOpen /\ ~call[c].failed
    /\ call[c].emitted < MaxChunks /\ Len(call[c].chan) < ChanCap
    /\ step(c, [call[c] EXCEPT !.emitted = @ + 1, !.chan = Append(@, call[c].emitted + 1)])

Fail(c) ==
    /\ call[c].pc = "stream" /\ call[c].msgOpen /\ call[c].errOpen /\ ~call[c].failed
    /\ step(c, [call[c] EXCEPT !.failed = TRUE, !.errs = 1])

CloseMessages(c) ==
    /\ call[c].pc = "stream" /\ call[c].msgOpen
    /\ step(c, [call[c] EXCEPT !.msgOpen = FALSE])

CloseErrors(c) ==
    /\ call[c].pc = "stream" /\ call[c].errOpen
    /\ step(c, [call[c] EXCEPT !.errOpen = FALSE])

ClientGoes(c) ==
    /\ active(c) /\ ~call[c].gone
    /\ step(c, [call[c] EXCEPT !.gone = TRUE])

-----------------------------------------------------------------------------
(* The select loop of handleStream, handleWebSocketStream, ProcessStream. *)

\* A chunk; a gRPC or WebSocket write fails when the client is gone.
ForwardChunk(c) ==
    /\ call[c].pc = "stream" /\ call[c].chan # <<>> /\ ~call[c].msgSeen
    /\ LET k == [call[c] EXCEPT !.chan = Tail(@)]
       IN step(c, IF k.gone /\ k.front # "http" THEN [k EXCEPT !.pc = "returned"]
                  ELSE sends(k, << <<"chunk", Head(call[c].chan)>> >>))

\* Fault: the end is sent without waiting for the error channel.
streamEnds_MessagesOnly(k) == k.msgSeen

\* The HTTP handlers wait for both channels; gRPC for the messages only.
streamEnds(k) == k.msgSeen /\ (k.front # "grpc" => k.errSeen)

SeeMessagesClosed(c) ==
    /\ call[c].pc = "stream" /\ ~call[c].msgOpen /\ call[c].chan = <<>> /\ ~call[c].msgSeen
    /\ LET k == [call[c] EXCEPT !.msgSeen = TRUE]
       IN step(c, IF streamEnds(k) THEN returns(k, <<frame("END")>>) ELSE k)

\* The gRPC loop goes round again on a closed error channel.
SeeErrorsClosed(c) ==
    /\ call[c].pc = "stream" /\ ~call[c].errOpen /\ call[c].errs = 0 /\ ~call[c].errSeen
    /\ LET k == [call[c] EXCEPT !.errSeen = (call[c].front # "grpc")]
       IN step(c, IF streamEnds(k) THEN returns(k, <<frame("END")>>) ELSE k)

ForwardError(c) ==
    /\ call[c].pc = "stream" /\ call[c].errs = 1
    /\ step(c, returns([call[c] EXCEPT !.errs = 0], <<frame("STREAM_ERROR")>>))

\* r.Context() or stream.Context() is done.
SeeDone(c) ==
    /\ call[c].pc = "stream" /\ call[c].gone
    /\ step(c, returns(call[c], <<>>))

Produce(c) == Emit(c) \/ Fail(c) \/ CloseMessages(c) \/ CloseErrors(c)

\* The loops of the three fronts.
handleStream(c) ==
    /\ call[c].front = "http"
    /\ ForwardChunk(c) \/ SeeMessagesClosed(c) \/ SeeErrorsClosed(c) \/ ForwardError(c) \/ SeeDone(c)

handleWebSocketStream(c) ==
    /\ call[c].front = "ws"
    /\ ForwardChunk(c) \/ SeeMessagesClosed(c) \/ SeeErrorsClosed(c) \/ ForwardError(c)

ProcessStream(c) ==
    /\ call[c].front = "grpc"
    /\ ForwardChunk(c) \/ SeeMessagesClosed(c) \/ SeeErrorsClosed(c) \/ ForwardError(c) \/ SeeDone(c)

Handle(c) ==
    \/ handleProcess(c) \/ handleWebSocketProcess(c) \/ Process(c) \/ FallbackReturns(c)
    \/ handleStream(c) \/ handleWebSocketStream(c) \/ ProcessStream(c)

Next ==
    \/ Start \/ Stop \/ StopReturns \/ StopTimesOut
    \/ \E c \in Calls : Request(c) \/ Produce(c) \/ Handle(c) \/ ClientGoes(c)

Spec == Init /\ [][Next]_vars

-----------------------------------------------------------------------------
(* Properties. *)

\* What the client of a stream is told is true: its chunks are the agent's in
\* order and without a hole; the end of the stream is told only when every chunk
\* was sent, and over HTTP and WebSocket never of a stream that failed; and once
\* Stop returned nil no handler it waits for is still at work and the HTTP/3
\* server is closed.
ServedTruthfully ==
    /\ \A c \in Calls :
        LET k == call[c]
            sent == SelectSeq(k.out, LAMBDA f : f[1] = "chunk")
        IN /\ sent = [i \in 1 .. Len(sent) |-> <<"chunk", i>>] /\ Len(sent) <= k.emitted
           /\ k.out # <<>> /\ Last(k.out) = frame("END") =>
                 /\ Len(sent) = k.emitted
                 /\ k.front # "grpc" => ~k.failed
    /\ stopped = "ok" /\ life = "stopped" => http3 # "on" /\ drained

=============================================================================
