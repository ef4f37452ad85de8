----------------------------- MODULE Transports -----------------------------
(***************************************************************************)
(* adapter/: the transports a remote agent talks through, over a WebSocket *)
(* that reconnects, and request by request. Each part has an Init and a    *)
(* Next of its own; a variable that parts have in common by name is        *)
(* declared with the first of them.                                        *)
(***************************************************************************)
EXTENDS Integers, Sequences

-----------------------------------------------------------------------------
(***************************************************************************)
(* adapter/transport/websocket_transport.go: WebSocketTransport, used by   *)
(* several callers, with its ping loops and Close.                         *)
(*                                                                         *)
(* t.mu is held across a blocking read and, by Close, across the wait for  *)
(* the ping loop; its other critical sections are single steps here.  Each *)
(* startPingLoop makes a loop and a pair of channels, numbered alike; the  *)
(* fields stopPing and pingDone hold the pair made last, pair 0 being the  *)
(* constructor's, whose pingDone nobody closes.  A dial, a read, a write   *)
(* or a ping may succeed or fail at any time.                              *)
(***************************************************************************)

CONSTANTS
    Callers,
    MaxConns             \* bound

SocketAssumption == "free" \notin Callers

VARIABLES
    mu, reconnectMu,     \* the holder of each mutex, or "free"
    conn, connected,     \* t.conn (connections are numbered, 0 is nil), t.connected
    made,                \* connections made
    started,             \* ping loops started, and so the pair the fields hold
    stopped,             \* the stopPing channels that are closed
    loop, selecting,     \* per ping loop: where it is; the stopPing it selects on
    pc, op,              \* per caller: where it is and in which operation
    closer, awaited,     \* Close: where it is; the pingDone it waits for
    direct               \* history: Connect installed a connection during this reconnection

socketVars == <<mu, reconnectMu, conn, connected, made, started, stopped, loop, selecting,
          pc, op, closer, awaited, direct>>
connection == <<conn, connected, made, direct>>
keepalive == <<started, stopped, loop, selecting>>
closing == <<closer, awaited>>

Loops == 1 .. MaxConns

SocketTypeOK ==
    /\ mu \in Callers \cup {"free", "close"} /\ reconnectMu \in Callers \cup {"free"}
    /\ conn \in 0 .. made /\ connected \in BOOLEAN /\ made \in 0 .. MaxConns
    /\ started \in 0 .. made /\ stopped \subseteq 0 .. started
    /\ loop \in [Loops -> {"none", "select", "lock", "ping", "fail", "done"}]
    /\ selecting \in [Loops -> 0 .. started]
    /\ pc \in [Callers -> {"idle", "ensure", "reconnect", "dial", "start", "lock", "reading"}]
    /\ op \in [Callers -> {"none", "connect", "send", "receive"}]
    /\ closer \in {"idle", "lock", "wait", "panic"} /\ awaited \in 0 .. started
    /\ direct \in BOOLEAN

SocketInit ==
    /\ mu = "free" /\ reconnectMu = "free"
    /\ conn = 0 /\ connected = FALSE /\ made = 0 /\ direct = FALSE
    /\ started = 0 /\ stopped = {}
    /\ loop = [i \in Loops |-> "none"] /\ selecting = [i \in Loops |-> 0]
    /\ pc = [c \in Callers |-> "idle"] /\ op = [c \in Callers |-> "none"]
    /\ closer = "idle" /\ awaited = 0

goto(c, l) == pc' = [pc EXCEPT ![c] = l] /\ UNCHANGED op
return(c) == pc' = [pc EXCEPT ![c] = "idle"] /\ op' = [op EXCEPT ![c] = "none"]
IsConnected == connected /\ conn # 0

-----------------------------------------------------------------------------
(* Connect, SendFramed and ReceiveFramed. *)

\* Connect dials at once, without reconnectMu.
Call(c, o) ==
    /\ pc[c] = "idle"
    /\ op' = [op EXCEPT ![c] = o]
    /\ pc' = [pc EXCEPT ![c] = IF o = "connect" THEN "dial" ELSE "ensure"]
    /\ UNCHANGED <<mu, reconnectMu, connection, keepalive, closing>>

\* ensureConnected, its first look.
EnsureConnected(c) ==
    /\ pc[c] = "ensure" /\ mu = "free"
    /\ goto(c, IF IsConnected THEN "lock" ELSE "reconnect")
    /\ UNCHANGED <<mu, reconnectMu, connection, keepalive, closing>>

\* Fault: no second look under reconnectMu.
Reconnect_Unchecked(c) ==
    /\ pc[c] = "reconnect" /\ reconnectMu = "free" /\ mu = "free"
    /\ goto(c, "dial") /\ reconnectMu' = c /\ direct' = FALSE
    /\ UNCHANGED <<mu, conn, connected, made, keepalive, closing>>

\* The second look, under reconnectMu.
Reconnect(c) ==
    /\ pc[c] = "reconnect" /\ reconnectMu = "free" /\ mu = "free"
    /\ IF IsConnected THEN goto(c, "lock") /\ UNCHANGED <<reconnectMu, direct>>
                      ELSE goto(c, "dial") /\ reconnectMu' = c /\ direct' = FALSE
    /\ UNCHANGED <<mu, conn, connected, made, keepalive, closing>>

unlocked(c) == IF reconnectMu = c THEN "free" ELSE reconnectMu

\* connectWithRetry: one of the attempts succeeds.  The connection it replaces
\* is not closed.
Dial(c) ==
    /\ pc[c] = "dial" /\ mu = "free" /\ made < MaxConns
    /\ made' = made + 1 /\ conn' = made + 1 /\ connected' = TRUE
    /\ direct' = (direct \/ (op[c] = "connect" /\ reconnectMu # "free"))
    /\ goto(c, "start")
    /\ UNCHANGED <<mu, reconnectMu, keepalive, closing>>

\* Fault: reconnectMu stays locked on the error path.
DialFails_KeepsLock(c) ==
    /\ pc[c] = "dial"
    /\ return(c)
    /\ UNCHANGED <<mu, reconnectMu, connection, keepalive, closing>>

\* All attempts failed, or the context ended.
DialFails(c) ==
    /\ pc[c] = "dial"
    /\ reconnectMu' = unlocked(c) /\ return(c)
    /\ UNCHANGED <<mu, connection, keepalive, closing>>

\* startPingLoop, without t.mu, in the last step of connectWithRetry.
StartPingLoop(c) ==
    /\ pc[c] = "start"
    /\ started' = started + 1
    /\ loop' = [loop EXCEPT ![started + 1] = "select"]
    /\ selecting' = [selecting EXCEPT ![started + 1] = started + 1]
    /\ reconnectMu' = unlocked(c)
    /\ IF op[c] = "connect" THEN return(c) ELSE goto(c, "lock")
    /\ UNCHANGED <<mu, connection, stopped, closing>>

\* The message is too large, or Close was faster, or the message is written.
Send(c) ==
    /\ pc[c] = "lock" /\ op[c] = "send" /\ mu = "free"
    /\ return(c)
    /\ UNCHANGED <<mu, reconnectMu, connection, keepalive, closing>>

SendFails(c) ==
    /\ pc[c] = "lock" /\ op[c] = "send" /\ mu = "free" /\ conn # 0
    /\ connected' = FALSE /\ return(c)
    /\ UNCHANGED <<mu, reconnectMu, conn, made, direct, keepalive, closing>>

\* Close was faster, or the read begins and blocks.
BeginReceive(c) ==
    /\ pc[c] = "lock" /\ op[c] = "receive" /\ mu = "free"
    /\ IF conn = 0 THEN return(c) /\ UNCHANGED mu ELSE goto(c, "reading") /\ mu' = c
    /\ UNCHANGED <<reconnectMu, connection, keepalive, closing>>

\* A frame, of a type and size that is accepted or not.
Receive(c) ==
    /\ pc[c] = "reading"
    /\ mu' = "free" /\ return(c)
    /\ UNCHANGED <<reconnectMu, connection, keepalive, closing>>

ReceiveFails(c) ==
    /\ pc[c] = "reading"
    /\ mu' = "free" /\ connected' = FALSE /\ return(c)
    /\ UNCHANGED <<reconnectMu, conn, made, direct, keepalive, closing>>

-----------------------------------------------------------------------------
(* The ping loops. *)

LoopAt(i, l) == loop' = [loop EXCEPT ![i] = l]

Tick(i) ==
    /\ loop[i] = "select" /\ LoopAt(i, "lock")
    /\ UNCHANGED <<mu, reconnectMu, connection, started, stopped, selecting, pc, op, closing>>

LoopStopped(i) ==
    /\ loop[i] = "select" /\ selecting[i] \in stopped /\ LoopAt(i, "done")
    /\ UNCHANGED <<mu, reconnectMu, connection, started, stopped, selecting, pc, op, closing>>

\* Fault: the loop waits for a connection instead of ending.
LoadConn_Waits(i) ==
    /\ loop[i] = "lock" /\ mu = "free"
    /\ LoopAt(i, IF conn = 0 THEN "select" ELSE "ping")
    /\ UNCHANGED <<mu, reconnectMu, connection, started, stopped, selecting, pc, op, closing>>

LoadConn(i) ==
    /\ loop[i] = "lock" /\ mu = "free"
    /\ LoopAt(i, IF conn = 0 THEN "done" ELSE "ping")
    /\ UNCHANGED <<mu, reconnectMu, connection, started, stopped, selecting, pc, op, closing>>

\* The ping is written without t.mu; select then reads the field stopPing again.
Ping(i) ==
    /\ loop[i] = "ping" /\ LoopAt(i, "select")
    /\ selecting' = [selecting EXCEPT ![i] = started]
    /\ UNCHANGED <<mu, reconnectMu, connection, started, stopped, pc, op, closing>>

PingFails(i) ==
    /\ loop[i] = "ping" /\ LoopAt(i, "fail")
    /\ UNCHANGED <<mu, reconnectMu, connection, started, stopped, selecting, pc, op, closing>>

\* connected is cleared whatever connection is in place by now.
Disconnected(i) ==
    /\ loop[i] = "fail" /\ mu = "free"
    /\ connected' = FALSE /\ LoopAt(i, "done")
    /\ UNCHANGED <<mu, reconnectMu, conn, made, direct, started, stopped, selecting, pc, op, closing>>

-----------------------------------------------------------------------------
(* Close. *)

CloseCalled ==
    /\ closer = "idle" /\ closer' = "lock"
    /\ UNCHANGED <<mu, reconnectMu, connection, keepalive, pc, op, awaited>>

\* Nothing to close; or close(stopPing), which panics on a closed channel, and
\* the wait for pingDone, with t.mu held.  A panic ends the process.
CloseBegins ==
    /\ closer = "lock" /\ mu = "free"
    /\ closer' = CASE conn = 0 -> "idle" [] conn # 0 /\ started \in stopped -> "panic"
                   [] OTHER -> "wait"
    /\ stopped' = IF conn = 0 THEN stopped ELSE stopped \cup {started}
    /\ mu' = IF conn = 0 THEN "free" ELSE "close"
    /\ awaited' = IF conn = 0 THEN 0 ELSE started
    /\ UNCHANGED <<reconnectMu, connection, started, loop, selecting, pc, op>>

CloseEnds ==
    /\ closer = "wait" /\ awaited # 0 /\ loop[awaited] = "done"
    /\ closer' = "idle" /\ mu' = "free" /\ awaited' = 0
    /\ conn' = 0 /\ connected' = FALSE
    /\ UNCHANGED <<reconnectMu, made, direct, keepalive, pc, op>>

Running == closer # "panic"

CallerSteps(c) ==
    /\ Running
    /\ \/ EnsureConnected(c) \/ Reconnect(c) \/ Dial(c) \/ DialFails(c) \/ StartPingLoop(c)
       \/ Send(c) \/ SendFails(c) \/ BeginReceive(c) \/ Receive(c) \/ ReceiveFails(c)

LoopSteps(i) ==
    /\ Running
    /\ \/ Tick(i) \/ LoopStopped(i) \/ LoadConn(i) \/ Ping(i) \/ PingFails(i)
       \/ Disconnected(i)

SocketNext ==
    \/ \E c \in Callers : CallerSteps(c)
    \/ \E c \in Callers, o \in {"connect", "send", "receive"} : Running /\ Call(c, o)
    \/ \E i \in Loops : LoopSteps(i)
    \/ CloseCalled \/ CloseBegins \/ CloseEnds

SocketSpec == SocketInit /\ [][SocketNext]_socketVars

-----------------------------------------------------------------------------
(* Properties. *)

\* The double check of ensureConnected: callers that find the connection lost
\* do not each reconnect, so a connection that works is replaced only by
\* Connect, or by a reconnection that Connect overtook.
ReplaceStep ==
    conn # 0 /\ conn' \notin {0, conn} /\ connected =>
        direct \/ \E c \in Callers : op[c] = "connect" /\ pc[c] # pc'[c]
\* Close waits, with t.mu, for a loop that waits for t.mu, or for the loop of a
\* connection whose loop has not been started; or it closes a channel twice.
CloseStuck ==
    closer = "panic" \/ (closer = "wait" /\ (awaited = 0 \/ loop[awaited] \in {"lock", "fail"}))

-----------------------------------------------------------------------------
(***************************************************************************)
(* RemoteAgent over the transports that make a request per call:           *)
(* adapter/transport/grpc_transport.go and http_transport.go.              *)
(*                                                                         *)
(* SendFramed makes the whole gRPC call and puts the frames of its answer  *)
(* in responseQueue, a channel shared by all calls and never emptied; over *)
(* HTTP it leaves the body in pendingResponse, or the reader of an event   *)
(* stream.  r.mu makes the calls take turns; Close takes no turn.  A frame *)
(* is the call it answers, its type, its place, and whether its content is *)
(* text that is not itself JSON.                                           *)
(***************************************************************************)

CONSTANTS
    MaxCalls,        \* bound: calls made, one after the other
    MaxChunks,       \* bound: chunks of a stream
    QueueCap         \* capacity of responseQueue

VARIABLES
    kind,            \* the transport: "grpc" or "http"
    framed,          \* its caller passes bytes, not envelopes (RemoteAgent: only to HTTP)
    calls, method,   \* calls made; the current one, where it is and what it calls
    done,            \* its context: "no", "timeout" (r.timeout is over), "cancelled"
    served, answer,  \* the server's answer, frames and how the RPC ends; what is left to send
    queue,           \* responseQueue
    pending,         \* pendingResponse: no frame, or one
    reader,          \* streamReader: the call it is of, or 0, and the frames in it
    inHand, got,     \* the chunk offered to the consumer; the messages it was given
    closed,          \* Close was called during the call
    clean            \* it began with an empty queue and no reader

link == <<connected, queue, pending, reader>>
progress == <<pc, done, inHand, got>>
requestVars == <<kind, framed, connected, calls, pc, method, done, served, answer, queue, pending, reader,
          inHand, got, closed, clean>>

Ended == {"answered", "error", "panic"}
InCall == {"connect", "send", "sending", "receive", "offer"}
NoReader == [call |-> 0, frames |-> <<>>]
NoAnswer == [frames |-> <<>>, ends |-> "EOF"]

Frames == [call : 1 .. MaxCalls, n : 0 .. MaxChunks, text : BOOLEAN,
           type : {"response", "error", "stream_chunk", "empty_chunk", "stream_end"}]

RequestTypeOK ==
    /\ kind \in {"grpc", "http"} /\ framed \in BOOLEAN /\ connected \in BOOLEAN /\ calls \in 0 .. MaxCalls
    /\ pc \in {"idle"} \cup InCall \cup Ended /\ method \in {"process", "stream"}
    /\ done \in {"no", "timeout", "cancelled"} /\ closed \in BOOLEAN /\ clean \in BOOLEAN
    /\ \A s \in {queue, pending, reader.frames, answer.frames, inHand} :
           \A i \in DOMAIN s : s[i] \in Frames
    /\ Len(queue) <= QueueCap /\ Len(pending) <= 1

RequestInit ==
    /\ kind \in {"grpc", "http"} /\ framed \in IF kind = "grpc" THEN BOOLEAN ELSE {TRUE}
    /\ connected = FALSE /\ calls = 0 /\ pc = "idle"
    /\ method = "process" /\ done = "no" /\ answer = NoAnswer /\ queue = <<>>
    /\ pending = <<>> /\ reader = NoReader /\ inHand = <<>> /\ got = <<>>
    /\ closed = FALSE /\ clean = TRUE /\ served = NoAnswer

-----------------------------------------------------------------------------
(* The server's answer. *)

frame(type, n, text) == [call |-> calls, type |-> type, n |-> n, text |-> text]
chunks(k, text) == [i \in 1 .. k |-> frame("stream_chunk", i, text)]

\* The envelope a gRPC response or chunk becomes, by its type and whether the
\* message or error it should hold is there.
protobufResponseToJSON(type, body) == IF type = "ERROR" /\ body THEN "error" ELSE "response"
protobufChunkToJSON(type, body) ==
    CASE type = "END" -> "stream_end"
      [] type = "ERROR" /\ body -> "error"
      [] type = "MESSAGE" /\ body -> "stream_chunk"
      [] OTHER -> "empty_chunk"

\* A unary answer is a response, an error of the agent, or a status other than OK;
\* a stream is chunks and an end, an error, or the failure of the RPC.
Answers(m) ==
    IF m = "process"
    THEN {[frames |-> <<frame("response", 0, text)>>, ends |-> "EOF"] : text \in BOOLEAN}
         \cup {[frames |-> <<>>, ends |-> "failure"]}
         \cup {[frames |-> <<frame(protobufResponseToJSON("ERROR", TRUE), 0, TRUE)>>, ends |-> "EOF"] :
                  x \in {kind} \cap {"grpc"}}
    ELSE {[frames |-> Append(chunks(k, text), frame(end, 0, TRUE)), ends |-> "EOF"] :
              k \in 0 .. MaxChunks, text \in BOOLEAN, end \in {"stream_end", "error"}}
         \cup {[frames |-> chunks(k, TRUE), ends |-> "failure"] : k \in 0 .. MaxChunks}
         \cup {[frames |-> <<frame(protobufChunkToJSON("MESSAGE", FALSE), 0, TRUE),
                             frame(protobufChunkToJSON("END", FALSE), 0, TRUE)>>, ends |-> "EOF"] :
                  x \in {kind} \cap {"grpc"}}

-----------------------------------------------------------------------------
(* RemoteAgent. *)

CallTransport(m) ==
    /\ pc \in {"idle"} \cup Ended /\ calls < MaxCalls
    /\ calls' = calls + 1 /\ method' = m /\ done' = "no" /\ answer' = NoAnswer /\ served' = NoAnswer
    /\ inHand' = <<>> /\ got' = <<>> /\ closed' = FALSE
    /\ clean' = (queue = <<>> /\ reader = NoReader)
    /\ pc' = IF connected THEN "send" ELSE "connect"
    /\ UNCHANGED <<kind, framed, link>>

\* The call ends; its context is cancelled, and with it an HTTP request it left open.
returnTo(r) == pc' = r /\ inHand' = <<>>

\* ensureConnected; the gRPC client connects when it is first used.
Connect ==
    /\ pc = "connect"
    /\ \/ connected' = TRUE /\ pc' = "send" /\ UNCHANGED inHand
       \/ kind = "http" /\ returnTo("error") /\ UNCHANGED connected
    /\ UNCHANGED <<kind, framed, calls, method, done, served, answer, queue, pending, reader, got, closed, clean>>

ContextEnds(why) ==
    /\ pc \in InCall /\ done = "no" /\ done' = why
    /\ UNCHANGED <<kind, framed, link, calls, pc, method, served, answer, inHand, got, closed, clean>>

\* RemoteAgent.Close; the HTTP transport's takes turns with its requests and reads.
Close ==
    /\ connected
    /\ connected' = FALSE /\ reader' = NoReader
    /\ closed' = (closed \/ pc \in InCall)
    /\ UNCHANGED <<kind, framed, calls, pc, method, done, served, answer, queue, pending, inHand, got, clean>>

-----------------------------------------------------------------------------
(* GRPCTransport. *)

\* SendFramedEnvelope takes the client and makes the call.
GRPCSend ==
    /\ kind = "grpc" /\ pc = "send"
    /\ IF connected
       THEN /\ \E a \in Answers(method) : answer' = a /\ served' = a
            /\ pc' = "sending" /\ UNCHANGED inHand
       ELSE returnTo("error") /\ UNCHANGED <<answer, served>>
    /\ UNCHANGED <<kind, framed, connected, calls, method, done, queue, pending, reader, got, closed, clean>>

\* Fault: a frame that finds no room takes the place of the oldest.
enqueues_DropsOldest(f) == queue' = Append(IF Len(queue) < QueueCap THEN queue ELSE Tail(queue), f)

\* A frame waits for room in the queue.
enqueues(f) == Len(queue) < QueueCap /\ queue' = Append(queue, f)

\* A frame of the answer is queued.
Enqueue ==
    /\ kind = "grpc" /\ pc = "sending" /\ answer.frames # <<>>
    /\ enqueues(Head(answer.frames))
    /\ answer' = [answer EXCEPT !.frames = Tail(@)]
    /\ UNCHANGED <<kind, framed, connected, calls, progress, method, served, pending, reader, closed, clean>>

\* The context is done while a frame waits: what was queued stays.
EnqueueGivesUp ==
    /\ kind = "grpc" /\ pc = "sending" /\ answer.frames # <<>> /\ done # "no"
    /\ returnTo("error")
    /\ UNCHANGED <<kind, framed, link, calls, method, done, served, answer, got, closed, clean>>

\* handleGRPCError: an error envelope, if there is room.  The RPC fails by itself,
\* because its context is done, or because the connection was closed.
handleGRPCError ==
    /\ kind = "grpc" /\ pc = "sending"
    /\ (answer.frames = <<>> /\ answer.ends = "failure") \/ done # "no" \/ closed
    /\ queue' = IF Len(queue) < QueueCap THEN Append(queue, frame("error", 0, TRUE)) ELSE queue
    /\ answer' = NoAnswer /\ pc' = "receive"
    /\ UNCHANGED <<kind, framed, connected, calls, method, done, served, pending, reader, inHand, got, closed, clean>>

Sent ==
    /\ kind = "grpc" /\ pc = "sending" /\ answer.frames = <<>> /\ answer.ends = "EOF"
    /\ pc' = "receive"
    /\ UNCHANGED <<kind, framed, link, calls, method, done, served, answer, inHand, got, closed, clean>>

-----------------------------------------------------------------------------
(* HTTPTransport. *)

\* SendFramed: the POST fails or is refused, its body cannot be read, or the
\* answer is there.  A new stream takes the place of the reader of an old one.
HTTPSend ==
    /\ kind = "http" /\ pc = "send"
    /\ \/ returnTo("error") /\ UNCHANGED <<pending, reader, answer, served>>
       \/ \E a \in {b \in Answers(method) : method = "process" => b.ends = "EOF"} :
            /\ done = "no" /\ pc' = "receive" /\ answer' = a /\ served' = a
            /\ IF method = "stream"
               THEN reader' = [call |-> calls, frames |-> a.frames] /\ UNCHANGED pending
               ELSE pending' = a.frames /\ UNCHANGED reader
            /\ UNCHANGED inHand
    /\ UNCHANGED <<kind, framed, connected, calls, method, done, queue, got, closed, clean>>

-----------------------------------------------------------------------------
(* What RemoteAgent does with a frame: Process, handleStreamResponse. *)

\* deserializeContent gives a content that is JSON its own type; the assertion
\* to string that follows panics.  HTTP carries the content as a string.
panics(f) == kind = "grpc" /\ f.type \in {"response", "stream_chunk"} /\ ~f.text

take(f) ==
    CASE panics(f) /\ (method = "process" <=> f.type = "response") ->
            returnTo("panic") /\ UNCHANGED got
      [] method = "process" /\ f.type = "response" /\ ~panics(f) ->
            returnTo("answered") /\ got' = Append(got, f)
      [] method = "stream" /\ f.type = "stream_chunk" /\ ~panics(f) ->
            pc' = "offer" /\ inHand' = <<f>> /\ UNCHANGED got
      [] method = "stream" /\ f.type = "stream_end" ->
            returnTo("answered") /\ UNCHANGED got
      [] OTHER -> returnTo("error") /\ UNCHANGED got

\* Where ReceiveFramed reads: the queue, the reader if there is one, the pending response.
source == IF kind = "grpc" THEN "queue" ELSE IF reader # NoReader THEN "reader" ELSE "pending"

ReceiveFromQueue ==
    /\ pc = "receive" /\ source = "queue" /\ connected /\ queue # <<>>
    /\ queue' = Tail(queue) /\ take(Head(queue))
    /\ UNCHANGED <<kind, framed, connected, calls, method, done, served, answer, pending, reader, closed, clean>>

\* The context is done, or the transport is not connected.
ReadFails ==
    /\ pc = "receive" /\ source = "queue" /\ (done # "no" \/ ~connected)
    /\ returnTo("error")
    /\ UNCHANGED <<kind, framed, link, calls, method, done, served, answer, got, closed, clean>>

\* The request of the reader is over: of an earlier call, or its context is done.
readerDead == reader.call # calls \/ done # "no"

\* readSSEEvent: an event; at the end of the body the reader is dropped; any other
\* error, such as a context that is done, leaves it.
ReceiveFromReader ==
    /\ pc = "receive" /\ source = "reader"
    /\ \/ /\ reader.frames # <<>> /\ take(Head(reader.frames))
          /\ reader' = [reader EXCEPT !.frames = Tail(@)]
       \/ /\ reader.frames = <<>> /\ (readerDead \/ answer.ends = "EOF")
          /\ returnTo("error") /\ reader' = NoReader /\ UNCHANGED got
       \/ /\ readerDead \/ (reader.frames = <<>> /\ answer.ends = "failure")
          /\ returnTo("error") /\ UNCHANGED <<got, reader>>
    /\ UNCHANGED <<kind, framed, connected, calls, method, done, served, answer, queue, pending, closed, clean>>

ReceivePending ==
    /\ pc = "receive" /\ source = "pending"
    /\ pending' = <<>>
    /\ IF pending = <<>> THEN returnTo("error") /\ UNCHANGED got ELSE take(pending[1])
    /\ UNCHANGED <<kind, framed, connected, calls, method, done, served, answer, queue, reader, closed, clean>>

Deliver ==
    /\ pc = "offer" /\ got' = Append(got, inHand[1]) /\ inHand' = <<>> /\ pc' = "receive"
    /\ UNCHANGED <<kind, framed, link, calls, method, done, served, answer, closed, clean>>

\* The consumer's own context, not r.timeout, ends the wait for it.
Abandon ==
    /\ pc = "offer" /\ done = "cancelled" /\ returnTo("error")
    /\ UNCHANGED <<kind, framed, link, calls, method, done, served, answer, got, closed, clean>>

\* The gRPC call and its answer, with bytes and with envelopes.
SendFramed == framed /\ (GRPCSend \/ Enqueue \/ EnqueueGivesUp \/ handleGRPCError \/ Sent)
ReceiveFramed == framed /\ (ReceiveFromQueue \/ ReadFails)
SendFramedEnvelope == ~framed /\ (GRPCSend \/ Enqueue \/ EnqueueGivesUp \/ handleGRPCError \/ Sent)
ReceiveFramedEnvelope == ~framed /\ (ReceiveFromQueue \/ ReadFails)

Step ==
    \/ Connect \/ SendFramed \/ SendFramedEnvelope \/ ReceiveFramed \/ ReceiveFramedEnvelope
    \/ HTTPSend \/ ReceiveFromReader \/ ReceivePending \/ Deliver \/ Abandon

RequestNext ==
    \/ \E m \in {"process", "stream"} : CallTransport(m)
    \/ \E why \in {"timeout", "cancelled"} : ContextEnds(why)
    \/ Close \/ Step

RequestSpec == RequestInit /\ [][RequestNext]_requestVars

-----------------------------------------------------------------------------
(* Properties. *)

\* A call is given its own messages only, in order: always over HTTP, and over gRPC
\* when no earlier call left frames in the queue.
OwnFrames ==
    kind = "http" \/ clean =>
        IF method = "process" THEN got # <<>> => got = <<frame("response", 0, got[1].text)>>
        ELSE got = [i \in 1 .. Len(got) |-> frame("stream_chunk", i, got[i].text)]

failed(a) == a.ends = "failure" \/ \E i \in DOMAIN a.frames : a.frames[i].type \in {"error", "empty_chunk"}

\* A call that ends in an error without its context being done or the connection
\* being closed was not answered, unless an earlier call left frames in the queue
\* or the reader of its event stream; and a stream that was answered, was whole.
AnswersDelivered ==
    clean /\ served # NoAnswer =>
        /\ pc = "error" /\ done = "no" /\ ~closed => failed(served)
        /\ pc = "answered" /\ method = "stream" => Len(got) = Len(served.frames) - 1
=============================================================================
