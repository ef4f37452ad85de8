----------------------------- MODULE Protocols ------------------------------
(***************************************************************************)
(* protocols/: the Model Context Protocol, and AG-UI. Each part has an     *)
(* Init and a Next of its own; a variable that parts have in common by     *)
(* name is declared with the first of them.                                *)
(***************************************************************************)
EXTENDS Integers, Sequences, FiniteSets, SequencesExt, FiniteSetsExt

-----------------------------------------------------------------------------
(***************************************************************************)
(* protocols/mcp: MCP clients over the pipes of a subprocess (StdioClient) *)
(* or over HTTP (HTTPClient), the tools they offer to agents, and the      *)
(* server (MCPServer.ServeStdio) at the other end.                         *)
(*                                                                         *)
(* A client's mutex makes its callers take turns.  The response is the     *)
(* next one on the pipe: its ID is not compared.  The context is looked at *)
(* before the turn, and by an HTTP request.                                *)
(***************************************************************************)

CONSTANTS
    Callers,         \* each makes MaxCalls calls after another
    MaxCalls,
    Tools, Unknown   \* names of tools the server has; one it does not have

VARIABLES
    kind,            \* "stdio" or "http"
    mu,              \* the caller that holds c.mu, in a set
    nextID,
    pc, req, made,   \* per caller: where it is, its request, its calls so far
    got,             \* per caller: the responses it was given, with its requests
    done,            \* callers whose context is done
    toServer, toClient,  \* the pipes, or the HTTP requests under way
    stdin,           \* the client's end of the pipe is open
    server           \* "reading", "working", "stopped"

mcpVars == <<kind, mu, nextID, pc, req, made, got, done, toServer, toClient, stdin, server>>
client == <<mu, nextID, pc, req, made, got>>

Ended == {"idle", "closed"}
MaxID == Cardinality(Callers) * MaxCalls
Methods == {"initialize", "tools/list", "tools/call", "other"}
NoRequest == [id |-> 0, method |-> "other", tool |-> Unknown]

MCPTypeOK ==
    /\ kind \in {"stdio", "http"} /\ mu \subseteq Callers /\ Cardinality(mu) <= 1
    /\ nextID \in 0 .. MaxID /\ pc \in [Callers -> {"idle", "lock", "send", "receive"}]
    /\ made \in [Callers -> 0 .. MaxCalls] /\ done \subseteq Callers
    /\ \A i \in DOMAIN toServer : toServer[i].id \in 0 .. MaxID
    /\ server \in {"reading", "stopped"} /\ stdin \in BOOLEAN

MCPInit ==
    /\ kind \in {"stdio", "http"} /\ mu = {} /\ nextID = 0
    /\ pc = [c \in Callers |-> "idle"] /\ req = [c \in Callers |-> NoRequest]
    /\ made = [c \in Callers |-> 0] /\ got = [c \in Callers |-> <<>>] /\ done = {}
    /\ toServer = <<>> /\ toClient = <<>> /\ stdin = TRUE /\ server = "reading"

-----------------------------------------------------------------------------
(* The server. *)

\* handleToolsCall, by the tool it names and what its Execute did.
handleToolsCall(r, outcome) ==
    IF r.tool \notin Tools THEN [id |-> r.id, result |-> "rpc_error", of |-> r]
    ELSE [id |-> r.id, result |-> IF outcome = "ok" THEN "ok" ELSE "is_error", of |-> r]

handleRequest(r, outcome) ==
    CASE r.method = "tools/call" -> handleToolsCall(r, outcome)
      [] r.method \in {"initialize", "tools/list"} -> [id |-> r.id, result |-> "ok", of |-> r]
      [] OTHER -> [id |-> r.id, result |-> "rpc_error", of |-> r]

\* One line of standard input and its response.
ServeStdio ==
    /\ server = "reading" /\ toServer # <<>>
    /\ \E outcome \in {"ok", "error"} :
         toClient' = Append(toClient, handleRequest(Head(toServer), outcome))
    /\ toServer' = Tail(toServer)
    /\ UNCHANGED <<kind, client, done, stdin, server>>

\* Standard input is closed and read, or the process dies.
ServerStops ==
    /\ server = "reading"
    /\ server' = "stopped"
    /\ UNCHANGED <<kind, client, done, toServer, toClient, stdin>>

-----------------------------------------------------------------------------
(* The clients: Initialize, ListTools, CallTool. *)

at(c, p) == pc' = [pc EXCEPT ![c] = p]

Call(c) ==
    /\ pc[c] = "idle" /\ made[c] < MaxCalls /\ stdin
    /\ \E m \in Methods \ {"other"}, t \in Tools \cup {Unknown} :
         /\ m # "tools/call" => t = Unknown
         /\ req' = [req EXCEPT ![c] = [id |-> 0, method |-> m, tool |-> t]]
    /\ made' = [made EXCEPT ![c] = @ + 1]
    /\ at(c, "lock")
    /\ UNCHANGED <<kind, mu, nextID, got, done, toServer, toClient, stdin, server>>

\* The call ends; the tool adapter makes a ToolResult, a ToolError or an error of it.
return(c, result) ==
    /\ at(c, "idle") /\ mu' = {}
    /\ got' = [got EXCEPT ![c] = Append(@, [asked |-> req'[c], given |-> result])]

failure == [id |-> 0, result |-> "error", of |-> NoRequest]

\* StdioClient.sendRequest looks at its context once, before the turn.
GiveUp(c) ==
    /\ kind = "stdio" /\ pc[c] = "lock" /\ c \in done
    /\ at(c, "idle") /\ got' = [got EXCEPT ![c] = Append(@, [asked |-> req[c], given |-> failure])]
    /\ UNCHANGED <<kind, mu, nextID, req, made, done, toServer, toClient, stdin, server>>

\* Fault: the lock is given up between the request and its response.
Lock_Free(c) ==
    /\ pc[c] = "lock" /\ nextID' = nextID + 1 /\ UNCHANGED mu
    /\ req' = [req EXCEPT ![c].id = nextID + 1] /\ at(c, "send")
    /\ UNCHANGED <<kind, made, got, done, toServer, toClient, stdin, server>>

Lock(c) ==
    /\ pc[c] = "lock" /\ mu = {}
    /\ mu' = {c} /\ nextID' = nextID + 1
    /\ req' = [req EXCEPT ![c].id = nextID + 1] /\ at(c, "send")
    /\ UNCHANGED <<kind, made, got, done, toServer, toClient, stdin, server>>

\* The request is written, or the pipe is broken; an HTTP request may fail.
Send(c) ==
    /\ pc[c] = "send" /\ UNCHANGED req
    /\ \/ /\ stdin /\ server # "stopped" /\ toServer' = Append(toServer, req[c])
          /\ at(c, "receive") /\ UNCHANGED <<mu, got>>
       \/ /\ kind = "http" \/ ~stdin \/ server = "stopped"
          /\ return(c, failure) /\ UNCHANGED toServer
    /\ UNCHANGED <<kind, nextID, made, done, toClient, stdin, server>>

\* The next response on the pipe; over HTTP, the one to this request.
responseFor(c, i) == kind = "http" => toClient[i].id = req[c].id

Receive(c) ==
    /\ pc[c] = "receive" /\ UNCHANGED req
    /\ \E i \in DOMAIN toClient :
         /\ kind = "stdio" => i = 1
         /\ responseFor(c, i)
         /\ toClient' = SubSeq(toClient, 1, i - 1) \o SubSeq(toClient, i + 1, Len(toClient))
         /\ return(c, toClient[i])
    /\ UNCHANGED <<kind, nextID, made, done, toServer, stdin, server>>

\* The pipe ends, or an HTTP request's context is done or its server gone.
ReceiveFails(c) ==
    /\ pc[c] = "receive" /\ UNCHANGED req
    /\ (kind = "http" /\ c \in done) \/ (server = "stopped" /\ ~\E i \in DOMAIN toClient : responseFor(c, i))
    /\ return(c, failure)
    /\ UNCHANGED <<kind, nextID, made, done, toServer, toClient, stdin, server>>

CallContextEnds(c) ==
    /\ c \notin done /\ pc[c] # "idle" /\ done' = done \cup {c}
    /\ UNCHANGED <<kind, client, toServer, toClient, stdin, server>>

\* Close of a StdioClient, by any goroutine: it takes no turn.
Close ==
    /\ kind = "stdio" /\ stdin /\ stdin' = FALSE
    /\ UNCHANGED <<kind, client, done, toServer, toClient, server>>

\* StdioClient.sendRequest and HTTPClient.sendRequest.
sendRequestStdio(c) == kind = "stdio" /\ (GiveUp(c) \/ Lock(c) \/ Send(c) \/ Receive(c) \/ ReceiveFails(c))
sendRequestHTTP(c) == kind = "http" /\ (Lock(c) \/ Send(c) \/ Receive(c) \/ ReceiveFails(c))

MCPNext ==
    \/ \E c \in Callers : Call(c) \/ sendRequestStdio(c) \/ sendRequestHTTP(c) \/ CallContextEnds(c)
    \/ ServeStdio \/ ServerStops \/ Close

MCPSpec == MCPInit /\ [][MCPNext]_mcpVars

-----------------------------------------------------------------------------
(* Properties. *)

\* A caller that is given a response is given the one to its request: its ID, and
\* for a call of a tool the server does not have an error.
ResponsesMatch ==
    \A c \in Callers : \A i \in DOMAIN got[c] :
        LET asked == got[c][i].asked
            given == got[c][i].given
        IN given # failure =>
              /\ given.of = asked /\ given.id = asked.id
              /\ asked.method = "tools/call" /\ asked.tool = Unknown => given.result = "rpc_error"

-----------------------------------------------------------------------------
(***************************************************************************)
(* protocols/agui: an AGUIAdapter, or an AGUIHumanInLoopAdapter, streams   *)
(* the response of an agent as events over a channel; the SSE handler, the *)
(* WebSocket handler, a streaming function or Process consumes them.  The  *)
(* pings of the SSE handler and the heartbeats of the WebSocket handler    *)
(* come from goroutines of their own, over the same connection.            *)
(*                                                                         *)
(* The response is a content of some length, sent in pieces of ChunkSize.  *)
(***************************************************************************)

CONSTANTS
    ChunkSize,       \* characters of a chunk (50 in the code)
    Lengths,         \* lengths of the response
    ChanCap,         \* capacity of the event channels (10 in the code)
    MaxBeats         \* bound: pings or heartbeats

Adapters == {"plain", "relay", "hil"}         \* "relay": the human-in-loop adapter of another agent
Consumers == {"sse", "ws", "func", "process"}
Statuses == {"none", "approved", "rejected", "approved_with_modifications"}

VARIABLES
    adapter, consumer,
    producer,        \* of the events: "emit", "agent", "rest", "closed"
    todo,            \* events to emit before the next stage
    response,        \* what the agent returned
    events, relayed, \* the adapter's channel, and the one a relay fills from it
    relay,           \* the relaying goroutine: "on", "closed"
    inHand, sent,    \* the event being written; what was written
    ended,           \* how the consumer ended: "none", "complete", "cancelled", "failed"
    ctxDone, gone,   \* the context; the client
    beats, beating,  \* heartbeats sent; one is being written
    crashed,         \* two writers at once
    pendingInterrupts,
    reply            \* what HandleInterruptResponse returned: "none", "ok", "unknown"

aguiVars == <<adapter, consumer, producer, todo, response, events, relayed, relay, pc, inHand, sent,
          ended, ctxDone, gone, beats, beating, crashed, pendingInterrupts, reply>>
stream == <<adapter, consumer, producer, todo, response>>
channels == <<events, relayed, relay>>
reading == <<pc, inHand, sent, ended>>
around == <<ctxDone, gone, pendingInterrupts, reply>>
writer == <<beats, beating, crashed>>

event(type, from, to) == [type |-> type, from |-> from, to |-> to]
plainEvent(type) == event(type, 0, 0)
NoResponse == [fails |-> FALSE, length |-> -1, status |-> "none", serializable |-> TRUE]
Responses == [fails : BOOLEAN, length : Lengths, status : Statuses, serializable : BOOLEAN]

AGUITypeOK ==
    /\ adapter \in Adapters /\ consumer \in Consumers
    /\ producer \in {"emit", "agent", "rest", "closed"} /\ relay \in {"on", "closed"}
    /\ response \in Responses \cup {NoResponse}
    /\ Len(events) <= ChanCap /\ Len(relayed) <= ChanCap
    /\ pc \in {"range", "write", "check", "returned"}
    /\ ended \in {"none", "complete", "cancelled", "failed"}
    /\ ctxDone \in BOOLEAN /\ gone \in BOOLEAN /\ beats \in 0 .. MaxBeats

emitMetadata == IF consumer = "process" THEN <<>> ELSE <<plainEvent("metadata")>>

AGUIInit ==
    /\ consumer \in Consumers
    /\ adapter \in IF consumer \in {"sse"} THEN Adapters ELSE {"plain"}
    /\ producer = "emit" /\ response = NoResponse
    /\ todo = IF adapter = "hil" THEN emitMetadata ELSE Append(emitMetadata, plainEvent("start"))
    /\ events = <<>> /\ relayed = <<>> /\ relay = IF adapter = "relay" THEN "on" ELSE "closed"
    /\ pc = "range" /\ inHand = <<>> /\ sent = <<>> /\ ended = "none"
    /\ ctxDone = FALSE /\ gone = FALSE /\ beats = 0 /\ beating = FALSE /\ crashed = FALSE
    /\ pendingInterrupts = {} /\ reply = "none"

-----------------------------------------------------------------------------
(* The adapter's goroutine. *)

\* Fault: the last, shorter piece of the content is not sent.
chunkCount_Floor(n) == n \div ChunkSize

chunkCount(n) == (n + ChunkSize - 1) \div ChunkSize

chunks(n) ==
    [k \in 1 .. chunkCount(n) |->
        event("chunk", (k - 1) * ChunkSize, IF k * ChunkSize > n THEN n ELSE k * ChunkSize)]

\* What follows the agent's response: AGUIAdapter.StreamEventsWithConfig.
textEvents(r) ==
    IF r.fails THEN <<plainEvent("error"), plainEvent("complete_error")>>
    ELSE Append(chunks(r.length), event("complete", 0, r.length))

\* AGUIHumanInLoopAdapter.StreamEvents and StreamEventsWithConfig, of a
\* HumanInLoopAgent: an interrupt tells a decision already taken.
hilEvents(r) ==
    IF r.fails THEN <<plainEvent("error")>>
    ELSE (IF r.status # "none" THEN <<plainEvent("interrupt")>> ELSE <<>>)
         \o <<plainEvent("start")>> \o chunks(r.length) \o <<event("complete", 0, r.length)>>

\* An event is sent, or the context is done first and the channel closed.
Emit ==
    /\ producer \in {"emit", "rest"} /\ todo # <<>>
    /\ \/ /\ Len(events) < ChanCap
          /\ events' = Append(events, Head(todo)) /\ todo' = Tail(todo) /\ UNCHANGED producer
       \/ ctxDone /\ producer' = "closed" /\ UNCHANGED <<events, todo>>
    /\ UNCHANGED <<adapter, consumer, response, relayed, relay, reading, around, writer>>

Emitted ==
    /\ producer \in {"emit", "rest"} /\ todo = <<>>
    /\ producer' = IF producer = "emit" THEN "agent" ELSE "closed"
    /\ UNCHANGED <<adapter, consumer, todo, response, channels, reading, around, writer>>

AgentReturns ==
    /\ producer = "agent"
    /\ \E r \in Responses :
         /\ adapter # "hil" => r.status = "none"
         /\ response' = r /\ todo' = IF adapter = "hil" THEN hilEvents(r) ELSE textEvents(r)
    /\ producer' = "rest"
    /\ UNCHANGED <<adapter, consumer, channels, reading, around, writer>>

\* The human-in-loop adapter passes on the events of another agent.
Relay ==
    /\ relay = "on"
    /\ \/ /\ events # <<>> /\ Len(relayed) < ChanCap
          /\ relayed' = Append(relayed, Head(events)) /\ events' = Tail(events) /\ UNCHANGED relay
       \/ /\ events # <<>> /\ ctxDone
          /\ events' = Tail(events) /\ relay' = "closed" /\ UNCHANGED relayed
       \/ /\ events = <<>> /\ producer = "closed"
          /\ relay' = "closed" /\ UNCHANGED <<events, relayed>>
    /\ UNCHANGED <<stream, reading, around, writer>>

-----------------------------------------------------------------------------
(* The consumer. *)

incoming == IF adapter = "relay" THEN relayed ELSE events
incomingClosed == incoming = <<>> /\ IF adapter = "relay" THEN relay = "closed" ELSE producer = "closed"

\* An event whose metadata cannot be marshalled is replaced by a word on the error.
formatted(e) == IF e.type = "complete" /\ ~response.serializable THEN plainEvent("format_error") ELSE e

\* StreamSSEEvents and StreamWebSocketEvents give up on such an event.
TakeEvent ==
    /\ pc = "range" /\ incoming # <<>> /\ ~crashed
    /\ IF adapter = "relay" THEN relayed' = Tail(relayed) /\ UNCHANGED <<events, relay>>
       ELSE events' = Tail(events) /\ UNCHANGED <<relayed, relay>>
    /\ LET e == formatted(Head(incoming))
       IN IF consumer = "process"
          THEN /\ sent' = IF e.type \in {"complete", "complete_error", "format_error"}
                          THEN <<Head(incoming)>> ELSE sent
               /\ UNCHANGED <<pc, inHand, ended>>
          ELSE IF consumer = "func" /\ e.type = "format_error"
          THEN pc' = "returned" /\ ended' = "failed" /\ UNCHANGED <<inHand, sent>>
          ELSE pc' = "write" /\ inHand' = <<e>> /\ UNCHANGED <<sent, ended>>
    /\ UNCHANGED <<stream, around, writer>>

\* The write ends; it fails when the client is gone.
Write ==
    /\ pc = "write" /\ ~crashed
    /\ IF gone
       THEN pc' = "returned" /\ ended' = "failed" /\ UNCHANGED sent
       ELSE /\ sent' = Append(sent, inHand[1]) /\ UNCHANGED ended
            /\ pc' = IF consumer = "sse" /\ inHand[1].type # "format_error" THEN "check" ELSE "range"
    /\ inHand' = <<>>
    /\ crashed' = (crashed \/ beating)
    /\ UNCHANGED <<stream, channels, around, beats, beating>>

\* The SSE handler looks at its context after each event.
CheckContext ==
    /\ pc = "check"
    /\ IF ctxDone THEN pc' = "returned" /\ ended' = "cancelled"
       ELSE pc' = "range" /\ UNCHANGED ended
    /\ UNCHANGED <<stream, channels, inHand, sent, around, writer>>

\* The channel is closed: "stream_complete", or the return of Process.
EventsEnd ==
    /\ pc = "range" /\ incomingClosed /\ ~crashed
    /\ pc' = "returned" /\ ended' = "complete"
    /\ UNCHANGED <<stream, channels, inHand, sent, around, writer>>

\* A ping or a heartbeat: its write overlaps that of an event, or not.
BeginBeat ==
    /\ consumer \in {"sse", "ws"} /\ pc # "returned" /\ ~beating /\ ~crashed /\ beats < MaxBeats
    /\ beating' = TRUE /\ beats' = beats + 1
    /\ UNCHANGED <<stream, channels, reading, around, crashed>>

EndBeat ==
    /\ beating /\ beating' = FALSE
    /\ crashed' = (crashed \/ pc = "write")
    /\ UNCHANGED <<stream, channels, reading, around, beats>>

\* The request times out, is cancelled, or its handler returned.
ContextEnds ==
    /\ ~ctxDone /\ ctxDone' = TRUE
    /\ UNCHANGED <<stream, channels, reading, writer, gone, pendingInterrupts, reply>>

ClientGoes ==
    /\ ~gone /\ gone' = TRUE
    /\ UNCHANGED <<stream, channels, reading, writer, ctxDone, pendingInterrupts, reply>>

\* HandleInterruptResponse looks the interrupt up in pendingInterrupts, which
\* nothing fills.
HandleInterruptResponse ==
    /\ reply = "none" /\ "interrupt" \in {sent[i].type : i \in DOMAIN sent}
    /\ reply' = IF "interrupt" \in pendingInterrupts THEN "ok" ELSE "unknown"
    /\ pendingInterrupts' = pendingInterrupts \ {"interrupt"}
    /\ UNCHANGED <<stream, channels, reading, writer, ctxDone, gone>>

Produce == Emit \/ Emitted \/ AgentReturns \/ Relay

\* The consumers, by the function that ranges over the events.
ServeSSE == consumer = "sse" /\ (TakeEvent \/ Write \/ CheckContext \/ EventsEnd)
handleUserMessage == consumer = "ws" /\ (TakeEvent \/ Write \/ EventsEnd)
StreamSSEEvents == consumer = "func" /\ (TakeEvent \/ Write \/ EventsEnd)
ProcessWithMessageID == consumer = "process" /\ (TakeEvent \/ EventsEnd)
Consume == ServeSSE \/ handleUserMessage \/ StreamSSEEvents \/ ProcessWithMessageID

AGUINext == Produce \/ Consume \/ BeginBeat \/ EndBeat \/ ContextEnds \/ ClientGoes
        \/ HandleInterruptResponse

AGUISpec == AGUIInit /\ [][AGUINext]_aguiVars

-----------------------------------------------------------------------------
(* Properties. *)

of(type) == SelectSeq(sent, LAMBDA e : e.type = type)
position(type) == {i \in DOMAIN sent : sent[i].type = type}

\* What a client sees is the response: the chunks follow each other from the start
\* of the content, after the start event; the completion comes once, last, with
\* chunks for the whole content before it; an error comes without a chunk; and a
\* consumer sees the stream end without its last event only if the context was done.
EventsTellResponse ==
    /\ \A i \in DOMAIN of("chunk") :
         of("chunk")[i].from = IF i = 1 THEN 0 ELSE of("chunk")[i - 1].to
    /\ \A i \in position("chunk") : \E j \in position("start") : j < i
    /\ \A i \in position("complete") :
         /\ i = Len(sent)
         /\ consumer # "process" =>
              sent[i].to = IF of("chunk") = <<>> THEN 0 ELSE Last(of("chunk")).to
    /\ position("error") # {} => position("chunk") = {}
    /\ ended = "complete" /\ ~ctxDone =>
         \E i \in DOMAIN sent : sent[i].type \in {"complete", "complete_error", "format_error", "error"}
=============================================================================
