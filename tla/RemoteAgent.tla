----------------------------- MODULE RemoteAgent ----------------------------
(***************************************************************************)
(* adapter/remote/remote_agent.go: RemoteAgent, over the stream transports *)
(* of adapter/transport/transport.go (Unix socket, TCP), with the handler  *)
(* of each connection in adapter/local/local_agent.go at the other end.    *)
(*                                                                         *)
(* Callers share one RemoteAgent.  r.mu serializes the exchanges, not      *)
(* ensureConnected or Close; neither end compares the IDs of envelopes;    *)
(* the transports read and write without a deadline.  A message is the     *)
(* caller whose request it answers and its place in the answer.            *)
(***************************************************************************)
EXTENDS Integers, Sequences

CONSTANTS
    Callers,         \* each makes one call
    Chunks,          \* bound: chunks of a streamed answer
    MaxConns         \* bound: connections made

RemoteAssumption == Chunks \in Nat /\ MaxConns \in Nat

Conns == 1 .. MaxConns
None == 0

VARIABLES
    connected,       \* r.connected
    conn, conns,     \* transport.conn, and how many connections were made
    mu,              \* who holds r.mu: a caller, or {}
    pc, method, got, \* per caller: where it is, its call, the messages it was given
    using,           \* the connection it reads from
    inHand,          \* the chunk its stream offers on messageChan
    cancelled,       \* the callers whose context is done
    toServer, toClient,  \* per connection: the frames under way
    open,            \* the connections that are not closed
    serving,         \* per connection: the request its handler works on
    abandoned,       \* history: a stream was left before its last frame
    replaced         \* history: a connection was replaced while in use

clientVars == <<connected, conn, conns, mu>>
callVars == <<pc, method, got, using, inHand, cancelled>>
netVars == <<toServer, toClient, open, serving>>
history == <<abandoned, replaced>>
vars == <<clientVars, callVars, netVars, history>>

Ended == {"answered", "error"}
Frames == [type : {"response", "error", "stream_chunk", "stream_end"}, to : Callers, n : 0 .. Chunks]
idle == <<>>                          \* a handler between requests

TypeOK ==
    /\ connected \in BOOLEAN /\ conn \in {None} \cup Conns /\ conns \in 0 .. MaxConns
    /\ mu \in {{}} \cup {{c} : c \in Callers}
    /\ pc \in [Callers -> {"new", "dial", "lock", "send", "receive", "reading", "offer"} \cup Ended]
    /\ method \in [Callers -> {"process", "stream"}]
    /\ \A c \in Callers : \A i \in DOMAIN got[c] : got[c][i] \in Callers \X (0 .. Chunks)
    /\ \A k \in Conns : \A i \in DOMAIN toClient[k] : toClient[k][i] \in Frames
    /\ open \subseteq Conns /\ cancelled \subseteq Callers

Init ==
    /\ connected = FALSE /\ conn = None /\ conns = 0 /\ mu = {}
    /\ pc = [c \in Callers |-> "new"]
    /\ method \in [Callers -> {"process", "stream"}]
    /\ got = [c \in Callers |-> <<>>] /\ using = [c \in Callers |-> None] /\ inHand = [c \in Callers |-> <<>>]
    /\ cancelled = {} /\ open = {}
    /\ toServer = [k \in Conns |-> <<>>] /\ toClient = [k \in Conns |-> <<>>]
    /\ serving = [k \in Conns |-> idle]
    /\ abandoned = FALSE /\ replaced = FALSE

-----------------------------------------------------------------------------
(* RemoteAgent. *)

at(c, p) == pc' = [pc EXCEPT ![c] = p]

\* ensureConnected, which looks at r.connected without r.mu.
Call(c) ==
    /\ pc[c] = "new"
    /\ at(c, IF connected THEN "lock" ELSE "dial")
    /\ UNCHANGED <<clientVars, method, got, using, inHand, cancelled, netVars, history>>

\* transport.Connect: the connection it makes becomes the transport's.
Connect(c) ==
    /\ pc[c] = "dial" /\ conns < MaxConns
    /\ conns' = conns + 1 /\ conn' = conns + 1 /\ open' = open \cup {conns + 1}
    /\ connected' = TRUE
    /\ replaced' = (replaced \/ mu # {})
    /\ at(c, "lock")
    /\ UNCHANGED <<mu, method, got, using, inHand, cancelled, toServer, toClient, serving, abandoned>>

ConnectFails(c) ==
    /\ pc[c] = "dial"
    /\ at(c, "error")
    /\ UNCHANGED <<clientVars, method, got, using, inHand, cancelled, netVars, history>>

\* Fault: the exchanges are not serialized.
Lock_Free(c) ==
    /\ pc[c] = "lock"
    /\ mu' = {c} /\ at(c, "send")
    /\ UNCHANGED <<connected, conn, conns, method, got, using, inHand, cancelled, netVars, history>>

Lock(c) ==
    /\ pc[c] = "lock" /\ mu = {}
    /\ mu' = {c} /\ at(c, "send")
    /\ UNCHANGED <<connected, conn, conns, method, got, using, inHand, cancelled, netVars, history>>

\* Fault: an error path keeps r.mu.
return_Locked(c, r) ==
    /\ at(c, r) /\ mu' = IF r = "error" THEN mu ELSE {}
    /\ using' = [using EXCEPT ![c] = None] /\ inHand' = [inHand EXCEPT ![c] = <<>>]

\* The call ends with r.mu released.
return(c, r) ==
    /\ at(c, r) /\ mu' = {}
    /\ using' = [using EXCEPT ![c] = None] /\ inHand' = [inHand EXCEPT ![c] = <<>>]

SendFramed(c) ==
    /\ pc[c] = "send"
    /\ IF conn \in open
       THEN /\ toServer' = [toServer EXCEPT ![conn] = Append(@, c)]
            /\ at(c, "receive") /\ UNCHANGED <<mu, using, inHand>>
       ELSE return(c, "error") /\ UNCHANGED toServer
    /\ UNCHANGED <<connected, conn, conns, method, got, cancelled, toClient, open, serving, history>>

\* ReceiveFramed begins to read from the transport's connection of this moment.
BeginReceive(c) ==
    /\ pc[c] = "receive"
    /\ IF conn = None THEN return(c, "error")
       ELSE at(c, "reading") /\ using' = [using EXCEPT ![c] = conn] /\ UNCHANGED <<mu, inHand>>
    /\ UNCHANGED <<connected, conn, conns, method, got, cancelled, netVars, history>>

\* A frame arrives, and what Process or handleStreamResponse does with it.
Receive(c) ==
    /\ pc[c] = "reading" /\ toClient[using[c]] # <<>>
    /\ toClient' = [toClient EXCEPT ![using[c]] = Tail(@)]
    /\ LET frame == Head(toClient[using[c]])
           message == <<frame.to, frame.n>>
       IN
       CASE method[c] = "process" /\ frame.type = "response" ->
                /\ got' = [got EXCEPT ![c] = Append(@, message)]
                /\ return(c, "answered")
         [] method[c] = "stream" /\ frame.type = "stream_chunk" ->
                /\ inHand' = [inHand EXCEPT ![c] = message] /\ at(c, "offer")
                /\ UNCHANGED <<mu, got, using>>
         [] method[c] = "stream" /\ frame.type = "stream_end" ->
                return(c, "answered") /\ UNCHANGED got
         [] OTHER -> return(c, "error") /\ UNCHANGED got
    /\ UNCHANGED <<connected, conn, conns, method, cancelled, toServer, open, serving, history>>

\* The connection is closed.
ReceiveFails(c) ==
    /\ pc[c] = "reading" /\ using[c] \notin open /\ toClient[using[c]] = <<>>
    /\ return(c, "error")
    /\ UNCHANGED <<connected, conn, conns, method, got, cancelled, netVars, history>>

\* The consumer takes the chunk.
Deliver(c) ==
    /\ pc[c] = "offer"
    /\ got' = [got EXCEPT ![c] = Append(@, inHand[c])]
    /\ inHand' = [inHand EXCEPT ![c] = <<>>] /\ at(c, "receive")
    /\ UNCHANGED <<clientVars, method, using, cancelled, netVars, history>>

\* The context is done first: the stream ends, its other frames unread.
Abandon(c) ==
    /\ pc[c] = "offer" /\ c \in cancelled
    /\ abandoned' = TRUE /\ return(c, "error")
    /\ UNCHANGED <<connected, conn, conns, method, got, cancelled, netVars, replaced>>

Cancel(c) ==
    /\ pc[c] \notin Ended \cup {"new"} /\ c \notin cancelled
    /\ cancelled' = cancelled \cup {c}
    /\ UNCHANGED <<clientVars, pc, method, got, using, inHand, netVars, history>>

Close ==
    /\ connected /\ conn # None
    /\ connected' = FALSE /\ conn' = None /\ open' = open \ {conn}
    /\ UNCHANGED <<conns, mu, callVars, toServer, toClient, serving, history>>

-----------------------------------------------------------------------------
(* handleClient and handleStreamRequest of LocalAgent, for connection k. *)

sends(k, type, to, n) ==
    toClient' = IF k \in open
                THEN [toClient EXCEPT ![k] = Append(@, [type |-> type, to |-> to, n |-> n])]
                ELSE toClient

ServerReads(k) ==
    /\ serving[k] = idle /\ toServer[k] # <<>> /\ k \in open
    /\ serving' = [serving EXCEPT ![k] = <<Head(toServer[k]), 1>>]
    /\ toServer' = [toServer EXCEPT ![k] = Tail(@)]
    /\ UNCHANGED <<clientVars, callVars, toClient, open, history>>

\* The response of the agent, or its error.
ServerResponds(k) ==
    /\ serving[k] # idle /\ method[serving[k][1]] = "process"
    /\ \E type \in {"response", "error"} : sends(k, type, serving[k][1], 0)
    /\ serving' = [serving EXCEPT ![k] = idle]
    /\ UNCHANGED <<clientVars, callVars, toServer, open, history>>

\* Fault: a chunk after the last one.
chunksLeft_OneMore(k) == serving[k][2] <= Chunks + 1

chunksLeft(k) == serving[k][2] <= Chunks

\* A chunk of the agent's stream, its end, or its error.
ServerStreams(k) ==
    /\ serving[k] # idle /\ method[serving[k][1]] = "stream"
    /\ \/ /\ chunksLeft(k) /\ sends(k, "stream_chunk", serving[k][1], serving[k][2])
          /\ serving' = [serving EXCEPT ![k] = <<@[1], @[2] + 1>>]
       \/ /\ ~chunksLeft(k) /\ sends(k, "stream_end", serving[k][1], 0)
          /\ serving' = [serving EXCEPT ![k] = idle]
       \/ /\ sends(k, "error", serving[k][1], 0)
          /\ serving' = [serving EXCEPT ![k] = idle]
    /\ UNCHANGED <<clientVars, callVars, toServer, open, history>>

\* The server closes the connection: it stops, or could not read a request.
ServerCloses(k) ==
    /\ k \in open
    /\ open' = open \ {k}
    /\ UNCHANGED <<clientVars, callVars, toServer, toClient, serving, history>>

Exchange(c) ==
    \/ Call(c) \/ Connect(c) \/ ConnectFails(c) \/ Lock(c) \/ SendFramed(c)
    \/ BeginReceive(c) \/ Receive(c) \/ ReceiveFails(c) \/ Deliver(c) \/ Abandon(c)
Serve(k) == ServerReads(k) \/ ServerResponds(k) \/ ServerStreams(k)

Next ==
    \/ \E c \in Callers : Exchange(c) \/ Cancel(c)
    \/ Close
    \/ \E k \in Conns : Serve(k) \/ ServerCloses(k)

Spec == Init /\ [][Next]_vars

-----------------------------------------------------------------------------
(* Properties. *)

\* A call is given messages of its own answer only, in order, and a call that
\* was answered the whole of it, until a stream is abandoned on the connection
\* or the connection is replaced.
OwnAnswer ==
    ~abandoned /\ ~replaced =>
        \A c \in Callers :
            /\ method[c] = "process" => got[c] \in {<<>>, << <<c, 0>> >>}
            /\ method[c] = "stream" => got[c] = [i \in 1 .. Len(got[c]) |-> <<c, i>>]
            /\ pc[c] = "answered" /\ method[c] = "stream" => Len(got[c]) = Chunks

\* "Serialize requests on same connection": a call is never given a message that
\* answers another call.
NoForeignAnswer == \A c \in Callers : \A i \in DOMAIN got[c] : got[c][i][1] = c
=============================================================================
