------------------------------- MODULE MCCalls -------------------------------
(*****************************************************************************)
(* Agents at a distance, progress: the framed connection of RemoteAgent      *)
(* and its server, the WebSocket transport, the HTTP and gRPC transports     *)
(* and servers, the MCP client, the AG-UI event stream, and the clients of   *)
(* the language models. Each behaviour exercises one of the components,      *)
(* the subject; the variables of the others are unused.                      *)
(*****************************************************************************)
EXTENDS Integers

VARIABLES
    subject,
    connected, conn, mu, pc, method, got, inHand, cancelled, toServer, toClient,
    running, closed, made, stopped, kind, done, answer,
    conns, using, open, serving, abandoned, replaced,
    listener, acceptor, handler, connections, stop,
    reconnectMu, started, loop, selecting, op, closer, awaited, direct,
    framed, calls, served, queue, pending, reader, clean,
    life, starts, http3, call,
    nextID, req, stdin, server,
    adapter, consumer, producer, todo, response, events, relayed, relay, sent, ended,
    ctxDone, gone, beats, beating, crashed, pendingInterrupts, reply,
    provider, messages, options, request, body, ending, pos, held, chunks, reading

remoteVars == <<conns, using, open, serving, abandoned, replaced>>
serverVars == <<listener, acceptor, handler, connections, stop>>
socketVars == <<reconnectMu, started, loop, selecting, op, closer, awaited, direct>>
transportsVars == <<framed, calls, served, queue, pending, reader, clean>>
serversVars == <<life, starts, http3, call>>
mcpVars == <<nextID, req, stdin, server>>
aguiVars == <<adapter, consumer, producer, todo, response, events, relayed, relay, sent,
              ended, ctxDone, gone, beats, beating, crashed, pendingInterrupts, reply>>
llmVars == <<provider, messages, options, request, body, ending, pos, held, chunks,
             reading>>
suiteVars == <<subject, connected, conn, mu, pc, method, got, inHand, cancelled,
               toServer, toClient, running, closed, made, stopped, kind, done, answer,
               remoteVars, serverVars, socketVars, transportsVars, serversVars, mcpVars,
               aguiVars, llmVars>>

\* The value of the variables that the subject does not have.
Unused == "unused"

At(s, P) == subject = s /\ P

A == INSTANCE RemoteAgent WITH
    Callers <- {"c1", "c2"}, Chunks <- 1, MaxConns <- 1
S == INSTANCE LocalAgent WITH
    Clients <- {"d1", "d2"}
W == INSTANCE Transports WITH
    Callers <- {"c1"}, MaxConns <- 2, MaxCalls <- 2, MaxChunks <- 1, QueueCap <- 2
N == INSTANCE AgentServer WITH
    Calls <- {"c1"}, MaxChunks <- 2, ChanCap <- 1, MaxDefects <- 1, MaxStarts <- 1
M == INSTANCE Protocols WITH
    Callers <- {"c1", "c2"}, MaxCalls <- 1, Tools <- {"t"}, Unknown <- "u", ChunkSize <-
    2, Lengths <- {3}, ChanCap <- 1, MaxBeats <- 1
C == INSTANCE LLMClients WITH
    Providers <- {"anthropic", "openai", "compatible", "bedrock", "gemini", "litellm",
    "ollama"}, MaxMessages <- 1, MaxPieces <- 1

SuiteInit ==
    /\ subject \in {"remote", "server", "socket", "transports", "servers", "mcp",
                    "agui", "llm"}
    /\ IF subject = "remote" THEN A!Init
       ELSE conns = Unused /\ using = Unused /\ open = Unused /\ serving = Unused /\ abandoned =
            Unused /\ replaced = Unused
    /\ IF subject = "server" THEN S!Init
       ELSE listener = Unused /\ acceptor = Unused /\ handler = Unused /\ connections = Unused
            /\ stop = Unused
    /\ IF subject = "socket" THEN W!SocketInit
       ELSE reconnectMu = Unused /\ started = Unused /\ loop = Unused /\ selecting = Unused 
            /\ op = Unused /\ closer = Unused /\ awaited = Unused /\ direct = Unused
    /\ IF subject = "transports" THEN W!RequestInit
       ELSE framed = Unused /\ calls = Unused /\ served = Unused /\ queue = Unused /\ pending =
            Unused /\ reader = Unused /\ clean = Unused
    /\ IF subject = "servers" THEN N!Init
       ELSE life = Unused /\ starts = Unused /\ http3 = Unused /\ call = Unused
    /\ IF subject = "mcp" THEN M!MCPInit
       ELSE nextID = Unused /\ req = Unused /\ stdin = Unused /\ server = Unused
    /\ IF subject = "agui" THEN M!AGUIInit
       ELSE adapter = Unused /\ consumer = Unused /\ producer = Unused /\ todo = Unused 
            /\ response = Unused /\ events = Unused /\ relayed = Unused /\ relay = Unused /\ sent =
            Unused /\ ended = Unused /\ ctxDone = Unused /\ gone = Unused /\ beats = Unused 
            /\ beating = Unused /\ crashed = Unused /\ pendingInterrupts = Unused /\ reply = Unused
    /\ IF subject = "llm" THEN C!Init
       ELSE provider = Unused /\ messages = Unused /\ options = Unused /\ request = Unused 
            /\ body = Unused /\ ending = Unused /\ pos = Unused /\ held = Unused /\ chunks = Unused
            /\ reading = Unused
    /\ IF subject \in {"remote", "socket", "transports"} THEN TRUE
       ELSE connected = Unused
    /\ IF subject \in {"remote", "socket"} THEN TRUE
       ELSE conn = Unused
    /\ IF subject \in {"remote", "socket", "mcp"} THEN TRUE
       ELSE mu = Unused
    /\ IF subject \in {"remote", "socket", "transports", "mcp", "agui", "llm"} THEN TRUE
       ELSE pc = Unused
    /\ IF subject \in {"remote", "transports", "llm"} THEN TRUE
       ELSE method = Unused
    /\ IF subject \in {"remote", "transports", "mcp"} THEN TRUE
       ELSE got = Unused
    /\ IF subject \in {"remote", "transports", "agui"} THEN TRUE
       ELSE inHand = Unused
    /\ IF subject \in {"remote", "llm"} THEN TRUE
       ELSE cancelled = Unused
    /\ IF subject \in {"remote", "mcp"} THEN TRUE
       ELSE toServer = Unused /\ toClient = Unused
    /\ IF subject \in {"server", "servers"} THEN TRUE
       ELSE running = Unused
    /\ IF subject \in {"server", "transports"} THEN TRUE
       ELSE closed = Unused
    /\ IF subject \in {"socket", "mcp"} THEN TRUE
       ELSE made = Unused
    /\ IF subject \in {"socket", "servers"} THEN TRUE
       ELSE stopped = Unused
    /\ IF subject \in {"transports", "servers", "mcp"} THEN TRUE
       ELSE kind = Unused
    /\ IF subject \in {"transports", "mcp"} THEN TRUE
       ELSE done = Unused
    /\ IF subject \in {"transports", "llm"} THEN TRUE
       ELSE answer = Unused

\* What a step of a subject leaves alone.
remoteRest == <<subject, running, closed, made, stopped, kind, done, answer, serverVars,
                socketVars, transportsVars, serversVars, mcpVars, aguiVars, llmVars>>
serverRest == <<subject, connected, conn, mu, pc, method, got, inHand, cancelled,
                toServer, toClient, made, stopped, kind, done, answer, remoteVars,
                socketVars, transportsVars, serversVars, mcpVars, aguiVars, llmVars>>
socketRest == <<subject, method, got, inHand, cancelled, toServer, toClient, running,
                closed, kind, done, answer, remoteVars, serverVars, transportsVars,
                serversVars, mcpVars, aguiVars, llmVars>>
transportsRest == <<subject, conn, mu, cancelled, toServer, toClient, running, made,
                    stopped, remoteVars, serverVars, socketVars, serversVars, mcpVars,
                    aguiVars, llmVars>>
serversRest == <<subject, connected, conn, mu, pc, method, got, inHand, cancelled,
                 toServer, toClient, closed, made, done, answer, remoteVars, serverVars,
                 socketVars, transportsVars, mcpVars, aguiVars, llmVars>>
mcpRest == <<subject, connected, conn, method, inHand, cancelled, running, closed,
             stopped, answer, remoteVars, serverVars, socketVars, transportsVars,
             serversVars, aguiVars, llmVars>>
aguiRest == <<subject, connected, conn, mu, method, got, cancelled, toServer, toClient,
              running, closed, made, stopped, kind, done, answer, remoteVars,
              serverVars, socketVars, transportsVars, serversVars, mcpVars, llmVars>>
llmRest == <<subject, connected, conn, mu, got, inHand, toServer, toClient, running,
             closed, made, stopped, kind, done, remoteVars, serverVars, socketVars,
             transportsVars, serversVars, mcpVars, aguiVars>>

SuiteNext ==
    \/ subject = "remote" /\ A!Next /\ UNCHANGED remoteRest
    \/ subject = "server" /\ S!Next /\ UNCHANGED serverRest
    \/ subject = "socket" /\ W!SocketNext /\ UNCHANGED socketRest
    \/ subject = "transports" /\ W!RequestNext /\ UNCHANGED transportsRest
    \/ subject = "servers" /\ N!Next /\ UNCHANGED serversRest
    \/ subject = "mcp" /\ M!MCPNext /\ UNCHANGED mcpRest
    \/ subject = "agui" /\ M!AGUINext /\ UNCHANGED aguiRest
    \/ subject = "llm" /\ C!Next /\ UNCHANGED llmRest

remoteAll == <<remoteVars, connected, conn, mu, pc, method, got, inHand, cancelled,
               toServer, toClient>>
serverAll == <<serverVars, running, closed>>
socketAll == <<socketVars, mu, conn, connected, made, stopped, pc>>
transportsAll == <<transportsVars, kind, connected, pc, method, done, answer, inHand,
                   got, closed>>
serversAll == <<serversVars, kind, running, stopped>>
mcpAll == <<mcpVars, kind, mu, pc, made, got, done, toServer, toClient>>
aguiAll == <<aguiVars, pc, inHand>>
llmAll == <<llmVars, method, pc, answer, cancelled>>

\* The fairness of the modules, each for its own subject; the steps of different
\* subjects are never enabled together, so that one condition may stand for several.
\* What it rests on: goroutines that can run do; an agent answers and closes
\* its channels in the end; dials, reads and requests return or fail by their
\* timeouts, as does the wait of Stop; the context of a request is done once
\* its handler returned; and a Go mutex is handed to a waiter that keeps
\* losing it.
SuiteFairness ==
    /\ WF_remoteAll(subject = "remote" /\ A!Exchange("c1"))
    /\ WF_remoteAll(subject = "remote" /\ A!Exchange("c2"))
    /\ WF_remoteAll(subject = "remote" /\ A!Serve(1))
    /\ WF_serverAll(subject = "server" /\ (S!AcceptCheck \/ S!AcceptLoad))
    /\ WF_serverAll(subject = "server" /\ (listener = "nil" /\ S!AcceptFails))
    /\ WF_serverAll(subject = "server" /\ (S!CloseConnections \/ S!StopReturns))
    /\ WF_serverAll(subject = "server" /\ S!handleClient("d1"))
    /\ WF_serverAll(subject = "server" /\ S!handleClient("d2"))
    /\ WF_socketAll(subject = "socket" /\ W!CloseEnds)
    /\ WF_transportsAll(subject = "transports" /\ W!Step)
    /\ WF_transportsAll(subject = "transports" /\ W!ContextEnds("timeout"))
    /\ WF_serversAll(subject = "servers" /\ (N!StopReturns \/ N!StopTimesOut))
    /\ WF_serversAll(subject = "servers" /\ N!Handle("c1"))
    /\ WF_serversAll(subject = "servers" /\ N!CloseMessages("c1"))
    /\ WF_serversAll(subject = "servers" /\ N!CloseErrors("c1"))
    /\ WF_mcpAll(subject = "mcp" /\ (M!Send("c1") \/ M!Receive("c1") \/ M!ReceiveFails("c1")))
    /\ WF_mcpAll(subject = "mcp" /\ (M!Send("c2") \/ M!Receive("c2") \/ M!ReceiveFails("c2")))
    /\ WF_mcpAll(subject = "mcp" /\ M!ServeStdio)
    /\ WF_aguiAll(subject = "agui" /\ M!Produce)
    /\ WF_aguiAll(subject = "agui" /\ M!Consume)
    /\ WF_aguiAll(subject = "agui" /\ M!EndBeat)
    /\ WF_aguiAll(subject = "agui" /\ (pc = "returned" /\ consumer \in {"sse", "ws"} /\ M!ContextEnds))
    /\ WF_llmAll(subject = "llm" /\ C!Send)
    /\ WF_llmAll(subject = "llm" /\ (C!makeRequestFails \/ C!Complete \/ C!Stream))
    /\ SF_suiteVars(
         \/ subject = "remote" /\ A!Lock("c1") /\ UNCHANGED remoteRest
         \/ subject = "socket" /\ W!CallerSteps("c1") /\ UNCHANGED socketRest
         \/ subject = "mcp" /\ M!Lock("c1") /\ UNCHANGED mcpRest)
    /\ SF_suiteVars(
         \/ subject = "remote" /\ A!Lock("c2") /\ UNCHANGED remoteRest
         \/ subject = "socket" /\ W!LoopSteps(1) /\ UNCHANGED socketRest
         \/ subject = "mcp" /\ M!Lock("c2") /\ UNCHANGED mcpRest)
    /\ SF_socketAll(subject = "socket" /\ W!LoopSteps(2))
    /\ SF_socketAll(subject = "socket" /\ W!CloseBegins)

SuiteSpec == SuiteInit /\ [][SuiteNext]_suiteVars /\ SuiteFairness

-----------------------------------------------------------------------------
(* Properties. *)

Called ==
    \/ At("remote", pc["c1"] # "new")
    \/ At("socket", pc["c1"] # "idle")
    \/ At("transports", pc \in W!InCall)
    \/ At("mcp", pc["c1"] # "idle")
    \/ At("agui", pc # "returned" /\ ~crashed)
    \/ At("llm", pc = "called")
Returned ==
    \/ At("remote", pc["c1"] \in A!Ended \/ replaced)
    \/ At("socket", pc["c1"] = "idle" \/ W!CloseStuck)
    \/ At("transports", pc \notin W!InCall)
    \/ At("mcp", pc["c1"] = "idle")
    \/ At("agui", pc = "returned" \/ crashed)
    \/ At("llm", pc \in {"returned", "failed", "closed"} \/ ~reading)

\* Every call returns: of RemoteAgent unless its connection is replaced under
\* an exchange, of the WebSocket transport unless Close is stuck, of the HTTP
\* and gRPC transports, of the MCP client, of the AG-UI consumers, and of the
\* language models unless the consumer stops reading. (Callers are alike: what
\* holds of c1 holds of all.)
LinkCallsReturn == Called ~> Returned

Working ==
    \/ At("servers", N!active("c1") \/ life = "draining")
    \/ At("server", stop = "close")
    \/ At("agui", pc = "returned" /\ consumer \in {"sse", "ws"})
    \/ At("socket", conn = 0 /\ closer = "idle")
Ended ==
    \/ At("servers", ~N!active("c1") /\ life # "draining")
    \/ At("server", stop = "returned" \/ acceptor = "panic")
    \/ At("agui", producer = "closed" /\ relay = "closed")
    \/ At("socket", conn # 0 \/ closer # "idle" \/ \A i \in W!Loops : loop[i] \in {"none", "done"})

\* What works behind a call ends: a request of a server once its agent closed
\* its channels, Stop of LocalAgent unless its accept loop panics, the
\* goroutines behind an AG-UI handler that returned, and the ping loops of a
\* WebSocket transport that is not opened again.
ServersStop == Working ~> Ended
=============================================================================
