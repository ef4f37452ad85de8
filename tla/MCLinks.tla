------------------------------- MODULE MCLinks -------------------------------
(*****************************************************************************)
(* Agents at a distance and the guards of their calls, safety: the           *)
(* registry, the framed connection of RemoteAgent, the accept loop of        *)
(* LocalAgent, the WebSocket transport, the HTTP and gRPC transports and     *)
(* servers, the MCP client, the AG-UI event stream, and the clients of the   *)
(* language models; the audit trail, the meters, the anomaly detector and    *)
(* the validators. Each behaviour exercises one of the components, the       *)
(* subject; the variables of the others are unused.                          *)
(*****************************************************************************)
EXTENDS Integers, Sequences

VARIABLES
    subject,
    cancelled, stop, connected, conn, mu, pc, method, got, inHand, toServer, toClient,
    running, closed, made, stopped, kind, calls, done, answer, ended, held, content,
    latencies,
    agents, age, heartbeats, waiting, waited, pruneTask, pruneDone,
    conns, using, open, serving, abandoned, replaced,
    listener, acceptor, handler, connections,
    reconnectMu, started, loop, selecting, op, closer, awaited, direct,
    framed, served, queue, pending, reader, clean,
    life, starts, http3, call,
    nextID, req, stdin, server,
    adapter, consumer, producer, todo, response, events, relayed, relay, sent, ctxDone,
    gone, beats, beating, crashed, pendingInterrupts, reply,
    provider, messages, options, request, body, ending, pos, chunks, reading,
    name, handle, currentBytes, global, logged, acked, torn,
    message, span, outcome, parent, status, requests, errors, sizes, finished, sink,
    refused, auditing,
    TotalRequests, SuccessRequests, ErrorRequests, InFlightRequests, MinLatency,
    MaxLatency, begun, resets, forgotten,
    now, failed, requestTimestamps, failureCounts, successCounts, recentContent,
    reported, said, ends,
    role, custom, strict, autoRedact, words, score, valid, output, ran

registryVars == <<agents, age, heartbeats, waiting, waited, pruneTask, pruneDone>>
remoteVars == <<conns, using, open, serving, abandoned, replaced>>
serverVars == <<listener, acceptor, handler, connections>>
socketVars == <<reconnectMu, started, loop, selecting, op, closer, awaited, direct>>
transportsVars == <<framed, served, queue, pending, reader, clean>>
serversVars == <<life, starts, http3, call>>
mcpVars == <<nextID, req, stdin, server>>
aguiVars == <<adapter, consumer, producer, todo, response, events, relayed, relay, sent,
              ctxDone, gone, beats, beating, crashed, pendingInterrupts, reply>>
llmVars == <<provider, messages, options, request, body, ending, pos, chunks, reading>>
auditVars == <<name, handle, currentBytes, global, logged, acked, torn>>
observedVars == <<message, span, outcome, parent, status, requests, errors, sizes,
                  finished, sink, refused, auditing>>
metersVars == <<TotalRequests, SuccessRequests, ErrorRequests, InFlightRequests,
                MinLatency, MaxLatency, begun, resets, forgotten>>
anomaliesVars == <<now, failed, requestTimestamps, failureCounts, successCounts,
                   recentContent, reported, said, ends>>
guardsVars == <<role, custom, strict, autoRedact, words, score, valid, output, ran>>
suiteVars == <<subject, cancelled, stop, connected, conn, mu, pc, method, got, inHand,
               toServer, toClient, running, closed, made, stopped, kind, calls, done,
               answer, ended, held, content, latencies, registryVars, remoteVars,
               serverVars, socketVars, transportsVars, serversVars, mcpVars, aguiVars,
               llmVars, auditVars, observedVars, metersVars, anomaliesVars, guardsVars>>

\* The value of the variables that the subject does not have.
Unused == "unused"

Words == {{}, {"read file"}, {"write file"}, {"delete file"}, {"execute"}, {"shell"},
          {"select"}, {"update"}, {"read file", "delete"}}

\* Nested data, with what is to be redacted as a value and under a key.
Text(s) == <<"text", s>>
Data == {<<"dict", [password |-> Text("a"), note |-> Text("secret")]>>,
         <<"list", <<Text("x"), <<"dict", [token |-> <<"list", <<Text("secret")>>>>,
                                           n |-> <<"number", 0>>]>>>>>>,
         Text("x")}

R == INSTANCE Registry WITH
    Agents <- {"a1", "a2"}, heartbeatTimeout <- 2, MaxWait <- 2
A == INSTANCE RemoteAgent WITH
    Callers <- {"c1", "c2"}, Chunks <- 2, MaxConns <- 2
S == INSTANCE LocalAgent WITH
    Clients <- {"d1", "d2"}
W == INSTANCE Transports WITH
    Callers <- {"c1", "c2"}, MaxConns <- 2, MaxCalls <- 2, MaxChunks <- 2, QueueCap <- 2
N == INSTANCE AgentServer WITH
    Calls <- {"c1"}, MaxChunks <- 2, ChanCap <- 1, MaxDefects <- 2, MaxStarts <- 2
M == INSTANCE Protocols WITH
    Callers <- {"c1", "c2"}, MaxCalls <- 1, Tools <- {"t"}, Unknown <- "u", ChunkSize <-
    2, Lengths <- {0, 3}, ChanCap <- 1, MaxBeats <- 1
C == INSTANCE LLMClients WITH
    Providers <- {"anthropic", "openai", "compatible", "bedrock", "gemini", "litellm",
    "ollama"}, MaxMessages <- 2, MaxPieces <- 2
Audit == INSTANCE Safety WITH
    Auditors <- {"c1"}, MaxBytes <- 2, BackupCount <- 2, MinSeverity <- 1, Sizes <- {1,
    3}, MaxEvents <- 4, MaxLoggers <- 2, Callers <- {"c1", "c2"}, User <- [c \in {"c1",
    "c2"} |-> "u"], Contents <- {"x", "y"}, Minute <- 1, MaxRequests <- 2, MaxBurst <-
    1, MinTotal <- 2, Repeat <- 2, Keep <- 3, MaxCalls <- 3, MaxTime <- 2, Words <-
    Words, Threshold <- 10, Scores <- {9, 10}, Schema <- [name |-> "string", age |->
    "int"], Required <- {"name"}, AllowAdditional <- TRUE, Data <- Data
Obs == INSTANCE Observability WITH
    Callers <- {"c1", "c2"}, Adapters <- 2, MaxCalls <- 2, Latencies <- {0, 1, 2},
    MaxMetered <- 3, MaxResets <- 2

\* The constants are those the proofs of LinkProofs assume.
ASSUME LinksAssumption == R!RegistryAssumption /\ A!RemoteAssumption /\ W!SocketAssumption

SuiteInit ==
    /\ subject \in {"registry", "remote", "server", "socket", "transports", "servers",
                    "mcp", "agui", "llm", "audit", "observed", "meters", "anomalies",
                    "guards"}
    /\ IF subject = "registry" THEN R!Init
       ELSE agents = Unused /\ age = Unused /\ heartbeats = Unused /\ waiting = Unused /\ waited
            = Unused /\ pruneTask = Unused /\ pruneDone = Unused
    /\ IF subject = "remote" THEN A!Init
       ELSE conns = Unused /\ using = Unused /\ open = Unused /\ serving = Unused /\ abandoned =
            Unused /\ replaced = Unused
    /\ IF subject = "server" THEN S!Init
       ELSE listener = Unused /\ acceptor = Unused /\ handler = Unused /\ connections = Unused
    /\ IF subject = "socket" THEN W!SocketInit
       ELSE reconnectMu = Unused /\ started = Unused /\ loop = Unused /\ selecting = Unused 
            /\ op = Unused /\ closer = Unused /\ awaited = Unused /\ direct = Unused
    /\ IF subject = "transports" THEN W!RequestInit
       ELSE framed = Unused /\ served = Unused /\ queue = Unused /\ pending = Unused /\ reader =
            Unused /\ clean = Unused
    /\ IF subject = "servers" THEN N!Init
       ELSE life = Unused /\ starts = Unused /\ http3 = Unused /\ call = Unused
    /\ IF subject = "mcp" THEN M!MCPInit
       ELSE nextID = Unused /\ req = Unused /\ stdin = Unused /\ server = Unused
    /\ IF subject = "agui" THEN M!AGUIInit
       ELSE adapter = Unused /\ consumer = Unused /\ producer = Unused /\ todo = Unused 
            /\ response = Unused /\ events = Unused /\ relayed = Unused /\ relay = Unused /\ sent =
            Unused /\ ctxDone = Unused /\ gone = Unused /\ beats = Unused /\ beating = Unused 
            /\ crashed = Unused /\ pendingInterrupts = Unused /\ reply = Unused
    /\ IF subject = "llm" THEN C!Init
       ELSE provider = Unused /\ messages = Unused /\ options = Unused /\ request = Unused 
            /\ body = Unused /\ ending = Unused /\ pos = Unused /\ chunks = Unused /\ reading =
            Unused
    /\ IF subject = "audit" THEN Audit!AuditInit
       ELSE name = Unused /\ handle = Unused /\ currentBytes = Unused /\ global = Unused 
            /\ logged = Unused /\ acked = Unused /\ torn = Unused
    /\ IF subject = "observed" THEN Obs!ObservedInit
       ELSE message = Unused /\ span = Unused /\ outcome = Unused /\ parent = Unused /\ status =
            Unused /\ requests = Unused /\ errors = Unused /\ sizes = Unused /\ finished =
            Unused /\ sink = Unused /\ refused = Unused /\ auditing = Unused
    /\ IF subject = "meters" THEN Obs!MetersInit
       ELSE TotalRequests = Unused /\ SuccessRequests = Unused /\ ErrorRequests = Unused 
            /\ InFlightRequests = Unused /\ MinLatency = Unused /\ MaxLatency = Unused /\ begun =
            Unused /\ resets = Unused /\ forgotten = Unused
    /\ IF subject = "anomalies" THEN Audit!DetectorInit
       ELSE now = Unused /\ failed = Unused /\ requestTimestamps = Unused /\ failureCounts =
            Unused /\ successCounts = Unused /\ recentContent = Unused /\ reported = Unused 
            /\ said = Unused /\ ends = Unused
    /\ IF subject = "guards" THEN Audit!GuardsInit
       ELSE role = Unused /\ custom = Unused /\ strict = Unused /\ autoRedact = Unused /\ words
            = Unused /\ score = Unused /\ valid = Unused /\ output = Unused /\ ran = Unused
    /\ IF subject \in {"registry", "remote", "llm"} THEN TRUE
       ELSE cancelled = Unused
    /\ IF subject \in {"registry", "server"} THEN TRUE
       ELSE stop = Unused
    /\ IF subject \in {"remote", "socket", "transports"} THEN TRUE
       ELSE connected = Unused
    /\ IF subject \in {"remote", "socket"} THEN TRUE
       ELSE conn = Unused
    /\ IF subject \in {"remote", "socket", "mcp"} THEN TRUE
       ELSE mu = Unused
    /\ IF subject \in {"remote", "socket", "transports", "mcp", "agui", "llm",
                      "observed", "meters", "anomalies", "guards"} THEN TRUE
       ELSE pc = Unused
    /\ IF subject \in {"remote", "transports", "llm"} THEN TRUE
       ELSE method = Unused
    /\ IF subject \in {"remote", "transports", "mcp"} THEN TRUE
       ELSE got = Unused
    /\ IF subject \in {"remote", "transports", "agui"} THEN TRUE
       ELSE inHand = Unused
    /\ IF subject \in {"remote", "mcp"} THEN TRUE
       ELSE toServer = Unused /\ toClient = Unused
    /\ IF subject \in {"server", "servers"} THEN TRUE
       ELSE running = Unused
    /\ IF subject \in {"server", "transports", "audit"} THEN TRUE
       ELSE closed = Unused
    /\ IF subject \in {"socket", "mcp"} THEN TRUE
       ELSE made = Unused
    /\ IF subject \in {"socket", "servers"} THEN TRUE
       ELSE stopped = Unused
    /\ IF subject \in {"transports", "servers", "mcp"} THEN TRUE
       ELSE kind = Unused
    /\ IF subject \in {"transports", "observed", "anomalies"} THEN TRUE
       ELSE calls = Unused
    /\ IF subject \in {"transports", "mcp"} THEN TRUE
       ELSE done = Unused
    /\ IF subject \in {"transports", "llm", "guards"} THEN TRUE
       ELSE answer = Unused
    /\ IF subject \in {"agui", "observed"} THEN TRUE
       ELSE ended = Unused
    /\ IF subject \in {"llm", "audit"} THEN TRUE
       ELSE held = Unused
    /\ IF subject \in {"audit", "anomalies"} THEN TRUE
       ELSE content = Unused
    /\ IF subject \in {"observed", "meters"} THEN TRUE
       ELSE latencies = Unused

\* What a step of a subject leaves alone.
registryRest == <<subject, connected, conn, mu, pc, method, got, inHand, toServer,
                  toClient, running, closed, made, stopped, kind, calls, done, answer,
                  ended, held, content, latencies, remoteVars, serverVars, socketVars,
                  transportsVars, serversVars, mcpVars, aguiVars, llmVars, auditVars,
                  observedVars, metersVars, anomaliesVars, guardsVars>>
remoteRest == <<subject, stop, running, closed, made, stopped, kind, calls, done,
                answer, ended, held, content, latencies, registryVars, serverVars,
                socketVars, transportsVars, serversVars, mcpVars, aguiVars, llmVars,
                auditVars, observedVars, metersVars, anomaliesVars, guardsVars>>
serverRest == <<subject, cancelled, connected, conn, mu, pc, method, got, inHand,
                toServer, toClient, made, stopped, kind, calls, done, answer, ended,
                held, content, latencies, registryVars, remoteVars, socketVars,
                transportsVars, serversVars, mcpVars, aguiVars, llmVars, auditVars,
                observedVars, metersVars, anomaliesVars, guardsVars>>
socketRest == <<subject, cancelled, stop, method, got, inHand, toServer, toClient,
                running, closed, kind, calls, done, answer, ended, held, content,
                latencies, registryVars, remoteVars, serverVars, transportsVars,
                serversVars, mcpVars, aguiVars, llmVars, auditVars, observedVars,
                metersVars, anomaliesVars, guardsVars>>
transportsRest == <<subject, cancelled, stop, conn, mu, toServer, toClient, running,
                    made, stopped, ended, held, content, latencies, registryVars,
                    remoteVars, serverVars, socketVars, serversVars, mcpVars, aguiVars,
                    llmVars, auditVars, observedVars, metersVars, anomaliesVars,
                    guardsVars>>
serversRest == <<subject, cancelled, stop, connected, conn, mu, pc, method, got, inHand,
                 toServer, toClient, closed, made, calls, done, answer, ended, held,
                 content, latencies, registryVars, remoteVars, serverVars, socketVars,
                 transportsVars, mcpVars, aguiVars, llmVars, auditVars, observedVars,
                 metersVars, anomaliesVars, guardsVars>>
mcpRest == <<subject, cancelled, stop, connected, conn, method, inHand, running, closed,
             stopped, calls, answer, ended, held, content, latencies, registryVars,
             remoteVars, serverVars, socketVars, transportsVars, serversVars, aguiVars,
             llmVars, auditVars, observedVars, metersVars, anomaliesVars, guardsVars>>
aguiRest == <<subject, cancelled, stop, connected, conn, mu, method, got, toServer,
              toClient, running, closed, made, stopped, kind, calls, done, answer, held,
              content, latencies, registryVars, remoteVars, serverVars, socketVars,
              transportsVars, serversVars, mcpVars, llmVars, auditVars, observedVars,
              metersVars, anomaliesVars, guardsVars>>
llmRest == <<subject, stop, connected, conn, mu, got, inHand, toServer, toClient,
             running, closed, made, stopped, kind, calls, done, ended, content,
             latencies, registryVars, remoteVars, serverVars, socketVars,
             transportsVars, serversVars, mcpVars, aguiVars, auditVars, observedVars,
             metersVars, anomaliesVars, guardsVars>>
auditRest == <<subject, cancelled, stop, connected, conn, mu, pc, method, got, inHand,
               toServer, toClient, running, made, stopped, kind, calls, done, answer,
               ended, latencies, registryVars, remoteVars, serverVars, socketVars,
               transportsVars, serversVars, mcpVars, aguiVars, llmVars, observedVars,
               metersVars, anomaliesVars, guardsVars>>
observedRest == <<subject, cancelled, stop, connected, conn, mu, method, got, inHand,
                  toServer, toClient, running, closed, made, stopped, kind, done,
                  answer, held, content, registryVars, remoteVars, serverVars,
                  socketVars, transportsVars, serversVars, mcpVars, aguiVars, llmVars,
                  auditVars, metersVars, anomaliesVars, guardsVars>>
metersRest == <<subject, cancelled, stop, connected, conn, mu, method, got, inHand,
                toServer, toClient, running, closed, made, stopped, kind, calls, done,
                answer, ended, held, content, registryVars, remoteVars, serverVars,
                socketVars, transportsVars, serversVars, mcpVars, aguiVars, llmVars,
                auditVars, observedVars, anomaliesVars, guardsVars>>
anomaliesRest == <<subject, cancelled, stop, connected, conn, mu, method, got, inHand,
                   toServer, toClient, running, closed, made, stopped, kind, done,
                   answer, ended, held, latencies, registryVars, remoteVars, serverVars,
                   socketVars, transportsVars, serversVars, mcpVars, aguiVars, llmVars,
                   auditVars, observedVars, metersVars, guardsVars>>
guardsRest == <<subject, cancelled, stop, connected, conn, mu, method, got, inHand,
                toServer, toClient, running, closed, made, stopped, kind, calls, done,
                ended, held, content, latencies, registryVars, remoteVars, serverVars,
                socketVars, transportsVars, serversVars, mcpVars, aguiVars, llmVars,
                auditVars, observedVars, metersVars, anomaliesVars>>

SuiteNext ==
    \/ subject = "registry" /\ R!Next /\ UNCHANGED registryRest
    \/ subject = "remote" /\ A!Next /\ UNCHANGED remoteRest
    \/ subject = "server" /\ S!Next /\ UNCHANGED serverRest
    \/ subject = "socket" /\ W!SocketNext /\ UNCHANGED socketRest
    \/ subject = "transports" /\ W!RequestNext /\ UNCHANGED transportsRest
    \/ subject = "servers" /\ N!Next /\ UNCHANGED serversRest
    \/ subject = "mcp" /\ M!MCPNext /\ UNCHANGED mcpRest
    \/ subject = "agui" /\ M!AGUINext /\ UNCHANGED aguiRest
    \/ subject = "llm" /\ C!Next /\ UNCHANGED llmRest
    \/ subject = "audit" /\ Audit!AuditNext /\ UNCHANGED auditRest
    \/ subject = "observed" /\ Obs!ObservedNext /\ UNCHANGED observedRest
    \/ subject = "meters" /\ Obs!MetersNext /\ UNCHANGED metersRest
    \/ subject = "anomalies" /\ Audit!DetectorNext /\ UNCHANGED anomaliesRest
    \/ subject = "guards" /\ Audit!GuardsNext /\ UNCHANGED guardsRest

SuiteSpec == SuiteInit /\ [][SuiteNext]_suiteVars

-----------------------------------------------------------------------------
(* Properties. *)

\* The subject keeps its types: its counters, queues, tables and control
\* points stay in range.
SuiteTypeOK ==
    /\ subject = "registry" => R!TypeOK
    /\ subject = "remote" => A!TypeOK
    /\ subject = "server" => S!TypeOK
    /\ subject = "socket" => W!SocketTypeOK
    /\ subject = "transports" => W!RequestTypeOK
    /\ subject = "servers" => N!TypeOK
    /\ subject = "mcp" => M!MCPTypeOK
    /\ subject = "agui" => M!AGUITypeOK
    /\ subject = "llm" => C!TypeOK
    /\ subject = "audit" => Audit!AuditTypeOK
    /\ subject = "observed" => Obs!ObservedTypeOK
    /\ subject = "meters" => Obs!MetersTypeOK
    /\ subject = "anomalies" => Audit!DetectorTypeOK
    /\ subject = "guards" => Audit!GuardsTypeOK

\* A call is given its own answer, in order and whole: over the connection of
\* RemoteAgent until a stream is abandoned or the connection replaced, over
\* HTTP always and over gRPC while no earlier call left frames in the queue,
\* and over MCP, where the response has the ID of the request.
OwnAnswer ==
    /\ subject = "remote" => A!OwnAnswer
    /\ subject = "transports" => W!OwnFrames /\ W!AnswersDelivered
    /\ subject = "mcp" => M!ResponsesMatch

\* What the consumer of a stream sees is the response: chunks in order and
\* without a hole, the end told once and only of a whole stream, from the HTTP
\* and gRPC servers, from the AG-UI adapter through its relays, and from the
\* readers of the language models.
StreamTellsResponse ==
    /\ subject = "servers" => N!ServedTruthfully
    /\ subject = "agui" => M!EventsTellResponse
    /\ subject = "llm" => C!StreamIsReply

\* A language model is asked the conversation in its order, no message twice
\* and none of the user or the agent left out, and the usage that is read from
\* its answer is what the service counted.
ConversationAsked == subject = "llm" => C!ConversationAsked /\ C!UsageIsCounted

\* What works is not dropped: an agent is pruned from the registry only when
\* its last heartbeat is older than the timeout at that moment, although the
\* clock was read before the lock was taken, and a connection of the WebSocket
\* transport is replaced only by Connect, or by a reconnection that Connect
\* overtook, also when several callers find it lost at once.
DroppedOnlyWhenLost ==
    [][/\ subject = "registry" => R!PruneStep
       /\ subject = "socket" => W!ReplaceStep]_suiteVars

\* The audit trail and the meters miss nothing: the files hold the newest
\* events of the wanted severities in order, across rotations and loggers of
\* one file, and every call is counted once, as what it was, by the tracer and
\* by the metrics of the middleware.
TrailComplete ==
    /\ subject = "audit" => Audit!TrailComplete
    /\ subject = "observed" => Obs!CallsObserved
    /\ subject = "meters" => Obs!MetricsFollowCalls

\* What the anomaly detector reports of a user follows from the history of
\* that user, whatever calls run in between; the validators and permissions
\* judge before the agent or the tool runs, on all that it is given, and what
\* is redacted is gone from nested data.
GuardsHold ==
    /\ subject = "anomalies" => Audit!ReportsFollowHistory
    /\ subject = "guards" => Audit!GuardsHold
=============================================================================
