----------------------------- MODULE LocalAgent -----------------------------
(***************************************************************************)
(* adapter/local/local_agent.go: LocalAgent, its accept loop, a handler    *)
(* per client and Stop.                                                    *)
(*                                                                         *)
(* isRunning and Stop's first part run under l.mu; the accept loop reads   *)
(* l.listener without it.  Handlers register their connection under connMu *)
(* after they were started.  Start and Stop are not called concurrently.   *)
(***************************************************************************)
EXTENDS Integers, FiniteSets

CONSTANTS Clients

VARIABLES
    running, listener,   \* l.running; l.listener: "open", or "nil"
    acceptor,            \* the accept loop: "check", "load", "accept", "exited", "panic"
    handler,             \* per client: its connection and handler
    connections,         \* the registered connections
    closed,              \* the clients whose connection is closed, by either end
    stop                 \* "idle", "close", "wait", "returned"

vars == <<running, listener, acceptor, handler, connections, closed, stop>>

TypeOK ==
    /\ running \in BOOLEAN /\ listener \in {"open", "nil"}
    /\ acceptor \in {"check", "load", "accept", "exited", "panic"}
    /\ handler \in [Clients -> {"none", "dialled", "started", "check", "read", "serve", "exit"}]
    /\ connections \subseteq Clients /\ closed \subseteq Clients
    /\ stop \in {"idle", "close", "wait", "returned"}

\* Before Start.
Init ==
    /\ running = FALSE /\ listener = "nil" /\ acceptor = "exited"
    /\ handler = [c \in Clients |-> "none"]
    /\ connections = {} /\ closed = {} /\ stop = "idle"

-----------------------------------------------------------------------------
Start ==
    /\ ~running /\ stop \in {"idle", "returned"}
    /\ running' = TRUE /\ listener' = "open" /\ acceptor' = "check" /\ stop' = "idle"
    /\ UNCHANGED <<handler, connections, closed>>

\* A client connects: the listener queues it until Accept.
Dial(c) ==
    /\ handler[c] = "none" /\ listener = "open"
    /\ handler' = [handler EXCEPT ![c] = "dialled"]
    /\ UNCHANGED <<running, listener, acceptor, connections, closed, stop>>

ClientCloses(c) ==
    /\ handler[c] \in {"started", "check", "read", "serve"} /\ c \notin closed
    /\ closed' = closed \cup {c}
    /\ UNCHANGED <<running, listener, acceptor, handler, connections, stop>>

-----------------------------------------------------------------------------
(* acceptConnections. *)

AcceptCheck ==
    /\ acceptor = "check"
    /\ acceptor' = IF running THEN "load" ELSE "exited"
    /\ UNCHANGED <<running, listener, handler, connections, closed, stop>>

\* l.listener.Accept(): a nil listener panics, which ends the program (what other
\* goroutines still do is of no account: Stop cannot return).
AcceptLoad ==
    /\ acceptor = "load"
    /\ acceptor' = IF listener = "nil" THEN "panic" ELSE "accept"
    /\ UNCHANGED <<running, listener, handler, connections, closed, stop>>

Accept(c) ==
    /\ acceptor = "accept" /\ listener = "open" /\ handler[c] = "dialled"
    /\ handler' = [handler EXCEPT ![c] = "started"]
    /\ acceptor' = "check"
    /\ UNCHANGED <<running, listener, connections, closed, stop>>

\* The listener was closed, or an accept failed for another reason.
AcceptFails ==
    /\ acceptor = "accept"
    /\ acceptor' = "check"
    /\ UNCHANGED <<running, listener, handler, connections, closed, stop>>

-----------------------------------------------------------------------------
(* handleClient. *)

Register(c) ==
    /\ handler[c] = "started"
    /\ connections' = connections \cup {c}
    /\ handler' = [handler EXCEPT ![c] = "check"]
    /\ UNCHANGED <<running, listener, acceptor, closed, stop>>

\* Fault: the handler does not look whether the server still runs.
HandlerCheck_Skipped(c) ==
    /\ handler[c] = "check"
    /\ handler' = [handler EXCEPT ![c] = "read"]
    /\ UNCHANGED <<running, listener, acceptor, connections, closed, stop>>

HandlerCheck(c) ==
    /\ handler[c] = "check"
    /\ handler' = [handler EXCEPT ![c] = IF running THEN "read" ELSE "exit"]
    /\ UNCHANGED <<running, listener, acceptor, connections, closed, stop>>

\* A request comes.
Read(c) ==
    /\ handler[c] = "read" /\ c \notin closed
    /\ handler' = [handler EXCEPT ![c] = "serve"]
    /\ UNCHANGED <<running, listener, acceptor, connections, closed, stop>>

ReadFails(c) ==
    /\ handler[c] = "read" /\ c \in closed
    /\ handler' = [handler EXCEPT ![c] = "exit"]
    /\ UNCHANGED <<running, listener, acceptor, connections, closed, stop>>

\* The agent's answer is sent, or the request is refused and the loop left; a
\* send on a closed connection leaves it too.
Serve(c) ==
    /\ handler[c] = "serve"
    /\ \/ c \notin closed /\ handler' = [handler EXCEPT ![c] = "check"]
       \/ handler' = [handler EXCEPT ![c] = "exit"]
    /\ UNCHANGED <<running, listener, acceptor, connections, closed, stop>>

\* The deferred calls: unregister, close, Done.
HandlerExits(c) ==
    /\ handler[c] = "exit"
    /\ connections' = connections \ {c}
    /\ closed' = closed \ {c}
    /\ handler' = [handler EXCEPT ![c] = "none"]
    /\ UNCHANGED <<running, listener, acceptor, stop>>

-----------------------------------------------------------------------------
(* Stop. *)

\* Under l.mu; queued connections die with the listener.
Stop ==
    /\ running /\ stop = "idle"
    /\ running' = FALSE /\ listener' = "nil" /\ stop' = "close"
    /\ handler' = [c \in Clients |-> IF handler[c] = "dialled" THEN "none" ELSE handler[c]]
    /\ UNCHANGED <<acceptor, connections, closed>>

CloseConnections ==
    /\ stop = "close"
    /\ closed' = closed \cup connections /\ stop' = "wait"
    /\ UNCHANGED <<running, listener, acceptor, handler, connections>>

\* l.wg.Wait() is over.
StopReturns ==
    /\ stop = "wait" /\ acceptor = "exited" /\ \A c \in Clients : handler[c] = "none"
    /\ stop' = "returned"
    /\ UNCHANGED <<running, listener, acceptor, handler, connections, closed>>

acceptConnections == AcceptCheck \/ AcceptLoad \/ (\E c \in Clients : Accept(c)) \/ AcceptFails
handleClient(c) ==
    Register(c) \/ HandlerCheck(c) \/ ReadFails(c) \/ Serve(c) \/ HandlerExits(c)

Next ==
    \/ Start \/ Stop \/ CloseConnections \/ StopReturns
    \/ acceptConnections
    \/ \E c \in Clients : Dial(c) \/ ClientCloses(c) \/ Read(c) \/ handleClient(c)

Spec == Init /\ [][Next]_vars

\* Goroutines run and agents answer; a client need not send anything.
Fairness ==
    /\ WF_vars(AcceptCheck \/ AcceptLoad) /\ WF_vars(listener = "nil" /\ AcceptFails)
    /\ WF_vars(CloseConnections \/ StopReturns)
    /\ \A c \in Clients : WF_vars(handleClient(c))

FairSpec == Spec /\ Fairness

-----------------------------------------------------------------------------
(* Properties. *)

\* "Stop stops the agent server": it returns.
StopStops == stop = "close" ~> stop = "returned"
=============================================================================
