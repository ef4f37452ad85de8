------------------------------- MODULE Registry -----------------------------
(***************************************************************************)
(* adapter/registry/registry.go: AgentRegistry.                            *)
(*                                                                         *)
(* Every operation runs under r.mu; PruneStaleAgents reads the clock before *)
(* it waits for r.mu, and Stop keeps r.mu while it waits for the prune     *)
(* loop.  Time is kept as ages: of each registration's LastHeartbeat, and  *)
(* of the clock reading of a pruner that waits.  An agent registers again  *)
(* with a new registration or with the struct it used before.              *)
(***************************************************************************)
EXTENDS Integers, FiniteSets

CONSTANTS
    Agents,
    heartbeatTimeout,
    MaxWait            \* bound: for how long a pruner waits for r.mu

RegistryAssumption == heartbeatTimeout \in Nat /\ MaxWait \in Nat

Pruners == {"pruneLoop", "user"}

VARIABLES
    agents,            \* the registered agents
    age,               \* per agent: ticks since its LastHeartbeat
    heartbeats,        \* the agents whose HeartbeatLoop runs
    waiting, waited,   \* the pruners that wait for r.mu, the age of their reading
    pruneTask,         \* the prune loop was started and not stopped
    cancelled,         \* its context is done
    pruneDone,         \* it has ended
    stop               \* "idle", or Stop is at "lock", "wait" (with r.mu)

loopVars == <<pruneTask, cancelled, pruneDone>>
vars == <<agents, age, heartbeats, waiting, waited, loopVars, stop>>

MaxAge == heartbeatTimeout + MaxWait + 1

TypeOK ==
    /\ agents \subseteq Agents /\ heartbeats \subseteq Agents
    /\ age \in [Agents -> 0 .. MaxAge]
    /\ waiting \subseteq Pruners /\ waited \in [Pruners -> 0 .. MaxWait]
    /\ {pruneTask, cancelled, pruneDone} \subseteq BOOLEAN
    /\ stop \in {"idle", "lock", "wait"}

Init ==
    /\ agents = {} /\ heartbeats = {} /\ age = [a \in Agents |-> 0]
    /\ waiting = {} /\ waited = [p \in Pruners |-> 0]
    /\ pruneTask = FALSE /\ cancelled = FALSE /\ pruneDone = TRUE
    /\ stop = "idle"

locked == stop = "wait"

-----------------------------------------------------------------------------
Register(a, new) ==
    /\ ~locked /\ (new \/ a \notin agents)
    /\ agents' = agents \cup {a}
    /\ age' = IF new THEN [age EXCEPT ![a] = 0] ELSE age
    /\ UNCHANGED <<heartbeats, waiting, waited, loopVars, stop>>

Unregister(a) ==
    /\ ~locked /\ a \in agents
    /\ agents' = agents \ {a}
    /\ UNCHANGED <<age, heartbeats, waiting, waited, loopVars, stop>>

StartHeartbeats(a) ==
    /\ a \notin heartbeats
    /\ heartbeats' = heartbeats \cup {a}
    /\ UNCHANGED <<agents, age, waiting, waited, loopVars, stop>>

\* A turn of HeartbeatLoop: it ends when the agent is not registered.
Heartbeat(a) ==
    /\ ~locked /\ a \in heartbeats
    /\ IF a \in agents THEN age' = [age EXCEPT ![a] = 0] /\ UNCHANGED heartbeats
                       ELSE heartbeats' = heartbeats \ {a} /\ UNCHANGED age
    /\ UNCHANGED <<agents, waiting, waited, loopVars, stop>>

\* The context of HeartbeatLoop is done: the agent is dead.
HeartbeatsEnd(a) ==
    /\ a \in heartbeats
    /\ heartbeats' = heartbeats \ {a}
    /\ UNCHANGED <<agents, age, waiting, waited, loopVars, stop>>

-----------------------------------------------------------------------------
(* PruneStaleAgents, called by the loop on a tick or by a user. *)

ReadClock(p) ==
    /\ p \notin waiting
    /\ p = "pruneLoop" => ~pruneDone
    /\ waiting' = waiting \cup {p} /\ waited' = [waited EXCEPT ![p] = 0]
    /\ UNCHANGED <<agents, age, heartbeats, loopVars, stop>>

\* Fault: the reading is taken for later than it is.
stale_Early(a, p) == a \in agents /\ age[a] + waited[p] > heartbeatTimeout

\* Fault: the timeout is in the wrong unit, longer than any age.
stale_Never(a, p) == a \in agents /\ age[a] - waited[p] > MaxAge

stale(a, p) == a \in agents /\ age[a] - waited[p] > heartbeatTimeout

PruneStaleAgents(p) ==
    /\ ~locked /\ p \in waiting
    /\ agents' = {a \in agents : ~stale(a, p)}
    /\ waiting' = waiting \ {p} /\ waited' = [waited EXCEPT ![p] = 0]
    /\ UNCHANGED <<age, heartbeats, loopVars, stop>>

\* pruneLoop sees its context done.
LoopEnds ==
    /\ ~pruneDone /\ cancelled /\ "pruneLoop" \notin waiting
    /\ pruneDone' = TRUE
    /\ UNCHANGED <<agents, age, heartbeats, waiting, waited, pruneTask, cancelled, stop>>

-----------------------------------------------------------------------------
Start ==
    /\ ~locked /\ ~pruneTask
    /\ pruneTask' = TRUE /\ cancelled' = FALSE /\ pruneDone' = FALSE
    /\ UNCHANGED <<agents, age, heartbeats, waiting, waited, stop>>

\* The context given to Start is cancelled by its owner.
ParentCancelled ==
    /\ pruneTask /\ ~cancelled
    /\ cancelled' = TRUE
    /\ UNCHANGED <<agents, age, heartbeats, waiting, waited, pruneTask, pruneDone, stop>>

StopCalled ==
    /\ stop = "idle" /\ stop' = "lock"
    /\ UNCHANGED <<agents, age, heartbeats, waiting, waited, loopVars>>

\* Stop has r.mu: it cancels the loop and waits for it, or has nothing to do.
StopCancels ==
    /\ stop = "lock"
    /\ cancelled' = (cancelled \/ pruneTask)
    /\ stop' = IF pruneTask THEN "wait" ELSE "idle"
    /\ UNCHANGED <<agents, age, heartbeats, waiting, waited, pruneTask, pruneDone>>

StopReturns ==
    /\ stop = "wait" /\ pruneDone
    /\ pruneTask' = FALSE /\ stop' = "idle"
    /\ UNCHANGED <<agents, age, heartbeats, waiting, waited, cancelled, pruneDone>>

Tick ==
    /\ \A p \in waiting : waited[p] < MaxWait
    /\ age' = [a \in Agents |-> IF age[a] < MaxAge THEN age[a] + 1 ELSE age[a]]
    /\ waited' = [p \in Pruners |-> IF p \in waiting THEN waited[p] + 1 ELSE 0]
    /\ UNCHANGED <<agents, heartbeats, waiting, loopVars, stop>>

pruneLoop == ReadClock("pruneLoop") \/ PruneStaleAgents("pruneLoop") \/ LoopEnds
Stop == StopCancels \/ StopReturns

Next ==
    \/ \E a \in Agents : \/ \E new \in BOOLEAN : Register(a, new)
                         \/ Unregister(a) \/ StartHeartbeats(a) \/ Heartbeat(a)
                         \/ HeartbeatsEnd(a)
    \/ pruneLoop \/ ReadClock("user") \/ PruneStaleAgents("user")
    \/ Start \/ ParentCancelled \/ StopCalled \/ Stop
    \/ Tick

Spec == Init /\ [][Next]_vars

\* The prune loop's ticker ticks, locks that are free are granted, and a select
\* does not pick the tick for ever.
Fairness == WF_vars(ReadClock("pruneLoop")) /\ WF_vars(PruneStaleAgents("pruneLoop"))
            /\ SF_vars(LoopEnds) /\ WF_vars(Stop)

FairSpec == Spec /\ Fairness

-----------------------------------------------------------------------------
(* Properties. *)

\* An agent is pruned only when its last heartbeat is older than the timeout at
\* that moment: a heartbeat that came while the pruner waited counts.
PruneStep ==
    \A a \in agents \ agents', p \in Pruners :
        PruneStaleAgents(p) => age[a] > heartbeatTimeout
\* "Stop stops the registry and background tasks": Stop returns.
StopStops == stop # "idle" ~> stop = "idle"
=============================================================================
