----------------------------- MODULE AgentTeams -----------------------------
(***************************************************************************)
(* patterns/: the agents that hand work to several others, by a plan       *)
(* (SupervisorAgent), in rounds (CollaborativeAgent) and one after another *)
(* (MultiAgentOrchestrator). Each part has an Init and a Next of its own;  *)
(* a variable that parts have in common by name is declared with the first *)
(* of them.                                                                *)
(***************************************************************************)
EXTENDS Integers, Sequences, FiniteSets, SequencesExt

-----------------------------------------------------------------------------
(***************************************************************************)
(* patterns/supervisor.go: one Process of a SupervisorAgent.  The planner  *)
(* and the specialists are other agents, which answer or fail; a subtask   *)
(* is the type of the specialist it is for, a result is keyed by the type  *)
(* and the position of its subtask.                                        *)
(***************************************************************************)

CONSTANTS
    Types,        \* the types specialists are registered for
    MaxSubtasks

Unregistered == "unregistered"

VARIABLES
    pc,           \* where Process is: "plan", "direct", "loop", "call",
                  \* "synthesize", "done"
    plan,
    index,        \* subtasks whose specialist was called
    results,      \* keys of the results
    cancelled,    \* 0, or one more than the value of index when ctx was done
    answer        \* "none", "error", "direct", "synthesis"

supervisorVars == <<pc, plan, index, results, cancelled, answer>>

SupervisorTypeOK ==
    /\ pc \in {"plan", "direct", "loop", "call", "synthesize", "done"}
    /\ index \in 0 .. Len(plan) /\ cancelled \in 0 .. MaxSubtasks + 1
    /\ results \subseteq Types \X (1 .. MaxSubtasks)
    /\ answer \in {"none", "error", "direct", "synthesis"}

SupervisorInit ==
    /\ pc = "plan" /\ plan = <<>> /\ index = 0 /\ results = {}
    /\ cancelled = 0 /\ answer = "none"

return(a) == pc' = "done" /\ answer' = a

\* The planner plans; every type is looked up before anything is run.
Plan ==
    /\ pc = "plan" /\ UNCHANGED <<index, results, cancelled>>
    /\ \/ return("error") /\ UNCHANGED plan
       \/ \E p \in SeqOf(Types \cup {Unregistered}, MaxSubtasks) :
            /\ plan' = p
            /\ IF p = <<>> THEN pc' = "direct" /\ UNCHANGED answer
               ELSE IF Unregistered \in ToSet(p) THEN return("error")
               ELSE pc' = "loop" /\ UNCHANGED answer

\* Nothing to divide: the planner does the work.
Direct ==
    /\ pc = "direct" /\ \E a \in {"direct", "error"} : return(a)
    /\ UNCHANGED <<plan, index, results, cancelled>>

\* Fault: the context is looked at only before the first subtask.
NextSubtask_Deaf ==
    /\ pc = "loop" /\ UNCHANGED <<plan, results, cancelled>>
    /\ IF index = Len(plan) THEN pc' = "synthesize" /\ UNCHANGED <<index, answer>>
       ELSE IF cancelled > 0 /\ index = 0 THEN return("error") /\ UNCHANGED index
       ELSE pc' = "call" /\ index' = index + 1 /\ UNCHANGED answer

NextSubtask ==
    /\ pc = "loop" /\ UNCHANGED <<plan, results, cancelled>>
    /\ IF index = Len(plan) THEN pc' = "synthesize" /\ UNCHANGED <<index, answer>>
       ELSE IF cancelled > 0 THEN return("error") /\ UNCHANGED index
       ELSE pc' = "call" /\ index' = index + 1 /\ UNCHANGED answer

SpecialistReturns ==
    /\ pc = "call" /\ UNCHANGED <<plan, index, cancelled>>
    /\ \/ pc' = "loop" /\ results' = results \cup {<<plan[index], index>>} /\ UNCHANGED answer
       \/ return("error") /\ UNCHANGED results

\* Synthesize does not look at the context (that of SimplePlanner cannot fail).
Synthesize ==
    /\ pc = "synthesize" /\ \E a \in {"synthesis", "error"} : return(a)
    /\ UNCHANGED <<plan, index, results, cancelled>>

CancelSupervisor ==
    /\ pc # "done" /\ cancelled = 0 /\ cancelled' = index + 1
    /\ UNCHANGED <<pc, plan, index, results, answer>>

SupervisorStep == Plan \/ Direct \/ NextSubtask \/ SpecialistReturns \/ Synthesize
SupervisorNext == SupervisorStep \/ CancelSupervisor
SupervisorSpec == SupervisorInit /\ [][SupervisorNext]_supervisorVars

-----------------------------------------------------------------------------

\* A plan is carried out as a whole or given up: a specialist runs only when the
\* plan names no unknown type, what is synthesized holds one result per subtask
\* (two subtasks of one type included), and once the context is done no further
\* specialist is started.
WholePlan ==
    /\ index > 0 => Unregistered \notin ToSet(plan)
    /\ pc = "synthesize" \/ answer = "synthesis" =>
         results = {<<plan[i], i>> : i \in DOMAIN plan}
    /\ cancelled > 0 => index < cancelled

-----------------------------------------------------------------------------
(***************************************************************************)
(* patterns/collaborative.go: one Process of a CollaborativeAgent, and its *)
(* consensus and merge functions.  A response is one of a few opinions.    *)
(***************************************************************************)

CONSTANTS
    Agents,      \* number of agents, at least two
    MaxRounds,   \* maxRounds, 1 or more
    Opinions

VARIABLES
    config,          \* the consensus function and the merge function in use
    rounds,          \* responses of the rounds that are over
    responses,       \* responses of the current round
    context          \* the responses every agent is shown

collaborativeVars == <<config, pc, rounds, responses, context, cancelled, answer>>

Configs == {"none", "ExactMatch", "MajorityAgreement"} \X {"Concatenate", "Vote", "First", "Last"}
None == <<"none", <<>>>>
Error == <<"error", <<>>>>

votes(msgs, o) == Cardinality({i \in DOMAIN msgs : msgs[i] = o})

ExactMatch(msgs) == \A i \in DOMAIN msgs : msgs[i] = msgs[1]

\* Fault: half of the agents count as a majority.
MajorityAgreement_Half(msgs) ==
    Len(msgs) <= 1 \/ \E o \in ToSet(msgs) : votes(msgs, o) >= (Len(msgs) + 1) \div 2

MajorityAgreement(msgs) ==
    Len(msgs) <= 1 \/ \E o \in ToSet(msgs) : votes(msgs, o) >= Len(msgs) \div 2 + 1

\* The opinions Vote may return: the map of votes is walked in any order, and
\* the first opinion with the most votes wins.
Vote(msgs) == {o \in ToSet(msgs) : \A p \in ToSet(msgs) : votes(msgs, o) >= votes(msgs, p)}

consensus(msgs) ==
    CASE config[1] = "ExactMatch" -> ExactMatch(msgs)
      [] config[1] = "MajorityAgreement" -> MajorityAgreement(msgs)
      [] OTHER -> FALSE

\* The contents the merged message may have.
merge(msgs) ==
    CASE config[2] = "Concatenate" -> {msgs}
      [] config[2] = "Vote" -> {<<o>> : o \in Vote(msgs)}
      [] config[2] = "First" -> {<<Head(msgs)>>}
      [] OTHER -> {<<Last(msgs)>>}

CollaborativeTypeOK ==
    /\ config \in Configs /\ pc \in {"round", "agents", "done"} /\ cancelled \in BOOLEAN
    /\ Len(rounds) <= MaxRounds /\ \A r \in ToSet(rounds) : Len(r) = Agents
    /\ Len(responses) <= Agents

CollaborativeInit ==
    /\ config \in Configs /\ pc = "round" /\ rounds = <<>> /\ responses = <<>>
    /\ context = <<>> /\ cancelled = FALSE /\ answer = None

BeginRound ==
    /\ pc = "round"
    /\ IF Len(rounds) = MaxRounds
       THEN /\ pc' = "done"
            /\ \E m \in merge(Last(rounds)) : answer' = <<"max_rounds", m>>
       ELSE IF cancelled THEN pc' = "done" /\ answer' = Error
       ELSE pc' = "agents" /\ UNCHANGED answer
    /\ responses' = <<>>
    /\ UNCHANGED <<config, rounds, context, cancelled>>

\* The next agent of the round answers; the last one ends the round.
OpinionReturns ==
    /\ pc = "agents" /\ UNCHANGED <<config, cancelled>>
    /\ \/ /\ pc' = "done" /\ answer' = Error
          /\ UNCHANGED <<rounds, responses, context>>
       \/ \E o \in Opinions :
            LET rs == Append(responses, o)
            IN IF Len(rs) < Agents
               THEN responses' = rs /\ UNCHANGED <<pc, rounds, context, answer>>
               ELSE /\ rounds' = Append(rounds, rs) /\ responses' = <<>>
                    /\ IF consensus(rs)
                       THEN /\ pc' = "done" /\ UNCHANGED context
                            /\ \E m \in merge(rs) : answer' = <<"consensus", m>>
                       ELSE /\ pc' = "round" /\ context' = context \o rs
                            /\ UNCHANGED answer

CancelCollaborative ==
    /\ pc # "done" /\ ~cancelled /\ cancelled' = TRUE
    /\ UNCHANGED <<config, pc, rounds, responses, context, answer>>

CollaborativeStep == BeginRound \/ OpinionReturns
CollaborativeNext == CollaborativeStep \/ CancelCollaborative
CollaborativeSpec == CollaborativeInit /\ [][CollaborativeNext]_collaborativeVars
-----------------------------------------------------------------------------

\* The answer stands on the last round alone, and consensus means what it says:
\* only the last round can have had it; a consensus of the majority that is merged
\* by vote returns the opinion of more than half of the agents, although ties
\* between opinions are broken by the order of a map; and every agent of a round
\* saw all the rounds before it and nothing of its own round.
ConsensusSound ==
    /\ context = FlattenSeq(IF answer[1] = "consensus" THEN Front(rounds) ELSE rounds)
    /\ \A i \in 1 .. Len(rounds) - 1 : ~consensus(rounds[i])
    /\ answer[1] = "consensus" /\ config = <<"MajorityAgreement", "Vote">> =>
         2 * votes(Last(rounds), answer[2][1]) > Agents
    /\ answer[1] = "consensus" /\ config[1] = "ExactMatch" /\ config[2] # "Concatenate" =>
         \A i \in 1 .. Agents : Last(rounds)[i] = answer[2][1]

-----------------------------------------------------------------------------
(***************************************************************************)
(* patterns/multiagent.go: a MultiAgentOrchestrator whose Process walks    *)
(* the map of agents while the agents it calls may register or unregister  *)
(* agents.  A walk over a Go map visits every key that stays in it once,   *)
(* in any order; a key added meanwhile may or may not be visited, a key    *)
(* removed before its turn is not.                                         *)
(***************************************************************************)

CONSTANTS
    Names,       \* the names agents are registered under
    MaxCalls     \* calls of Process

VARIABLES
    agents,          \* names in the map
    tasks,           \* the task list: name and status
    visited,         \* names this walk has visited
    stayed,          \* names that were in the map all the time since Process began
    calls

multiAgentVars == <<agents, tasks, pc, visited, stayed, results, calls>>

MultiAgentTypeOK ==
    /\ agents \subseteq Names /\ visited \subseteq Names /\ stayed \subseteq Names
    /\ pc \in {"idle", "walk", "agent"} /\ calls \in 0 .. MaxCalls
    /\ \A t \in ToSet(tasks) : t \in Names \X {"in_progress", "completed", "failed"}

MultiAgentInit ==
    /\ agents = {} /\ tasks = <<>> /\ pc = "idle" /\ visited = {} /\ stayed = {}
    /\ results = <<>> /\ calls = 0

RegisterAgent(n) ==
    /\ pc # "walk" /\ agents' = agents \cup {n}
    /\ UNCHANGED <<tasks, pc, visited, stayed, results, calls>>

UnregisterAgent(n) ==
    /\ pc # "walk" /\ agents' = agents \ {n} /\ stayed' = stayed \ {n}
    /\ UNCHANGED <<tasks, pc, visited, results, calls>>

Process ==
    /\ pc = "idle" /\ calls < MaxCalls /\ calls' = calls + 1
    /\ pc' = "walk" /\ visited' = {} /\ stayed' = agents /\ results' = <<>>
    /\ UNCHANGED <<agents, tasks>>

\* The next agent of the walk is called, with a task in progress.
CallAgent(n) ==
    /\ pc = "walk" /\ n \in agents \ visited
    /\ tasks' = Append(tasks, <<n, "in_progress">>)
    /\ visited' = visited \cup {n} /\ pc' = "agent"
    /\ UNCHANGED <<agents, stayed, results, calls>>

\* Fault: a failure leaves the task as it is.
AgentReturns_Lost(failed) ==
    /\ pc = "agent" /\ pc' = "walk"
    /\ tasks' = [tasks EXCEPT ![Len(tasks)][2] = IF failed THEN @ ELSE "completed"]
    /\ results' = Append(results, <<tasks[Len(tasks)][1], failed>>)
    /\ UNCHANGED <<agents, visited, stayed, calls>>

\* A failure is noted and the walk goes on.
AgentReturns(failed) ==
    /\ pc = "agent" /\ pc' = "walk"
    /\ tasks' = [tasks EXCEPT ![Len(tasks)][2] = IF failed THEN "failed" ELSE "completed"]
    /\ results' = Append(results, <<tasks[Len(tasks)][1], failed>>)
    /\ UNCHANGED <<agents, visited, stayed, calls>>

\* The walk is over; keys that were added meanwhile may not have been visited.
Return ==
    /\ pc = "walk" /\ stayed \subseteq visited /\ pc' = "idle"
    /\ UNCHANGED <<agents, tasks, visited, stayed, results, calls>>

MultiAgentNext ==
    \/ \E n \in Names : RegisterAgent(n) \/ UnregisterAgent(n) \/ CallAgent(n)
    \/ Process \/ Return
    \/ \E f \in BOOLEAN : AgentReturns(f)

MultiAgentSpec == MultiAgentInit /\ [][MultiAgentNext]_multiAgentVars
-----------------------------------------------------------------------------

\* The task list tells what happened although agents come and go during the walk:
\* between calls no task is left in progress; the tasks this call added are its
\* results, in order, one per agent it visited; and no agent that was registered
\* throughout is left out, failures of others included.
TasksTellResults ==
    LET open == IF pc = "agent" THEN 1 ELSE 0
        mine == SubSeq(tasks, Len(tasks) - Len(results) - open + 1, Len(tasks) - open)
    IN /\ \A i \in 1 .. Len(tasks) - open : tasks[i][2] # "in_progress"
       /\ results = [i \in DOMAIN results |-> <<mine[i][1], mine[i][2] = "failed">>]
       /\ Len(results) + open = Cardinality(visited)
       /\ pc = "idle" /\ calls > 0 => stayed \subseteq {r[1] : r \in ToSet(results)}
=============================================================================
