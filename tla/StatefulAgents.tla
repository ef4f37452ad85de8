--------------------------- MODULE StatefulAgents ---------------------------
(***************************************************************************)
(* patterns/: the agents that keep state from call to call: a Task that is *)
(* executed once, the goals of an AutonomousAgent, the history of a        *)
(* ConversationalAgent. Each part has an Init and a Next of its own; a     *)
(* variable that parts have in common by name is declared with the first   *)
(* of them.                                                                *)
(***************************************************************************)
EXTENDS Integers, FiniteSets, Sequences, Functions

-----------------------------------------------------------------------------
(***************************************************************************)
(* patterns/task.go: a Task that several goroutines execute, with its      *)
(* retries, its timeout and the back-off between attempts.  Execute reads  *)
(* and writes the task's fields without a lock.                            *)
(***************************************************************************)

CONSTANTS
    Callers,
    Retries      \* retries of the task, 0 or more

TaskAssumption == Retries \in Nat /\ "none" \notin Callers

VARIABLES
    timeout,     \* whether the task has a timeout
    completed,
    result,      \* the caller whose run produced the stored result, or "none"
    pc,          \* per caller: "start", "agent", "failed", "backoff", "done"
    attempt,     \* per caller: attempts made
    ctx,         \* per caller: its context: "live", "deadline", "canceled"
    execCtx,     \* per caller: the context of the current attempt, likewise
    outcome      \* per caller: what Execute returned

task == <<timeout, completed, result>>
taskVars == <<task, pc, attempt, ctx, execCtx, outcome>>

TaskTypeOK ==
    /\ timeout \in BOOLEAN /\ completed \in BOOLEAN /\ result \in Callers \cup {"none"}
    /\ pc \in [Callers -> {"start", "agent", "failed", "backoff", "done"}]
    /\ attempt \in [Callers -> 0 .. Retries + 1]
    /\ outcome \in [Callers -> {"none", "refused", "ok", "timeout", "failed", "cancelled"}]

TaskInit ==
    /\ timeout \in BOOLEAN /\ completed = FALSE /\ result = "none"
    /\ pc = [c \in Callers |-> "start"] /\ attempt = [c \in Callers |-> 0]
    /\ ctx = [c \in Callers |-> "live"] /\ execCtx = [c \in Callers |-> "live"]
    /\ outcome = [c \in Callers |-> "none"]

return(c, o) == pc' = [pc EXCEPT ![c] = "done"] /\ outcome' = [outcome EXCEPT ![c] = o]

\* An attempt of c starts, in a context made from the caller's.
callAgent(c) ==
    /\ pc' = [pc EXCEPT ![c] = "agent"]
    /\ attempt' = [attempt EXCEPT ![c] = @ + 1]
    /\ execCtx' = [execCtx EXCEPT ![c] = ctx[c]]

\* Fault: a completed task is executed again.
Execute_Again(c) ==
    /\ pc[c] = "start" /\ UNCHANGED <<task, ctx>>
    /\ callAgent(c) /\ UNCHANGED outcome

Execute(c) ==
    /\ pc[c] = "start" /\ UNCHANGED <<task, ctx>>
    /\ IF completed THEN return(c, "refused") /\ UNCHANGED <<attempt, execCtx>>
       ELSE callAgent(c) /\ UNCHANGED outcome

\* A success is returned even when the deadline has passed meanwhile.
AgentReturns(c) ==
    /\ pc[c] = "agent" /\ UNCHANGED <<timeout, attempt, ctx, execCtx>>
    /\ \/ /\ completed' = TRUE /\ result' = c /\ return(c, "ok")
       \/ /\ pc' = [pc EXCEPT ![c] = "failed"] /\ UNCHANGED <<completed, result, outcome>>

\* After an error: a passed deadline ends the task without a retry, so does the
\* last attempt.
AttemptFailed(c) ==
    /\ pc[c] = "failed" /\ UNCHANGED <<timeout, result, attempt, ctx, execCtx>>
    /\ IF execCtx[c] = "deadline" THEN completed' = TRUE /\ return(c, "timeout")
       ELSE IF attempt[c] = Retries + 1 THEN completed' = TRUE /\ return(c, "failed")
       ELSE pc' = [pc EXCEPT ![c] = "backoff"] /\ UNCHANGED <<completed, outcome>>

Backoff(c) ==
    /\ pc[c] = "backoff"
    /\ \/ callAgent(c) /\ UNCHANGED <<task, ctx, outcome>>
       \/ /\ ctx[c] # "live" /\ completed' = TRUE /\ return(c, "cancelled")
          /\ UNCHANGED <<timeout, result, attempt, ctx, execCtx>>

Expire(c) ==
    /\ timeout /\ pc[c] \in {"agent", "failed"} /\ execCtx[c] = "live"
    /\ execCtx' = [execCtx EXCEPT ![c] = "deadline"]
    /\ UNCHANGED <<task, pc, attempt, ctx, outcome>>

\* The caller's context ends, and with it that of the attempt unless it had ended.
CallerEnds(c, e) ==
    /\ ctx[c] = "live" /\ pc[c] # "done" /\ ctx' = [ctx EXCEPT ![c] = e]
    /\ execCtx' = [execCtx EXCEPT ![c] = IF @ = "live" THEN e ELSE @]
    /\ UNCHANGED <<task, pc, attempt, outcome>>

Step(c) == Execute(c) \/ AgentReturns(c) \/ AttemptFailed(c) \/ Backoff(c)
TaskNext == \E c \in Callers : \/ Step(c) \/ Expire(c)
                         \/ \E e \in {"deadline", "canceled"} : CallerEnds(c, e)
TaskSpec == TaskInit /\ [][TaskNext]_taskVars
-----------------------------------------------------------------------------

\* A task is marked completed exactly when an execution of it has returned, a
\* stored result is one that was returned, an execution that returned without
\* success made all its attempts unless a deadline or its context stopped it, and
\* an execution that was refused never called the agent.
CompletedOnce ==
    /\ completed <=> \E c \in Callers : outcome[c] \notin {"none", "refused"}
    /\ result # "none" => outcome[result] = "ok"
    /\ (\E c \in Callers : outcome[c] = "ok") => result # "none"
    /\ \A c \in Callers : /\ outcome[c] = "failed" => attempt[c] = Retries + 1
                          /\ outcome[c] = "timeout" => timeout \/ ctx[c] = "deadline"
                          /\ outcome[c] = "refused" => attempt[c] = 0

\* No attempt is started by a caller that comes after the task was completed.
NoReuse ==
    \A c \in Callers : completed /\ pc[c] = "start" => attempt'[c] = 0

-----------------------------------------------------------------------------
(***************************************************************************)
(* patterns/autonomous.go: an AutonomousAgent whose Run is called one or   *)
(* more times, with a worker that answers or fails, and a user who adds    *)
(* goals and stops it.  Five steps of 0.2 complete a goal (the sums of     *)
(* binary fractions reach 1.0 at the fifth), so progress counts steps; the *)
(* iteration count is never reset.                                         *)
(***************************************************************************)

CONSTANTS
    MaxIterations,
    Priorities,
    MaxGoals,     \* goals a user adds
    MaxRuns       \* calls of Run

StepsPerGoal == 5

VARIABLES
    goals,           \* sequence of goals: priority, progress
    iterationCount,
    isRunning,
    goal,            \* the goal the worker is on
    results,         \* results of this call of Run
    runs,
    stopped          \* Stop was called since this call of Run began

autonomousVars == <<goals, iterationCount, isRunning, pc, goal, results, ctx, runs, stopped, outcome>>

NoReport == [ok |-> FALSE, iterations |-> 0, completed |-> 0, results |-> 0]
active == {i \in DOMAIN goals : goals[i].progress < StepsPerGoal}

AutonomousTypeOK ==
    /\ \A g \in Range(goals) : g.priority \in Priorities /\ g.progress \in 0 .. StepsPerGoal
    /\ iterationCount \in 0 .. MaxIterations /\ isRunning \in BOOLEAN
    /\ pc \in {"idle", "loop", "worker"} /\ goal \in 0 .. MaxGoals
    /\ results \in 0 .. MaxIterations /\ runs \in 0 .. MaxRuns

AutonomousInit ==
    /\ goals = <<>> /\ iterationCount = 0 /\ isRunning = FALSE /\ pc = "idle" /\ goal = 0
    /\ results = 0 /\ ctx = "live" /\ runs = 0 /\ stopped = FALSE /\ outcome = NoReport

\* Between runs, or by the worker.
AddGoal(p) ==
    /\ pc # "loop" /\ Len(goals) < MaxGoals
    /\ goals' = Append(goals, [priority |-> p, progress |-> 0])
    /\ UNCHANGED <<iterationCount, isRunning, pc, goal, results, ctx, runs, stopped, outcome>>

Run ==
    /\ pc = "idle" /\ runs < MaxRuns /\ runs' = runs + 1
    /\ pc' = "loop" /\ isRunning' = TRUE /\ results' = 0 /\ ctx' = "live" /\ stopped' = FALSE
    /\ UNCHANGED <<goals, iterationCount, goal, outcome>>

\* Fault: a goal of the same priority replaces the one found before it.
selectHighestPriorityGoal_Last(G) ==
    CHOOSE i \in G : \A j \in G : \/ goals[i].priority > goals[j].priority
                                  \/ goals[i].priority = goals[j].priority /\ i >= j

\* The first goal of those with the highest priority.
selectHighestPriorityGoal(G) ==
    CHOOSE i \in G : \A j \in G : \/ goals[i].priority > goals[j].priority
                                  \/ goals[i].priority = goals[j].priority /\ i <= j

countCompletedGoals == Cardinality(DOMAIN goals \ active)

finish(n) ==
    /\ pc' = "idle" /\ isRunning' = FALSE
    /\ outcome' = [ok |-> TRUE, iterations |-> n, completed |-> countCompletedGoals,
                  results |-> results]

\* Fault: one iteration more than allowed.
mayIterate_OneMore == iterationCount <= MaxIterations /\ isRunning

mayIterate == iterationCount < MaxIterations /\ isRunning

\* One turn of the loop up to the call of the worker.
Iterate ==
    /\ pc = "loop" /\ UNCHANGED <<goals, results, ctx, runs, stopped>>
    /\ IF ~mayIterate
       THEN finish(iterationCount) /\ UNCHANGED <<iterationCount, goal>>
       ELSE IF ctx = "done"
       THEN /\ pc' = "idle" /\ isRunning' = FALSE /\ outcome' = NoReport
            /\ UNCHANGED <<iterationCount, goal>>
       ELSE IF active = {} THEN finish(iterationCount) /\ UNCHANGED <<iterationCount, goal>>
       ELSE /\ iterationCount' = iterationCount + 1
            /\ \/ finish(iterationCount + 1) /\ UNCHANGED goal   \* stopCondition
               \/ /\ pc' = "worker" /\ goal' = selectHighestPriorityGoal(active)
                  /\ UNCHANGED <<isRunning, outcome>>

\* An error of the worker returns at once.
WorkerReturns ==
    /\ pc = "worker" /\ UNCHANGED <<iterationCount, isRunning, goal, ctx, runs, stopped>>
    /\ \/ /\ results' = results + 1 /\ goals' = [goals EXCEPT ![goal].progress = @ + 1]
          /\ pc' = "loop" /\ UNCHANGED outcome
       \/ pc' = "idle" /\ outcome' = NoReport /\ UNCHANGED <<goals, results>>

Stop ==
    /\ isRunning' = FALSE /\ stopped' = (pc # "idle")
    /\ UNCHANGED <<goals, iterationCount, pc, goal, results, ctx, runs, outcome>>

Cancel ==
    /\ pc # "idle" /\ ctx' = "done"
    /\ UNCHANGED <<goals, iterationCount, isRunning, pc, goal, results, runs, stopped, outcome>>

AutonomousNext ==
    \/ \E p \in Priorities : AddGoal(p)
    \/ Run \/ Iterate \/ WorkerReturns \/ Stop \/ Cancel

AutonomousSpec == AutonomousInit /\ [][AutonomousNext]_autonomousVars
-----------------------------------------------------------------------------

\* Work is neither lost nor wasted over several runs: the steps made on all goals
\* never exceed the iterations paid for, a report counts the goals that are
\* really complete, and the worker is on an active goal that no active goal goes
\* before, as it was when the worker was called.
WorkAccounted ==
    /\ SumFunction([i \in DOMAIN goals |-> goals[i].progress]) <= iterationCount
    /\ pc = "idle" /\ outcome.ok => /\ outcome.completed = countCompletedGoals
                                    /\ outcome.iterations = iterationCount
                                    /\ outcome.results <= iterationCount
    /\ pc = "worker" => /\ goal \in active
                        /\ \A i \in 1 .. goal - 1 : i \in active =>
                             goals[i].priority < goals[goal].priority

\* After Stop the worker is not called again before the next Run.
StopHeeded == stopped /\ pc = "loop" /\ ~isRunning => pc' # "worker"

-----------------------------------------------------------------------------
(***************************************************************************)
(* patterns/conversational.go: the history of a ConversationalAgent over   *)
(* turns whose model call may fail, with changes of the limit and clears   *)
(* between turns.  A message is its role and the turn it belongs to.       *)
(***************************************************************************)

CONSTANTS
    MaxTurns,
    Limits        \* values of maxHistory

Prompt == [role |-> "system", turn |-> 0]

VARIABLES
    hasPrompt,    \* a system prompt is set and included
    maxHistory,
    history,
    log,          \* what was said since the last clear, unpruned
    sent,         \* the history the model is being asked with, or <<>>
    turn

conversationalVars == <<hasPrompt, maxHistory, history, log, sent, turn>>

isSystem(m) == m.role = "system"
notSystem(m) == m.role # "system"

ConversationalTypeOK ==
    /\ hasPrompt \in BOOLEAN /\ maxHistory \in Limits /\ turn \in 0 .. MaxTurns
    /\ \A m \in Range(history) : m.role \in {"system", "user", "assistant"}

ConversationalInit ==
    /\ hasPrompt \in BOOLEAN /\ maxHistory \in Limits
    /\ history = IF hasPrompt THEN <<Prompt>> ELSE <<>>
    /\ log = history /\ sent = <<>> /\ turn = 0

lastN(s, n) == IF n <= 0 THEN <<>> ELSE IF Len(s) <= n THEN s ELSE SubSeq(s, Len(s) - n + 1, Len(s))

\* Fault: the limit is applied to the conversation, without the system messages.
pruneHistory_Loose(h, max) ==
    IF Len(h) <= max THEN h
    ELSE LET systemMessages == SelectSeq(h, isSystem)
         IN systemMessages \o lastN(SelectSeq(h, notSystem), max)

\* The system messages move to the front and stay, the oldest others go.
pruneHistory(h, max) ==
    IF Len(h) <= max THEN h
    ELSE LET systemMessages == SelectSeq(h, isSystem)
         IN systemMessages \o lastN(SelectSeq(h, notSystem), max - Len(systemMessages))

\* Process up to the call of the model, with a message of any role.
Process(role) ==
    /\ sent = <<>> /\ turn < MaxTurns /\ turn' = turn + 1
    /\ LET m == [role |-> role, turn |-> turn + 1]
       IN /\ history' = pruneHistory(Append(history, m), maxHistory)
          /\ log' = Append(log, m)
    /\ sent' = history'
    /\ UNCHANGED <<hasPrompt, maxHistory>>

\* The model answers; after an error the message stays without an answer.
ChatReturns ==
    /\ sent # <<>> /\ sent' = <<>> /\ UNCHANGED <<hasPrompt, maxHistory, turn>>
    /\ \/ UNCHANGED <<history, log>>
       \/ LET m == [role |-> "assistant", turn |-> turn]
          IN /\ history' = pruneHistory(Append(history, m), maxHistory)
             /\ log' = Append(log, m)

ClearHistory(keepSystem) ==
    /\ sent = <<>> /\ history' = IF keepSystem /\ hasPrompt THEN <<Prompt>> ELSE <<>>
    /\ log' = history' /\ UNCHANGED <<hasPrompt, maxHistory, sent, turn>>

SetMaxHistory(max) ==
    /\ sent = <<>> /\ maxHistory' = max /\ history' = pruneHistory(history, max)
    /\ UNCHANGED <<hasPrompt, log, sent, turn>>

ConversationalNext ==
    \/ \E r \in {"user", "system"} : Process(r)
    \/ ChatReturns
    \/ \E k \in BOOLEAN : ClearHistory(k)
    \/ \E max \in Limits : SetMaxHistory(max)

ConversationalSpec == ConversationalInit /\ [][ConversationalNext]_conversationalVars
-----------------------------------------------------------------------------

\* Whatever order of turns, failures, clears and changes of the limit: the history
\* is the system messages said since the last clear, all of them, and the last
\* messages of the conversation, in order and without a gap; it is longer than the
\* limit only when the system messages alone are; and the model is asked with the
\* message of the turn unless system messages use up the limit.
HistoryIsSuffix ==
    LET said == SelectSeq(log, notSystem)
        kept == SelectSeq(history, notSystem)
        systems == SelectSeq(history, isSystem)
    IN /\ systems = SelectSeq(log, isSystem)
       /\ kept = lastN(said, Len(kept))
       /\ Len(history) > maxHistory => kept = <<>>
       /\ sent # <<>> /\ Len(systems) < maxHistory => log[Len(log)] \in Range(sent)
=============================================================================
