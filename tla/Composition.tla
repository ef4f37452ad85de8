----------------------------- MODULE Composition ----------------------------
(***************************************************************************)
(* composition/ and patterns/{sequential,parallel,fallback,router,         *)
(* orchestration}.go, ConsensusAgent of patterns/multiagent.go: the agents *)
(* that run other agents.                                                  *)
(*                                                                         *)
(* One request runs through a tree of such agents.  A message is the       *)
(* sequence of the leaf agents whose answers it is made of.  Whether a     *)
(* leaf succeeds is fixed for the behaviour; once the context is done a    *)
(* leaf that is running may fail on its account.                           *)
(***************************************************************************)
EXTENDS Integers, Sequences, FiniteSets, SequencesExt

CONSTANTS
    Trees,     \* trees to try: functions from nodes to [kind, kids, default]
    Leaves     \* the agents that are not composed

Root == "root"
Failed == <<"failed">>
Kinds == {"composition.Sequential", "patterns.Sequential", "SequentialPattern",
          "composition.Parallel", "patterns.Parallel", "ParallelPattern",
          "composition.Fallback", "patterns.Fallback", "Recovery",
          "Conditional", "Router", "RouterPattern", "Consensus"}

VARIABLES
    tree,
    works,      \* the leaves that succeed
    route,      \* per node: the kid its condition, classifier or router picks;
                \* 0 for none of them, -1 for a classifier that fails
    cancelled,  \* the context is done
    status,     \* per node: "idle", "running", "done"
    started,    \* per node: how many kids were started
    input,      \* per node: the message it was given
    answer,     \* per node: its answer, when done
    arrived     \* per node: its kids in the order in which they finished

shape == <<tree, works, route>>
vars == <<shape, cancelled, status, started, input, answer, arrived>>

Nodes == DOMAIN tree \cup Leaves
kids(n) == tree[n].kids
kid(n, i) == kids(n)[i]
ran(n) == {i \in 1 .. Len(kids(n)) : status[kid(n, i)] = "done"}
Running(n, k) == n \in DOMAIN tree /\ tree[n].kind = k /\ status[n] = "running"

TypeOK ==
    /\ tree \in Trees /\ works \subseteq Leaves /\ cancelled \in BOOLEAN
    /\ status \in [Nodes -> {"idle", "running", "done"}]
    /\ \A n \in DOMAIN tree : /\ tree[n].kind \in Kinds
                              /\ started[n] \in 0 .. Len(kids(n))
                              /\ ToSet(arrived[n]) \subseteq 1 .. started[n]

Init ==
    /\ tree \in Trees /\ works \in SUBSET Leaves
    /\ route \in [DOMAIN tree -> -1 .. 2]
    /\ \A n \in DOMAIN tree :
         /\ route[n] <= Len(kids(n))
         /\ route[n] = -1 => tree[n].kind = "Router"
         /\ route[n] # 0 => tree[n].kind \in {"Conditional", "Router", "RouterPattern"}
    /\ cancelled = FALSE
    /\ status = [n \in Nodes |-> IF n = Root THEN "running" ELSE "idle"]
    /\ started = [n \in DOMAIN tree |-> 0]
    /\ input = [n \in Nodes |-> <<>>] /\ answer = [n \in Nodes |-> <<>>]
    /\ arrived = [n \in DOMAIN tree |-> <<>>]

-----------------------------------------------------------------------------
(* The steps the composed agents are made of. *)

\* Node n starts the kids in I on message m.
call(n, I, m) ==
    /\ status' = [x \in Nodes |-> IF \E i \in I : kid(n, i) = x THEN "running" ELSE status[x]]
    /\ input' = [x \in Nodes |-> IF \E i \in I : kid(n, i) = x THEN m ELSE input[x]]
    /\ started' = [started EXCEPT ![n] = IF I = {} THEN @ ELSE Max(I)]
    /\ UNCHANGED <<shape, cancelled, answer, arrived>>

\* Node n returns m to its parent, which notes the arrival.
return(n, m) ==
    /\ status' = [status EXCEPT ![n] = "done"]
    /\ answer' = [answer EXCEPT ![n] = m]
    /\ arrived' = [p \in DOMAIN tree |->
                     IF \E i \in 1 .. started[p] : kid(p, i) = n
                     THEN Append(arrived[p], CHOOSE i \in 1 .. started[p] : kid(p, i) = n)
                     ELSE arrived[p]]
    /\ UNCHANGED <<shape, cancelled, started, input>>

\* The loop over the agents may go on: what it called has returned.
settled(n) == Cardinality(ran(n)) = started[n]
lastAnswer(n) == IF started[n] = 0 THEN input[n] ELSE answer[kid(n, started[n])]

\* The agents one after the other, each on the answer of the one before.
inOrder(n, looksAtContext) ==
    /\ settled(n)
    /\ IF lastAnswer(n) = Failed THEN return(n, Failed)
       ELSE IF started[n] = Len(kids(n)) THEN return(n, lastAnswer(n))
       ELSE IF looksAtContext /\ cancelled THEN return(n, Failed)
       ELSE call(n, {started[n] + 1}, lastAnswer(n))

\* Fault: an error is followed by the next agent whatever the context says.
untilSuccess_Deaf(n) ==
    /\ settled(n)
    /\ IF started[n] > 0 /\ lastAnswer(n) # Failed THEN return(n, lastAnswer(n))
       ELSE IF started[n] = Len(kids(n)) THEN return(n, Failed)
       ELSE call(n, {started[n] + 1}, input[n])

\* The agents one after the other on the same message, until one succeeds.
untilSuccess(n) ==
    /\ settled(n)
    /\ IF started[n] > 0 /\ lastAnswer(n) # Failed THEN return(n, lastAnswer(n))
       ELSE IF started[n] = Len(kids(n)) \/ cancelled THEN return(n, Failed)
       ELSE call(n, {started[n] + 1}, input[n])

startAll(n) == started[n] = 0 /\ call(n, 1 .. Len(kids(n)), input[n])
joined(n, order) == FlattenSeq([i \in 1 .. Len(order) |-> answer[kid(n, order[i])]])
good(n) == SelectSeq(arrived[n], LAMBDA i : answer[kid(n, i)] # Failed)
allDone(n) == started[n] > 0 /\ settled(n)

\* The one agent that was chosen, or a failure.
onlyKid(n, i) ==
    IF started[n] = 0 THEN IF i = 0 THEN return(n, Failed) ELSE
                           /\ call(n, {i}, input[n])
    ELSE status[kid(n, i)] = "done" /\ return(n, answer[kid(n, i)])

chosen(n) == IF route[n] = 0 THEN tree[n].default ELSE IF route[n] = -1 THEN 0 ELSE route[n]

-----------------------------------------------------------------------------
(* Process of the composed agents. *)

CompositionSequential(n) == Running(n, "composition.Sequential") /\ inOrder(n, TRUE)

PatternsSequential(n) == Running(n, "patterns.Sequential") /\ inOrder(n, TRUE)

SequentialPattern(n) == Running(n, "SequentialPattern") /\ inOrder(n, FALSE)

\* Fails when any agent failed; joins the answers as they came in.
CompositionParallel(n) ==
    /\ Running(n, "composition.Parallel")
    /\ \/ startAll(n)
       \/ /\ allDone(n)
          /\ return(n, IF good(n) = arrived[n] THEN joined(n, arrived[n]) ELSE Failed)

\* Fails when all agents failed; aggregates the successes as they came in.
PatternsParallel(n) ==
    /\ Running(n, "patterns.Parallel")
    /\ \/ startAll(n)
       \/ allDone(n) /\ return(n, IF good(n) = <<>> THEN Failed ELSE joined(n, good(n)))

\* Fails when any agent failed; aggregates in the order of the agents.
ParallelPattern(n) ==
    /\ Running(n, "ParallelPattern")
    /\ \/ startAll(n)
       \/ /\ allDone(n)
          /\ return(n, IF good(n) = arrived[n]
                       THEN joined(n, [i \in 1 .. Len(kids(n)) |-> i]) ELSE Failed)

CompositionFallback(n) == Running(n, "composition.Fallback") /\ untilSuccess(n)

PatternsFallback(n) == Running(n, "patterns.Fallback") /\ untilSuccess(n)

\* The second kid is the recovery function, called whatever the error is.
RecoveryAgent(n) ==
    /\ Running(n, "Recovery") /\ settled(n)
    /\ IF started[n] = 0 THEN call(n, {1}, input[n])
       ELSE IF started[n] = 2 \/ lastAnswer(n) # Failed THEN return(n, lastAnswer(n))
       ELSE call(n, {2}, input[n])

ConditionalAgent(n) ==
    /\ Running(n, "Conditional")
    /\ IF cancelled /\ started[n] = 0 THEN return(n, Failed)
       ELSE onlyKid(n, chosen(n))

RouterAgent(n) == Running(n, "Router") /\ onlyKid(n, chosen(n))

RouterPattern(n) == Running(n, "RouterPattern") /\ onlyKid(n, chosen(n))

\* The agents one after the other on the same message; any failure is the answer.
ConsensusAgent(n) ==
    /\ Running(n, "Consensus") /\ settled(n)
    /\ IF started[n] > 0 /\ lastAnswer(n) = Failed THEN return(n, Failed)
       ELSE IF started[n] = Len(kids(n))
       THEN return(n, joined(n, [i \in 1 .. Len(kids(n)) |-> i]))
       ELSE call(n, {started[n] + 1}, input[n])

LeafReturns(a) ==
    /\ a \in Leaves /\ status[a] = "running"
    /\ \/ return(a, IF a \in works THEN Append(input[a], a) ELSE Failed)
       \/ cancelled /\ return(a, Failed)

Cancel ==
    /\ ~cancelled /\ status[Root] = "running" /\ cancelled' = TRUE
    /\ UNCHANGED <<shape, status, started, input, answer, arrived>>

NodeSteps(n) ==
    \/ CompositionSequential(n) \/ PatternsSequential(n) \/ SequentialPattern(n)
    \/ CompositionParallel(n) \/ PatternsParallel(n) \/ ParallelPattern(n)
    \/ CompositionFallback(n) \/ PatternsFallback(n) \/ RecoveryAgent(n)
    \/ ConditionalAgent(n) \/ RouterAgent(n) \/ RouterPattern(n)
    \/ ConsensusAgent(n) \/ LeafReturns(n)

Next == Cancel \/ \E n \in Nodes : NodeSteps(n)

Spec == Init /\ [][Next]_vars

-----------------------------------------------------------------------------
(* Properties. *)

\* What an uninterrupted run of the tree below n may answer to message m.
RECURSIVE Answers(_, _)
RECURSIVE AnswersInOrder(_, _, _)
AnswersInOrder(n, i, M) ==
    IF i > Len(kids(n)) THEN M
    ELSE AnswersInOrder(n, i + 1, UNION {IF m = Failed THEN {Failed} ELSE Answers(kid(n, i), m)
                                         : m \in M})
Answers(n, m) ==
    IF n \in Leaves THEN {IF n \in works THEN Append(m, n) ELSE Failed} ELSE
    LET k == tree[n].kind
        I == 1 .. Len(kids(n))
        A == [i \in I |-> Answers(kid(n, i), m)]
        ok == {i \in I : Failed \notin A[i]}
        joins(S, orders) == {FlattenSeq([j \in 1 .. Len(o) |-> f[o[j]]]) : o \in orders,
                             f \in {g \in [S -> UNION {A[i] : i \in S}] : \A i \in S : g[i] \in A[i]}}
    IN CASE k \in {"composition.Sequential", "patterns.Sequential", "SequentialPattern"} ->
              AnswersInOrder(n, 1, {m})
         [] k \in {"composition.Fallback", "patterns.Fallback", "Recovery"} ->
              IF ok = {} THEN {Failed} ELSE A[Min(ok)]
         [] k = "composition.Parallel" -> IF ok # I THEN {Failed} ELSE joins(I, SetToSeqs(I))
         [] k = "patterns.Parallel" -> IF ok = {} THEN {Failed} ELSE joins(ok, SetToSeqs(ok))
         [] k \in {"ParallelPattern", "Consensus"} -> IF ok # I THEN {Failed} ELSE joins(I, {[i \in I |-> i]})
         [] OTHER -> IF chosen(n) = 0 THEN {Failed} ELSE A[chosen(n)]

\* The agents that answer with what they have when some of their kids failed.
Lenient == {"patterns.Parallel", "Recovery"}

\* A composed agent answers what the composition of its agents' answers is, in
\* every interleaving of its goroutines; and cancellation makes it fail rather
\* than answer something else: no fallback is taken for an agent that failed
\* because the context was done.
AnswersAsComposed ==
    status[Root] = "done" =>
        \/ answer[Root] \in Answers(Root, <<>>)
        \/ cancelled /\ answer[Root] = Failed
        \/ cancelled /\ \E n \in DOMAIN tree : tree[n].kind \in Lenient

=============================================================================
