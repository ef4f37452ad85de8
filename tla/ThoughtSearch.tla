--------------------------- MODULE ThoughtSearch ----------------------------
(***************************************************************************)
(* techniques/reasoning/: the two searches, over a tree of thoughts and    *)
(* over the graph of ReasoningGraph. Each part has an Init and a Next of   *)
(* its own; a variable that parts have in common by name is declared with  *)
(* the first of them.                                                      *)
(***************************************************************************)
EXTENDS Integers, Sequences, FiniteSets, SequencesExt, FiniteSetsExt

-----------------------------------------------------------------------------
(***************************************************************************)
(* techniques/reasoning/tree_of_thought.go and reasoning_tree.go: the tree *)
(* is searched breadth first, depth first or best first; the branches of a *)
(* node are asked for by concurrent goroutines.  A node is its number, the *)
(* root is node 1; of a branch only its score matters.                     *)
(***************************************************************************)

CONSTANTS
    BranchingFactor,
    MaxDepth,
    PruneThreshold,
    Scores

VARIABLES
    strategy,
    nodes,       \* per node: parent (0 for the root), depth, score, state
    open,        \* queue, stack or open nodes, front first (stack: top last)
    pc,          \* "search", "branches", "answer", "done"
    node,        \* the node that is being expanded
    branches,    \* what the goroutines returned, in order of arrival
    answer       \* "none", "error" or the number of the best leaf

treeVars == <<strategy, nodes, open, pc, node, branches, answer>>

NodeStates == {"open", "evaluated", "pruned", "terminal"}
None == 0
Error == -1

TreeTypeOK ==
    /\ strategy \in {"bfs", "dfs", "best-first"}
    /\ \A i \in DOMAIN nodes :
         /\ nodes[i].parent < i /\ nodes[i].depth \in 0 .. MaxDepth
         /\ nodes[i].state \in NodeStates
    /\ ToSet(open) \subseteq DOMAIN nodes /\ Len(branches) <= BranchingFactor
    /\ pc \in {"search", "branches", "answer", "done"} /\ answer \in {Error, None} \cup DOMAIN nodes

CreateRoot == <<[parent |-> 0, depth |-> 0, score |-> 0, state |-> "open"]>>

TreeInit ==
    /\ strategy \in {"bfs", "dfs", "best-first"}
    /\ nodes = CreateRoot
    /\ open = <<1>> /\ pc = "search" /\ node = 1 /\ branches = <<>> /\ answer = None

\* The positions of open from which the next node may be taken.  Best first sorts
\* the open nodes by score; the sort is not stable.
pop ==
    CASE strategy = "bfs" -> {1}
      [] strategy = "dfs" -> {Len(open)}
      [] OTHER -> {i \in DOMAIN open : \A j \in DOMAIN open :
                       nodes[open[i]].score >= nodes[open[j]].score}

\* The next node: pruned nodes are passed over, nodes at the limit are terminal,
\* the others are expanded.
NextNode ==
    /\ pc = "search" /\ open # <<>> /\ UNCHANGED <<strategy, branches, answer>>
    /\ \E i \in pop :
         LET n == open[i]
         IN /\ open' = RemoveAt(open, i)
            /\ IF nodes[n].state = "pruned" THEN UNCHANGED <<nodes, pc, node>>
               ELSE IF nodes[n].depth >= MaxDepth
               THEN nodes' = [nodes EXCEPT ![n].state = "terminal"] /\ UNCHANGED <<pc, node>>
               ELSE pc' = "branches" /\ node' = n /\ UNCHANGED nodes

\* A goroutine of generateBranches is done.
BranchReturns ==
    /\ pc = "branches" /\ Len(branches) < BranchingFactor
    /\ \E s \in Scores \cup {Error} : branches' = Append(branches, s)
    /\ UNCHANGED <<strategy, nodes, open, pc, node, answer>>

AddChild(score) ==
    [parent |-> node, depth |-> nodes[node].depth + 1, score |-> score,
     state |-> IF score < PruneThreshold THEN "pruned" ELSE "open"]

\* Fault: the children are searched whatever their score.
expandNode_KeepsAll ==
    LET children == [i \in 1 .. BranchingFactor |-> Len(nodes) + i]
        kept == children
    IN /\ nodes' = [nodes EXCEPT ![node].state = "evaluated"]
                      \o [i \in 1 .. BranchingFactor |->
                            [AddChild(branches[i]) EXCEPT !.state = "open"]]
       /\ open' = open \o (IF strategy = "dfs" THEN Reverse(kept) ELSE kept)

expandNode ==
    LET children == [i \in 1 .. BranchingFactor |-> Len(nodes) + i]
        kept == SelectSeq(children, LAMBDA c : branches[c - Len(nodes)] >= PruneThreshold)
    IN /\ nodes' = [nodes EXCEPT ![node].state = "evaluated"]
                      \o [i \in 1 .. BranchingFactor |-> AddChild(branches[i])]
       /\ open' = open \o (IF strategy = "dfs" THEN Reverse(kept) ELSE kept)

\* After wg.Wait: an error of one branch ends the search.
Expand ==
    /\ pc = "branches" /\ Len(branches) = BranchingFactor /\ branches' = <<>>
    /\ IF Error \in ToSet(branches)
       THEN pc' = "done" /\ answer' = Error /\ UNCHANGED <<nodes, open>>
       ELSE pc' = "search" /\ expandNode /\ UNCHANGED answer
    /\ UNCHANGED <<strategy, node>>

GetLeaves == {i \in DOMAIN nodes : \A j \in DOMAIN nodes : nodes[j].parent # i}

\* The leaves are taken from a map: of equal ones any may be the best.
GetBestLeaf == {i \in GetLeaves : \A j \in GetLeaves : nodes[i].score >= nodes[j].score}

TreeAnswer ==
    /\ pc = "search" /\ open = <<>> /\ pc' = "done" /\ answer' \in GetBestLeaf
    /\ UNCHANGED <<strategy, nodes, open, node, branches>>

\* The artifact's candidates.
candidates == {i \in GetLeaves : nodes[i].state # "pruned"}

RECURSIVE GetPath(_)
GetPath(i) == IF i = 0 THEN <<>> ELSE Append(GetPath(nodes[i].parent), i)

TreeNext == NextNode \/ BranchReturns \/ Expand \/ TreeAnswer
TreeSpec == TreeInit /\ [][TreeNext]_treeVars
-----------------------------------------------------------------------------

\* Whatever the strategy, the search is the same search: nothing under a pruned
\* node is explored, at the end every other node was expanded or is terminal at
\* the depth limit, every node that is open and kept is still to be visited, once,
\* and the answer's path leads from the root over expanded nodes to a leaf that no
\* leaf beats.
SearchComplete ==
    /\ \A i \in DOMAIN nodes : nodes[i].parent # 0 =>
         /\ nodes[nodes[i].parent].state = "evaluated"
         /\ nodes[i].depth = nodes[nodes[i].parent].depth + 1
         /\ nodes[i].score < PruneThreshold => nodes[i].state = "pruned"
    /\ Cardinality(ToSet(open)) = Len(open)
    /\ \A i \in DOMAIN nodes : nodes[i].state = "open" =>
         i \in ToSet(open) \/ (pc # "search" /\ i = node)
    /\ answer > 0 =>
         /\ \A i \in DOMAIN nodes : nodes[i].state # "open"
         /\ LET path == GetPath(answer)
            IN path[1] = 1 /\ \A k \in 1 .. Len(path) - 1 : nodes[path[k]].state = "evaluated"
         /\ candidates # {} => answer \in candidates

-----------------------------------------------------------------------------
(***************************************************************************)
(* techniques/reasoning/graph_of_thought.go: Process asks the model for    *)
(* premises, for thoughts and, pair by pair, for the relation between two  *)
(* of them; then for a conclusion if there is room, and aggregates the     *)
(* paths from premises to conclusions.                                     *)
(***************************************************************************)

CONSTANTS
    MaxNodes, MaxEdges,
    MaxPremises,      \* at most 4 in the code
    MaxNew,           \* at most 3 in the code
    MaxPath           \* 6 in the code

VARIABLES
    aggregator,
    edges,           \* the graph
    pair             \* the pair of nodes whose relation is looked at

gotVars == <<aggregator, nodes, edges, pc, pair, answer>>

Graph == INSTANCE ReasoningGraph WITH GraphNodes <- MaxNodes, GraphEdges <- MaxEdges

Unable == -2          \* "Unable to reach conclusion"

GotTypeOK ==
    /\ aggregator \in {"path_based", "node_based"} /\ Graph!TypeOK
    /\ pc \in {"premises", "thoughts", "edges", "conclusion", "answer", "done"}
    /\ answer \in {None, Error, Unable} \cup DOMAIN nodes

GotInit ==
    /\ aggregator \in {"path_based", "node_based"} /\ Graph!Init
    /\ pc = "premises" /\ pair = <<1, 2>> /\ answer = None

return(a) == pc' = "done" /\ answer' = a

addThoughts(k, type) == nodes' = nodes \o [i \in 1 .. k |-> type]

\* How many thoughts are asked for; none when the graph is full.
maxNew == Min({MaxNew, MaxNodes - Len(nodes)})

\* The premises are added without a look at the limit.
GeneratePremises ==
    /\ pc = "premises" /\ UNCHANGED <<aggregator, edges, pair>>
    /\ \/ return(Error) /\ UNCHANGED nodes
       \/ /\ \E k \in 0 .. MaxPremises : addThoughts(k, "premise")
          /\ pc' = "thoughts" /\ UNCHANGED answer

\* Thoughts are asked for until the graph is full or the model has none.
GenerateThoughts ==
    /\ pc = "thoughts" /\ UNCHANGED <<aggregator, edges, pair>>
    /\ IF maxNew <= 0 THEN pc' = "edges" /\ UNCHANGED <<nodes, answer>>
       ELSE \/ return(Error) /\ UNCHANGED nodes
            \/ pc' = "edges" /\ UNCHANGED <<nodes, answer>>
            \/ /\ \E k \in 1 .. maxNew : addThoughts(k, "intermediate")
               /\ UNCHANGED <<pc, answer>>

\* Fault: the later thought is taken to lead to the earlier one every other time.
nextPair_Backwards(p) == IF p[2] < Len(nodes) THEN <<p[1], p[2] + 1>> ELSE <<p[1] + 1, p[1]>>

nextPair(p) == IF p[2] < Len(nodes) THEN <<p[1], p[2] + 1>> ELSE <<p[1] + 1, p[1] + 2>>

\* The model relates the pair, or fails, or sees no relation: the last two are
\* the same to the loop.
IdentifyConnections ==
    /\ pc = "edges" /\ UNCHANGED <<aggregator, nodes, answer>>
    /\ IF pair[1] >= Len(nodes) \/ pair[2] > Len(nodes) \/ Len(edges) >= MaxEdges
       THEN pc' = "conclusion" /\ UNCHANGED <<edges, pair>>
       ELSE /\ Graph!AddEdge(pair[1], pair[2], 8) \/ UNCHANGED edges
            /\ pair' = nextPair(pair) /\ UNCHANGED pc

\* Only when there is room for it; its error is dropped.  The last three nodes
\* support it, within the limit on edges.
Conclude ==
    /\ pc = "conclusion" /\ pc' = "answer" /\ UNCHANGED <<aggregator, pair, answer>>
    /\ \/ UNCHANGED <<nodes, edges>>
       \/ LET n == Len(nodes)
              recent == SubSeq([i \in 1 .. n |-> i], IF n > 3 THEN n - 2 ELSE 1, n)
              new == [i \in DOMAIN recent |-> [from |-> recent[i], to |-> n + 1, strength |-> 9]]
          IN /\ n < MaxNodes /\ Graph!AddNode("conclusion")
             /\ edges' = edges \o SubSeq(new, 1, Min({Len(new), MaxEdges - Len(edges)}))

FindReasoningPaths ==
    UNION {Graph!FindPaths(p, c, MaxPath) : p \in Graph!GetPremises, c \in Graph!GetConclusions}

\* Twice the sum of the two averages of GetPathScore, scaled to whole numbers.
strengthOf(i, j) == (CHOOSE e \in ToSet(edges) : e.from = i /\ e.to = j).strength
GetPathScore(p) ==
    LET sum(f(_), n) == FoldFunctionOnSet(+, 0, [i \in 1 .. n |-> f(i)], 1 .. n)
    IN (sum(LAMBDA i : Graph!confidence[nodes[p[i]]], Len(p)) * 60) \div Len(p)
       + (sum(LAMBDA i : strengthOf(p[i], p[i + 1]), Len(p) - 1) * 60) \div (Len(p) - 1)

\* The nodes whose content may be returned; maps are walked in any order.
AggregatePaths(paths) ==
    LET score(n) == Cardinality({p \in paths : n \in ToSet(p)}) * Graph!confidence[nodes[n]]
        on == UNION {ToSet(p) : p \in paths}
    IN IF paths = {}
       THEN IF Graph!GetConclusions # {} THEN Graph!GetConclusions
            ELSE IF nodes = <<>> THEN {Unable} ELSE DOMAIN nodes
       ELSE IF aggregator = "path_based"
       THEN {Last(p) : p \in {q \in paths : \A r \in paths : GetPathScore(q) >= GetPathScore(r)}}
       ELSE {n \in on : \A m \in on : score(n) >= score(m)}

GotAnswer ==
    /\ pc = "answer" /\ \E n \in AggregatePaths(FindReasoningPaths) : return(n)
    /\ UNCHANGED <<aggregator, nodes, edges, pair>>

GotNext == GeneratePremises \/ GenerateThoughts \/ IdentifyConnections \/ Conclude \/ GotAnswer
GotSpec == GotInit /\ [][GotNext]_gotVars
-----------------------------------------------------------------------------

\* The graph stays a graph of reasoning: it never has a cycle, allowed or not, the
\* limit on edges holds for the edges of the conclusion too, no pair is related
\* twice, and the answer is the conclusion whenever there is one and paths are
\* aggregated by path; by node it is a node that some path to it goes through.
GraphOfReasoning ==
    /\ ~Graph!Cyclic /\ Len(edges) <= MaxEdges
    /\ Cardinality(Graph!arcs) = Len(edges)
    /\ Cardinality(Graph!GetConclusions) <= 1
    /\ answer > 0 /\ Graph!GetConclusions # {} =>
         \/ answer \in Graph!GetConclusions
         \/ aggregator = "node_based" /\ \E c \in Graph!GetConclusions : Graph!reaches(answer, c)
=============================================================================
