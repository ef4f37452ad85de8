--------------------------- MODULE ReasoningGraph ---------------------------
(***************************************************************************)
(* techniques/reasoning/reasoning_graph.go: the graph of thoughts and the  *)
(* algorithms on it.  A node is its type, an edge its ends and strength,   *)
(* in tenths.  Maps are walked in any order, which the algorithms take as  *)
(* a parameter.                                                            *)
(***************************************************************************)
EXTENDS Integers, Sequences, FiniteSets, SequencesExt, FiniteSetsExt

CONSTANTS
    GraphNodes, GraphEdges   \* bounds on the graph

VARIABLES
    nodes,       \* the types of the nodes, by number
    edges        \* in the order in which they were added

graph == <<nodes, edges>>

NodeTypes == {"premise", "intermediate", "conclusion"}
confidence == [premise |-> 9, intermediate |-> 7, conclusion |-> 8]

TypeOK ==
    /\ \A n \in ToSet(nodes) : n \in NodeTypes
    /\ \A e \in ToSet(edges) : e.from \in DOMAIN nodes /\ e.to \in DOMAIN nodes

Init == nodes = <<>> /\ edges = <<>>

AddNode(type) == nodes' = Append(nodes, type)

\* Both ends must exist; nothing keeps an edge from being added twice.
AddEdge(from, to, strength) ==
    /\ {from, to} \subseteq DOMAIN nodes
    /\ edges' = Append(edges, [from |-> from, to |-> to, strength |-> strength])

\* Targets of n's edges, in the order in which the edges were added.
outgoing(n) ==
    LET out == SelectSeq(edges, LAMBDA e : e.from = n) IN [i \in DOMAIN out |-> out[i].to]
incoming(n) == SelectSeq(edges, LAMBDA e : e.to = n)

\* The set of the paths FindPaths collects; a maxLength of 0 is no limit.
FindPaths(start, end, maxLength) ==
    LET RECURSIVE dfs(_)
        dfs(path) ==
            IF Last(path) = end THEN {path}
            ELSE IF maxLength > 0 /\ Len(path) >= maxLength THEN {}
            ELSE UNION {dfs(Append(path, m)) : m \in ToSet(outgoing(Last(path))) \ ToSet(path)}
    IN dfs(<<start>>)

\* Colours and whether a gray node was met; roots in the given order.
HasCycle(order) ==
    LET RECURSIVE visit(_, _)
        visit(n, color) ==
            LET step(acc, m) ==
                    IF acc.found THEN acc
                    ELSE IF acc.color[m] = "gray" THEN [acc EXCEPT !.found = TRUE]
                    ELSE IF acc.color[m] = "white" THEN visit(m, acc.color)
                    ELSE acc
                all == FoldLeft(step, [found |-> FALSE, color |-> [color EXCEPT ![n] = "gray"]],
                                outgoing(n))
            IN IF all.found THEN all ELSE [all EXCEPT !.color[n] = "black"]
        root(acc, n) == IF acc.found \/ acc.color[n] # "white" THEN acc ELSE visit(n, acc.color)
    IN FoldLeft(root, [found |-> FALSE, color |-> [n \in DOMAIN nodes |-> "white"]], order).found

\* Cycles met by a depth-first search: an edge to a node on the stack closes one.
FindCycles(order) ==
    LET RECURSIVE dfs(_, _, _)
        dfs(n, stack, acc) ==
            LET path == Append(stack, n)
                step(a, m) ==
                    IF m \notin a.visited THEN dfs(m, path, a)
                    ELSE IF m \in ToSet(path)
                    THEN [a EXCEPT !.cycles = @ \cup
                            {Append(SubSeq(path, SelectInSeq(path, LAMBDA x : x = m), Len(path)), m)}]
                    ELSE a
            IN FoldLeft(step, [acc EXCEPT !.visited = @ \cup {n}], outgoing(n))
        root(a, n) == IF n \in a.visited THEN a ELSE dfs(n, <<>>, a)
    IN FoldLeft(root, [visited |-> {}, cycles |-> {}], order).cycles

\* Fault: the in-degree of a node is the number of its predecessors.
inDegree_Simple == [n \in DOMAIN nodes |-> Cardinality({e.from : e \in ToSet(incoming(n))})]

inDegree == [n \in DOMAIN nodes |-> Len(incoming(n))]

\* Kahn's algorithm; <<>> stands for nil, which an empty graph also yields.
TopologicalSort(order) ==
    LET RECURSIVE kahn(_, _, _)
        kahn(queue, degree, result) ==
            IF queue = <<>> THEN result
            ELSE LET n == Head(queue)
                     step(acc, m) ==
                         LET d == [acc.degree EXCEPT ![m] = @ - 1]
                         IN [degree |-> d,
                             queue |-> IF d[m] = 0 THEN Append(acc.queue, m) ELSE acc.queue]
                     after == FoldLeft(step, [degree |-> degree, queue |-> Tail(queue)], outgoing(n))
                 IN kahn(after.queue, after.degree, Append(result, n))
        sorted == kahn(SelectSeq(order, LAMBDA n : inDegree[n] = 0), inDegree, <<>>)
    IN IF HasCycle(order) \/ Len(sorted) # Len(nodes) THEN <<>> ELSE sorted

GetPremises == {n \in DOMAIN nodes : nodes[n] = "premise"}
GetConclusions == {n \in DOMAIN nodes : nodes[n] = "conclusion"}

Next ==
    \/ /\ Len(nodes) < GraphNodes /\ edges = <<>>
       /\ AddNode("intermediate") /\ UNCHANGED edges
    \/ /\ Len(edges) < GraphEdges
       /\ \E from, to \in DOMAIN nodes : AddEdge(from, to, 8)
       /\ UNCHANGED nodes

Spec == Init /\ [][Next]_graph
-----------------------------------------------------------------------------

arcs == {<<e.from, e.to>> : e \in ToSet(edges)}
RECURSIVE closure(_)
closure(r) ==
    LET s == r \cup {<<p[1], q[2]>> : <<p, q>> \in {<<p, q>> \in r \X r : p[2] = q[1]}}
    IN IF s = r THEN r ELSE closure(s)
reaches(m, n) == <<m, n>> \in closure(arcs)
Cyclic == \E n \in DOMAIN nodes : reaches(n, n)
walk(p) == \A i \in 1 .. Len(p) - 1 : <<p[i], p[i + 1]>> \in arcs

\* The algorithms give the graph-theoretic answers on every graph and for every
\* order in which the map of nodes may be walked: HasCycle says whether a node
\* reaches itself, FindCycles returns closed walks and finds one exactly then,
\* TopologicalSort returns all the nodes, each edge pointing forward, exactly when
\* there is no cycle, and FindPaths finds exactly the paths without repetition.
GraphAlgorithmsRight ==
    /\ \A start, end \in DOMAIN nodes :
         FindPaths(start, end, 0) =
           {p \in UNION {SetToSeqs(s) : s \in SUBSET DOMAIN nodes \ {{}}} :
               p[1] = start /\ Last(p) = end /\ walk(p)}
    /\ \A order \in SetToSeqs(DOMAIN nodes) :
        /\ HasCycle(order) <=> Cyclic
        /\ LET cs == FindCycles(order)
           IN cs # {} <=> Cyclic /\ \A c \in cs : c[1] = Last(c) /\ Len(c) > 1 /\ walk(c)
        /\ LET s == TopologicalSort(order)
           IN IF Cyclic THEN s = <<>>
              ELSE /\ ToSet(s) = DOMAIN nodes /\ Len(s) = Len(nodes)
                   /\ \A i, j \in DOMAIN s : <<s[i], s[j]>> \in arcs => i < j
=============================================================================
