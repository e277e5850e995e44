----------------------------- MODULE WeightedGraph -----------------------------
(***************************************************************************)
(* The class WeightedGraph of DS_WeightedGraph.h: adjacency lists and the  *)
(* matrix of the last shortest-path search, which is kept until the graph  *)
(* is said to have changed.                                                *)
(***************************************************************************)
EXTENDS Integers, Sequences, FiniteSets
LOCAL INSTANCE SequencesExt
LOCAL INSTANCE FiniteSetsExt

CONSTANTS Node, Weight,
          Infinite,       \* INFINITE_WEIGHT
          AllowUnlinked,  \* allow_unlinkedNodes
          AddsWhileValid, \* is a connection added while there is a matrix
          TwoNodes,       \* are paths asked for in a graph of two nodes without a connection
          MayUnlinkMany   \* does RemoveNode leave more than one node without connections

WeightedGraphAssumption ==
    /\ Node \subseteq Int /\ Weight \subseteq Nat \ {0} /\ \A w \in Weight : w * Cardinality(Node) < Infinite
    /\ {AllowUnlinked, AddsWhileValid, TwoNodes, MayUnlinkMany} \subseteq BOOLEAN

VARIABLES adjacencyLists,  \* for each node the weights of its connections
          dijkstra         \* isValidPath, rootNode, costMatrix, leastNodeArray

vars == <<adjacencyLists, dijkstra>>

Nodes == DOMAIN adjacencyLists
NoList == [n \in {} |-> 0]
NoMatrix == [isValidPath |-> FALSE]

-----------------------------------------------------------------------------
(* Changes of the graph.                                                   *)

WithNode(lists, n) == [k \in DOMAIN lists \cup {n} |-> IF k \in DOMAIN lists THEN lists[k] ELSE NoList]

WithWeight(list, n, weight) == [k \in DOMAIN list \cup {n} |-> IF k = n THEN weight ELSE list[k]]

Connected(lists, n1, n2, weight) ==
    LET both == WithNode(WithNode(lists, n1), n2)
    IN  [both EXCEPT ![n1] = WithWeight(@, n2, weight), ![n2] = WithWeight(@, n1, weight)]

Less(list, n) == [k \in DOMAIN list \ {n} |-> list[k]]

Disconnected(lists, n1, n2) == [lists EXCEPT ![n1] = Less(@, n2), ![n2] = Less(@, n1)]

Unlinked(lists) == {n \in DOMAIN lists : lists[n] = NoList}

\* Mutant: the nodes removed stay in the lists of the others.
RemovalRoundKeeps(node, r) ==
    LET left == [n \in DOMAIN r.lists \ {Head(r.queue)} |-> r.lists[n]]
    IN  [lists |-> left,
         queue |-> Tail(r.queue) \o IF AllowUnlinked THEN <<>> ELSE SetToSortSeq(Unlinked(left), <)]

\* Mutant: also the nodes with one connection are removed.
RemovalRoundMore(node, r) ==
    LET left == [n \in DOMAIN r.lists \ {Head(r.queue)} |-> Less(r.lists[n], node)]
    IN  [lists |-> left,
         queue |-> Tail(r.queue) \o SetToSortSeq({n \in DOMAIN left : Cardinality(DOMAIN left[n]) < 2}, <)]

\* The loop of RemoveNode: the queue has the nodes to remove, and every round
\* adds all that have no connections.
RemovalRound(node, r) ==
    LET left == [n \in DOMAIN r.lists \ {Head(r.queue)} |-> Less(r.lists[n], node)]
    IN  [lists |-> left,
         queue |-> Tail(r.queue) \o IF AllowUnlinked THEN <<>> ELSE SetToSortSeq(Unlinked(left), <)]

\* It ends with an empty queue, or with a node to remove that is not there.
Removal(lists, node) ==
    LET after[k \in Nat] ==
            IF k = 0 THEN [lists |-> lists, queue |-> <<node>>]
            ELSE LET r == after[k - 1]
                 IN  IF r.queue = <<>> \/ Head(r.queue) \notin DOMAIN r.lists THEN r
                     ELSE RemovalRound(node, r)
    IN  after[2 * Cardinality(Node)]

\* Is at most one node without connections to be removed after that one.
OneByOne(lists, node) ==
    AllowUnlinked \/ MayUnlinkMany \/ Cardinality({n \in DOMAIN lists \ {node} : DOMAIN lists[n] \subseteq {node}}) < 2

Leaves(lists, n) == ~AllowUnlinked /\ n \in Unlinked(lists)

-----------------------------------------------------------------------------
(* GenerateDisjktraMatrix.                                                 *)

\* Mutant: a weight that is not smaller replaces one, too.
RelaxedAlways(s) ==
    LET list == adjacencyLists[s.current]
        better == {n \in DOMAIN list : s.weight + list[n] >= s.cost[n]}
    IN  [s EXCEPT !.cost = [n \in DOMAIN @ |-> IF n \in better THEN s.weight + list[n] ELSE @[n]],
                  !.open = [n \in DOMAIN @ \cup better |-> IF n \in better THEN s.weight + list[n] ELSE @[n]]]

\* The weights by way of the current node, where they are smaller.
Relaxed(s) ==
    LET list == adjacencyLists[s.current]
        better == {n \in DOMAIN list : s.weight + list[n] < s.cost[n]}
    IN  [s EXCEPT !.cost = [n \in DOMAIN @ |-> IF n \in better THEN s.weight + list[n] ELSE @[n]],
                  !.open = [n \in DOMAIN @ \cup better |-> IF n \in better THEN s.weight + list[n] ELSE @[n]]]

\* The top of the heap: of the least weights the one that was pushed first.
Lowest(open) ==
    LET weight == Min({open[n] : n \in DOMAIN open})
    IN  Min({n \in DOMAIN open : open[n] = weight})

\* The search goes on from the lowest of the open set, and ends when it is empty.
Advanced(s) ==
    LET least == Lowest(s.open)
    IN  IF s.open = NoList THEN [s EXCEPT !.ended = TRUE]
        ELSE [s EXCEPT !.current = least, !.weight = s.open[least], !.open = Less(@, least),
                       !.least = Append(@, least)]

\* The matrix of a graph with a node: one row less than there are nodes, the
\* last of them repeated when the search ended before.
Matrix(start) ==
    LET first == [cost |-> [n \in Nodes |-> IF n = start THEN 0 ELSE Infinite], open |-> NoList,
                  current |-> start, weight |-> 0, least |-> <<>>, ended |-> FALSE]
        step(s) == IF s.ended THEN s ELSE Advanced(Relaxed(s))
        after[row \in Nat] == step(IF row = 0 THEN first ELSE after[row - 1])
        rows == Cardinality(Nodes) - 1
    IN  [isValidPath |-> TRUE, rootNode |-> start,
         costMatrix |-> [row \in 0 .. rows - 1 |-> after[row].cost],
         leastNodeArray |-> IF rows = 0 THEN <<>> ELSE after[rows - 1].least]

\* What GetShortestPath works with: the matrix it has, if that is of this start.
MatrixFrom(start) ==
    IF dijkstra.isValidPath /\ dijkstra.rootNode = start THEN dijkstra ELSE Matrix(start)

-----------------------------------------------------------------------------
(* GetShortestPath.                                                        *)

\* The nodes between the start and a node of that weight, walking the rows
\* back from this one.
Between(d, lastRow, end) ==
    LET least(row) == d.leastNodeArray[row + 1]
        back[row \in 0 .. lastRow, n \in Nodes, weight \in 0 .. Infinite] ==
            IF d.costMatrix[row][n] = weight
            THEN IF row = 0 THEN <<>> ELSE back[row - 1, n, weight]
            ELSE IF row = 0 THEN <<least(0)>>
            ELSE Append(back[row, least(row), d.costMatrix[row][least(row)]], least(row))
    IN  back[lastRow, end, d.costMatrix[lastRow + 1][end]]

\* The path and the value returned.
ShortestPath(start, end) ==
    LET d == MatrixFrom(start)
        last == Cardinality(Nodes) - 2
        found(path) == [path |-> path, value |-> TRUE]
    IN  CASE start = end -> found(<<start, end>>)
          [] last < 0 -> [path |-> <<>>, value |-> FALSE]
          [] last = 0 -> found(<<start, end>>)
          [] d.costMatrix[last][end] = Infinite -> found(<<>>)
          [] OTHER -> found(<<start>> \o Between(d, last - 1, end) \o <<end>>)

Steps(path) == {<<path[i], path[i + 1]>> : i \in 1 .. Len(path) - 1}

\* Mutant: the paths between any two of the nodes.
LinksOfEach(start, inputs) ==
    {{e[1], e[2]} : e \in {s \in UNION {Steps(ShortestPath(m, n).path) : m, n \in inputs \cup {start}} : s[1] # s[2]}}

\* GetSpanningTree: the connections of the paths to the input nodes.
Links(start, inputs) ==
    {{e[1], e[2]} : e \in {s \in UNION {Steps(ShortestPath(start, n).path) : n \in inputs} : s[1] # s[2]}}

-----------------------------------------------------------------------------
(* The methods.                                                            *)

Init == adjacencyLists = <<>> /\ dijkstra = NoMatrix

ClearDijkstra == dijkstra' = NoMatrix

AddNode(n) ==
    /\ n \notin Nodes /\ ~dijkstra.isValidPath
    /\ adjacencyLists' = WithNode(adjacencyLists, n)
    /\ UNCHANGED dijkstra

\* A new node would make the rows of a matrix be read with another length.
AddConnection(n1, n2, weight) ==
    /\ n1 # n2
    /\ dijkstra.isValidPath => AddsWhileValid /\ {n1, n2} \subseteq Nodes
    /\ adjacencyLists' = Connected(adjacencyLists, n1, n2, weight)
    /\ UNCHANGED dijkstra

RemoveNode(n) ==
    /\ n \in Nodes
    /\ OneByOne(adjacencyLists, n)
    /\ adjacencyLists' = Removal(adjacencyLists, n).lists
    /\ ClearDijkstra

RemoveConnection(n1, n2) ==
    /\ n1 \in Nodes /\ n2 \in Nodes
    /\ LET cut == Disconnected(adjacencyLists, n1, n2)
           one == IF Leaves(cut, n1) THEN Removal(cut, n1).lists ELSE cut
       IN  /\ Leaves(cut, n1) => OneByOne(cut, n1)
           /\ Leaves(one, n2) => OneByOne(one, n2)
           /\ adjacencyLists' = IF Leaves(one, n2) THEN Removal(one, n2).lists ELSE one
    /\ ClearDijkstra

GetShortestPath(start, end) ==
    /\ start \in Nodes /\ end \in Nodes \ {start}
    /\ dijkstra' = MatrixFrom(start)
    /\ UNCHANGED adjacencyLists

Clear ==
    /\ adjacencyLists' = <<>>
    /\ ClearDijkstra

Next ==
    \/ \E n \in Node : AddNode(n) \/ RemoveNode(n)
    \/ \E n1, n2 \in Node, weight \in Weight : AddConnection(n1, n2, weight)
    \/ \E n1, n2 \in Node : RemoveConnection(n1, n2) \/ GetShortestPath(n1, n2)
    \/ Clear

Spec == Init /\ [][Next]_vars

-----------------------------------------------------------------------------
(* Properties.                                                             *)

Weighing(path) ==
    FoldSeq(+, 0, [i \in 1 .. Len(path) - 1 |-> adjacencyLists[path[i]][path[i + 1]]])

IsPath(path) == \A i \in 1 .. Len(path) - 1 : path[i + 1] \in DOMAIN adjacencyLists[path[i]]
PathsTo(start, end) ==
    {p \in UNION {SetToAllKPermutations(k) : k \in SUBSET Nodes} : Len(p) > 1 /\ p[1] = start /\ Last(p) = end}

\* From another start than that of the matrix the methods work as they do without
\* a matrix, which is another state.
Starts == IF dijkstra.isValidPath THEN {dijkstra.rootNode} ELSE Nodes

\* GetShortestPath returns a path of the graph, none is shorter, and returns
\* an empty one only where there is no path.
PathRight ==
    \A start \in Starts, end \in Nodes :
        start # end /\ (TwoNodes \/ Cardinality(Nodes) # 2) =>
            LET paths == {p \in PathsTo(start, end) : IsPath(p)}
                path == ShortestPath(start, end).path
            IN  IF paths = {} THEN path = <<>>
                ELSE path \in paths /\ \A p \in paths : Weighing(path) <= Weighing(p)

\* The paths GetSpanningTree puts together are a tree: the loop that copies
\* them looks only at the parent of a node, and would go round a circle for ever.
SpanningTreeRight ==
    \A start \in Starts : \A inputs \in SUBSET Nodes :
        LET links == Links(start, inputs)
        IN  links # {} => Cardinality(UNION links) = Cardinality(links) + 1

\* A graph that allows no unlinked nodes removes each of them once: the queue
\* of RemoveNode never has one that is gone.
RemovalDefined ==
    \A n \in Nodes : OneByOne(adjacencyLists, n) => Removal(adjacencyLists, n).queue = <<>>

\* Connections are in the lists of both nodes with one weight.
Symmetric ==
    \A n \in Nodes : \A k \in DOMAIN adjacencyLists[n] :
        k \in Nodes /\ n \in DOMAIN adjacencyLists[k] /\ adjacencyLists[k][n] = adjacencyLists[n][k]
===============================================================================
