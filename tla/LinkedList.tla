----------------------------- MODULE LinkedList -----------------------------
(***************************************************************************)
(* CircularLinkedList and LinkedList of DS_LinkedList.h, pointer by        *)
(* pointer: a list is its root, its position, list_size and its nodes.  A  *)
(* node is a number, a new one the least that is free.                     *)
(***************************************************************************)
EXTENDS Naturals, Sequences, FiniteSets, SequencesExt

CONSTANTS Item,          \* a set of numbers
          MaxSize,       \* bound: no longer list is made
          Circular,      \* CircularLinkedList or LinkedList
          InsertsInside, \* may Insert be called with the position behind the root
          EmptyConcat    \* may Concatenate be called on an empty list

LinkedListAssumption ==
    /\ Item \subseteq Nat /\ MaxSize \in Nat
    /\ Circular \in BOOLEAN /\ InsertsInside \in BOOLEAN /\ EmptyConcat \in BOOLEAN

Nil == 0

Node(x, previous, next) == [item |-> x, previous |-> previous, next |-> next]

EmptyList == [root |-> Nil, position |-> Nil, size |-> 0, nodes |-> <<>>]

\* The functions of list.nodes have any finite set of numbers as domain.
NewNode(l) == CHOOSE n \in 1 .. l.size + 1 :
                  n \notin DOMAIN l.nodes /\ \A k \in 1 .. n - 1 : k \in DOMAIN l.nodes

With(nodes, n, value) ==
    [k \in DOMAIN nodes \cup {n} |-> IF k = n THEN value ELSE nodes[k]]

-----------------------------------------------------------------------------
(* Insert, Add, Del and the search.                                        *)

OneNode(l, x) ==
    LET n == NewNode(l)
    IN  [root |-> n, position |-> n, size |-> 1, nodes |-> With(l.nodes, n, Node(x, n, n))]

\* A new node n between a and c, which may be the same node.
Between(l, a, n, c, x) ==
    [With(l.nodes, n, Node(x, a, c)) EXCEPT ![a].next = n, ![c].previous = n]

\* Mutant: only the position goes to the new node when it is the first.
InsertedKeepsRoot(l, x) ==
    IF l.size = 0 THEN OneNode(l, x)
    ELSE LET n == NewNode(l)
             a == l.nodes[l.position].previous
         IN  [root |-> l.root,
              position |-> IF l.position = l.root THEN n ELSE l.position,
              size |-> l.size + 1,
              nodes |-> Between(l, a, n, l.position, x)]

\* Before the position; a list of one has its position at its root.
Inserted(l, x) ==
    IF l.size = 0 THEN OneNode(l, x)
    ELSE LET n == NewNode(l)
             a == l.nodes[l.position].previous
             first == l.position = l.root
         IN  [root |-> IF first THEN n ELSE l.root,
              position |-> IF first THEN n ELSE l.position,
              size |-> l.size + 1,
              nodes |-> Between(l, a, n, l.position, x)]

\* After the position, which stays.
Added(l, x) ==
    IF l.size = 0 THEN OneNode(l, x)
    ELSE LET n == NewNode(l)
         IN  [l EXCEPT !.size = l.size + 1,
                       !.nodes = Between(l, l.position, n, l.nodes[l.position].next, x)]

\* Mutant: the node behind still points back to the deleted one.
DeletedOneWay(l) ==
    IF l.size <= 1 THEN EmptyList
    ELSE LET p == l.position
             c == l.nodes[p].next
             linked == [l.nodes EXCEPT ![l.nodes[p].previous].next = c]
         IN  [root |-> IF p = l.root THEN c ELSE l.root,
              position |-> c,
              size |-> l.size - 1,
              nodes |-> [n \in DOMAIN linked \ {p} |-> linked[n]]]

Deleted(l) ==
    IF l.size <= 1 THEN EmptyList
    ELSE LET p == l.position
             c == l.nodes[p].next
             linked == [l.nodes EXCEPT ![l.nodes[p].previous].next = c,
                                       ![c].previous = l.nodes[p].previous]
         IN  [root |-> IF p = l.root THEN c ELSE l.root,
              position |-> c,
              size |-> l.size - 1,
              nodes |-> [n \in DOMAIN linked \ {p} |-> linked[n]]]

\* From the root on, until the loop is at the root again.
RECURSIVE SearchFrom(_, _, _)
SearchFrom(l, current, x) ==
    IF l.nodes[current].item = x THEN current
    ELSE IF l.nodes[current].next = l.root THEN Nil
    ELSE SearchFrom(l, l.nodes[current].next, x)

FindPointer(l, x) == IF l.size = 0 THEN Nil ELSE SearchFrom(l, l.root, x)

-----------------------------------------------------------------------------
(* Copying, concatenating and sorting.                                     *)

PlusPlus(l) == IF l.size = 0 THEN l ELSE [l EXCEPT !.position = l.nodes[@].next]

\* Mutant: the position of a copy is its last node.
RECURSIVE CopyFromAtEnd(_, _, _, _)
CopyFromAtEnd(l, current, copy, save) ==
    LET n == copy.size + 1
        longer == [copy EXCEPT !.size = n,
                               !.nodes = Append(@, Node(l.nodes[current].item, n - 1, n + 1))]
    IN  IF l.nodes[current].next = l.root
        THEN [longer EXCEPT !.nodes[n].next = 1, !.nodes[1].previous = n, !.position = n]
        ELSE CopyFromAtEnd(l, l.nodes[current].next, longer, save)

\* The copied nodes are new: node i is the i-th from the root.  The position is
\* saved when the loop is at the original's.
RECURSIVE CopyFrom(_, _, _, _)
CopyFrom(l, current, copy, save) ==
    LET n == copy.size + 1
        saved == IF current = l.position THEN n ELSE save
        longer == [copy EXCEPT !.size = n,
                               !.nodes = Append(@, Node(l.nodes[current].item, n - 1, n + 1))]
    IN  IF l.nodes[current].next = l.root
        THEN [longer EXCEPT !.nodes[n].next = 1, !.nodes[1].previous = n, !.position = saved]
        ELSE CopyFrom(l, l.nodes[current].next, longer, saved)

Copy(l) ==
    IF l.size = 0 THEN EmptyList
    ELSE CopyFrom(l, l.root, [EmptyList EXCEPT !.root = 1], Nil)

RECURSIVE AppendAll(_, _, _, _)
AppendAll(l, M, ptr, counter) ==
    IF counter = M.size THEN l
    ELSE AppendAll(PlusPlus(Added(l, M.nodes[ptr].item)), M, M.nodes[ptr].next, counter + 1)

\* An empty list is first made a copy of M.
Concatenated(l, M) ==
    IF M.size = 0 THEN l
    ELSE LET k == IF l.size = 0 THEN Copy(M) ELSE l
         IN  AppendAll([k EXCEPT !.position = k.nodes[k.root].previous], M, M.root, 0)

RECURSIVE MergeOf(_, _, _)
MergeOf(L1, L2, X) ==
    IF L1.size # 0 /\ L2.size # 0
    THEN IF L1.nodes[L1.root].item < L2.nodes[L2.root].item
         THEN MergeOf(Deleted(L1), L2, PlusPlus(Added(X, L1.nodes[L1.root].item)))
         ELSE MergeOf(L1, Deleted(L2), PlusPlus(Added(X, L2.nodes[L2.root].item)))
    ELSE Concatenated(X, IF L1.size # 0 THEN L1 ELSE L2)

Merge(L1, L2) ==
    MergeOf([L1 EXCEPT !.position = L1.root], [L2 EXCEPT !.position = L2.root], EmptyList)

\* The items of a part of the list, each added behind the first.
RECURSIVE Part(_, _, _)
Part(l, location, count) ==
    IF count = 0 THEN EmptyList
    ELSE LET add[i \in 1 .. count] ==
                IF i = 1 THEN [list |-> Added(EmptyList, l.nodes[location].item),
                               at |-> l.nodes[location].next]
                ELSE [list |-> Added(add[i - 1].list, l.nodes[add[i - 1].at].item),
                      at |-> l.nodes[add[i - 1].at].next]
         IN  add[count].list

RECURSIVE Advance(_, _, _)
Advance(l, location, count) ==
    IF count = 0 THEN location ELSE Advance(l, l.nodes[location].next, count - 1)

RECURSIVE Mergesort(_)
Mergesort(l) ==
    LET half == l.size \div 2
        L1 == Part(l, l.root, half)
        L2 == Part(l, Advance(l, l.root, half), l.size - half)
        Sorted(part) == IF part.size > 1 THEN Mergesort(part) ELSE part
    IN  Merge(Sorted(L1), Sorted(L2))

-----------------------------------------------------------------------------
(* A list, used.                                                           *)

VARIABLE list

Init == list = EmptyList

Insert(x) ==
    /\ InsertsInside \/ list.position = list.root
    /\ list.size < MaxSize
    /\ list' = Inserted(list, x)

Add(x) == list.size < MaxSize /\ list' = Added(list, x)
Replace(x) == list.size > 0 /\ list' = [list EXCEPT !.nodes[list.position].item = x]
Del       == list.size > 0 /\ list' = Deleted(list)

Find(x) ==
    /\ FindPointer(list, x) # Nil
    /\ list' = [list EXCEPT !.position = FindPointer(list, x)]

\* Mutant: the list that is not circular stops at its root.
ForwardAtRoot ==
    /\ list.size > 0
    /\ Circular \/ list.position # list.root
    /\ list' = PlusPlus(list)

\* operator++: the list that is not circular stays at its end.
Forward ==
    /\ list.size > 0
    /\ Circular \/ list.nodes[list.position].next # list.root
    /\ list' = PlusPlus(list)

\* operator--
Back ==
    /\ list.size > 0
    /\ Circular \/ list.position # list.root
    /\ list' = [list EXCEPT !.position = list.nodes[@].previous]

Beginning == list.size > 0 /\ list' = [list EXCEPT !.position = list.root]
End == list.size > 0 /\ list' = [list EXCEPT !.position = list.nodes[list.root].previous]

Sort ==
    /\ list.size > 1
    /\ LET sorted == Copy(Mergesort(list)) IN list' = [sorted EXCEPT !.position = sorted.root]

\* A list of the items of s, made by Add and ++.
ListOf(s) ==
    LET add[i \in 0 .. Len(s)] == IF i = 0 THEN EmptyList ELSE PlusPlus(Added(add[i - 1], s[i]))
    IN  add[Len(s)]

Concatenate(s) ==
    /\ EmptyConcat \/ list.size > 0
    /\ list.size + Len(s) <= MaxSize
    /\ list' = Concatenated(list, ListOf(s))

Clear == list.size > 0 /\ list' = EmptyList

Next ==
    \/ \E x \in Item : Insert(x) \/ Add(x) \/ Replace(x) \/ Find(x)
    \/ Del \/ Forward \/ Back \/ Beginning \/ End \/ Sort \/ Clear
    \/ \E s \in UNION {[1 .. n -> Item] : n \in 1 .. 2} : Concatenate(s)

Spec == Init /\ [][Next]_list

-----------------------------------------------------------------------------
(* Properties.                                                             *)

\* The nodes from the root on, in the order of next.
RECURSIVE Walk(_, _)
Walk(l, n) == IF l.nodes[n].next = l.root THEN <<n>> ELSE <<n>> \o Walk(l, l.nodes[n].next)

Order(l) == IF l.size = 0 THEN <<>> ELSE Walk(l, l.root)
Items(l) == LET order == Order(l) IN [i \in DOMAIN order |-> l.nodes[order[i]].item]
Position(l) ==
    IF l.size = 0 THEN 0 ELSE LET order == Order(l) IN CHOOSE i \in DOMAIN order : order[i] = l.position

\* The nodes are one ring both ways, the root and the position are in it and
\* list_size is its length: no node leaks and none is freed that is linked.
OneRing ==
    /\ list.size = Cardinality(DOMAIN list.nodes)
    /\ list.size = 0 => list = EmptyList
    /\ list.size > 0 =>
          /\ list.position \in DOMAIN list.nodes
          /\ \A n \in DOMAIN list.nodes :
                /\ list.nodes[n].next \in DOMAIN list.nodes
                /\ list.nodes[list.nodes[n].next].previous = n
          /\ Len(Order(list)) = list.size

\* The pointers implement the documented sequence with its current position,
\* each method the operation of its name, when Insert is called at the root only.
Documented == INSTANCE CursorList WITH items <- Items(list), pos <- Position(list)

EachAsDocumented ==
    /\ \A x \in Item :
          /\ Insert(x) => Documented!Insert(x)
          /\ Add(x) => Documented!Add(x)
          /\ Replace(x) => Documented!Replace(x)
          /\ Find(x) => Documented!Find(x)
    /\ Del => Documented!Del
    /\ Forward => Documented!Forward
    /\ Back => Documented!Back
    /\ Sort => Documented!Sort
    /\ \A s \in UNION {[1 .. n -> Item] : n \in 1 .. 2} : Concatenate(s) => Documented!Concatenate(s)

ImplementsCursorList == [Documented!Next]_<<Items(list), Position(list)>> /\ EachAsDocumented

\* Behind the root the code leaves the position on the item that was there.  Wherever
\* Insert is called, the new item is put before that one and the others keep their order.
InsertsInPlace == \A x \in Item : Insert(x) => Documented!Inserted(x)

\* A copy has the items and the position of the original.
CopySame == Items(Copy(list)) = Items(list) /\ Position(Copy(list)) = Position(list)
=============================================================================
