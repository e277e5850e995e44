-------------------------- MODULE BinarySearchTree --------------------------
(***************************************************************************)
(* The classes BinarySearchTree and AVLBalancedBinarySearchTree of         *)
(* DS_BinarySearchTree.h.  A node is named by the element it holds, since  *)
(* elements are distinct; a tree is its root, the two children of every    *)
(* node, and BinarySearchTree_size.  The pointers that Find leaves in      *)
(* static variables are its results here.                                  *)
(***************************************************************************)
EXTENDS Integers, Sequences, FiniteSets

CONSTANT Key,        \* the elements, numbers greater than 0
         LastAbsent, \* may Del be called for an element that is not there when
                     \* one element is left
         Deletes     \* may Del be called on a tree that is balanced

Nil == 0

BinarySearchTreeAssumption ==
    Key \subseteq Nat \ {Nil} /\ LastAbsent \in BOOLEAN /\ Deletes \in BOOLEAN

NoChild == [k \in Key |-> Nil]
EmptyTree == [root |-> Nil, left |-> NoChild, right |-> NoChild, size |-> 0]

-----------------------------------------------------------------------------
(* Finding a node.                                                         *)

RECURSIVE Descend(_, _, _, _, _)
Descend(t, element, current, parent, direction) ==
    CASE current = Nil ->
            [current |-> Nil, parent |-> parent, direction |-> "NOT_FOUND", last |-> direction]
      [] element = current ->
            [current |-> current, parent |-> parent, direction |-> direction, last |-> direction]
      [] element < current -> Descend(t, element, t.left[current], current, "LEFT")
      [] element > current -> Descend(t, element, t.right[current], current, "RIGHT")

Find(t, element) == Descend(t, element, t.root, Nil, "ROOT")
FindParent(t, element) == Find(t, element).parent

\* Makes the link that leads from parent in a direction, or the root, lead to child.
Link(t, parent, direction, child) ==
    IF parent = Nil THEN [t EXCEPT !.root = child]
    ELSE IF direction = "LEFT" THEN [t EXCEPT !.left[parent] = child]
    ELSE [t EXCEPT !.right[parent] = child]

\* The node leaves the tree: its links mean nothing any more.
Freed(t, node) == [t EXCEPT !.left[node] = Nil, !.right[node] = Nil, !.size = @ - 1]

-----------------------------------------------------------------------------
(* Adding and deleting: the tree, and the node that is returned.           *)

\* Mutant: the new node goes to the wrong side of its parent.
AddLeft(t, input) ==
    LET f == Find(t, input) IN
    IF f.direction # "NOT_FOUND"
    THEN [tree |-> t, node |-> Nil]
    ELSE [tree |-> [Link(t, f.parent, "LEFT", input) EXCEPT !.size = t.size + 1],
          node |-> input]

Added(t, input) ==
    LET f == Find(t, input) IN
    IF f.direction # "NOT_FOUND"
    THEN [tree |-> t, node |-> Nil]
    ELSE [tree |-> [Link(t, f.parent, f.last, input) EXCEPT !.size = t.size + 1],
          node |-> input]

\* As far left as one can go, from current, which hangs below parent.
RECURSIVE Leftmost(_, _, _, _)
Leftmost(t, current, parent, direction) ==
    IF t.left[current] = Nil
    THEN [current |-> current, parent |-> parent, direction |-> direction]
    ELSE Leftmost(t, t.left[current], current, "LEFT")

\* The node of a deleted element takes the element of another, unlinked, node.
Replaced(t, f, by) ==
    Freed(Link([t EXCEPT !.left[by] = t.left[f.current],
                         !.right[by] = t.right[f.current]],
               f.parent, f.direction, by),
          f.current)

\* Mutant: the next element's node is deleted, but its element is not kept.
DeletedTwoForgets(t, f) ==
    LET n == Leftmost(t, t.right[f.current], f.current, "RIGHT")
    IN  [tree |-> Freed(Link(t, n.parent, n.direction, t.right[n.current]), n.current),
         node |-> n.parent]

\* A node with two children takes the next element; that one's node is skipped.
DeletedTwo(t, f) ==
    LET n == Leftmost(t, t.right[f.current], f.current, "RIGHT")
    IN  [tree |-> Replaced(Link(t, n.parent, n.direction, t.right[n.current]), f, n.current),
         node |-> IF n.parent = f.current THEN n.current ELSE n.parent]

\* A leaf is taken off, a node with one child gives its place to it.
DeletedOne(t, f) ==
    LET child == IF t.right[f.current] # Nil THEN t.right[f.current] ELSE t.left[f.current]
    IN  [tree |-> Freed(Link(t, f.parent, f.direction, child), f.current),
         node |-> f.parent]

Deleted(t, input) ==
    LET f == Find(t, input) IN
    CASE t.size = 0 -> [tree |-> t, node |-> Nil]
      [] t.size = 1 -> [tree |-> EmptyTree, node |-> Nil]
      [] t.size > 1 /\ f.direction = "NOT_FOUND" -> [tree |-> t, node |-> Nil]
      [] t.size > 1 /\ f.direction # "NOT_FOUND" ->
            IF t.left[f.current] # Nil /\ t.right[f.current] # Nil
            THEN DeletedTwo(t, f) ELSE DeletedOne(t, f)

-----------------------------------------------------------------------------
(* Visiting every node.                                                    *)

\* Mutant: after a step up from a left child the node itself is left out.
RECURSIVE InorderSkips(_, _, _, _, _)
InorderSkips(t, current, direction, justPrinted, out) ==
    CASE Len(out) = t.size -> out
      [] Len(out) < t.size ->
            IF t.left[current] # Nil /\ direction \notin {"LEFT", "RIGHT"}
            THEN InorderSkips(t, t.left[current], "ROOT", justPrinted, out)
            ELSE IF direction = "ROOT" /\ ~justPrinted
            THEN InorderSkips(t, current, direction, TRUE, Append(out, current))
            ELSE IF t.right[current] # Nil /\ direction # "RIGHT"
            THEN InorderSkips(t, t.right[current], "ROOT", FALSE, out)
            ELSE LET f == Find(t, current) IN
                 IF f.parent = Nil THEN out
                 ELSE InorderSkips(t, f.parent, f.direction, FALSE, out)

\* DisplayInorder: direction tells from which side the walk came up, ROOT when
\* it came down.
RECURSIVE Inorder(_, _, _, _, _)
Inorder(t, current, direction, justPrinted, out) ==
    CASE Len(out) = t.size -> out
      [] Len(out) < t.size ->
            IF t.left[current] # Nil /\ direction \notin {"LEFT", "RIGHT"}
            THEN Inorder(t, t.left[current], "ROOT", justPrinted, out)
            ELSE IF direction # "RIGHT" /\ ~justPrinted
            THEN Inorder(t, current, direction, TRUE, Append(out, current))
            ELSE IF t.right[current] # Nil /\ direction # "RIGHT"
            THEN Inorder(t, t.right[current], "ROOT", FALSE, out)
            ELSE LET f == Find(t, current)
                 IN  Inorder(t, f.parent, f.direction, FALSE, out)

DisplayInorder(t) == Inorder(t, t.root, "ROOT", FALSE, <<>>)

RECURSIVE Preorder(_, _, _, _)
Preorder(t, current, direction, out) ==
    CASE Len(out) = t.size -> out
      [] Len(out) < t.size ->
            IF t.left[current] # Nil /\ direction \notin {"LEFT", "RIGHT"}
            THEN Preorder(t, t.left[current], "ROOT", Append(out, t.left[current]))
            ELSE IF t.right[current] # Nil /\ direction # "RIGHT"
            THEN Preorder(t, t.right[current], "ROOT", Append(out, t.right[current]))
            ELSE LET f == Find(t, current)
                 IN  Preorder(t, f.parent, f.direction, out)

DisplayPreorder(t) ==
    IF t.size = 0 THEN <<>> ELSE Preorder(t, t.root, "ROOT", <<t.root>>)

RECURSIVE PostorderRecursive(_, _)
PostorderRecursive(t, current) ==
    IF current = Nil THEN <<>>
    ELSE PostorderRecursive(t, t.left[current])
         \o PostorderRecursive(t, t.right[current]) \o <<current>>

DisplayPostorder(t) == PostorderRecursive(t, t.root)

\* The breadth first search with a queue of nodes.
RECURSIVE BreadthFirst(_, _)
BreadthFirst(t, treeQueue) ==
    IF treeQueue = <<>> THEN <<>>
    ELSE LET current == Head(treeQueue)
             Child(c) == IF c = Nil THEN <<>> ELSE <<c>>
         IN  <<current>> \o BreadthFirst(t, Tail(treeQueue)
                               \o Child(t.left[current]) \o Child(t.right[current]))

DisplayBreadthFirstSearch(t) == IF t.size = 0 THEN <<>> ELSE BreadthFirst(t, <<t.root>>)

\* Mutant: the copy is filled in order.
CopyInorder(t) ==
    LET order == DisplayInorder(t)
        copy[i \in 0 .. Len(order)] ==
            IF i = 0 THEN EmptyTree ELSE Added(copy[i - 1], order[i]).tree
    IN  copy[Len(order)]

\* The copy constructor: Add, in the order of that search.
Copy(t) ==
    LET order == DisplayBreadthFirstSearch(t)
        copy[i \in 0 .. Len(order)] ==
            IF i = 0 THEN EmptyTree ELSE Added(copy[i - 1], order[i]).tree
    IN  copy[Len(order)]

\* operator= clears the tree first; assigned to itself, a tree stays.
Assigned(t, original) == IF t = original THEN t ELSE Copy(original)

\* Mutant: a leaf is taken off from the left of its parent.
RECURSIVE ClearStepsLeft(_, _)
ClearStepsLeft(t, current) ==
    CASE t.size = 0 -> <<>>
      [] t.size = 1 -> <<t.root>>
      [] t.size > 1 ->
            IF t.left[current] # Nil THEN ClearStepsLeft(t, t.left[current])
            ELSE IF t.right[current] # Nil THEN ClearStepsLeft(t, t.right[current])
            ELSE LET parent == FindParent(t, current) IN
                 IF parent = Nil THEN <<current>> ELSE
                 <<current>> \o ClearStepsLeft(Freed(Link(t, parent, "LEFT", Nil), current), parent)

\* Clear frees leaf after leaf: the nodes in that order.
RECURSIVE ClearSteps(_, _)
ClearSteps(t, current) ==
    CASE t.size = 0 -> <<>>
      [] t.size = 1 -> <<t.root>>
      [] t.size > 1 ->
            IF t.left[current] # Nil THEN ClearSteps(t, t.left[current])
            ELSE IF t.right[current] # Nil THEN ClearSteps(t, t.right[current])
            ELSE LET parent == FindParent(t, current)
                     side == IF t.left[parent] = current THEN "LEFT" ELSE "RIGHT"
                 IN  <<current>> \o ClearSteps(Freed(Link(t, parent, side, Nil), current), parent)

-----------------------------------------------------------------------------
(* A tree, used.                                                           *)

VARIABLE tree

Elements(t) == {k \in Key : Find(t, k).direction # "NOT_FOUND"}

Init == tree = EmptyTree

Add(input) == tree' = Added(tree, input).tree

Del(input) ==
    /\ LastAbsent \/ tree.size # 1 \/ input \in Elements(tree)
    /\ tree' = Deleted(tree, input).tree

Clear == tree.size > 0 /\ tree' = EmptyTree

Next == (\E k \in Key : Add(k) \/ Del(k)) \/ Clear

Spec == Init /\ [][Next]_tree

-----------------------------------------------------------------------------
(* The tree that AVLBalancedBinarySearchTree balances after Add and Del.    *)

RECURSIVE Height(_, _)
Height(t, node) ==
    IF node = Nil THEN 0
    ELSE LET l == Height(t, t.left[node])
             r == Height(t, t.right[node])
         IN  1 + IF l > r THEN l ELSE r

RightHigher(t, A) == Height(t, t.right[A]) > Height(t, t.left[A])
LeftHigher(t, A) == Height(t, t.left[A]) > Height(t, t.right[A])

\* Mutant: what hung to the right of C is not given to B.
RotateRightLoses(t, C) ==
    LET B == FindParent(t, C)
        f == Find(t, B)
    IN  [Link(t, f.parent, f.direction, C) EXCEPT !.left[B] = Nil, !.right[C] = B]

\* C takes the place of its parent B, below A, and B becomes its child.
RotateRight(t, C) ==
    LET B == FindParent(t, C)
        f == Find(t, B)
    IN  [Link(t, f.parent, f.direction, C) EXCEPT !.left[B] = t.right[C], !.right[C] = B]

RotateLeft(t, C) ==
    LET B == FindParent(t, C)
        f == Find(t, B)
    IN  [Link(t, f.parent, f.direction, C) EXCEPT !.right[B] = t.left[C], !.left[C] = B]

DoubleRotateRight(t, A) ==
    LET u == RotateLeft(t, t.right[t.left[A]]) IN RotateRight(u, u.left[A])

DoubleRotateLeft(t, A) ==
    LET u == RotateRight(t, t.left[t.right[A]]) IN RotateLeft(u, u.right[A])

\* Mutant: always the simple rotation.
RebalancedSimply(t, current) ==
    LET balance == Height(t, t.right[current]) - Height(t, t.left[current])
    IN  CASE balance = 2  -> RotateLeft(t, t.right[current])
          [] balance = -2 -> RotateRight(t, t.left[current])
          [] balance \notin {2, -2} -> t

\* One node's turn in BalanceTree.
Rebalanced(t, current) ==
    LET balance == Height(t, t.right[current]) - Height(t, t.left[current])
    IN  CASE balance = 2 ->
                IF RightHigher(t, t.right[current])
                THEN RotateLeft(t, t.right[current]) ELSE DoubleRotateLeft(t, current)
          [] balance = -2 ->
                IF LeftHigher(t, t.left[current])
                THEN RotateRight(t, t.left[current]) ELSE DoubleRotateRight(t, current)
          [] balance \notin {2, -2} -> t

\* From the node up to the root; after Add, only until a rotation.
RECURSIVE BalanceTree(_, _, _)
BalanceTree(t, current, rotateOnce) ==
    IF current = Nil THEN t
    ELSE LET u == Rebalanced(t, current)
         IN  IF (rotateOnce /\ u # t) \/ current = u.root THEN u
             ELSE BalanceTree(u, FindParent(u, current), rotateOnce)

AVLAdd(input) ==
    LET a == Added(tree, input) IN tree' = BalanceTree(a.tree, a.node, TRUE)

AVLDel(input) ==
    /\ Deletes
    /\ LastAbsent \/ tree.size # 1 \/ input \in Elements(tree)
    /\ LET d == Deleted(tree, input) IN tree' = BalanceTree(d.tree, d.node, FALSE)

AVLNext == (\E k \in Key : AVLAdd(k) \/ AVLDel(k)) \/ Clear

AVLSpec == Init /\ [][AVLNext]_tree

-----------------------------------------------------------------------------
(* Properties.                                                             *)

RECURSIVE Below(_, _)
Below(t, node) == IF node = Nil THEN {}
                  ELSE {node} \cup Below(t, t.left[node]) \cup Below(t, t.right[node])

\* The tree is a search tree whatever was added and deleted: every node is
\* reached by Find, the nodes not in it hang nowhere, and the size is theirs.
SearchTree ==
    /\ Elements(tree) = Below(tree, tree.root)
    /\ tree.size = Cardinality(Elements(tree))
    /\ \A k \in Elements(tree) :
          /\ \A l \in Below(tree, tree.left[k]) : l < k
          /\ \A r \in Below(tree, tree.right[k]) : r > k

RECURSIVE RootFirst(_, _)
RootFirst(t, node) == IF node = Nil THEN <<>>
                      ELSE <<node>> \o RootFirst(t, t.left[node]) \o RootFirst(t, t.right[node])

RECURSIVE LeftRootRight(_, _)
LeftRootRight(t, node) ==
    IF node = Nil THEN <<>>
    ELSE LeftRootRight(t, t.left[node]) \o <<node>> \o LeftRootRight(t, t.right[node])

\* The walks that keep only a direction visit the nodes as the recursive
\* traversals do, and the array they fill is long enough.
TraversalsRight ==
    /\ DisplayInorder(tree) = LeftRootRight(tree, tree.root)
    /\ DisplayPreorder(tree) = RootFirst(tree, tree.root)
    /\ {DisplayPostorder(tree)[i] : i \in 1 .. tree.size} = Elements(tree)

\* A copy has the shape of the original, not only its elements: a copy of a
\* balanced tree is balanced.
CopySameShape == Copy(tree) = tree /\ Assigned(EmptyTree, tree) = tree

\* Clear frees every node once.
ClearFreesAll ==
    LET freed == ClearSteps(tree, tree.root)
    IN  /\ Len(freed) = tree.size
        /\ {freed[i] : i \in 1 .. Len(freed)} = Elements(tree)

\* Add adds its element and Del removes its element, and nothing else; a Del of
\* an element that is not there changes nothing.
OneElementChanges ==
    \A k \in Key : /\ Add(k) => Elements(tree') = Elements(tree) \cup {k}
                   /\ Del(k) => Elements(tree') = Elements(tree) \ {k}

Imbalance(k) == Height(tree, tree.right[k]) - Height(tree, tree.left[k])

\* The heights of the subtrees of every node differ by at most one.
Balanced == \A k \in Elements(tree) : Imbalance(k) \in -1 .. 1

\* Rotations after Add or Del neither lose nor add an element: the balanced tree
\* has those of the plain one.
RotationsKeepElements ==
    \A k \in Key : /\ AVLAdd(k) => Elements(tree') = Elements(Added(tree, k).tree)
                   /\ AVLDel(k) => Elements(tree') = Elements(Deleted(tree, k).tree)
=============================================================================
