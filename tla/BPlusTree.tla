------------------------------ MODULE BPlusTree ------------------------------
(***************************************************************************)
(* The class BPlusTree of DS_BPlusTree.h.  The pages are a function of     *)
(* numbers, which stand for their addresses; the arrays of a page have     *)
(* their full length, so that a slot past size is read as the code reads   *)
(* it.  The data of a key is the key.                                      *)
(***************************************************************************)
EXTENDS Integers, Sequences, FiniteSets, SequencesExt

CONSTANTS Key,     \* numbers greater than 0
          Order,   \* the template parameter order
          Again    \* may Insert be called for a key that is there

Nil == 0

BPlusTreeAssumption == Key \subseteq Nat \ {Nil} /\ Order \in Nat \ {0, 1} /\ Again \in BOOLEAN

Blank == [isLeaf |-> TRUE, size |-> 0, next |-> Nil, previous |-> Nil,
          keys |-> [i \in 0 .. Order - 1 |-> Nil], data |-> [i \in 0 .. Order - 1 |-> Nil],
          children |-> [i \in 0 .. Order |-> Nil]]

\* Pages P with a new one, at an address that is free.
Fresh(P) == CHOOSE n \in 1 .. Cardinality(DOMAIN P) + 1 : n \notin DOMAIN P
Put(P, n, page) == [k \in DOMAIN P \cup {n} |-> IF k = n THEN page ELSE P[k]]
Release(P, n) == [k \in DOMAIN P \ {n} |-> P[k]]

\* The slots from .. to - 1 take what is behind them; from + 1 .. to what is
\* before them.  What is read behind the end of an array is never looked at.
Down(array, from, to) ==
    [i \in DOMAIN array |->
        IF from <= i /\ i < to THEN IF i + 1 \in DOMAIN array THEN array[i + 1] ELSE Nil
        ELSE array[i]]
Up(array, from, to) ==
    [i \in DOMAIN array |-> IF from < i /\ i <= to THEN array[i - 1] ELSE array[i]]

\* An array that holds s from its first slot on.
Filled(array, s) ==
    [i \in DOMAIN array |-> IF i < Len(s) THEN s[i + 1] ELSE array[i]]

\* The slots from .. to of an array as a sequence.
Slots(array, from, to) == [i \in 1 .. to - from + 1 |-> array[from + i - 1]]

-----------------------------------------------------------------------------
(* Searching.                                                              *)

RECURSIVE Bisect(_, _, _, _, _)
Bisect(key, keys, index, lower, upper) ==
    IF key = keys[index] THEN [found |-> TRUE, index |-> index]
    ELSE LET u == IF key < keys[index] THEN index - 1 ELSE upper
             l == IF key < keys[index] THEN lower ELSE index + 1
         IN  IF l > u THEN [found |-> FALSE, index |-> l]
             ELSE Bisect(key, keys, l + (u - l) \div 2, l, u)

GetIndexOf(key, page) == Bisect(key, page.keys, page.size \div 2, 0, page.size - 1)

\* Mutant: the child before a key that is equal.
BranchIndexBefore(key, page) == GetIndexOf(key, page).index

\* The child to follow: behind a key that is equal.
BranchIndex(key, page) ==
    LET g == GetIndexOf(key, page) IN IF g.found THEN g.index + 1 ELSE g.index

RECURSIVE GetLeafFromKey(_, _, _)
GetLeafFromKey(P, key, cur) ==
    IF P[cur].isLeaf THEN cur
    ELSE GetLeafFromKey(P, key, P[cur].children[BranchIndex(key, P[cur])])

NoAction == [action |-> "NO_ACTION", key1 |-> Nil, key2 |-> Nil]

-----------------------------------------------------------------------------
(* Inserting: the pages, the new page or Nil, and the return action.       *)

\* A page with room.
Inserted(page, key, index, child) ==
    LET keys == [Up(page.keys, index, page.size) EXCEPT ![index] = key]
    IN  IF page.isLeaf
        THEN [page EXCEPT !.keys = keys, !.size = @ + 1,
                          !.data = [Up(@, index, page.size) EXCEPT ![index] = key]]
        ELSE [page EXCEPT !.keys = keys, !.size = @ + 1,
                          !.children = [Up(@, index + 1, page.size + 1) EXCEPT ![index + 1] = child]]

\* Mutant: the leaf behind does not point back to the new one.
LinkedOneWay(P, cur, n, page) ==
    LET Q == Put(P, n, [page EXCEPT !.next = P[cur].next, !.previous = cur])
    IN  [Q EXCEPT ![cur].next = n]

\* The new page of a leaf follows it.
Linked(P, cur, n, page) ==
    LET next == P[cur].next
        Q == Put(P, n, [page EXCEPT !.next = next, !.previous = cur])
        R == IF next = Nil THEN Q ELSE [Q EXCEPT ![next].previous = n]
    IN  [R EXCEPT ![cur].next = n]

\* A full page gives the later keys, or children, to a new one.  The new page of
\* an index first holds the key that goes to the parent; size still counts it.
Split(P, key, index, child, cur, action) ==
    LET page  == P[cur]
        leaf  == page.isLeaf
        upper == index >= (Order + 1) \div 2
        kept  == IF upper THEN Order \div 2 ELSE (Order + 1) \div 2 - 1
        Moved(array, first, value) ==
            IF upper THEN InsertAt(Slots(array, first, Order - 1 + first - kept), index - kept + 1, value)
            ELSE Slots(array, first, Order - 1 + first - kept)
        keys  == Moved(page.keys, kept, key)
        new   == IF leaf
                 THEN [Blank EXCEPT !.size = Len(keys), !.keys = Filled(@, keys),
                                    !.data = Filled(@, Moved(page.data, kept, key))]
                 ELSE [Blank EXCEPT !.isLeaf = FALSE, !.size = Len(keys),
                                    !.keys = Filled(@, Tail(keys)),
                                    !.children = Filled(@, Moved(page.children, kept + 1, child))]
        n     == Fresh(P)
        cut   == [page EXCEPT !.size = kept]
        at    == IF kept = 0 THEN 0 ELSE GetIndexOf(key, cut).index
        Q     == IF leaf THEN Linked(P, cur, n, new) ELSE Put(P, n, new)
    IN  [pages |-> [Q EXCEPT ![cur].size = kept,
                             ![cur] = IF upper THEN @ ELSE Inserted(@, key, at, child)],
         new |-> n,
         action |-> IF leaf THEN action
                    ELSE [action EXCEPT !.action = "PUSH_KEY_TO_PARENT", !.key1 = keys[1]]]

InsertIntoNode(P, key, index, child, cur, action) ==
    IF P[cur].size < Order
    THEN [pages |-> [P EXCEPT ![cur] = Inserted(@, key, index, child)], new |-> Nil, action |-> action]
    ELSE Split(P, key, index, child, cur, action)

Place(page, key) == Inserted(page, key, GetIndexOf(key, page).index, Nil)
Appended(page, key) == Inserted(page, key, page.size, Nil)
FirstKey(page) == page.keys[0]
LastKey(page) == page.keys[page.size - 1]
WithoutFirst(page) == [page EXCEPT !.keys = Down(@, 0, page.size - 1),
                                   !.data = Down(@, 0, page.size - 1), !.size = @ - 1]

\* Mutant: the first key leaves its leaf and reaches no other.
RotateLeftLoses(P, key, cur, branch) ==
    LET source == P[cur].children[branch]
        first == FirstKey(P[source])
        new == Place(WithoutFirst(P[source]), key)
    IN  [pages |-> [P EXCEPT ![source] = new, ![cur].keys[branch - 1] = FirstKey(new)],
         new |-> Nil, ok |-> TRUE,
         action |-> [action |-> "REPLACE_KEY1_WITH_KEY2", key1 |-> first, key2 |-> FirstKey(new)]]

\* The first key of a full leaf goes to the leaf on its left.
RotateLeft(P, key, cur, branch) ==
    LET source == P[cur].children[branch]
        dest == P[cur].children[branch - 1]
        first == FirstKey(P[source])
        new == IF key > first THEN Place(WithoutFirst(P[source]), key)
               ELSE [P[source] EXCEPT !.keys[0] = key, !.data[0] = key]
    IN  [pages |-> [P EXCEPT ![dest] = Appended(@, first), ![source] = new,
                             ![cur].keys[branch - 1] = FirstKey(new)],
         new |-> Nil, ok |-> TRUE,
         action |-> [action |-> "REPLACE_KEY1_WITH_KEY2", key1 |-> first,
                     key2 |-> IF key > first THEN FirstKey(WithoutFirst(P[source])) ELSE key]]

\* The last key of a full leaf, or the new one, goes to the leaf on its right.
RotateRight(P, key, cur, branch) ==
    LET source == P[cur].children[branch]
        dest == P[cur].children[branch + 1]
        last == LastKey(P[source])
        moved == IF key < last THEN last ELSE key
    IN  [pages |-> [P EXCEPT ![source] = IF key < last THEN Place([@ EXCEPT !.size = @ - 1], key) ELSE @,
                             ![dest] = Inserted(@, moved, 0, Nil),
                             ![cur].keys[branch] = moved],
         new |-> Nil, ok |-> TRUE,
         action |-> [action |-> "REPLACE_KEY1_WITH_KEY2", key1 |-> FirstKey(P[dest]), key2 |-> moved]]

CanRotateLeft(P, cur, branch) == branch > 0 /\ P[P[cur].children[branch - 1]].size < Order
CanRotateRight(P, cur, branch) ==
    branch < P[cur].size /\ P[P[cur].children[branch + 1]].size < Order

Exists(P, action) == [pages |-> P, new |-> Nil, action |-> action, ok |-> FALSE]

\* What an insertion below cur, with result d, changes in cur: the key of a leaf
\* that was rotated, ...
KeyReplaced(d, cur, branch) ==
    IF d.action.action = "REPLACE_KEY1_WITH_KEY2" /\ branch > 0
       /\ d.pages[cur].keys[branch - 1] = d.action.key1
    THEN [d EXCEPT !.pages[cur].keys[branch - 1] = d.action.key2]
    ELSE d

\* ... and the page that was split off; the first key of an index goes up with it.
PageAdded(d, cur, branch) ==
    LET push == ~d.pages[d.new].isLeaf
        P == IF push THEN [d.pages EXCEPT ![d.new].size = @ - 1] ELSE d.pages
        key == IF push THEN d.action.key1 ELSE FirstKey(P[d.new])
    IN  IF d.new = Nil THEN d
        ELSE InsertIntoNode(P, key, branch, d.new, cur, d.action) @@ [ok |-> d.ok]

RECURSIVE InsertBranchDown(_, _, _, _)
InsertBranchDown(P, key, cur, action) ==
    LET page   == P[cur]
        found  == GetIndexOf(key, page).found
        branch == BranchIndex(key, page)
        child  == page.children[branch]
        full   == P[child].isLeaf /\ P[child].size = Order
        left   == CanRotateLeft(P, cur, branch)
        right  == ~left /\ CanRotateRight(P, cur, branch)
    IN  CASE page.isLeaf /\ ~found ->
                InsertIntoNode(P, key, branch, Nil, cur, action) @@ [ok |-> TRUE]
          [] found /\ (page.isLeaf \/ full) -> Exists(P, action)
          [] ~page.isLeaf /\ full /\ ~found /\ left -> RotateLeft(P, key, cur, branch)
          [] ~page.isLeaf /\ full /\ ~found /\ right -> RotateRight(P, key, cur, branch)
          [] OTHER ->
                PageAdded(KeyReplaced(InsertBranchDown(P, key, child, action), cur, branch),
                          cur, branch)

-----------------------------------------------------------------------------
(* Deleting: the pages, the return action, whether the page underflows.    *)

DeleteFromPageAtIndex(page, index) ==
    [page EXCEPT !.keys = Down(@, index, page.size - 1),
                 !.data = IF page.isLeaf THEN Down(@, index, page.size - 1) ELSE @,
                 !.children = IF page.isLeaf THEN @ ELSE Down(@, index + 1, page.size),
                 !.size = @ - 1]

SetBranchKey(key) == [action |-> "SET_BRANCH_KEY", key1 |-> key, key2 |-> Nil]

\* ShiftNodeRight, and the last entry of the left page in front.
FromLeft(P, cur, branch) ==
    LET source == P[P[cur].children[branch - 1]]
        d == P[P[cur].children[branch]]
        dest == IF d.isLeaf
                THEN Inserted(d, LastKey(source), 0, Nil)
                ELSE [d EXCEPT !.keys = [Up(@, 0, d.size) EXCEPT ![0] = P[cur].keys[branch - 1]],
                               !.children = [Up(@, 0, d.size + 1) EXCEPT ![0] = source.children[source.size]],
                               !.size = @ + 1]
    IN  [P EXCEPT ![P[cur].children[branch]] = dest,
                  ![P[cur].children[branch - 1]].size = @ - 1,
                  ![cur].keys[branch - 1] = LastKey(source)]

\* ShiftNodeLeft.
ShiftedLeft(page) ==
    [page EXCEPT !.keys = Down(@, 0, page.size - 1),
                 !.data = IF page.isLeaf THEN Down(@, 0, page.size) ELSE @,
                 !.children = IF page.isLeaf THEN @ ELSE Down(@, 0, page.size),
                 !.size = @ - 1]

FromRight(P, cur, branch, rightRootKey, action) ==
    LET s == P[cur].children[branch + 1]
        d == P[cur].children[branch]
        source == P[s]
        dest == P[d]
        leaf == dest.isLeaf
        empty == Order <= 3 /\ dest.size = 0
        new == IF leaf THEN Appended(dest, FirstKey(source))
               ELSE Inserted(dest, rightRootKey, dest.size, source.children[0])
        keys == [P[cur].keys EXCEPT ![branch] = IF leaf THEN source.keys[1] ELSE FirstKey(source)]
    IN  [pages |-> [P EXCEPT ![d] = new, ![s] = ShiftedLeft(source),
                             ![cur].keys = IF leaf /\ empty /\ branch > 0
                                           THEN [keys EXCEPT ![branch - 1] = FirstKey(new)] ELSE keys],
         underflow |-> FALSE, ok |-> TRUE,
         action |-> CASE leaf /\ empty /\ branch = 0 -> SetBranchKey(FirstKey(new))
                      [] leaf /\ ~(empty /\ branch = 0) -> action
                      [] ~leaf -> IF action.action = "NO_ACTION" THEN SetBranchKey(FirstKey(dest)) ELSE action]

\* The entries of two pages in one; for indexes with rightRootKey between them.
Joined(dest, source, rightRootKey) ==
    IF dest.isLeaf
    THEN [dest EXCEPT !.size = dest.size + source.size,
                      !.keys = Filled(@, Slots(dest.keys, 0, dest.size - 1) \o Slots(source.keys, 0, source.size - 1)),
                      !.data = Filled(@, Slots(dest.data, 0, dest.size - 1) \o Slots(source.data, 0, source.size - 1))]
    ELSE [dest EXCEPT !.size = dest.size + source.size + 1,
                      !.keys = Filled(@, Slots(dest.keys, 0, dest.size - 1) \o <<rightRootKey>>
                                         \o Slots(source.keys, 0, source.size - 1)),
                      !.children = Filled(@, Slots(dest.children, 0, dest.size)
                                             \o Slots(source.children, 0, source.size))]

\* The right page of two goes into the left one, so the leftmost leaf stays.
MergePages(P, cur, branch, rightRootKey, action) ==
    LET left == IF branch < P[cur].size THEN branch ELSE branch - 1
        d == P[cur].children[left]
        s == P[cur].children[left + 1]
        dest == Joined(P[d], P[s], rightRootKey)
        \* with order 2 or 3 the page may have been empty
        Q == [P EXCEPT ![d] = dest]
        keys == IF Order <= 3 /\ branch > 0 /\ P[d].isLeaf
                THEN [P[cur].keys EXCEPT ![branch - 1] = FirstKey(Q[P[cur].children[branch]])]
                ELSE P[cur].keys
        R == [Q EXCEPT ![cur] = DeleteFromPageAtIndex([@ EXCEPT !.keys = keys], left)]
        next == P[s].next
        prev == P[s].previous
        S == IF ~P[s].isLeaf THEN R
             ELSE LET T == IF prev = Nil THEN R ELSE [R EXCEPT ![prev].next = next]
                  IN  IF next = Nil THEN T ELSE [T EXCEPT ![next].previous = prev]
    IN  [pages |-> Release(S, s),
         action |-> IF branch = 0 /\ dest.isLeaf THEN SetBranchKey(FirstKey(dest)) ELSE action,
         underflow |-> R[cur].size < Order \div 2, ok |-> TRUE]

FixUnderflow(P, cur, branch, rightRootKey, action) ==
    LET Excess(i) == P[P[cur].children[i]].size > Order \div 2
    IN  CASE branch > 0 /\ Excess(branch - 1) ->
                [pages |-> FromLeft(P, cur, branch), action |-> action, underflow |-> FALSE, ok |-> TRUE]
          [] ~(branch > 0 /\ Excess(branch - 1)) /\ branch < P[cur].size /\ Excess(branch + 1) ->
                FromRight(P, cur, branch, rightRootKey, action)
          [] ~(branch > 0 /\ Excess(branch - 1)) /\ ~(branch < P[cur].size /\ Excess(branch + 1)) ->
                MergePages(P, cur, branch, rightRootKey, action)

\* Mutant: the key that was deleted stays in the parent of its leaf.
DeletedFromLeafKeeps(P, cur, branch, index, action) ==
    LET leaf == P[cur].children[branch]
        new == DeleteFromPageAtIndex(P[leaf], index)
    IN  [pages |-> [P EXCEPT ![leaf] = new],
         action |-> IF index = 0 /\ branch = 0 THEN SetBranchKey(FirstKey(new)) ELSE action,
         underflow |-> new.size < Order \div 2, ok |-> TRUE]

\* The leaf below cur without the key: what its parent and the caller learn.
DeletedFromLeaf(P, cur, branch, index, action) ==
    LET leaf == P[cur].children[branch]
        new == DeleteFromPageAtIndex(P[leaf], index)
        Q == [P EXCEPT ![leaf] = new]
    IN  [pages |-> IF index = 0 /\ branch > 0
                   THEN [Q EXCEPT ![cur].keys[branch - 1] = FirstKey(new)] ELSE Q,
         action |-> IF index = 0 /\ branch = 0 THEN SetBranchKey(FirstKey(new)) ELSE action,
         underflow |-> new.size < Order \div 2, ok |-> TRUE]

\* What a deletion below cur, with result d, leaves to be done in cur: the key of
\* cur that was deleted becomes the first key below it ...
KeyFollows(d, cur, g) ==
    IF d.action.action = "SET_BRANCH_KEY" /\ g.found
    THEN [d EXCEPT !.pages[cur].keys[g.index] = d.action.key1, !.action.action = "NO_ACTION"]
    ELSE d

\* ... and a page that has become too small is filled or merged.
Fixed(d, cur, branch) ==
    LET page == d.pages[cur]
        rightRootKey == page.keys[IF branch < page.size THEN branch ELSE branch - 1]
    IN  IF d.ok /\ d.underflow THEN FixUnderflow(d.pages, cur, branch, rightRootKey, d.action) ELSE d

RECURSIVE FindDeleteRebalance(_, _, _, _)
FindDeleteRebalance(P, key, cur, action) ==
    LET branch == BranchIndex(key, P[cur])
        child  == P[cur].children[branch]
        i      == GetIndexOf(key, P[child])
    IN  CASE P[child].isLeaf /\ ~i.found ->
                [pages |-> P, action |-> action, underflow |-> FALSE, ok |-> FALSE]
          [] P[child].isLeaf /\ i.found ->
                Fixed(DeletedFromLeaf(P, cur, branch, i.index, action), cur, branch)
          [] ~P[child].isLeaf ->
                Fixed(KeyFollows(FindDeleteRebalance(P, key, child, action),
                                 cur, GetIndexOf(key, P[cur])), cur, branch)

-----------------------------------------------------------------------------
(* A tree, used.  Addresses and the slots past size mean nothing between   *)
(* two calls: pages are numbered from the root down, such slots are Nil.   *)

VARIABLE tree

EmptyTree == [root |-> Nil, leftmostLeaf |-> Nil, pages |-> <<>>]

RECURSIVE PreOrder(_, _)
PreOrder(P, n) ==
    IF P[n].isLeaf THEN <<n>>
    ELSE LET below[i \in -1 .. P[n].size] ==
                IF i = -1 THEN <<n>> ELSE below[i - 1] \o PreOrder(P, P[n].children[i])
         IN  below[P[n].size]

Settled(t) ==
    LET inTree == PreOrder(t.pages, t.root)
        order == inTree \o SetToSeq(DOMAIN t.pages \ Range(inTree))
        Name(n) == IF n = Nil THEN Nil
                   ELSE IF n \in Range(order) THEN CHOOSE i \in DOMAIN order : order[i] = n ELSE -1
    IN  [root |-> Name(t.root), leftmostLeaf |-> Name(t.leftmostLeaf),
         pages |-> [n \in DOMAIN order |->
            LET p == t.pages[order[n]] IN
            [p EXCEPT !.keys = [i \in DOMAIN p.keys |-> IF i < p.size THEN p.keys[i] ELSE Nil],
                      !.data = [i \in DOMAIN p.data |-> IF p.isLeaf /\ i < p.size THEN p.data[i] ELSE Nil],
                      !.children = [i \in DOMAIN p.children |->
                                        IF ~p.isLeaf /\ i <= p.size THEN Name(p.children[i]) ELSE Nil],
                      !.next = Name(@), !.previous = Name(@)]]]

Get(t, key) ==
    /\ t.root # Nil
    /\ LET leaf == t.pages[GetLeafFromKey(t.pages, key, t.root)]
           g == GetIndexOf(key, leaf)
       IN  g.found /\ leaf.data[g.index] = key

FirstPage(key) == [Blank EXCEPT !.size = 1, !.keys[0] = key, !.data[0] = key]

\* A new root above the old one and the page that was split off it.
NewRoot(t, i) ==
    LET push == ~i.pages[i.new].isLeaf
        P == IF push THEN [i.pages EXCEPT ![i.new].size = @ - 1] ELSE i.pages
        n == Fresh(P)
        key == IF push THEN i.action.key1 ELSE FirstKey(P[i.new])
    IN  [t EXCEPT !.root = n,
                  !.pages = Put(P, n, [Blank EXCEPT !.isLeaf = FALSE, !.size = 1, !.keys[0] = key,
                                                    !.children[0] = t.root, !.children[1] = i.new])]

Init == tree = EmptyTree

Insert(key) ==
    /\ Again \/ ~Get(tree, key)
    /\ IF tree.root = Nil
       THEN tree' = [root |-> 1, leftmostLeaf |-> 1, pages |-> <<FirstPage(key)>>]
       ELSE \E i \in {InsertBranchDown(tree.pages, key, tree.root, NoAction)} :
                tree' = CASE ~i.ok -> tree
                          [] i.ok /\ i.new = Nil -> Settled([tree EXCEPT !.pages = i.pages])
                          [] i.ok /\ i.new # Nil -> Settled(NewRoot(tree, i))

DeleteFromRootLeaf(key) ==
    LET g == GetIndexOf(key, tree.pages[tree.root])
        new == DeleteFromPageAtIndex(tree.pages[tree.root], g.index)
    IN  /\ tree.root = tree.leftmostLeaf /\ g.found
        /\ tree' = IF new.size = 0 THEN EmptyTree ELSE Settled([tree EXCEPT !.pages[tree.root] = new])

DeleteBelowRoot(key) ==
    /\ tree.root # tree.leftmostLeaf
    /\ \E d \in {FindDeleteRebalance(tree.pages, key, tree.root, NoAction)} :
        /\ d.ok
        /\ tree' = IF d.underflow /\ d.pages[tree.root].size = 0
                   THEN Settled([tree EXCEPT !.root = d.pages[tree.root].children[0],
                                             !.pages = Release(d.pages, tree.root)])
                   ELSE Settled([tree EXCEPT !.pages = d.pages])

Delete(key) == tree.root # Nil /\ (DeleteFromRootLeaf(key) \/ DeleteBelowRoot(key))

Clear == tree.root # Nil /\ tree' = EmptyTree

Next == (\E k \in Key : Insert(k) \/ Delete(k)) \/ Clear

Spec == Init /\ [][Next]_tree

-----------------------------------------------------------------------------
(* Properties.                                                             *)

\* The data along the chain of leaves, which Size and ForEachData walk.
RECURSIVE Chain(_, _, _)
Chain(P, leaf, bound) ==
    IF leaf = Nil \/ bound = 0 THEN <<>>
    ELSE Slots(P[leaf].data, 0, P[leaf].size - 1) \o Chain(P, P[leaf].next, bound - 1)

Contents(t) == Chain(t.pages, t.leftmostLeaf, Cardinality(DOMAIN t.pages))

\* Walking the leaves gives every element once, in order, and Get finds just
\* those, whatever splits, rotations and merges there were.
LeavesAgreeWithIndex ==
    /\ \A i \in 1 .. Len(Contents(tree)) - 1 : Contents(tree)[i] < Contents(tree)[i + 1]
    /\ {k \in Key : Get(tree, k)} = Range(Contents(tree))

\* No page is lost: each is in the tree, and two leaves in a row point to each
\* other.
PagesInTree ==
    tree.root # Nil =>
        /\ Len(PreOrder(tree.pages, tree.root)) = Cardinality(DOMAIN tree.pages)
        /\ \A n \in DOMAIN tree.pages :
              LET next == tree.pages[n].next
              IN  next # Nil => next \in DOMAIN tree.pages /\ tree.pages[next].previous = n

\* What ValidateTreeRecursive asserts of every index: it is half full unless it
\* is the root, and a key of the parent of leaves is the first of the leaf behind it.
ValidateTree ==
    \A n \in DOMAIN tree.pages : LET page == tree.pages[n] IN
        ~page.isLeaf =>
            /\ n = tree.root \/ page.size >= Order \div 2
            /\ tree.pages[page.children[0]].isLeaf =>
                  /\ FirstKey(tree.pages[page.children[0]]) < FirstKey(page)
                  /\ \A i \in 0 .. page.size - 1 :
                        FirstKey(tree.pages[page.children[i + 1]]) = page.keys[i]

\* Insert and Delete change their key only.
OneKeyChanges ==
    \A k \in Key :
        /\ Insert(k) => Range(Contents(tree')) = Range(Contents(tree)) \cup {k}
        /\ Delete(k) => Range(Contents(tree')) = Range(Contents(tree)) \ {k}
=============================================================================
