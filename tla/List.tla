--------------------------------- MODULE List ---------------------------------
(***************************************************************************)
(* The class List of DS_List.h: an array that grows by doubling.  The      *)
(* operators compute what a method makes of the members; the actions add   *)
(* the arrays on the heap.                                                 *)
(***************************************************************************)
EXTENDS Naturals, Sequences, FiniteSets
LOCAL INSTANCE SequencesExt

CONSTANTS Value,            \* what is listed
          Filler,           \* what Replace fills with
          Junk,             \* a slot nothing was written to
          FirstAllocation,  \* 16 in the code
          KeepUpTo,         \* 512 in the code
          MaxSize,          \* bound: elements in the list
          Addresses,        \* bound: the addresses of arrays
          Copies            \* is the list made by the copy constructor

Nil == 0

ListAssumption ==
    /\ FirstAllocation \in Nat \ {0} /\ KeepUpTo \in Nat /\ MaxSize \in Nat
    /\ Addresses \subseteq Nat \ {Nil} /\ Copies \in BOOLEAN

VARIABLES list,       \* the member arrays' slots, list_size and allocation_size
          listArray,  \* where the member listArray points to
          live        \* the arrays that were allocated and not deleted

vars == <<list, listArray, live>>

-----------------------------------------------------------------------------
(* Members.                                                                *)

NewArray(n) == [j \in 0 .. n - 1 |-> Junk]
Empty == [array |-> NewArray(0), size |-> 0, allocation |-> 0]

Items(l) == [k \in 1 .. l.size |-> l.array[k - 1]]

\* The elements in a new array.
Moved(l, allocation) ==
    [l EXCEPT !.array = [j \in DOMAIN NewArray(allocation) |-> IF j < l.size THEN l.array[j] ELSE Junk],
              !.allocation = allocation]

\* Mutant: the array grows when the last slot is taken, not before.
WithRoomLater(l) ==
    IF l.allocation = 0 THEN Moved(l, FirstAllocation)
    ELSE IF l.size > l.allocation THEN Moved(l, 2 * l.allocation)
    ELSE l

WithRoom(l) ==
    IF l.size < l.allocation THEN l
    ELSE Moved(l, IF l.allocation = 0 THEN FirstAllocation ELSE 2 * l.allocation)

\* Mutant: the loop moves the elements in the other order.
InsertedUpwards(l, x, position) ==
    LET r == WithRoom(l)
    IN  [r EXCEPT !.size = @ + 1,
                  !.array = [j \in DOMAIN @ |-> IF j = position THEN x
                                               ELSE IF position < j /\ j <= l.size THEN @[position]
                                               ELSE @[j]]]

\* What is behind position moves up.
Inserted(l, x, position) ==
    LET r == WithRoom(l)
    IN  [r EXCEPT !.size = @ + 1,
                  !.array = [j \in DOMAIN @ |-> IF j = position THEN x
                                               ELSE IF position < j /\ j <= l.size THEN @[j - 1]
                                               ELSE @[j]]]

\* A position past the end needs an array of just that size, and is filled up to.
Replaced(l, x, filler, position) ==
    IF position < l.size THEN [l EXCEPT !.array[position] = x]
    ELSE LET r == IF position >= l.allocation THEN Moved(l, position + 1) ELSE l
         IN  [r EXCEPT !.size = position + 1,
                       !.array = [j \in DOMAIN @ |-> IF j = position THEN x
                                                    ELSE IF l.size <= j /\ j < position THEN filler
                                                    ELSE @[j]]]

ReplacedLast(l, x) == IF l.size > 0 THEN [l EXCEPT !.array[l.size - 1] = x] ELSE l

RemovedFromEnd(l, num) == [l EXCEPT !.size = @ - num]

\* What is behind position moves down.
Removed(l, position) ==
    IF position >= l.size THEN l
    ELSE RemovedFromEnd(
            [l EXCEPT !.array = [j \in DOMAIN @ |-> IF position <= j /\ j < l.size - 1 THEN @[j + 1] ELSE @[j]]], 1)

RemovedFast(l, position) == [l EXCEPT !.size = @ - 1, !.array[position] = l.array[l.size - 1]]

Frees(l, doNotDeallocateSmallBlocks) ==
    l.allocation > 0 /\ (l.allocation > KeepUpTo \/ ~doNotDeallocateSmallBlocks)
Cleared(l, doNotDeallocateSmallBlocks) ==
    IF Frees(l, doNotDeallocateSmallBlocks) THEN Empty ELSE [l EXCEPT !.size = 0]

\* The first doubling of the allocation that is at least n.
Enough(l, n) ==
    LET above[k \in Nat] == IF k < n THEN above[2 * k] ELSE k
    IN  above[IF l.allocation = 0 THEN FirstAllocation ELSE l.allocation]

\* A copy of a list whose elements are s.
CopyOf(s) == [array |-> [j \in 0 .. Len(s) - 1 |-> s[j + 1]], size |-> Len(s), allocation |-> Len(s)]

-----------------------------------------------------------------------------
(* The heap.                                                               *)

New == CHOOSE a \in Addresses : a \notin live \cup {listArray}

\* Mutant: the array that was replaced is not deleted.
ReallocateKeeps == listArray' = New /\ live' = live \cup {New}

Keep == UNCHANGED <<listArray, live>>
Reallocate == listArray' = New /\ live' = (live \ {listArray}) \cup {New}
Delete == listArray' = Nil /\ live' = live \ {listArray}

Becomes(l) ==
    /\ l.size <= MaxSize
    /\ list' = l
    /\ IF l.allocation # list.allocation THEN Reallocate ELSE Keep

\* The copy constructor leaves the pointer of an empty copy unwritten.
Init ==
    \/ list = Empty /\ listArray = Nil /\ live = {}
    \/ Copies /\ list = Empty /\ listArray \in Addresses \cup {Nil} /\ live = {}

Insert(x, position) == position <= list.size /\ Becomes(Inserted(list, x, position))
InsertAtEnd(x) == Becomes(Inserted(list, x, list.size))
Replace(x, position) == position <= MaxSize /\ Becomes(Replaced(list, x, Filler, position))
ReplaceLast(x) == Becomes(ReplacedLast(list, x))
RemoveAtIndex(position) == Becomes(Removed(list, position))
RemoveAtIndexFast(position) == position < list.size /\ Becomes(RemovedFast(list, position))
RemoveFromEnd(num) == num <= list.size /\ Becomes(RemovedFromEnd(list, num))
Pop == list.size > 0 /\ Becomes(RemovedFromEnd(list, 1))
Preallocate(n) == Becomes(IF list.allocation < Enough(list, n) THEN Moved(list, Enough(list, n)) ELSE list)

Clear(doNotDeallocateSmallBlocks) ==
    /\ list' = Cleared(list, doNotDeallocateSmallBlocks)
    /\ IF Frees(list, doNotDeallocateSmallBlocks) THEN Delete ELSE Keep

\* Another array, of the size the old one had.
Compress == list.allocation > 0 /\ list' = list /\ Reallocate

AssignFrom(s) ==
    /\ list' = CopyOf(s)
    /\ IF s # <<>> THEN Reallocate
       ELSE IF Frees(list, FALSE) THEN Delete ELSE Keep

Next ==
    \/ \E x \in Value, i \in 0 .. MaxSize : Insert(x, i) \/ Replace(x, i)
    \/ \E x \in Value : InsertAtEnd(x) \/ ReplaceLast(x) \/ AssignFrom(<<>>) \/ AssignFrom(<<x>>)
    \/ \E i \in 0 .. MaxSize : RemoveAtIndex(i) \/ RemoveAtIndexFast(i) \/ RemoveFromEnd(i) \/ Preallocate(i)
    \/ Pop \/ Compress \/ \E keep \in BOOLEAN : Clear(keep)

Spec == Init /\ [][Next]_vars

-----------------------------------------------------------------------------
(* What a list promises, whatever its array looks like.  Positions count   *)
(* from 0, as in the code.                                                 *)

ItemsBecome(s) == Items(list)' = s

PromisedInsert(x, position) ==
    position <= list.size /\ ItemsBecome(InsertAt(Items(list), position + 1, x))

\* Past the end, the list is first filled up to the position.
PromisedReplace(x, filler, position) ==
    ItemsBecome(IF position < list.size THEN ReplaceAt(Items(list), position + 1, x)
                ELSE Append(Items(list) \o [k \in 1 .. position - list.size |-> filler], x))

PromisedReplaceLast(x) ==
    ItemsBecome(IF list.size = 0 THEN <<>> ELSE ReplaceAt(Items(list), list.size, x))

PromisedRemoveAtIndex(position) ==
    ItemsBecome(IF position < list.size THEN RemoveAt(Items(list), position + 1) ELSE Items(list))

\* The last element takes the place of the one that is removed.
PromisedRemoveAtIndexFast(position) ==
    /\ position < list.size
    /\ ItemsBecome(Front(ReplaceAt(Items(list), position + 1, Last(Items(list)))))

PromisedRemoveFromEnd(num) ==
    num <= list.size /\ ItemsBecome(SubSeq(Items(list), 1, list.size - num))

PromisedClear == ItemsBecome(<<>>)

-----------------------------------------------------------------------------
(* Properties.                                                             *)

\* The elements fit the array, and were written.
TypeOK ==
    /\ list.size \in 0 .. list.allocation /\ DOMAIN list.array = 0 .. list.allocation - 1
    /\ \A j \in 0 .. list.size - 1 : list.array[j] \in Value \cup {Filler}

\* Wherever the array is full, short or kept from before a Clear, each method
\* does to the elements what the list promises.
ImplementsList ==
    /\ \A x \in Value, i \in 0 .. MaxSize :
         /\ Insert(x, i) => PromisedInsert(x, i)
         /\ Replace(x, i) => PromisedReplace(x, Filler, i)
    /\ \A x \in Value : /\ InsertAtEnd(x) => PromisedInsert(x, list.size)
                        /\ ReplaceLast(x) => PromisedReplaceLast(x)
    /\ \A i \in 0 .. MaxSize :
         /\ RemoveAtIndex(i) => PromisedRemoveAtIndex(i)
         /\ RemoveAtIndexFast(i) => PromisedRemoveAtIndexFast(i)
         /\ RemoveFromEnd(i) => PromisedRemoveFromEnd(i)
         /\ Preallocate(i) => UNCHANGED Items(list)
    /\ Pop => PromisedRemoveFromEnd(1)
    /\ Clear(TRUE) \/ Clear(FALSE) => PromisedClear

\* There is one array on the heap, the list's, and only while its allocation is
\* not 0: none is lost and none is deleted while the list points to it.
OneArray == live = IF list.allocation > 0 THEN {listArray} ELSE {}
===============================================================================
