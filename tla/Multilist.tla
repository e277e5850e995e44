------------------------------- MODULE Multilist -------------------------------
(***************************************************************************)
(* The class Multilist of DS_Multilist.h: one array for a list, a stack, a *)
(* queue that goes round the array, or an ordered list.  Keys are the      *)
(* elements; the type may change at run time.                              *)
(***************************************************************************)
EXTENDS Integers, Sequences
LOCAL Ext == INSTANCE SequencesExt

CONSTANTS Key,
          Types,       \* the MultilistTypes: unordered, stack, queue, ordered
          ChangesType, \* ML_VARIABLE_DURING_RUNTIME
          Cases,       \* the names of what is not left out, see Unless
          FirstAllocation, SmallAllocation, \* 32 and 16
          DeallocatesFrom, \* 512
          SmallBlock, \* 128
          Sizes,       \* the sizes given to Reallocate
          MaxSize      \* bound: elements of the list

MultilistAssumption ==
    /\ Key \subseteq Nat \ {0} /\ Types \subseteq {"unordered", "stack", "queue", "ordered"}
    /\ ChangesType \in BOOLEAN /\ MaxSize \in Nat /\ Sizes \subseteq Nat
    /\ {FirstAllocation, SmallAllocation, DeallocatesFrom, SmallBlock} \subseteq Nat \ {0} /\ SmallAllocation <= FirstAllocation

VARIABLES list,   \* the members of the object
          taken,  \* what Pop or PopOpposite returned, in a sequence
          overrun \* was the array written or read past its end

vars == <<list, taken, overrun>>

Unwritten == 0
IsQueue(l) == l.type = "queue"
IsSorted(l) == l.type = "ordered" \/ l.sorted

\* What goes wrong in the code is left out, unless a run is about it.
Unless(name, condition) == condition => name \in Cases

-----------------------------------------------------------------------------
(* The array.                                                              *)

Place(l, position) ==
    IF ~IsQueue(l) THEN position
    ELSE IF l.queueHead + position >= l.allocationSize THEN l.queueHead + position - l.allocationSize
    ELSE l.queueHead + position

Element(l, position) == l.data[Place(l, position)]
Elements(l) == [i \in 1 .. l.dataSize |-> Element(l, i - 1)]

\* The array with these elements; its other places keep what they have.
Laid(l, elements) ==
    LET place(i) == Place(l, i - 1)
        holder == [p \in {place(i) : i \in DOMAIN elements} |-> CHOOSE i \in DOMAIN elements : place(i) = p]
    IN  [l EXCEPT !.dataSize = Len(elements),
                  !.data = [p \in DOMAIN @ |-> IF p \in DOMAIN holder THEN elements[holder[p]] ELSE @[p]]]

\* What lies outside of the elements is not told apart.
Tidy(l) ==
    LET inside == {Place(l, i) : i \in 0 .. l.dataSize - 1}
    IN  [l EXCEPT !.data = [p \in DOMAIN @ |-> IF p \in inside THEN @[p] ELSE Unwritten]]

ReallocToSize(l, newAllocationSize) ==
    LET moved == l.dataSize > 0 /\ IsQueue(l)
    IN  [l EXCEPT !.data = [i \in 0 .. newAllocationSize - 1 |-> IF i < l.dataSize THEN Element(l, i) ELSE Unwritten],
                  !.allocationSize = newAllocationSize,
                  !.queueHead = IF moved THEN 0 ELSE @,
                  !.queueTail = IF moved THEN l.dataSize ELSE @]

ReallocateIfNeeded(l) ==
    IF l.dataSize < l.allocationSize THEN l
    ELSE ReallocToSize(l, IF l.allocationSize < SmallAllocation THEN FirstAllocation ELSE 2 * l.allocationSize)

Deallocates(l) ==
    /\ l.allocationSize >= DeallocatesFrom
    /\ l.dataSize < l.allocationSize \div 3
    /\ l.dataSize > l.preallocationSize

DeallocateIfNeeded(l) == IF Deallocates(l) THEN ReallocToSize(l, 2 * l.dataSize) ELSE l

\* Mutant: the place after the last one is not the first.
TailAfterUnwrapped(l, p) == p + 1

\* The places of the queue's tail after and before one.
TailAfter(l, p) == IF p + 1 = l.allocationSize THEN 0 ELSE p + 1
Prior(l, p) == IF p = 0 THEN l.allocationSize - 1 ELSE p - 1

\* The queue's tail is outside of an array that is full to its end.
TailOutside(l) == IsQueue(l) /\ l.queueTail >= l.allocationSize

-----------------------------------------------------------------------------
(* Sorting and searching.                                                  *)

\* QSortAscending and QSortDescending: the first element is the pivot.
QSort(array, ascending) ==
    LET leq(a, b) == IF ascending THEN a <= b ELSE a >= b
        swap(a, i, j) == [a EXCEPT ![i] = a[j], ![j] = a[i]]
        part[a \in Seq(Int), pivot, left, right \in Nat] ==
            IF left >= right THEN [array |-> a, left |-> left]
            ELSE IF leq(a[left], a[pivot]) THEN part[a, pivot, left + 1, right]
            ELSE part[swap(a, left, right), pivot, left, right - 1]
        sort[a \in Seq(Int), leftEdge, rightEdge \in Nat] ==
            LET p == part[a, leftEdge, leftEdge + 1, rightEdge]
                center == IF leq(p.array[p.left], p.array[leftEdge]) THEN p.left ELSE p.left - 1
                placed == swap(p.array, leftEdge, center)
                below == IF p.left - 1 # leftEdge THEN sort[placed, leftEdge, p.left - 1] ELSE placed
            IN  IF p.left # rightEdge THEN sort[below, p.left, rightEdge] ELSE below
    IN  IF Len(array) > 1 THEN sort[array, 1, Len(array)] ELSE array

\* Sort works on the array from its beginning, also for a queue.
Sorted(l, force) ==
    IF IsSorted(l) /\ ~force THEN l
    ELSE LET sorted == QSort([i \in 1 .. l.dataSize |-> l.data[i - 1]], l.ascending)
         IN  [l EXCEPT !.data = [p \in DOMAIN @ |-> IF p < l.dataSize THEN sorted[p + 1] ELSE @[p]],
                       !.sorted = TRUE]

\* GetIndexFromKeyInSortedList: where the key is, or belongs.
SearchSorted(l, key) ==
    LET after(position) == LET e == Element(l, position) IN IF l.ascending THEN key > e ELSE key < e
        search[lower \in Nat, upper \in -1 .. MaxSize, index \in Nat] ==
            IF Element(l, index) = key THEN [index |-> index, objectExists |-> TRUE]
            ELSE LET low == IF after(index) THEN index + 1 ELSE lower
                     high == IF after(index) THEN upper ELSE index - 1
                 IN  IF low > high THEN [index |-> low, objectExists |-> FALSE]
                     ELSE search[low, high, low + (high - low) \div 2]
    IN  IF l.dataSize = 0 THEN [index |-> 0, objectExists |-> FALSE]
        ELSE search[0, l.dataSize - 1, l.dataSize \div 2]

GetIndexOf(l, key) ==
    LET found == SearchSorted(l, key)
        places == {i \in 0 .. l.dataSize - 1 : Element(l, i) = key}
    IN  IF IsSorted(l) THEN IF found.objectExists THEN found.index ELSE -1
        ELSE IF places = {} THEN -1 ELSE CHOOSE i \in places : \A j \in places : i <= j

-----------------------------------------------------------------------------
(* The methods that change the list, on the list l with room for one more. *)

Appended(l, d) ==
    IF IsQueue(l)
    THEN [l EXCEPT !.data = [p \in DOMAIN @ |-> IF p = l.queueTail THEN d ELSE @[p]],
                   !.queueTail = TailAfter(l, @), !.dataSize = @ + 1]
    ELSE [l EXCEPT !.data[l.dataSize] = d, !.dataSize = @ + 1]

\* InsertAtIndex: of a queue the tail moves on, then its elements.
Inserted(l, d, index) ==
    Laid([l EXCEPT !.queueTail = IF IsQueue(l) THEN TailAfter(l, @) ELSE @], Ext!InsertAt(Elements(l), index + 1, d))

InOrderedList(l, d) == Inserted(l, d, SearchSorted(l, d).index)

\* Mutant: the tail stays where it was.
RemovedKeeps(l, position) ==
    LET last == Element(l, l.dataSize - 1)
    IN  IF l.type = "unordered" THEN [l EXCEPT !.data[position] = last, !.dataSize = @ - 1]
        ELSE Laid(l, Ext!RemoveAt(Elements(l), position + 1))

\* RemoveAtIndex, without the deallocation.
Removed(l, position) ==
    LET last == Element(l, l.dataSize - 1)
    IN  IF l.type = "unordered" THEN [l EXCEPT !.data[position] = last, !.dataSize = @ - 1]
        ELSE [Laid(l, Ext!RemoveAt(Elements(l), position + 1)) EXCEPT
                !.queueTail = IF IsQueue(l) THEN Prior(l, @) ELSE @]

Reversed(l) == Laid(l, Ext!Reverse(Elements(l)))

\* Mutant: the elements stay where they are.
AlignedNever(l) == l

\* SetMultilistType from a queue: its elements are brought to the beginning of the array.
Aligned(l) ==
    LET copied[i \in 0 .. l.dataSize] ==
            IF i = 0 THEN l
            ELSE [copied[i - 1] EXCEPT !.data[i - 1] = Element(copied[i - 1], i - 1)]
    IN  IF l.queueTail < l.queueHead THEN ReallocToSize(l, l.dataSize) ELSE copied[l.dataSize]

-----------------------------------------------------------------------------

Init ==
    /\ list \in [type : IF ChangesType THEN {"unordered"} ELSE Types, data : {[i \in {} |-> Unwritten]}, dataSize : {0}, allocationSize : {0},
                 queueHead : {0}, queueTail : {0}, preallocationSize : {0},
                 sorted : {FALSE}, ascending : {TRUE}]
    /\ taken = <<>> /\ overrun = FALSE

Become(l) == list' = Tidy(l) /\ taken' = <<>> /\ UNCHANGED overrun

MayAdd(d) == list.dataSize < MaxSize /\ (list.type = "ordered" => GetIndexOf(list, d) = -1)

\* What InsertAtIndex leaves of the order; a queue's first element returns early.
InsertedAt(l, d, index) ==
    [Inserted(l, d, index) EXCEPT !.sorted = @ /\ IsQueue(l) /\ l.dataSize = 0]

\* A list of more than one element is no longer sorted, whatever was pushed.
Push(d) ==
    /\ MayAdd(d)
    /\ LET l == ReallocateIfNeeded(list)
           pushed == IF l.type = "ordered" THEN InOrderedList(l, d) ELSE Appended(l, d)
       IN  /\ list' = Tidy([pushed EXCEPT !.sorted = @ /\ (pushed.dataSize <= 1 \/ l.type = "ordered")])
           /\ overrun' = (overrun \/ TailOutside(l))
    /\ taken' = <<>>

\* The order is compared with the second element, where an unordered list has the new one last.
PushOpposite(d) ==
    /\ MayAdd(d)
    /\ Unless("AppendsSorted", list.type = "unordered" /\ list.sorted)
    /\ Unless("FullQueue", TailOutside(list))
    /\ LET l == ReallocateIfNeeded(list)
           appended == Appended(l, d)
           second == Element(appended, 1)
           breaks == appended.dataSize > 1 /\ IF l.ascending THEN d > second ELSE d < second
       IN  Become(CASE l.type = "unordered" -> [appended EXCEPT !.sorted = @ /\ ~breaks]
                    [] l.type = "ordered" -> InOrderedList(l, d)
                    [] OTHER -> InsertedAt(l, d, 0))

\* The queue's size stays as it is when the head comes round.
Pop ==
    /\ list.dataSize > 0
    /\ LET l == DeallocateIfNeeded(list)
           wraps == l.queueHead + 1 = l.allocationSize
       IN  /\ Unless("PopWraps", IsQueue(l) /\ wraps)
           /\ list' = Tidy(IF IsQueue(l)
                           THEN [l EXCEPT !.queueHead = TailAfter(l, @), !.dataSize = IF wraps THEN @ ELSE @ - 1]
                           ELSE [l EXCEPT !.dataSize = @ - 1])
           /\ taken' = <<IF IsQueue(l) THEN l.data[l.queueHead] ELSE l.data[l.dataSize - 1]>>
    /\ UNCHANGED overrun

\* The first element of a list is returned from behind the end of the array it
\* was moved in, which may have been deallocated since.
PopOppositeOfList ==
    /\ list.dataSize > 0 /\ ~IsQueue(list)
    /\ LET l == ReallocateIfNeeded(list)
           first == l.data[0]
           left == Laid([l EXCEPT !.data[l.dataSize] = first], Tail(Elements(l)))
       IN  /\ Unless("PopReallocates", Deallocates(left))
           /\ list' = Tidy(DeallocateIfNeeded(left))
           /\ taken' = <<IF Deallocates(left) THEN Unwritten ELSE first>>
    /\ UNCHANGED overrun

PopOppositeOfQueue ==
    /\ list.dataSize > 0 /\ IsQueue(list)
    /\ LET l == DeallocateIfNeeded(list)
       IN  /\ list' = Tidy([l EXCEPT !.dataSize = @ - 1, !.queueTail = Prior(l, @)])
           /\ taken' = <<l.data[Prior(l, l.queueTail)]>>
    /\ UNCHANGED overrun

\* The index is not ignored where the list is ordered.
InsertAtIndex(d, index) ==
    /\ MayAdd(d) /\ index <= list.dataSize /\ ~TailOutside(list)
    /\ Unless("InsertsUnordered", list.type = "ordered")
    /\ Become(InsertedAt(ReallocateIfNeeded(list), d, index))

RemoveAtIndex(position) ==
    /\ position < list.dataSize /\ ~TailOutside(list)
    /\ Unless("RemovesSorted", list.type = "unordered" /\ list.sorted)
    /\ Become(DeallocateIfNeeded(Removed(list, position)))

RemoveAtKey(key) == GetIndexOf(list, key) # -1 /\ RemoveAtIndex(GetIndexOf(list, key))

Clear(deallocateSmallBlocks) ==
    LET deallocates == deallocateSmallBlocks /\ list.allocationSize < SmallBlock
    IN  Become([list EXCEPT !.dataSize = 0, !.queueHead = 0, !.queueTail = 0, !.sorted = FALSE,
                            !.data = IF deallocates THEN [i \in {} |-> Unwritten] ELSE @,
                            !.allocationSize = IF deallocates THEN 0 ELSE @])

ReverseList == Become([Reversed(list) EXCEPT !.ascending = IF IsSorted(list) THEN ~@ ELSE @])

\* An array of exactly the size of a queue leaves its tail outside; an empty
\* queue keeps its head where the new array may not have a place.
Reallocate(size) ==
    /\ Unless("FullQueue", IsQueue(list) /\ size <= list.dataSize)
    /\ list.dataSize = 0 => size > list.queueHead
    /\ size > 0
    /\ Become([ReallocToSize(list, IF size < list.dataSize THEN list.dataSize ELSE size) EXCEPT
                !.preallocationSize = size])

Sort(force) ==
    /\ Unless("SortsQueue", IsQueue(list) /\ list.queueHead # 0)
    /\ Become(Sorted(list, force))

\* TagSorted is for a list the caller knows to be sorted.
TagSorted ==
    /\ LET e == Elements(list)
       IN  \A i \in 1 .. list.dataSize - 1 : IF list.ascending THEN e[i] <= e[i + 1] ELSE e[i] >= e[i + 1]
    /\ Become([list EXCEPT !.sorted = TRUE])

SetSortOrder ==
    LET flipped == [list EXCEPT !.ascending = ~@]
    IN  Become(IF IsSorted(list) THEN Reversed(flipped) ELSE flipped)

SetMultilistType(newType) ==
    /\ ChangesType /\ newType # list.type
    /\ Unless("FullQueue", newType = "queue" /\ list.dataSize = list.allocationSize /\ list.dataSize > 0)
    /\ Unless("AlignsFull", IsQueue(list) /\ list.dataSize = list.allocationSize /\ list.queueHead > 0)
    /\ LET flat == IF IsQueue(list) THEN Aligned(list) ELSE list
           tagged == IF list.type = "ordered" THEN [flat EXCEPT !.sorted = TRUE] ELSE flat
           placed == IF newType = "queue" THEN [tagged EXCEPT !.queueHead = 0, !.queueTail = list.dataSize]
                     ELSE IF newType = "ordered" THEN Sorted(tagged, FALSE)
                     ELSE tagged
       IN  Become([placed EXCEPT !.type = newType])

\* CopySource: the program goes on with a copy of the list.
CopySource ==
    /\ Unless("FullQueue", IsQueue(list) /\ list.dataSize > 0)
    /\ Become([list EXCEPT !.queueHead = 0, !.queueTail = list.dataSize, !.allocationSize = list.dataSize,
                           !.data = [i \in 0 .. list.dataSize - 1 |-> Element(list, i)]])

Next ==
    \/ \E d \in Key : Push(d) \/ PushOpposite(d) \/ RemoveAtKey(d) \/ \E i \in 0 .. MaxSize : InsertAtIndex(d, i)
    \/ \E i \in 0 .. MaxSize : RemoveAtIndex(i)
    \/ Pop \/ PopOppositeOfList \/ PopOppositeOfQueue \/ ReverseList \/ TagSorted \/ SetSortOrder \/ CopySource
    \/ \E b \in BOOLEAN : Clear(b) \/ Sort(b)
    \/ \E size \in Sizes : Reallocate(size)
    \/ \E newType \in Types : SetMultilistType(newType)

Spec == Init /\ [][Next]_vars

-----------------------------------------------------------------------------
(* Properties.                                                             *)

\* Every key is found where it is, and no other, by the search that is used:
\* the binary one when the list is believed to be sorted.
FindsAll ==
    \A key \in Key :
        LET i == GetIndexOf(list, key)
            e == Elements(list)
        IN  IF i = -1 THEN \A k \in DOMAIN e : e[k] # key ELSE i < list.dataSize /\ e[i + 1] = key

\* No element is written outside of the array.
StaysInside == ~overrun

\* Whatever the array and its two ends are like, the elements are those of the
\* type of list, and the ends give what they promise.
Promised == INSTANCE OpenList WITH type <- list.type, elements <- Elements(list), ascending <- list.ascending
ImplementsOpenList == [Promised!Next]_<<list.type, Elements(list), list.ascending, taken>>
===============================================================================
