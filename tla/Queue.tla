-------------------------------- MODULE Queue --------------------------------
(***************************************************************************)
(* The class Queue of DS_Queue.h: an array that is read at head and        *)
(* written at tail and goes round.  The operators compute what a method    *)
(* makes of the members; the actions add the arrays on the heap.           *)
(***************************************************************************)
EXTENDS Integers, Sequences, FiniteSets

CONSTANTS Value,            \* what is queued
          Junk,             \* a slot nothing was written to
          FirstAllocation,  \* 16 in the code
          MaxSize,          \* bound: elements in the queue
          Addresses,        \* bound: the addresses of arrays
          Assigns,          \* is operator= called
          ForcesAfterClear  \* is ClearAndForceAllocation called after Clear freed the array

ASSUME QueueAssumption ==
    /\ FirstAllocation \in Nat \ {0, 1} /\ MaxSize \in Nat \ {0}
    /\ Assigns \in BOOLEAN /\ ForcesAfterClear \in BOOLEAN

Nil == 0

\* The smallest power of two above n.
Doubled(n) == LET above[k \in Nat] == IF k > n THEN k ELSE above[2 * k] IN above[1]

ASSUME AddressesAssumption == Addresses \subseteq Nat \ {Nil}

VARIABLES queue,    \* the members array, head, tail and allocation_size
          address,  \* where the member array points to
          live      \* the arrays that were allocated and not deleted

vars == <<queue, address, live>>

-----------------------------------------------------------------------------
(* Members.                                                                *)

Empty == [array |-> [j \in {} |-> Junk], head |-> 0, tail |-> 0, allocation_size |-> 0]

Size(q) == IF q.head <= q.tail THEN q.tail - q.head ELSE q.allocation_size - q.head + q.tail

IsEmpty(q) == q.head = q.tail

\* The slot of a position, and the position of a slot.
SlotAt(q, position) ==
    IF q.head + position >= q.allocation_size THEN q.head + position - q.allocation_size
    ELSE q.head + position
PositionOf(q, slot) == IF slot >= q.head THEN slot - q.head ELSE q.allocation_size - q.head + slot

At(q, position) == q.array[SlotAt(q, position)]

\* What is in the queue.
Items(q) == [k \in 1 .. Size(q) |-> At(q, k - 1)]

\* Mutant: the slot after the last one is not the first.
NextSlotUnwrapped(q, slot) == slot + 1

NextSlot(q, slot) == IF slot + 1 = q.allocation_size THEN 0 ELSE slot + 1
SlotBefore(q, slot) == IF slot = 0 THEN q.allocation_size - 1 ELSE slot - 1

\* The first n elements of q in a new array of size allocation.
Moved(q, n, allocation) ==
    [array |-> [j \in 0 .. allocation - 1 |-> IF j < n THEN At(q, j) ELSE Junk],
     head |-> 0, tail |-> n, allocation_size |-> allocation]

\* A push that fills the array doubles it.
Grown(q) == Moved(q, q.allocation_size, 2 * q.allocation_size)

Pushed(q, x) ==
    IF q.allocation_size = 0
    THEN [array |-> [j \in 0 .. FirstAllocation - 1 |-> IF j = 0 THEN x ELSE Junk],
          head |-> 0, tail |-> 1, allocation_size |-> FirstAllocation]
    ELSE LET written == [q EXCEPT !.array[q.tail] = x, !.tail = NextSlot(q, q.tail)]
         IN  IF written.tail = written.head THEN Grown(written) ELSE written

\* Push makes room; then what is behind index moves up.
PushedAtHead(q, x, index) ==
    LET p == Pushed(q, x)
    IN  IF Size(p) = 1 THEN p
        ELSE [p EXCEPT !.array = [j \in DOMAIN p.array |->
                LET position == PositionOf(p, j)
                IN  IF position = index THEN x
                    ELSE IF index < position /\ position < Size(p) THEN At(p, position - 1)
                    ELSE p.array[j]]]

Popped(q) == [q EXCEPT !.head = NextSlot(q, q.head)]
PoppedTail(q) == [q EXCEPT !.tail = SlotBefore(q, q.tail)]
PoppedDeref(q) == [Popped(q) EXCEPT !.array[q.head] = Junk]

\* Mutant: the element goes that is behind the one meant.
RemovedBehind(q, position) ==
    [q EXCEPT !.tail = SlotBefore(q, q.tail),
              !.array = [j \in DOMAIN q.array |->
                            LET p == PositionOf(q, j)
                            IN  IF position < p /\ p < Size(q) - 1 THEN At(q, p + 1) ELSE q.array[j]]]

\* What is behind position moves down.
Removed(q, position) ==
    [q EXCEPT !.tail = SlotBefore(q, q.tail),
              !.array = [j \in DOMAIN q.array |->
                            LET p == PositionOf(q, j)
                            IN  IF position <= p /\ p < Size(q) - 1 THEN At(q, p + 1) ELSE q.array[j]]]

Frees(q) == q.allocation_size > 2 * FirstAllocation
Cleared(q) == IF Frees(q) THEN Empty ELSE [q EXCEPT !.head = 0, !.tail = 0]

Compressed(q) == IF q.allocation_size = 0 THEN q ELSE Moved(q, Size(q), Doubled(Size(q)))

Forced(size) == [array |-> [j \in 0 .. size - 1 |-> Junk], head |-> 0, tail |-> 0, allocation_size |-> size]

\* operator=; the copy constructor, but for head and tail of an empty copy.
CopyOf(q, original) ==
    IF Size(original) = 0 THEN [Cleared(q) EXCEPT !.allocation_size = 0, !.array = Empty.array]
    ELSE Moved(original, Size(original), Size(original) + 1)

-----------------------------------------------------------------------------
(* The heap.                                                               *)

New == CHOOSE a \in Addresses : a \notin live \cup {address}

\* Mutant: the array that was replaced is not deleted.
ReallocateKeeps == address' = New /\ live' = live \cup {New}

Keep == UNCHANGED <<address, live>>
Allocate == address' = New /\ live' = live \cup {New}
Delete == address' = address /\ live' = live \ {address}
Reallocate == address' = New /\ live' = (live \ {address}) \cup {New}

Init == queue = Empty /\ address = Nil /\ live = {}

Grow == IF queue.allocation_size = 0 THEN Allocate
        ELSE IF queue'.allocation_size # queue.allocation_size THEN Reallocate
        ELSE Keep

Push(x) == Size(queue) < MaxSize /\ queue' = Pushed(queue, x) /\ Grow

PushAtHead(x, index) ==
    /\ Size(queue) < MaxSize /\ index <= Size(queue)
    /\ queue' = PushedAtHead(queue, x, index)
    /\ Grow

Pop == ~IsEmpty(queue) /\ queue' = Popped(queue) /\ Keep
PopTail == ~IsEmpty(queue) /\ queue' = PoppedTail(queue) /\ Keep
PopDeref == ~IsEmpty(queue) /\ queue' = PoppedDeref(queue) /\ Keep

RemoveAtIndex(position) ==
    ~IsEmpty(queue) /\ position < Size(queue) /\ queue' = Removed(queue, position) /\ Keep

Clear == queue' = Cleared(queue) /\ IF Frees(queue) THEN Delete ELSE Keep

Compress == queue.allocation_size > 0 /\ queue' = Compressed(queue) /\ Reallocate

ClearAndForceAllocation(size) ==
    /\ ForcesAfterClear \/ address \in live \cup {Nil}
    /\ queue' = Forced(size)
    /\ IF size > 0 THEN Reallocate ELSE address' = Nil /\ live' = live \ {address}

\* From a queue whose elements are s.
AssignFrom(s) ==
    /\ Assigns
    /\ Cardinality(live) + 2 < Cardinality(Addresses)   \* each may leave an array behind
    /\ LET original == [array |-> [j \in 0 .. Len(s) |-> IF j < Len(s) THEN s[j + 1] ELSE Junk],
                        head |-> 0, tail |-> Len(s), allocation_size |-> Len(s) + 1]
           cleared == IF Frees(queue) THEN live \ {address} ELSE live
       IN  /\ queue' = CopyOf(queue, original)
           /\ address' = IF Size(original) = 0 THEN address ELSE New
           /\ live' = IF Size(original) = 0 THEN cleared ELSE cleared \cup {New}

Next ==
    \/ \E x \in Value : Push(x) \/ \E i \in 0 .. MaxSize : PushAtHead(x, i)
    \/ Pop \/ PopTail \/ PopDeref \/ Clear \/ Compress
    \/ \E i \in 0 .. MaxSize : RemoveAtIndex(i)
    \/ \E size \in 0 .. FirstAllocation : ClearAndForceAllocation(size)
    \/ \E x \in Value : AssignFrom(<<>>) \/ AssignFrom(<<x>>)

Spec == Init /\ [][Next]_vars

-----------------------------------------------------------------------------
(* Properties.                                                             *)

Slots(q) == 0 .. q.allocation_size - 1

Members(q) == [array : [Slots(q) -> Value \cup {Junk}], head : Nat, tail : Nat, allocation_size : Nat]

Valid(q) ==
    /\ q \in Members(q)
    /\ IF q.allocation_size = 0 THEN q.head = 0 /\ q.tail = 0
       ELSE q.head \in Slots(q) /\ q.tail \in Slots(q)
    /\ \A position \in 0 .. Size(q) - 1 : At(q, position) \in Value

\* The indexes point into the array, and what is queued was written.
TypeOK == Valid(queue)

Abstract == INSTANCE SequenceQueue WITH items <- Items(queue)

\* Wherever head and tail are in the array and whenever it grows, each method
\* does to the elements what the queue promises; PopDeref too, and Compress nothing.
\* A step that is not the queue's leaves it as it is.
ImplementsSequence ==
    [][\/ UNCHANGED vars
       \/ /\ \A x \in Value : /\ Push(x) => Abstract!Push(x)
                              /\ \A i \in 0 .. MaxSize : PushAtHead(x, i) => Abstract!PushAtHead(x, i)
                              /\ AssignFrom(<<x>>) => Items(queue') = <<x>>
          /\ Pop \/ PopDeref => Abstract!Pop
          /\ PopTail => Abstract!PopTail
          /\ \A i \in 0 .. MaxSize : RemoveAtIndex(i) => Abstract!RemoveAtIndex(i)
          /\ Clear => Abstract!Clear
          /\ \A size \in 0 .. FirstAllocation : ClearAndForceAllocation(size) => Abstract!Clear
          /\ Compress => UNCHANGED Items(queue)]_vars

\* The destructor deletes every array the queue has allocated: there is one,
\* and only while allocation_size is not 0.
OneArray == live = IF queue.allocation_size > 0 THEN {address} ELSE {}
=============================================================================
