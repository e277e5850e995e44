---------------------------- MODULE SequenceQueue ----------------------------
(***************************************************************************)
(* What a queue of DS_Queue.h promises, whatever its array looks like: a   *)
(* sequence that grows and shrinks at both ends and at any place.          *)
(* Positions count from 0, as in the code.                                 *)
(***************************************************************************)
EXTENDS Naturals, Sequences

CONSTANT Value

VARIABLE items

InsertedAt(s, x, position) ==
    [k \in 1 .. Len(s) + 1 |->
        IF k <= position THEN s[k] ELSE IF k = position + 1 THEN x ELSE s[k - 1]]

RemovedAt(s, position) ==
    [k \in 1 .. Len(s) - 1 |-> IF k <= position THEN s[k] ELSE s[k + 1]]

Init == items = <<>>

PushAtHead(x, index) == index <= Len(items) /\ items' = InsertedAt(items, x, index)
Push(x) == items' = InsertedAt(items, x, Len(items))

RemoveAtIndex(position) == position < Len(items) /\ items' = RemovedAt(items, position)
Pop == RemoveAtIndex(0)
PopTail == items # <<>> /\ items' = RemovedAt(items, Len(items) - 1)

Clear == items' = <<>>

Next == \/ \E x \in Value : Push(x) \/ \E i \in 0 .. Len(items) : PushAtHead(x, i)
        \/ \E i \in 0 .. Len(items) : RemoveAtIndex(i)
        \/ PopTail \/ Clear

Spec == Init /\ [][Next]_items
=============================================================================
