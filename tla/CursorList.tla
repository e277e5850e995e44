----------------------------- MODULE CursorList -----------------------------
(***************************************************************************)
(* What the comment of DS_LinkedList.h and its example promise: a sequence *)
(* of items with a current position.  Position 0 is that of the empty      *)
(* list.  A circular list goes round at its ends, another one stays.       *)
(* Where the comment names no position (behind the last item that is       *)
(* deleted, after concatenate) it is the one the code has.                 *)
(***************************************************************************)
EXTENDS Naturals, Sequences, SequencesExt

CONSTANTS Item, Circular

VARIABLES items, pos

Init == items = <<>> /\ pos = 0

\* The new item is at the current position, before the one that was there.
Inserted(x) == items' = InsertAt(items, IF pos = 0 THEN 1 ELSE pos, x)

\* The new item is the current one.
Insert(x) == Inserted(x) /\ pos' = IF pos = 0 THEN 1 ELSE pos

Add(x) ==
    /\ items' = InsertAt(items, pos + 1, x)
    /\ pos' = IF pos = 0 THEN 1 ELSE pos

Replace(x) == pos > 0 /\ items' = [items EXCEPT ![pos] = x] /\ pos' = pos

\* The next item becomes current, behind the last one the first.
Del ==
    /\ pos > 0
    /\ items' = RemoveAt(items, pos)
    /\ pos' = IF items' = <<>> THEN 0 ELSE IF pos = Len(items) THEN 1 ELSE pos

Find(x) ==
    /\ \E i \in DOMAIN items :
          pos' = i /\ items[i] = x /\ \A j \in 1 .. i - 1 : items[j] # x
    /\ UNCHANGED items

Forward ==
    /\ pos > 0
    /\ pos' = IF pos < Len(items) THEN pos + 1 ELSE IF Circular THEN 1 ELSE pos
    /\ UNCHANGED items

Back ==
    /\ pos > 0
    /\ pos' = IF pos > 1 THEN pos - 1 ELSE IF Circular THEN Len(items) ELSE pos
    /\ UNCHANGED items

Jump == pos' \in {1, Len(items)} /\ pos > 0 /\ UNCHANGED items

\* The items in their order, the first one current; a list of one stays.
Sort ==
    /\ items # <<>>
    /\ items' = SortSeq(items, LAMBDA a, b : a < b)
    /\ pos' = 1

\* Appends; the last item is current.
Concatenate(s) ==
    /\ items' = items \o s
    /\ pos' = Len(items')

Clear == items' = <<>> /\ pos' = 0

Next ==
    \/ \E x \in Item : Insert(x) \/ Add(x) \/ Replace(x) \/ Find(x)
    \/ Del \/ Forward \/ Back \/ Jump \/ Sort \/ Clear
    \/ Concatenate(SubSeq(items', Len(items) + 1, Len(items')))

Spec == Init /\ [][Next]_<<items, pos>>
=============================================================================
