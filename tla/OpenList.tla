------------------------------- MODULE OpenList -------------------------------
(***************************************************************************)
(* What the class Multilist of DS_Multilist.h promises for each type of    *)
(* list: the elements in their order, and what is taken from either end.   *)
(***************************************************************************)
EXTENDS Naturals, Sequences
LOCAL Ext == INSTANCE SequencesExt

CONSTANTS Key, Types

VARIABLES type,
          elements,
          ascending, \* GetSortOrder
          taken      \* what Pop or PopOpposite returned, in a sequence

Before(a, b) == IF ascending THEN a < b ELSE a > b
InOrder(list, up) == \A i \in 1 .. Len(list) - 1 : IF up THEN list[i] <= list[i + 1] ELSE list[i] >= list[i + 1]
SameElements(a, b) == \A d \in Key : Len(SelectSeq(a, LAMBDA e : e = d)) = Len(SelectSeq(b, LAMBDA e : e = d))

Become(list) == elements' = list /\ taken' = <<>> /\ UNCHANGED <<type, ascending>>

Take(front) ==
    /\ elements # <<>>
    /\ taken' = <<IF front THEN Head(elements) ELSE Ext!Last(elements)>>
    /\ elements' = IF front THEN Tail(elements) ELSE Ext!Front(elements)
    /\ UNCHANGED <<type, ascending>>

InsertInOrder(d) ==
    \E i \in 1 .. Len(elements) + 1 :
        LET list == Ext!InsertAt(elements, i, d) IN InOrder(list, ascending) /\ Become(list)

Init == type \in Types /\ elements = <<>> /\ ascending = TRUE /\ taken = <<>>

Push(d) ==
    IF type = "ordered" THEN InsertInOrder(d) ELSE Become(Append(elements, d))

PushOpposite(d) ==
    CASE type = "ordered" -> InsertInOrder(d)
      [] type = "unordered" -> Become(Append(elements, d))
      [] OTHER -> Become(<<d>> \o elements)

Pop == Take(type = "queue")
PopOpposite == Take(type # "queue")

InsertAtIndex(d) ==
    IF type = "ordered" THEN InsertInOrder(d)
    ELSE \E i \in 1 .. Len(elements) + 1 : Become(Ext!InsertAt(elements, i, d))

RemoveAtIndex(i) ==
    Become(IF type = "unordered" THEN Ext!Front(Ext!ReplaceAt(elements, i, Ext!Last(elements))) ELSE Ext!RemoveAt(elements, i))

Clear == Become(<<>>)

Sort == \E list \in [DOMAIN elements -> Key] :
    InOrder(list, ascending) /\ SameElements(list, elements) /\ Become(list)

\* A list that is sorted is turned round with its order.
SetSortOrder ==
    /\ ascending' = ~ascending /\ taken' = <<>>
    /\ elements' \in {elements, Ext!Reverse(elements)}
    /\ InOrder(elements, ascending) => InOrder(elements', ~ascending) \/ elements' = elements
    /\ UNCHANGED type

ReverseList ==
    /\ elements' = Ext!Reverse(elements) /\ taken' = <<>>
    /\ ascending' \in BOOLEAN /\ UNCHANGED type

\* Another type keeps the elements, in order if that is what the type is.
SetMultilistType(newType) ==
    /\ type' = newType /\ taken' = <<>>
    /\ IF newType = "ordered"
       THEN InOrder(elements', ascending) /\ Len(elements') = Len(elements) /\ SameElements(elements', elements)
       ELSE elements' = elements
    /\ UNCHANGED ascending

Next ==
    \/ \E d \in Key : Push(d) \/ PushOpposite(d) \/ InsertAtIndex(d)
    \/ \E i \in DOMAIN elements : RemoveAtIndex(i)
    \/ Pop \/ PopOpposite \/ Clear \/ Sort \/ SetSortOrder \/ ReverseList
    \/ \E newType \in Types : SetMultilistType(newType)

Spec == Init /\ [][Next]_<<type, elements, ascending, taken>>
===============================================================================
