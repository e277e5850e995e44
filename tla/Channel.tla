------------------------------- MODULE Channel -------------------------------
(***************************************************************************)
(* A channel from one producer to one consumer, as the users of            *)
(* SingleProducerConsumer see it: what is published is taken in its order, *)
(* each value once; a value that was taken can be put back until it is     *)
(* released.                                                               *)
(***************************************************************************)
EXTENDS Sequences, Naturals

CONSTANT Value

VARIABLES taken,   \* taken and not yet released, the oldest first
          unread   \* published and not taken

vars == <<taken, unread>>

Init == taken = <<>> /\ unread = <<>>

Publish == \E v \in Value : unread' = Append(unread, v) /\ UNCHANGED taken

Take ==
    /\ unread # <<>>
    /\ taken' = Append(taken, Head(unread))
    /\ unread' = Tail(unread)

\* The values from the k-th on go back, in their order.
PutBack ==
    \E k \in 1 .. Len(taken) :
        /\ taken' = SubSeq(taken, 1, k - 1)
        /\ unread' = SubSeq(taken, k, Len(taken)) \o unread

Release == taken # <<>> /\ taken' = Tail(taken) /\ UNCHANGED unread

Reset == taken = <<>> /\ unread' = <<>> /\ UNCHANGED taken

Next == Publish \/ Take \/ PutBack \/ Release \/ Reset

Spec == Init /\ [][Next]_vars
=============================================================================
