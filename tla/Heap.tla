--------------------------------- MODULE Heap ---------------------------------
(***************************************************************************)
(* The class Heap of DS_Heap.h: a binary heap in a list, with a faster     *)
(* push for a series of weights that are in order.  A node is its weight.  *)
(***************************************************************************)
EXTENDS Naturals, Sequences
LOCAL INSTANCE SequencesExt
LOCAL INSTANCE FiniteSets
LOCAL INSTANCE Bags
LOCAL INSTANCE Functions

CONSTANTS Weight,
          IsMaxHeap,
          MaxSize,     \* bound: nodes in the heap
          PopsAnywhere \* does Pop begin below the top

HeapAssumption ==
    Weight \subseteq Nat /\ MaxSize \in Nat /\ {IsMaxHeap, PopsAnywhere} \subseteq BOOLEAN

VARIABLES heap,                    \* the weights; index 0 of the code is 1
          optimizeNextSeriesPush,
          series,                  \* the weights that may follow in the series
          popped                   \* the weight that was popped last, in a sequence

vars == <<heap, optimizeNextSeriesPush, series, popped>>

\* Mutant: whatever is to be on top, the least is.
BeforeLess(a, b) == a < b

Before(a, b) == IF IsMaxHeap THEN a > b ELSE a < b

Parent(i) == i \div 2
LeftChild(i) == 2 * i
RightChild(i) == 2 * i + 1

Swap(h, i, j) == [h EXCEPT ![i] = h[j], ![j] = h[i]]

-----------------------------------------------------------------------------

\* Push: from the end up, past the parents it comes before.
Pushed(h, weight) ==
    LET up[i \in 1 .. Len(h) + 1, k \in Seq(Weight)] ==
            IF i > 1 /\ Before(weight, k[Parent(i)])
            THEN up[Parent(i), Swap(k, i, Parent(i))]
            ELSE k
    IN  up[Len(h) + 1, Append(h, weight)]

\* Mutant: the last node is not removed from the end.
PoppedKeeps(h, start) == [h EXCEPT ![start] = Last(h)]

\* Pop: the last node takes the place, and goes down past the child that
\* comes first as long as one comes before it.
Popped(h, start) ==
    LET weight == Last(h)
        moved == Front([h EXCEPT ![start] = weight])
        size == Len(moved)
        first(k, i) ==
            IF RightChild(i) > size \/ Before(k[LeftChild(i)], k[RightChild(i)]) THEN LeftChild(i)
            ELSE RightChild(i)
        down[i \in Nat, k \in Seq(Weight)] ==
            IF LeftChild(i) > size THEN k
            ELSE LET c == first(k, i)
                 IN  IF Before(k[c], weight) THEN down[c, Swap(k, c, i)] ELSE k
    IN  down[start, moved]

\* Mutant: only the parent is looked at.
CanOptimizeParent(weight) == heap = <<>> \/ ~Before(weight, heap[Parent(Len(heap) + 1)])

\* The weight comes before no node from the parent of the end on.
CanOptimize(weight) ==
    heap = <<>> \/ \A i \in Parent(Len(heap) + 1) .. Len(heap) : ~Before(weight, heap[i])

-----------------------------------------------------------------------------

Init ==
    /\ heap = <<>> /\ optimizeNextSeriesPush = FALSE
    /\ series = Weight /\ popped = <<>>

\* A push that is not of the series ends it: StartSeries is called before another.
Push(weight) ==
    /\ Len(heap) < MaxSize
    /\ heap' = Pushed(heap, weight)
    /\ series' = {} /\ popped' = <<>>
    /\ UNCHANGED optimizeNextSeriesPush

StartSeries ==
    /\ optimizeNextSeriesPush' = FALSE
    /\ series' = Weight
    /\ UNCHANGED <<heap, popped>>

\* The weights of a series are in order.
PushSeries(weight) ==
    /\ Len(heap) < MaxSize /\ weight \in series
    /\ IF optimizeNextSeriesPush \/ CanOptimize(weight)
       THEN heap' = Append(heap, weight) /\ optimizeNextSeriesPush' = TRUE
       ELSE heap' = Pushed(heap, weight) /\ UNCHANGED optimizeNextSeriesPush
    /\ series' = {w \in Weight : ~Before(w, weight)}
    /\ popped' = <<>>

Pop(start) ==
    /\ start \in DOMAIN heap /\ (PopsAnywhere \/ start = 1)
    /\ heap' = Popped(heap, start)
    /\ popped' = <<heap[start]>>
    /\ UNCHANGED <<optimizeNextSeriesPush, series>>

Clear ==
    /\ heap' = <<>> /\ popped' = <<>>
    /\ UNCHANGED <<optimizeNextSeriesPush, series>>

Next ==
    \/ \E weight \in Weight : Push(weight) \/ PushSeries(weight)
    \/ \E start \in DOMAIN heap : Pop(start)
    \/ StartSeries \/ Clear

Spec == Init /\ [][Next]_vars

-----------------------------------------------------------------------------
(* What the class promises: everything that was pushed comes out once, one *)
(* of the first weights each time.                                         *)

\* How often each weight is there.
ContentsOf(h) == [w \in Range(h) |-> Cardinality({i \in DOMAIN h : h[i] = w})]
Contents == ContentsOf(heap)

ComesFirst(weight) ==
    \A other \in DOMAIN Contents : IF IsMaxHeap THEN weight >= other ELSE weight <= other

PromisedPush(weight) == Contents' = Contents (+) SetToBag({weight}) /\ popped' = <<>>

PromisedPop ==
    \E weight \in BagToSet(Contents) :
        /\ ComesFirst(weight)
        /\ Contents' = Contents (-) SetToBag({weight}) /\ popped' = <<weight>>

PromisedClear == Contents' = EmptyBag /\ popped' = <<>>

-----------------------------------------------------------------------------
(* Properties.                                                             *)

\* No node comes before its parent, also where a series was appended without
\* a look at the parents and nodes were popped in between.
HeapOrder == \A i \in 2 .. Len(heap) : ~Before(heap[i], heap[Parent(i)])

\* Pop returns one of the first weights of what was pushed, and nothing is
\* lost or there twice.
ImplementsQueue ==
    [\/ \E weight \in Weight : PromisedPush(weight)
     \/ PromisedPop \/ PromisedClear]_<<Contents, popped>>
===============================================================================
