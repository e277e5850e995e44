----------------------------- MODULE QueueProofs -----------------------------
(***************************************************************************)
(* The array of a Queue implements a sequence, for every element type,     *)
(* every first size of the array and every bound.                          *)
(***************************************************************************)
EXTENDS Queue, FiniteSetTheorems, TLAPS

-----------------------------------------------------------------------------
(* The loop of Compress.                                                   *)

\* Induction, of a set of numbers.
LEMMA SetInduction ==
    ASSUME NEW S, 0 \in S, \A n \in Nat : n \in S => n + 1 \in S
    PROVE  Nat \subseteq S
  <1> SUFFICES ASSUME NEW m \in Nat, m \notin S
               PROVE  FALSE
    OBVIOUS
  <1> DEFINE A == {n \in 0 .. m : n \in S}
             next == [n \in A |-> n + 1]
  <1>1. IsFiniteSet(A)
    <2>1. IsFiniteSet(0 .. m)
      BY FS_Interval
    <2>2. QED  BY <2>1, FS_Subset
  <1>2. 0 \in A /\ next \in [A -> A \ {0}] /\ \A x, y \in A : next[x] = next[y] => x = y
    OBVIOUS
  <1> HIDE DEF A, next
  <1>3. IsFiniteSet(A \ {0}) /\ Cardinality(A \ {0}) < Cardinality(A)
    <2>1. Cardinality(A) \in Nat
      BY <1>1, FS_CardinalityType
    <2>2. 0 \in A
      BY <1>2
    <2>3. IsFiniteSet(A \ {0}) /\ Cardinality(A \ {0}) = Cardinality(A) - 1
      BY <1>1, <2>2, FS_RemoveElement
    <2>4. QED  BY <2>1, <2>3
  <1>4. QED  BY <1>1, <1>2, <1>3, FS_PigeonHole

\* The loop of Compress ends at a size that has room.
LEMMA DoubledAbove ==
    ASSUME NEW n \in Nat
    PROVE  Doubled(n) \in Nat /\ Doubled(n) > n
  <1> DEFINE Above(f, k) == f[k] = IF k > n THEN k ELSE f[2 * k]
             \* From n - m up the equation has a solution.
             S == {m \in Nat : \E f \in [Nat -> Nat] : \A k \in Nat : k > 0 /\ k + m > n => Above(f, k)}
  <1>1. 0 \in S
    <2> DEFINE same == [k \in Nat |-> k]
    <2>1. same \in [Nat -> Nat] /\ \A k \in Nat : k > 0 /\ k + 0 > n => Above(same, k)
      OBVIOUS
    <2>2. QED  BY <2>1
  <1>2. ASSUME NEW m \in Nat, m \in S
        PROVE  m + 1 \in S
    <2>1. PICK f \in [Nat -> Nat] : \A k \in Nat : k > 0 /\ k + m > n => Above(f, k)
      BY <1>2
    <2> DEFINE g == [f EXCEPT ![n - m] = f[2 * (n - m)]]
    <2>2. CASE n - m > 0
      <3>1. n - m \in Nat /\ 2 * (n - m) \in Nat /\ 2 * (n - m) > n - m
        BY <2>2
      <3>2. g \in [Nat -> Nat] /\ \A k \in Nat : g[k] = IF k = n - m THEN f[2 * (n - m)] ELSE f[k]
        BY <3>1
      <3> HIDE DEF g
      <3>3. ASSUME NEW k \in Nat, k > 0, k + (m + 1) > n
            PROVE  Above(g, k)
        <4>1. CASE k = n - m
          BY <3>1, <3>2, <4>1
        <4>2. CASE k # n - m
          <5>1. k + m > n /\ 2 * k \in Nat /\ 2 * k # n - m
            BY <3>3, <4>2
          <5>2. Above(f, k)
            BY <2>1, <3>3, <5>1
          <5>3. QED  BY <3>2, <4>2, <5>1, <5>2
        <4>3. QED  BY <4>1, <4>2
      <3>4. QED  BY <3>2, <3>3
    <2>3. CASE ~(n - m > 0)
      <3>1. \A k \in Nat : k > 0 => k + m > n
        BY <2>3
      <3>2. QED  BY <2>1, <3>1
    <2>4. QED  BY <2>2, <2>3
  <1>3. n \in S
    <2> HIDE DEF S
    <2>1. QED  BY <1>1, <1>2, SetInduction
  <1>4. PICK f \in [Nat -> Nat] : \A k \in Nat : k > 0 => Above(f, k)
    BY <1>3
  <1> DEFINE Solves(above) == above = [k \in Nat |-> IF k > n THEN k ELSE above[2 * k]]
             above == CHOOSE g : Solves(g)
  <1>5. Solves(f)
    <2>1. \A k \in Nat : f[k] = IF k > n THEN k ELSE f[2 * k]
      BY <1>4
    <2>2. QED  BY <2>1
  <1>6. Solves(above)
    BY <1>5
  <1>7. Doubled(n) = above[1]
    BY DEF Doubled
  <1> HIDE DEF above
  <1>8. \A k \in Nat : above[k] = IF k > n THEN k ELSE above[2 * k]
    BY <1>6
  <1> DEFINE T == {m \in Nat : \A k \in Nat : k > 0 /\ k + m > n => above[k] \in Nat /\ above[k] > n}
  <1>9. 0 \in T
    BY <1>8
  <1>10. ASSUME NEW m \in Nat, m \in T
         PROVE  m + 1 \in T
    <2>1. SUFFICES ASSUME NEW k \in Nat, k > 0, k + (m + 1) > n
                   PROVE  above[k] \in Nat /\ above[k] > n
      OBVIOUS
    <2>2. CASE k > n
      BY <1>8, <2>2
    <2>3. CASE ~(k > n)
      <3>1. 2 * k \in Nat /\ 2 * k > 0 /\ 2 * k + m > n /\ above[k] = above[2 * k]
        BY <1>8, <2>1, <2>3
      <3>2. QED  BY <1>10, <3>1
    <2>4. QED  BY <2>2, <2>3
  <1>11. n \in T
    <2> HIDE DEF T
    <2>1. QED  BY <1>9, <1>10, SetInduction
  <1>12. QED  BY <1>7, <1>11

-----------------------------------------------------------------------------
(* Positions and slots.                                                    *)

\* An array is never full: one slot is free, or the array is missing.
LEMMA SizeInRange ==
    ASSUME NEW q, Valid(q)
    PROVE  /\ Size(q) \in Nat
           /\ q.allocation_size > 0 => Size(q) < q.allocation_size
           /\ q.allocation_size = 0 => Size(q) = 0
           /\ Size(q) = 0 <=> IsEmpty(q)
  BY DEF Valid, Members, Size, Slots, IsEmpty

\* Slots and positions determine each other.
LEMMA SlotOfPosition ==
    ASSUME NEW q, Valid(q), q.allocation_size > 0, NEW k \in Slots(q)
    PROVE  SlotAt(q, k) \in Slots(q) /\ PositionOf(q, SlotAt(q, k)) = k
  BY DEF Valid, Members, SlotAt, PositionOf, Slots

\* And the other way round.
LEMMA PositionOfSlot ==
    ASSUME NEW q, Valid(q), q.allocation_size > 0, NEW j \in Slots(q)
    PROVE  PositionOf(q, j) \in Slots(q) /\ SlotAt(q, PositionOf(q, j)) = j
  BY DEF Valid, Members, SlotAt, PositionOf, Slots

\* The slot the next element goes to is the one of position Size.
LEMMA TailSlot ==
    ASSUME NEW q, Valid(q), q.allocation_size > 0
    PROVE  /\ SlotAt(q, Size(q)) = q.tail
           /\ NextSlot(q, q.tail) \in Slots(q) /\ NextSlot(q, q.head) \in Slots(q)
           /\ SlotBefore(q, q.tail) \in Slots(q)
  <1>1. /\ q.allocation_size \in Nat \ {0} /\ q.head \in 0 .. q.allocation_size - 1
        /\ q.tail \in 0 .. q.allocation_size - 1
    BY DEF Valid, Members, Slots
  <1>2. SlotAt(q, Size(q)) = q.tail
    BY <1>1 DEF SlotAt, Size
  <1>3. NextSlot(q, q.tail) \in Slots(q) /\ NextSlot(q, q.head) \in Slots(q)
    BY <1>1 DEF NextSlot, Slots
  <1>4. SlotBefore(q, q.tail) \in Slots(q)
    BY <1>1 DEF SlotBefore, Slots
  <1>5. QED  BY <1>2, <1>3, <1>4

\* The elements are a sequence of length Size.
LEMMA ItemsType ==
    ASSUME NEW q, Valid(q)
    PROVE  /\ Items(q) \in Seq(Value)
           /\ Len(Items(q)) = Size(q)
           /\ \A k \in 1 .. Size(q) : Items(q)[k] = At(q, k - 1)
  <1>1. Size(q) \in Nat
    BY SizeInRange
  <1>2. \A k \in 1 .. Size(q) : At(q, k - 1) \in Value
    BY <1>1 DEF Valid, Members
  <1>3. Items(q) \in [1 .. Size(q) -> Value]
    BY <1>2 DEF Items
  <1>4. QED  BY <1>1, <1>3 DEF Items

\* The same by the index of a method, which counts from 0.
LEMMA ItemAt ==
    ASSUME NEW q, Valid(q)
    PROVE  \A k \in 0 .. Size(q) - 1 : At(q, k) = Items(q)[k + 1]
  <1>1. SUFFICES ASSUME NEW k \in 0 .. Size(q) - 1
                 PROVE  At(q, k) = Items(q)[k + 1]
    OBVIOUS
  <1>2. k + 1 \in 1 .. Size(q) /\ (k + 1) - 1 = k
    BY <1>1, SizeInRange
  <1>3. QED  BY <1>2, ItemsType

-----------------------------------------------------------------------------
(* Moving the elements to a new array.                                     *)

\* What Moved copies is the first n elements.
LEMMA MovedRight ==
    ASSUME NEW q, NEW n \in Nat, NEW allocation \in Nat, n < allocation,
           \A k \in 0 .. n - 1 : At(q, k) \in Value
    PROVE  /\ Valid(Moved(q, n, allocation))
           /\ Size(Moved(q, n, allocation)) = n
           /\ Items(Moved(q, n, allocation)) = [k \in 1 .. n |-> At(q, k - 1)]
  <1> DEFINE m == Moved(q, n, allocation)
  <1>1. /\ m.head = 0 /\ m.tail = n /\ m.allocation_size = allocation
        /\ m.array = [j \in 0 .. allocation - 1 |-> IF j < n THEN At(q, j) ELSE Junk]
    BY DEF Moved
  <1>2. Size(m) = n
    BY <1>1 DEF Size
  <1>3. \A k \in 0 .. n - 1 : At(m, k) = At(q, k)
    <2>1. \A k \in 0 .. n - 1 : SlotAt(m, k) = k
      BY <1>1 DEF SlotAt
    <2>2. QED  BY <1>1, <2>1 DEF At
  <1>4. Valid(m)
    <2>1. m.array \in [Slots(m) -> Value \cup {Junk}]
      BY <1>1 DEF Slots
    <2>2. m \in Members(m)
      BY <1>1, <2>1 DEF Moved, Members
    <2>3. m.head \in Slots(m) /\ m.tail \in Slots(m)
      BY <1>1 DEF Slots
    <2>4. \A k \in 0 .. Size(m) - 1 : At(m, k) \in Value
      BY <1>2, <1>3
    <2>5. QED  BY <1>1, <2>1, <2>2, <2>3, <2>4 DEF Valid, Members
  <1>5. Items(m) = [k \in 1 .. n |-> At(q, k - 1)]
    BY <1>2, <1>3 DEF Items
  <1>6. QED  BY <1>2, <1>4, <1>5

-----------------------------------------------------------------------------
(* The methods.                                                            *)

\* A list of elements that all are Values and sit in slots written, from the
\* facts about two queues that every method needs.
LEMMA ValidItems ==
    ASSUME NEW q, NEW s \in Seq(Value),
           q \in Members(q), q.allocation_size > 0, q.head \in Slots(q), q.tail \in Slots(q),
           Size(q) = Len(s),
           \A k \in 0 .. Len(s) - 1 : At(q, k) = s[k + 1]
    PROVE  Valid(q) /\ Items(q) = s
  <1>1. Len(s) \in Nat /\ s \in [1 .. Len(s) -> Value]
    OBVIOUS
  <1>2. \A k \in 0 .. Len(s) - 1 : At(q, k) \in Value
    BY <1>1
  <1>3. Valid(q)
    BY <1>2 DEF Valid, Members
  <1>4. Items(q) = [k \in 1 .. Len(s) |-> s[k]]
    BY <1>1 DEF Items
  <1>5. QED  BY <1>1, <1>3, <1>4

\* InsertedAt and RemovedAt on sequences of values.
LEMMA InsertedType ==
    ASSUME NEW s \in Seq(Value), NEW x \in Value, NEW position \in 0 .. Len(s)
    PROVE  /\ Abstract!InsertedAt(s, x, position) \in Seq(Value)
           /\ Len(Abstract!InsertedAt(s, x, position)) = Len(s) + 1
  <1>1. Len(s) \in Nat /\ s \in [1 .. Len(s) -> Value]
    OBVIOUS
  <1>2. Abstract!InsertedAt(s, x, position) \in [1 .. Len(s) + 1 -> Value]
    BY <1>1 DEF Abstract!InsertedAt
  <1>3. QED  BY <1>1, <1>2

\* And one element less.
LEMMA RemovedType ==
    ASSUME NEW s \in Seq(Value), NEW position \in 0 .. Len(s) - 1
    PROVE  /\ Abstract!RemovedAt(s, position) \in Seq(Value)
           /\ Len(Abstract!RemovedAt(s, position)) = Len(s) - 1
  <1>1. Len(s) \in Nat /\ s \in [1 .. Len(s) -> Value]
    OBVIOUS
  <1>2. Abstract!RemovedAt(s, position) \in [1 .. Len(s) - 1 -> Value]
    BY <1>1 DEF Abstract!RemovedAt
  <1>3. Len(s) - 1 \in Nat
    BY <1>1
  <1>4. QED  BY <1>2, <1>3

\* Queue::Push, with and without a new array.
LEMMA PushedRight ==
    ASSUME NEW q, Valid(q), NEW x \in Value
    PROVE  /\ Valid(Pushed(q, x))
           /\ Items(Pushed(q, x)) = Abstract!InsertedAt(Items(q), x, Size(q))
           /\ Size(Pushed(q, x)) = Size(q) + 1
           /\ Pushed(q, x).allocation_size > 0
  <1> DEFINE p == Pushed(q, x)
             s == Abstract!InsertedAt(Items(q), x, Size(q))
  <1>1. /\ s \in Seq(Value) /\ Len(s) = Size(q) + 1
        /\ \A k \in 0 .. Size(q) : s[k + 1] = IF k < Size(q) THEN At(q, k) ELSE x
    <2>1. Size(q) \in 0 .. Len(Items(q)) /\ Items(q) \in Seq(Value) /\ Len(Items(q)) = Size(q)
      BY ItemsType, SizeInRange
    <2>2. s \in Seq(Value) /\ Len(s) = Size(q) + 1
      BY <2>1, InsertedType
    <2>3. \A k \in 0 .. Size(q) : s[k + 1] = IF k < Size(q) THEN At(q, k) ELSE x
      BY <2>1, ItemsType DEF Abstract!InsertedAt
    <2>4. QED  BY <2>2, <2>3
  <1>2. CASE q.allocation_size = 0
    <2>1. Size(q) = 0
      BY <1>2, SizeInRange
    <2>2. p = [array |-> [j \in 0 .. FirstAllocation - 1 |-> IF j = 0 THEN x ELSE Junk],
               head |-> 0, tail |-> 1, allocation_size |-> FirstAllocation]
      BY <1>2 DEF Pushed
    <2>3. p.array \in [Slots(p) -> Value \cup {Junk}] /\ p.head \in Slots(p) /\ p.tail \in Slots(p)
      BY <2>2, QueueAssumption DEF Slots
    <2>4. Size(p) = 1
      BY <2>2 DEF Size
    <2>5. At(p, 0) = x
      BY <2>2, QueueAssumption DEF At, SlotAt
    <2>6. \A k \in 0 .. Len(s) - 1 : At(p, k) = s[k + 1]
      BY <1>1, <2>1, <2>5
    <2>7. p \in Members(p) /\ p.allocation_size > 0
      BY <2>2, <2>3, QueueAssumption DEF Members, Slots
    <2>8. Size(p) = Len(s)
      BY <1>1, <2>1, <2>4
    <2>9. Valid(p) /\ Items(p) = s
      BY <1>1, <2>3, <2>6, <2>7, <2>8, ValidItems
    <2>10. QED  BY <2>1, <2>4, <2>7, <2>9
  <1>3. CASE q.allocation_size # 0
    <2> DEFINE w == [q EXCEPT !.array[q.tail] = x, !.tail = NextSlot(q, q.tail)]
    <2>1. /\ q.allocation_size \in Nat \ {0} /\ q.head \in Slots(q) /\ q.tail \in Slots(q)
          /\ q.array \in [Slots(q) -> Value \cup {Junk}] /\ q \in Members(q)
      BY <1>3 DEF Valid, Members
    <2>2. /\ w.array = [q.array EXCEPT ![q.tail] = x] /\ w.head = q.head
          /\ w.tail = NextSlot(q, q.tail) /\ w.allocation_size = q.allocation_size
          /\ w \in Members(w)
      <3> DEFINE next == NextSlot(q, q.tail)
      <3>1. next \in Nat
        BY <2>1, TailSlot DEF Slots
      <3> HIDE DEF next
      <3>2. /\ w.array = [q.array EXCEPT ![q.tail] = x] /\ w.head = q.head
            /\ w.tail = next /\ w.allocation_size = q.allocation_size
        BY <2>1 DEF Members, next
      <3>3. w \in [array : [Slots(q) -> Value \cup {Junk}], head : Nat, tail : Nat, allocation_size : Nat]
        BY <2>1, <3>1 DEF Members, next
      <3>4. Slots(w) = Slots(q)
        BY <3>2 DEF Slots
      <3>5. QED  BY <3>2, <3>3, <3>4 DEF next, Members
    <2>3. Size(q) \in Nat /\ Size(q) < q.allocation_size
      BY <1>3, <2>1, SizeInRange
    <2>4. \A k \in 0 .. Size(q) : SlotAt(w, k) = SlotAt(q, k) /\ SlotAt(q, k) \in Slots(q)
      BY <2>2, <2>3, <2>1 DEF SlotAt, Slots
    <2>5. \A k \in 0 .. Size(q) - 1 : SlotAt(q, k) # q.tail
      BY <2>1, <2>3 DEF SlotAt, Slots, Size
    <2>6. SlotAt(q, Size(q)) = q.tail
      BY <2>1, TailSlot
    <2>7. \A k \in 0 .. Size(q) : At(w, k) = IF k < Size(q) THEN At(q, k) ELSE x
      BY <2>1, <2>2, <2>3, <2>4, <2>5, <2>6 DEF At
    <2>8. CASE w.tail = w.head
      <3>1. p = Moved(w, q.allocation_size, 2 * q.allocation_size)
        BY <1>3, <2>2, <2>8 DEF Pushed, Grown
      <3>2. Size(q) + 1 = q.allocation_size
        BY <2>1, <2>2, <2>8 DEF NextSlot, Size, Slots
      <3>3. \A k \in 0 .. q.allocation_size - 1 : At(w, k) \in Value /\ At(w, k) = s[k + 1]
        <4>1. \A k \in 0 .. Size(q) : At(w, k) = s[k + 1]
          BY <1>1, <2>7
        <4>2. \A k \in 0 .. Size(q) - 1 : At(q, k) \in Value
          BY DEF Valid, Members
        <4>3. \A k \in 0 .. Size(q) : At(w, k) \in Value
          BY <2>3, <2>7, <4>2
        <4>4. QED  BY <2>3, <3>2, <4>1, <4>3
      <3> HIDE DEF w, p
      <3>4. /\ Valid(p) /\ Size(p) = q.allocation_size
            /\ Items(p) = [k \in 1 .. q.allocation_size |-> At(w, k - 1)]
        BY <2>1, <3>1, <3>3, MovedRight
      <3>5. \A k \in 1 .. q.allocation_size : At(w, k - 1) = s[k]
        BY <2>1, <3>3
      <3>6. Items(p) = [k \in 1 .. q.allocation_size |-> s[k]]
        BY <3>4, <3>5
      <3>7. s = [k \in 1 .. q.allocation_size |-> s[k]]
        BY <1>1, <3>2
      <3>8. p.allocation_size > 0
        BY <2>1, <3>1 DEF Moved
      <3>9. QED  BY <3>2, <3>4, <3>6, <3>7, <3>8 DEF p
    <2>9. CASE w.tail # w.head
      <3>1. p = w
        BY <1>3, <2>2, <2>9 DEF Pushed
      <3>2. Size(w) = Size(q) + 1
        BY <2>1, <2>2, <2>9 DEF NextSlot, Size, Slots
      <3>3. w.array \in [Slots(w) -> Value \cup {Junk}] /\ w.head \in Slots(w) /\ w.tail \in Slots(w)
        BY <2>1, <2>2, TailSlot DEF Slots
      <3>4. \A k \in 0 .. Len(s) - 1 : At(w, k) = s[k + 1]
        BY <1>1, <2>3, <2>7
      <3>5. w \in Members(w) /\ w.allocation_size > 0 /\ s \in Seq(Value) /\ Size(w) = Len(s)
        BY <1>1, <2>1, <2>2, <3>2, <3>3
      <3> HIDE DEF w, s
      <3>7. Valid(w) /\ Items(w) = s
        BY ONLY <3>3, <3>4, <3>5, ValidItems
      <3>8. QED  BY <2>1, <2>2, <3>1, <3>2, <3>7 DEF w, s, p
    <2>10. QED  BY <2>8, <2>9
  <1>4. QED  BY <1>2, <1>3

\* Queue::PushAtHead: Push, then the elements behind index move up.
LEMMA PushedAtHeadRight ==
    ASSUME NEW q, Valid(q), NEW x \in Value, NEW index \in 0 .. Size(q)
    PROVE  /\ Valid(PushedAtHead(q, x, index))
           /\ Items(PushedAtHead(q, x, index)) = Abstract!InsertedAt(Items(q), x, index)
  <1> DEFINE p == Pushed(q, x)
             r == PushedAtHead(q, x, index)
             s == Abstract!InsertedAt(Items(q), x, index)
             n == Size(q)
  <1>1. /\ n \in Nat /\ Valid(p) /\ Size(p) = n + 1 /\ p.allocation_size > 0
        /\ Items(p) = Abstract!InsertedAt(Items(q), x, n)
    BY PushedRight, SizeInRange
  <1>2. Items(q) \in Seq(Value) /\ Len(Items(q)) = n
    BY ItemsType
  <1>3. s \in Seq(Value) /\ Len(s) = n + 1
    BY <1>1, <1>2, InsertedType
  <1>4. \A k \in 0 .. n : At(p, k) = IF k < n THEN Items(q)[k + 1] ELSE x
    <2>1. \A k \in 0 .. n : At(p, k) = Items(p)[k + 1]
      <3>1. \A k \in 0 .. Size(p) - 1 : At(p, k) = Items(p)[k + 1]
        BY <1>1, ItemAt
      <3>2. Size(p) - 1 = n
        BY <1>1
      <3>3. QED  BY <3>1, <3>2
    <2>2. \A k \in 0 .. n : Items(p)[k + 1] = IF k < n THEN Items(q)[k + 1] ELSE x
      BY <1>1, <1>2 DEF Abstract!InsertedAt
    <2>3. QED  BY <2>1, <2>2
  <1>5. \A k \in 0 .. n : s[k + 1] = IF k < index THEN Items(q)[k + 1]
                                    ELSE IF k = index THEN x ELSE Items(q)[k]
    BY <1>1, <1>2 DEF Abstract!InsertedAt
  <1>6. CASE n = 0
    <2>1. r = p
      BY <1>1, <1>6 DEF PushedAtHead
    <2>2. Items(p) = s
      BY <1>1, <1>6
    <2>3. QED  BY <1>1, <2>1, <2>2
  <1>7. CASE n > 0
    <2>1. /\ p \in Members(p) /\ p.allocation_size \in Nat /\ n + 1 < p.allocation_size
          /\ p.head \in Slots(p) /\ p.tail \in Slots(p)
      BY <1>1, SizeInRange DEF Valid, Members
    <2> DEFINE Shifted(j) == LET position == PositionOf(p, j)
                             IN  IF position = index THEN x
                                 ELSE IF index < position /\ position < Size(p) THEN At(p, position - 1)
                                 ELSE p.array[j]
               shifted == [j \in DOMAIN p.array |-> Shifted(j)]
    <2>2. r = [p EXCEPT !.array = shifted]
      BY <1>1, <1>7 DEF PushedAtHead
    <2>3. DOMAIN p.array = Slots(p) /\ p.array \in [Slots(p) -> Value \cup {Junk}]
      BY <2>1 DEF Members
    <2>4. \A j \in Slots(p) : Shifted(j) \in Value \cup {Junk}
      <3>1. \A k \in 0 .. n : At(p, k) \in Value
        BY <1>1 DEF Valid
      <3>2. \A j \in Slots(p) : PositionOf(p, j) \in Slots(p)
        BY <1>1, PositionOfSlot
      <3> HIDE DEF p, n
      <3>3. ASSUME NEW j \in Slots(p)
            PROVE  Shifted(j) \in Value \cup {Junk}
        <4>1. PositionOf(p, j) \in Int
          BY <2>1, <3>2 DEF Slots
        <4>2. CASE index < PositionOf(p, j) /\ PositionOf(p, j) < Size(p)
          BY <1>1, <3>1, <4>1, <4>2
        <4>3. CASE ~(index < PositionOf(p, j) /\ PositionOf(p, j) < Size(p))
          BY <2>3, <4>3
        <4>4. QED  BY <4>2, <4>3
      <3>4. QED  BY <3>3
    <2>5. shifted \in [Slots(p) -> Value \cup {Junk}]
      BY <2>3, <2>4
    <2> HIDE DEF shifted, p, n
    <2>6. /\ r.array = shifted /\ r.head = p.head /\ r.tail = p.tail
          /\ r.allocation_size = p.allocation_size
          /\ r \in [array : [Slots(p) -> Value \cup {Junk}], head : Nat, tail : Nat, allocation_size : Nat]
      BY <2>1, <2>2, <2>5 DEF Members
    <2> HIDE DEF r
    <2>7. Slots(r) = Slots(p) /\ Size(r) = Size(p) /\ \A k \in 0 .. n : SlotAt(r, k) = SlotAt(p, k)
      BY <2>6 DEF Slots, Size, SlotAt
    <2>8. r \in Members(r)
      BY <2>6, <2>7 DEF Members
    <2>9. \A k \in 0 .. n : At(r, k) = s[k + 1]
      <3>1. TAKE k \in 0 .. n
      <3>2. k \in Slots(p)
        BY <1>1, <2>1 DEF Slots
      <3>3. SlotAt(p, k) \in Slots(p) /\ PositionOf(p, SlotAt(p, k)) = k
        BY <1>1, <3>2, SlotOfPosition
      <3>4. At(r, k) = Shifted(SlotAt(p, k))
        BY <2>3, <2>6, <2>7, <3>3 DEF At, shifted
      <3>5. CASE k = index
        BY <1>5, <3>3, <3>4, <3>5
      <3>6. CASE k < index
        <4>1. At(r, k) = p.array[SlotAt(p, k)]
          BY <3>3, <3>4, <3>6
        <4>2. QED  BY <1>1, <1>4, <1>5, <3>6, <4>1 DEF At, n
      <3>7. CASE k > index
        <4>1. At(r, k) = At(p, k - 1)
          BY <1>1, <3>3, <3>4, <3>7
        <4>2. At(p, k - 1) = Items(q)[k]
          BY <1>1, <1>4, <3>7 DEF n
        <4>3. QED  BY <1>5, <3>7, <4>1, <4>2 DEF n
      <3>8. QED  BY <1>1, <3>5, <3>6, <3>7 DEF n
    <2>10. Len(s) = Size(r) /\ \A k \in 0 .. Len(s) - 1 : At(r, k) = s[k + 1]
      BY <1>1, <1>3, <2>7, <2>9
    <2> HIDE DEF s
    <2>11. Valid(r) /\ Items(r) = s
      BY <1>3, <2>1, <2>6, <2>7, <2>8, <2>10, ValidItems
    <2>12. QED  BY <2>11 DEF r, s
  <1>8. QED  BY <1>1, <1>6, <1>7

\* Queue::Pop: head moves on.
LEMMA PoppedRight ==
    ASSUME NEW q, Valid(q), ~IsEmpty(q)
    PROVE  Valid(Popped(q)) /\ Items(Popped(q)) = Abstract!RemovedAt(Items(q), 0)
  <1> DEFINE r == Popped(q)
             s == Abstract!RemovedAt(Items(q), 0)
             n == Size(q)
             next == NextSlot(q, q.head)
  <1>1. /\ q \in Members(q) /\ q.allocation_size \in Nat /\ n \in Nat /\ 0 < n /\ n < q.allocation_size
        /\ q.head \in Slots(q) /\ q.tail \in Slots(q)
    BY SizeInRange DEF Valid, Members, IsEmpty
  <1>2. next \in Slots(q) /\ next \in Nat
    BY <1>1, TailSlot DEF Slots
  <1>3. Items(q) \in Seq(Value) /\ Len(Items(q)) = n
    BY ItemsType
  <1>4. s \in Seq(Value) /\ Len(s) = n - 1
    BY <1>1, <1>3, RemovedType
  <1>5. \A k \in 0 .. n - 2 : s[k + 1] = At(q, k + 1)
    BY <1>1, <1>3, ItemsType DEF Abstract!RemovedAt
  <1> HIDE DEF next
  <1>6. /\ r.array = q.array /\ r.head = next /\ r.tail = q.tail /\ r.allocation_size = q.allocation_size
        /\ r \in [array : [Slots(q) -> Value \cup {Junk}], head : Nat, tail : Nat, allocation_size : Nat]
    BY <1>1, <1>2 DEF Popped, Members, next
  <1> HIDE DEF r, n
  <1>7. r \in Members(r) /\ r.head \in Slots(r) /\ r.tail \in Slots(r)
    BY <1>1, <1>2, <1>6 DEF Members, Slots
  <1>8. Size(r) = n - 1 /\ \A k \in 0 .. n - 2 : SlotAt(r, k) = SlotAt(q, k + 1)
    <2>1. q.head \in 0 .. q.allocation_size - 1 /\ q.tail \in 0 .. q.allocation_size - 1 /\ q.head # q.tail
      BY <1>1 DEF Slots, IsEmpty
    <2>2. CASE q.head + 1 = q.allocation_size
      <3>1. r.head = 0
        BY <1>6, <2>2 DEF next, NextSlot
      <3>2. n = q.allocation_size - q.head + q.tail
        BY <2>1, <2>2 DEF n, Size
      <3>3. Size(r) = q.tail
        BY <1>6, <2>1, <3>1 DEF Size
      <3>4. /\ q.head = q.allocation_size - 1 /\ q.allocation_size \in Nat
            /\ n = q.tail + 1 /\ n < q.allocation_size
        <4>1. q.head = q.allocation_size - 1 /\ q.allocation_size \in Nat /\ n < q.allocation_size
          <5>1. q.head \in Nat
            BY <1>1, <2>1
          <5>2. QED  BY <1>1, <2>2, <5>1
        <4>2. n = q.tail + 1
          BY <2>1, <3>2, <4>1
        <4>3. QED  BY <4>1, <4>2
      <3>5. ASSUME NEW k \in 0 .. n - 2
            PROVE  SlotAt(r, k) = SlotAt(q, k + 1)
        <4>1. SlotAt(r, k) = k
          BY <1>6, <2>1, <3>1, <3>4 DEF SlotAt
        <4>2. SlotAt(q, k + 1) = k
          BY <2>1, <3>4 DEF SlotAt
        <4>3. QED  BY <4>1, <4>2
      <3>6. Size(r) = n - 1
        BY <2>1, <3>3, <3>4
      <3>7. QED  BY <3>5, <3>6
    <2>3. CASE q.head + 1 # q.allocation_size
      <3>1. r.head = q.head + 1
        BY <1>6, <2>3 DEF next, NextSlot
      <3>2. Size(r) = n - 1
        BY <1>6, <2>1, <2>3, <3>1 DEF n, Size
      <3>3. \A k \in 0 .. n - 2 : SlotAt(r, k) = SlotAt(q, k + 1)
        BY <1>1, <1>6, <2>1, <2>3, <3>1 DEF SlotAt
      <3>4. QED  BY <3>2, <3>3
    <2>4. QED  BY <2>2, <2>3
  <1>10. \A k \in 0 .. Len(s) - 1 : At(r, k) = s[k + 1]
    BY <1>1, <1>4, <1>5, <1>6, <1>8 DEF At
  <1> HIDE DEF s
  <1>11. Valid(r) /\ Items(r) = s
    BY <1>1, <1>4, <1>6, <1>7, <1>8, <1>10, ValidItems
  <1>12. QED  BY <1>11 DEF r, s

\* Queue::PopDeref: as Pop, and the slot is erased.
LEMMA PoppedDerefRight ==
    ASSUME NEW q, Valid(q), ~IsEmpty(q)
    PROVE  Valid(PoppedDeref(q)) /\ Items(PoppedDeref(q)) = Abstract!RemovedAt(Items(q), 0)
  <1> DEFINE p == Popped(q)
             r == PoppedDeref(q)
             s == Abstract!RemovedAt(Items(q), 0)
  <1>1. Valid(p) /\ Items(p) = s
    BY PoppedRight
  <1>2. /\ q \in Members(q) /\ q.allocation_size \in Nat \ {0}
        /\ q.head \in Slots(q) /\ q.tail \in Slots(q) /\ q.head # q.tail
    BY DEF Valid, Members, IsEmpty
  <1>3. p.allocation_size = q.allocation_size /\ p.head = NextSlot(q, q.head) /\ p.tail = q.tail
    BY <1>2 DEF Popped, Members
  <1>4. p \in Members(p) /\ p.head \in Slots(p) /\ p.tail \in Slots(p) /\ Slots(p) = Slots(q)
    BY <1>1, <1>2, <1>3 DEF Valid, Slots
  <1>5. Items(p) \in Seq(Value) /\ Len(Items(p)) = Size(p) /\ Size(p) \in Nat
        /\ \A k \in 0 .. Size(p) - 1 : At(p, k) = Items(p)[k + 1]
    BY <1>1, ItemsType, SizeInRange
  <1>6. \A k \in 0 .. Size(p) - 1 : SlotAt(p, k) # q.head /\ SlotAt(p, k) \in Slots(p)
    BY <1>2, <1>3 DEF SlotAt, NextSlot, Size, Slots
  <1> HIDE DEF p
  <1>7. r = [p EXCEPT !.array[q.head] = Junk]
    BY DEF PoppedDeref, p
  <1>8. /\ r.array = [p.array EXCEPT ![q.head] = Junk] /\ r.head = p.head /\ r.tail = p.tail
        /\ r.allocation_size = p.allocation_size
        /\ r \in [array : [Slots(p) -> Value \cup {Junk}], head : Nat, tail : Nat, allocation_size : Nat]
    BY <1>4, <1>7 DEF Members
  <1> HIDE DEF r
  <1>9. /\ r \in Members(r) /\ r.head \in Slots(r) /\ r.tail \in Slots(r) /\ Size(r) = Size(p)
        /\ \A k \in 0 .. Size(p) - 1 : SlotAt(r, k) = SlotAt(p, k)
    BY <1>4, <1>8 DEF Members, Slots, Size, SlotAt
  <1>10. \A k \in 0 .. Size(p) - 1 : At(r, k) = At(p, k)
    BY <1>4, <1>6, <1>8, <1>9 DEF At, Members
  <1> HIDE DEF s
  <1>11. \A k \in 0 .. Len(s) - 1 : At(r, k) = s[k + 1]
    BY <1>1, <1>5, <1>10
  <1>12. s \in Seq(Value) /\ Size(r) = Len(s) /\ r.allocation_size > 0
    BY <1>1, <1>2, <1>3, <1>5, <1>8, <1>9
  <1>13. Valid(r) /\ Items(r) = s
    BY <1>9, <1>11, <1>12, ValidItems
  <1>14. QED  BY <1>13 DEF r, s

\* Queue::RemoveAtIndex, and PopTail for the last position.
LEMMA RemovedRight ==
    ASSUME NEW q, Valid(q), NEW position \in 0 .. Size(q) - 1
    PROVE  /\ Valid(Removed(q, position))
           /\ Items(Removed(q, position)) = Abstract!RemovedAt(Items(q), position)
  <1> DEFINE r == Removed(q, position)
             s == Abstract!RemovedAt(Items(q), position)
             n == Size(q)
             tail == SlotBefore(q, q.tail)
             Shifted(j) == LET p == PositionOf(q, j)
                           IN  IF position <= p /\ p < Size(q) - 1 THEN At(q, p + 1) ELSE q.array[j]
             shifted == [j \in DOMAIN q.array |-> Shifted(j)]
  <1>1. /\ q \in Members(q) /\ q.allocation_size \in Nat /\ n \in Nat /\ 0 < n /\ n < q.allocation_size
        /\ q.head \in Slots(q) /\ q.tail \in Slots(q) /\ position \in Nat
    BY SizeInRange DEF Valid, Members
  <1>2. tail \in Slots(q) /\ tail \in Nat
    BY <1>1, TailSlot DEF Slots
  <1>3. Items(q) \in Seq(Value) /\ Len(Items(q)) = n
    BY ItemsType
  <1>4. s \in Seq(Value) /\ Len(s) = n - 1
    BY <1>1, <1>3, RemovedType
  <1>5. \A k \in 0 .. n - 2 : s[k + 1] = IF k < position THEN At(q, k) ELSE At(q, k + 1)
    <2>1. \A k \in 0 .. n - 1 : Items(q)[k + 1] = At(q, k)
      BY <1>1, ItemsType
    <2>2. s = [k \in 1 .. n - 1 |-> IF k <= position THEN Items(q)[k] ELSE Items(q)[k + 1]]
      BY <1>3 DEF Abstract!RemovedAt
    <2> HIDE DEF s, n
    <2>3. ASSUME NEW k \in 0 .. n - 2
          PROVE  s[k + 1] = IF k < position THEN At(q, k) ELSE At(q, k + 1)
      <3>1. s[k + 1] = IF k < position THEN Items(q)[k + 1] ELSE Items(q)[k + 2]
        BY <1>1, <2>2, <2>3
      <3>2. Items(q)[k + 1] = At(q, k) /\ Items(q)[k + 2] = At(q, k + 1)
        BY <1>1, <2>1, <2>3
      <3>3. QED  BY <3>1, <3>2
    <2>4. QED  BY <2>3
  <1>6. DOMAIN q.array = Slots(q) /\ q.array \in [Slots(q) -> Value \cup {Junk}]
    BY <1>1 DEF Members
  <1>7. shifted \in [Slots(q) -> Value \cup {Junk}]
    <2>1. \A k \in 0 .. n - 1 : At(q, k) \in Value
      BY DEF Valid
    <2>2. ASSUME NEW j \in Slots(q)
          PROVE  Shifted(j) \in Value \cup {Junk}
      <3>1. PositionOf(q, j) \in Int
        BY <1>1, <2>2, PositionOfSlot DEF Slots
      <3> HIDE DEF n
      <3>2. CASE position <= PositionOf(q, j) /\ PositionOf(q, j) < n - 1
        <4>1. PositionOf(q, j) + 1 \in 0 .. n - 1
          BY <1>1, <3>1, <3>2
        <4>2. Shifted(j) = At(q, PositionOf(q, j) + 1)
          BY <3>2 DEF n
        <4>3. QED  BY <2>1, <4>1, <4>2
      <3>3. CASE ~(position <= PositionOf(q, j) /\ PositionOf(q, j) < n - 1)
        BY <1>6, <3>3 DEF n
      <3>4. QED  BY <3>2, <3>3
    <2>3. QED  BY <1>6, <2>2
  <1>8. r = [q EXCEPT !.tail = tail, !.array = shifted]
    BY DEF Removed
  <1> HIDE DEF tail, shifted
  <1>9. /\ r.array = shifted /\ r.head = q.head /\ r.tail = tail /\ r.allocation_size = q.allocation_size
        /\ r \in [array : [Slots(q) -> Value \cup {Junk}], head : Nat, tail : Nat, allocation_size : Nat]
    BY <1>1, <1>2, <1>7, <1>8 DEF Members
  <1> HIDE DEF r, n
  <1>10. r \in Members(r) /\ r.head \in Slots(r) /\ r.tail \in Slots(r)
    BY <1>1, <1>2, <1>9 DEF Members, Slots
  <1>11. Size(r) = n - 1
    <2>1. q.head \in 0 .. q.allocation_size - 1 /\ q.tail \in 0 .. q.allocation_size - 1 /\ q.head # q.tail
      BY <1>1 DEF Slots, n, Size
    <2>2. CASE q.tail = 0
      BY <1>9, <2>1, <2>2 DEF Size, n, tail, SlotBefore
    <2>3. CASE q.tail # 0
      BY <1>9, <2>1, <2>3 DEF Size, n, tail, SlotBefore
    <2>4. QED  BY <2>2, <2>3
  <1>12. \A k \in 0 .. n - 2 : At(r, k) = s[k + 1]
    <2>1. TAKE k \in 0 .. n - 2
    <2>2. k \in Slots(q) /\ SlotAt(r, k) = SlotAt(q, k)
      BY <1>1, <1>9 DEF Slots, SlotAt
    <2>3. SlotAt(q, k) \in Slots(q) /\ PositionOf(q, SlotAt(q, k)) = k
      BY <1>1, <2>2, SlotOfPosition
    <2>4. At(r, k) = Shifted(SlotAt(q, k))
      BY <1>6, <1>9, <2>2, <2>3 DEF At, shifted
    <2>5. CASE k < position
      <3>1. At(r, k) = q.array[SlotAt(q, k)]
        BY <1>1, <2>3, <2>4, <2>5
      <3>2. QED  BY <1>5, <2>5, <3>1 DEF At
    <2>6. CASE ~(k < position)
      <3>1. At(r, k) = At(q, k + 1)
        BY <1>1, <2>3, <2>4, <2>6 DEF n
      <3>2. QED  BY <1>5, <2>6, <3>1
    <2>7. QED  BY <2>5, <2>6
  <1> HIDE DEF s
  <1>13. Valid(r) /\ Items(r) = s
    BY <1>1, <1>4, <1>9, <1>10, <1>11, <1>12, ValidItems
  <1>14. QED  BY <1>13 DEF r, s

\* Queue::PopTail: tail moves back.
LEMMA PoppedTailRight ==
    ASSUME NEW q, Valid(q), ~IsEmpty(q)
    PROVE  Valid(PoppedTail(q)) /\ Items(PoppedTail(q)) = Abstract!RemovedAt(Items(q), Size(q) - 1)
  <1> DEFINE r == PoppedTail(q)
             n == Size(q)
             s == Abstract!RemovedAt(Items(q), n - 1)
             tail == SlotBefore(q, q.tail)
  <1>1. /\ q \in Members(q) /\ q.allocation_size \in Nat /\ n \in Nat /\ 0 < n /\ n < q.allocation_size
        /\ q.head \in Slots(q) /\ q.tail \in Slots(q)
    BY SizeInRange DEF Valid, Members
  <1>2. tail \in Slots(q) /\ tail \in Nat
    BY <1>1, TailSlot DEF Slots
  <1>3. Items(q) \in Seq(Value) /\ Len(Items(q)) = n /\ n - 1 \in 0 .. Len(Items(q)) - 1
    BY <1>1, ItemsType
  <1>4. s \in Seq(Value) /\ Len(s) = n - 1
    BY <1>3, RemovedType
  <1>5. \A k \in 0 .. n - 2 : s[k + 1] = At(q, k)
    <2>1. \A k \in 0 .. n - 1 : Items(q)[k + 1] = At(q, k)
      BY <1>1, ItemsType
    <2>2. s = [k \in 1 .. n - 1 |-> IF k <= n - 1 THEN Items(q)[k] ELSE Items(q)[k + 1]]
      BY <1>3 DEF Abstract!RemovedAt
    <2> HIDE DEF s, n
    <2>3. QED  BY <1>1, <2>1, <2>2
  <1> HIDE DEF tail
  <1>6. /\ r.array = q.array /\ r.head = q.head /\ r.tail = tail /\ r.allocation_size = q.allocation_size
        /\ r \in [array : [Slots(q) -> Value \cup {Junk}], head : Nat, tail : Nat, allocation_size : Nat]
    BY <1>1, <1>2 DEF PoppedTail, Members, tail
  <1> HIDE DEF r, n
  <1>7. r \in Members(r) /\ r.head \in Slots(r) /\ r.tail \in Slots(r)
    BY <1>1, <1>2, <1>6 DEF Members, Slots
  <1>8. Size(r) = n - 1
    <2>1. q.head \in 0 .. q.allocation_size - 1 /\ q.tail \in 0 .. q.allocation_size - 1 /\ q.head # q.tail
      BY <1>1 DEF Slots, n, Size
    <2>2. CASE q.tail = 0
      BY <1>6, <2>1, <2>2 DEF Size, n, tail, SlotBefore
    <2>3. CASE q.tail # 0
      BY <1>6, <2>1, <2>3 DEF Size, n, tail, SlotBefore
    <2>4. QED  BY <2>2, <2>3
  <1>9. \A k \in 0 .. Len(s) - 1 : At(r, k) = s[k + 1]
    BY <1>1, <1>4, <1>5, <1>6 DEF At, SlotAt
  <1> HIDE DEF s
  <1>10. Valid(r) /\ Items(r) = s
    <2>1. s \in Seq(Value) /\ r.allocation_size > 0 /\ Size(r) = Len(s)
      BY <1>1, <1>4, <1>6, <1>8
    <2>2. QED  BY ONLY <1>7, <1>9, <2>1, ValidItems
  <1>11. QED  BY <1>10 DEF r, s, n

\* A queue that was just built, and one whose indexes were reset.
LEMMA EmptyRight ==
    ASSUME NEW q, q \in Members(q), q.head = 0, q.tail = 0
    PROVE  Valid(q) /\ Items(q) = <<>>
  <1>1. Size(q) = 0
    BY DEF Size
  <1>2. Valid(q)
    BY <1>1 DEF Valid, Members, Slots
  <1>3. Items(q) \in Seq(Value) /\ Len(Items(q)) = 0
    BY <1>1, <1>2, ItemsType
  <1>4. QED  BY <1>2, <1>3

\* The default constructor.
LEMMA EmptyMembers == Empty \in Members(Empty) /\ Empty.head = 0 /\ Empty.tail = 0
  <1>1. Slots(Empty) = {}
    BY DEF Slots, Empty
  <1>2. QED  BY <1>1 DEF Members, Empty

\* Queue::Clear.
LEMMA ClearedRight ==
    ASSUME NEW q, Valid(q)
    PROVE  Valid(Cleared(q)) /\ Items(Cleared(q)) = <<>>
  <1>1. CASE Frees(q)
    BY <1>1, EmptyMembers, EmptyRight DEF Cleared
  <1>2. CASE ~Frees(q)
    <2> DEFINE r == [q EXCEPT !.head = 0, !.tail = 0]
    <2>1. q \in Members(q)
      BY DEF Valid
    <2>2. /\ r.head = 0 /\ r.tail = 0 /\ r.allocation_size = q.allocation_size
          /\ r \in [array : [Slots(q) -> Value \cup {Junk}], head : Nat, tail : Nat, allocation_size : Nat]
      BY <2>1 DEF Members
    <2> HIDE DEF r
    <2>3. r \in Members(r)
      BY <2>2 DEF Members, Slots
    <2>4. Valid(r) /\ Items(r) = <<>>
      BY <2>2, <2>3, EmptyRight
    <2>5. QED  BY <1>2, <2>4 DEF Cleared, r
  <1>3. QED  BY <1>1, <1>2

\* Queue::Compress.
LEMMA CompressedRight ==
    ASSUME NEW q, Valid(q), Size(q) <= MaxSize
    PROVE  Valid(Compressed(q)) /\ Items(Compressed(q)) = Items(q)
  <1>1. CASE q.allocation_size = 0
    BY <1>1 DEF Compressed
  <1>2. CASE q.allocation_size # 0
    <2>1. Size(q) \in 0 .. MaxSize
      BY SizeInRange, QueueAssumption
    <2>2. Doubled(Size(q)) \in Nat /\ Size(q) < Doubled(Size(q))
      BY <2>1, DoubledAbove, QueueAssumption
    <2>3. \A k \in 0 .. Size(q) - 1 : At(q, k) \in Value
      BY DEF Valid
    <2>4. QED  BY <1>2, <2>1, <2>2, <2>3, MovedRight DEF Compressed, Items
  <1>3. QED  BY <1>1, <1>2

\* Queue::ClearAndForceAllocation.
LEMMA ForcedRight ==
    ASSUME NEW size \in Nat
    PROVE  Valid(Forced(size)) /\ Items(Forced(size)) = <<>>
  <1> DEFINE r == Forced(size)
  <1>1. r.head = 0 /\ r.tail = 0 /\ r.allocation_size = size /\ r \in Members(r)
    BY DEF Forced, Members, Slots
  <1>2. QED  BY <1>1, EmptyRight

\* Queue::operator=, from an empty queue and from one with an element.
LEMMA CopyRight ==
    ASSUME NEW q, Valid(q), NEW s, NEW x \in Value, s = <<>> \/ s = <<x>>
    PROVE  LET original == [array |-> [j \in 0 .. Len(s) |-> IF j < Len(s) THEN s[j + 1] ELSE Junk],
                            head |-> 0, tail |-> Len(s), allocation_size |-> Len(s) + 1]
           IN  Valid(CopyOf(q, original)) /\ Items(CopyOf(q, original)) = s
  <1> DEFINE original == [array |-> [j \in 0 .. Len(s) |-> IF j < Len(s) THEN s[j + 1] ELSE Junk],
                          head |-> 0, tail |-> Len(s), allocation_size |-> Len(s) + 1]
             r == CopyOf(q, original)
  <1>1. s \in Seq(Value) /\ Len(s) \in 0 .. 1 /\ Size(original) = Len(s)
    <2>1. s \in Seq(Value) /\ Len(s) \in 0 .. 1
      <3>1. CASE s = <<>>
        BY <3>1
      <3>2. CASE s = <<x>>
        BY <3>2
      <3>3. QED  BY <3>1, <3>2
    <2>2. original.head = 0 /\ original.tail = Len(s)
      OBVIOUS
    <2>3. QED  BY <2>1, <2>2 DEF Size
  <1>2. CASE s = <<>>
    <2> DEFINE c == Cleared(q)
    <2>1. c \in Members(c) /\ c.head = 0 /\ c.tail = 0
      <3>1. CASE Frees(q)
        BY <3>1, EmptyMembers DEF Cleared
      <3>2. CASE ~Frees(q)
        BY <3>2, ClearedRight DEF Cleared, Valid, Members
      <3>3. QED  BY <3>1, <3>2
    <2>2. r = [c EXCEPT !.allocation_size = 0, !.array = Empty.array]
      BY <1>1, <1>2 DEF CopyOf
    <2> HIDE DEF c, r
    <2>3. Empty.array \in [{} -> Value \cup {Junk}]
      BY DEF Empty
    <2>4. /\ r.head = 0 /\ r.tail = 0 /\ r.allocation_size = 0
          /\ r \in [array : [{} -> Value \cup {Junk}], head : Nat, tail : Nat, allocation_size : Nat]
      BY <2>1, <2>2, <2>3 DEF Members
    <2>5. Slots(r) = {}
      BY <2>4 DEF Slots
    <2>6. r \in Members(r)
      BY <2>4, <2>5 DEF Members
    <2>7. QED  BY <1>2, <2>4, <2>6, EmptyRight DEF r
  <1>3. CASE s = <<x>>
    <2>1. Len(s) = 1 /\ s[1] = x
      BY <1>3
    <2>2. r = Moved(original, 1, 2)
      BY <1>1, <2>1 DEF CopyOf
    <2>3. At(original, 0) = x
      BY <2>1 DEF At, SlotAt
    <2> HIDE DEF original
    <2>4. \A k \in 0 .. 1 - 1 : At(original, k) \in Value
      BY <2>3
    <2>5. Valid(r) /\ Items(r) = [k \in 1 .. 1 |-> At(original, k - 1)]
      BY <2>2, <2>4, MovedRight
    <2>6. Items(r) \in Seq(Value) /\ Len(Items(r)) = 1 /\ Items(r)[1] = x
      BY <2>3, <2>5
    <2>7. Items(r) = s
      BY <1>1, <2>1, <2>6
    <2>8. QED  BY <2>5, <2>7 DEF original
  <1>4. QED  BY <1>2, <1>3

-----------------------------------------------------------------------------
(* The specification.                                                      *)

\* The invariant of the proofs: the members are right and the bound is kept.
Sound == TypeOK /\ Size(queue) <= MaxSize

\* Push and PushAtHead.
LEMMA PushSteps ==
    ASSUME Sound, NEW x \in Value
    PROVE  /\ Push(x) => Sound' /\ Abstract!Push(x)
           /\ \A i \in 0 .. MaxSize : PushAtHead(x, i) => Sound' /\ Abstract!PushAtHead(x, i)
  <1>1. Valid(queue) /\ Size(queue) \in Nat /\ Len(Items(queue)) = Size(queue)
    BY SizeInRange, ItemsType DEF Sound, TypeOK
  <1>2. ASSUME Push(x)
        PROVE  Sound' /\ Abstract!Push(x)
    <2>1. queue' = Pushed(queue, x) /\ Size(queue) < MaxSize
      BY <1>2 DEF Push
    <2>2. /\ Valid(queue') /\ Size(queue') = Size(queue) + 1
          /\ Items(queue') = Abstract!InsertedAt(Items(queue), x, Size(queue))
      BY <1>1, <2>1, PushedRight
    <2>3. QED  BY <1>1, <2>1, <2>2, QueueAssumption DEF Sound, TypeOK, Abstract!Push
  <1>3. ASSUME NEW i \in 0 .. MaxSize, PushAtHead(x, i)
        PROVE  Sound' /\ Abstract!PushAtHead(x, i)
    <2>1. queue' = PushedAtHead(queue, x, i) /\ Size(queue) < MaxSize /\ i \in 0 .. Size(queue)
      BY <1>1, <1>3 DEF PushAtHead
    <2>2. /\ Valid(queue')
          /\ Items(queue') = Abstract!InsertedAt(Items(queue), x, i)
      BY <1>1, <2>1, PushedAtHeadRight
    <2>3. Items(queue) \in Seq(Value) /\ i \in 0 .. Len(Items(queue))
      BY <1>1, <2>1, ItemsType
    <2>4. Len(Items(queue')) = Size(queue) + 1
      BY <1>1, <2>2, <2>3, InsertedType
    <2>5. Size(queue') = Size(queue) + 1
      BY <2>2, <2>4, ItemsType
    <2>6. QED  BY <1>1, <2>1, <2>2, <2>5, QueueAssumption DEF Sound, TypeOK, Abstract!PushAtHead
  <1>4. QED  BY <1>2, <1>3

\* What removes an element leaves one less.
LEMMA OneLess ==
    ASSUME NEW q, NEW r, Valid(q), Valid(r), NEW position \in 0 .. Size(q) - 1,
           Items(r) = Abstract!RemovedAt(Items(q), position)
    PROVE  Size(r) = Size(q) - 1
  <1>1. Items(q) \in Seq(Value) /\ Len(Items(q)) = Size(q)
    BY ItemsType
  <1>2. Len(Items(r)) = Size(q) - 1
    BY <1>1, RemovedType
  <1>3. QED  BY <1>2, ItemsType

\* Pop, PopDeref, PopTail and RemoveAtIndex.
LEMMA RemoveSteps ==
    ASSUME Sound
    PROVE  /\ Pop \/ PopDeref => Sound' /\ Abstract!Pop
           /\ PopTail => Sound' /\ Abstract!PopTail
           /\ \A i \in 0 .. MaxSize : RemoveAtIndex(i) => Sound' /\ Abstract!RemoveAtIndex(i)
  <1>1. /\ Valid(queue) /\ Size(queue) \in Nat /\ Size(queue) <= MaxSize
        /\ Len(Items(queue)) = Size(queue) /\ Items(queue) \in Seq(Value)
    BY SizeInRange, ItemsType DEF Sound, TypeOK
  <1>2. ASSUME Pop \/ PopDeref
        PROVE  Sound' /\ Abstract!Pop
    <2>1. ~IsEmpty(queue) /\ (queue' = Popped(queue) \/ queue' = PoppedDeref(queue))
      BY <1>2 DEF Pop, PopDeref
    <2>2. 0 \in 0 .. Size(queue) - 1
      BY <1>1, <2>1, SizeInRange
    <2>3. Valid(queue') /\ Items(queue') = Abstract!RemovedAt(Items(queue), 0)
      BY <1>1, <2>1, PoppedRight, PoppedDerefRight
    <2>4. Size(queue') = Size(queue) - 1
      BY <1>1, <2>2, <2>3, OneLess
    <2>5. QED
      BY <1>1, <2>2, <2>3, <2>4, QueueAssumption
      DEF Sound, TypeOK, Abstract!Pop, Abstract!RemoveAtIndex
  <1>3. ASSUME PopTail
        PROVE  Sound' /\ Abstract!PopTail
    <2>1. ~IsEmpty(queue) /\ queue' = PoppedTail(queue)
      BY <1>3 DEF PopTail
    <2>2. Size(queue) - 1 \in 0 .. Size(queue) - 1
      BY <1>1, <2>1, SizeInRange
    <2>3. Valid(queue') /\ Items(queue') = Abstract!RemovedAt(Items(queue), Size(queue) - 1)
      BY <1>1, <2>1, PoppedTailRight
    <2>4. Size(queue') = Size(queue) - 1
      BY <1>1, <2>2, <2>3, OneLess
    <2>5. Items(queue) # <<>>
      BY <1>1, <2>2
    <2>6. QED  BY <1>1, <2>3, <2>4, <2>5, QueueAssumption DEF Sound, TypeOK, Abstract!PopTail
  <1>4. ASSUME NEW i \in 0 .. MaxSize, RemoveAtIndex(i)
        PROVE  Sound' /\ Abstract!RemoveAtIndex(i)
    <2>1. i \in 0 .. Size(queue) - 1 /\ queue' = Removed(queue, i)
      BY <1>1, <1>4 DEF RemoveAtIndex
    <2>2. Valid(queue') /\ Items(queue') = Abstract!RemovedAt(Items(queue), i)
      BY <1>1, <2>1, RemovedRight
    <2>3. Size(queue') = Size(queue) - 1
      BY <1>1, <2>1, <2>2, OneLess
    <2>4. QED
      BY <1>1, <2>1, <2>2, <2>3, QueueAssumption DEF Sound, TypeOK, Abstract!RemoveAtIndex
  <1>5. QED  BY <1>2, <1>3, <1>4

\* A queue without elements has size 0, and so on.
LEMMA SizeFromItems ==
    ASSUME NEW q, Valid(q), NEW s, Items(q) = s
    PROVE  Len(s) = Size(q)
  BY ItemsType

\* Clear, Compress, ClearAndForceAllocation and operator=.
LEMMA WholeSteps ==
    ASSUME Sound
    PROVE  /\ Clear => Sound' /\ Abstract!Clear
           /\ \A size \in 0 .. FirstAllocation :
                 ClearAndForceAllocation(size) => Sound' /\ Abstract!Clear
           /\ Compress => Sound' /\ UNCHANGED Items(queue)
           /\ \A x \in Value : /\ AssignFrom(<<x>>) => Sound' /\ Items(queue') = <<x>>
                               /\ AssignFrom(<<>>) => Sound'
  <1>1. Valid(queue) /\ Size(queue) <= MaxSize /\ Size(queue) \in Nat
    BY SizeInRange DEF Sound, TypeOK
  <1>2. ASSUME Clear
        PROVE  Sound' /\ Abstract!Clear
    <2>1. queue' = Cleared(queue)
      BY <1>2 DEF Clear
    <2>2. Valid(queue') /\ Items(queue') = <<>>
      BY <1>1, <2>1, ClearedRight
    <2>3. Size(queue') = 0
      BY <2>2, SizeFromItems
    <2>4. QED  BY <2>2, <2>3, QueueAssumption DEF Sound, TypeOK, Abstract!Clear
  <1>3. ASSUME NEW size \in 0 .. FirstAllocation, ClearAndForceAllocation(size)
        PROVE  Sound' /\ Abstract!Clear
    <2>1. queue' = Forced(size) /\ size \in Nat
      BY <1>3, QueueAssumption DEF ClearAndForceAllocation
    <2>2. Valid(queue') /\ Items(queue') = <<>>
      BY <2>1, ForcedRight
    <2>3. Size(queue') = 0
      BY <2>2, SizeFromItems
    <2>4. QED  BY <2>2, <2>3, QueueAssumption DEF Sound, TypeOK, Abstract!Clear
  <1>4. ASSUME Compress
        PROVE  Sound' /\ UNCHANGED Items(queue)
    <2>1. queue' = Compressed(queue)
      BY <1>4 DEF Compress
    <2>2. Valid(queue') /\ Items(queue') = Items(queue)
      BY <1>1, <2>1, CompressedRight
    <2>3. Size(queue') = Size(queue)
      BY <1>1, <2>2, SizeFromItems, ItemsType
    <2>4. QED  BY <1>1, <2>2, <2>3 DEF Sound, TypeOK
  <1>5. ASSUME NEW x \in Value, NEW s, s = <<>> \/ s = <<x>>, AssignFrom(s)
        PROVE  Sound' /\ Items(queue') = s
    <2> DEFINE original == [array |-> [j \in 0 .. Len(s) |-> IF j < Len(s) THEN s[j + 1] ELSE Junk],
                            head |-> 0, tail |-> Len(s), allocation_size |-> Len(s) + 1]
    <2>1. queue' = CopyOf(queue, original)
      BY <1>5 DEF AssignFrom
    <2>2. Valid(CopyOf(queue, original)) /\ Items(CopyOf(queue, original)) = s
      BY <1>1, <1>5, CopyRight
    <2>3. Valid(queue') /\ Items(queue') = s
      BY <2>1, <2>2
    <2>4. Size(queue') \in 0 .. 1
      <3>1. Len(s) \in 0 .. 1
        BY <1>5
      <3>2. QED  BY <2>3, <3>1, SizeFromItems
    <2>5. QED  BY <2>3, <2>4, QueueAssumption DEF Sound, TypeOK
  <1>6. QED  BY <1>2, <1>3, <1>4, <1>5

\* Every step keeps the invariant.
LEMMA SoundInductive == Sound /\ [Next]_vars => Sound'
  <1> SUFFICES ASSUME Sound, [Next]_vars PROVE Sound'
    OBVIOUS
  <1>1. CASE \E x \in Value : Push(x) \/ \E i \in 0 .. MaxSize : PushAtHead(x, i)
    BY <1>1, PushSteps
  <1>2. CASE Pop \/ PopTail \/ PopDeref \/ \E i \in 0 .. MaxSize : RemoveAtIndex(i)
    BY <1>2, RemoveSteps
  <1>3. CASE Clear \/ Compress \/ \E size \in 0 .. FirstAllocation : ClearAndForceAllocation(size)
    BY <1>3, WholeSteps
  <1>4. CASE \E x \in Value : AssignFrom(<<>>) \/ AssignFrom(<<x>>)
    BY <1>4, WholeSteps
  <1>5. CASE UNCHANGED vars
    BY <1>5 DEF vars, Sound, TypeOK
  <1>6. QED  BY <1>1, <1>2, <1>3, <1>4, <1>5 DEF Next

\* A new queue is empty.
LEMMA SoundInitially == Init => Sound
  <1> SUFFICES ASSUME Init PROVE Sound
    OBVIOUS
  <1>1. Valid(queue)
    BY EmptyMembers, EmptyRight DEF Init
  <1>2. Size(queue) = 0
    BY EmptyMembers DEF Init, Size
  <1>3. QED  BY <1>1, <1>2, QueueAssumption DEF Sound, TypeOK

\* Queue: head and tail are slots of the array, and every element in it was
\* written by a Push, for every first size of the array and every bound.
THEOREM TypeCorrect == Spec => []TypeOK
  <1>1. Sound => TypeOK
    BY DEF Sound
  <1>2. QED  BY <1>1, SoundInitially, SoundInductive, PTL DEF Spec

\* Queue: every method does to the elements what the same operation does to a
\* sequence, wherever they are in the array and whether or not it is replaced.
THEOREM QueueImplementsSequence == Spec => ImplementsSequence
  <1> DEFINE Step ==
        \/ UNCHANGED vars
        \/ /\ \A x \in Value : /\ Push(x) => Abstract!Push(x)
                               /\ \A i \in 0 .. MaxSize : PushAtHead(x, i) => Abstract!PushAtHead(x, i)
                               /\ AssignFrom(<<x>>) => Items(queue') = <<x>>
           /\ Pop \/ PopDeref => Abstract!Pop
           /\ PopTail => Abstract!PopTail
           /\ \A i \in 0 .. MaxSize : RemoveAtIndex(i) => Abstract!RemoveAtIndex(i)
           /\ Clear => Abstract!Clear
           /\ \A size \in 0 .. FirstAllocation : ClearAndForceAllocation(size) => Abstract!Clear
           /\ Compress => UNCHANGED Items(queue)
  <1>1. Sound => Step
    BY PushSteps, RemoveSteps, WholeSteps
  <1> HIDE DEF Step
  <1>2. Spec => [][Step]_vars
    BY <1>1, SoundInitially, SoundInductive, PTL DEF Spec
  <1>3. QED  BY <1>2, PTL DEF ImplementsSequence, Step
=============================================================================
