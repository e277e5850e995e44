-------------------------- MODULE UpdateRoundsProofs --------------------------
(***************************************************************************)
(* What every session leaves behind, for any directories, clients, edits   *)
(* and kills: the directories of the clients stay trees, and a client that *)
(* finishes has the files that were current when they were sent.           *)
(***************************************************************************)
EXTENDS UpdateRounds, FiniteSetTheorems, SequenceTheorems, TLAPS

-----------------------------------------------------------------------------
(* Induction, of a set of numbers.                                         *)

LEMMA SetInduction ==
    ASSUME NEW S, 0 \in S, \A n \in Nat : n \in S => n + 1 \in S
    PROVE  Nat \subseteq S
  <1> SUFFICES ASSUME NEW m \in Nat, m \notin S
               PROVE  FALSE
    OBVIOUS
  <1> DEFINE A == {n \in 0 .. m : n \in S}
             up == [n \in A |-> n + 1]
  <1>1. IsFiniteSet(A)
    <2>1. IsFiniteSet(0 .. m)
      BY FS_Interval
    <2>2. QED  BY <2>1, FS_Subset
  <1>2. 0 \in A /\ up \in [A -> A \ {0}] /\ \A x, y \in A : up[x] = up[y] => x = y
    OBVIOUS
  <1> HIDE DEF A, up
  <1>3. IsFiniteSet(A \ {0}) /\ Cardinality(A \ {0}) < Cardinality(A)
    <2>1. Cardinality(A) \in Nat
      BY <1>1, FS_CardinalityType
    <2>2. 0 \in A
      BY <1>2
    <2>3. IsFiniteSet(A \ {0}) /\ Cardinality(A \ {0}) = Cardinality(A) - 1
      BY <1>1, <2>2, FS_RemoveElement
    <2>4. QED  BY <2>1, <2>3
  <1>4. QED  BY <1>1, <1>2, <1>3, FS_PigeonHole

\* A loop of n rounds over states in X has a result in each round.
Loop(g, n, first, step) ==
    g[0] = first /\ \A i \in 1 .. n : g[i] = step[i][g[i - 1]]

LEMMA LoopRuns ==
    ASSUME NEW n \in Nat, NEW X, NEW first \in X, NEW step,
           \A i \in 1 .. n : step[i] \in [X -> X]
    PROVE  \E g \in [0 .. n -> X] : Loop(g, n, first, step)
  <1> DEFINE S == {k \in Nat : k <= n => \E g \in [0 .. k -> X] : Loop(g, k, first, step)}
  <1>1. 0 \in S
    <2> DEFINE g == [i \in 0 .. 0 |-> first]
    <2>1. g \in [0 .. 0 -> X] /\ Loop(g, 0, first, step)
      BY DEF Loop
    <2>2. QED  BY <2>1
  <1>2. ASSUME NEW k \in Nat, k \in S
        PROVE  k + 1 \in S
    <2>1. SUFFICES ASSUME k + 1 <= n
                   PROVE  \E g \in [0 .. k + 1 -> X] : Loop(g, k + 1, first, step)
      OBVIOUS
    <2>2. PICK g \in [0 .. k -> X] : Loop(g, k, first, step)
      BY <1>2, <2>1
    <2> DEFINE h == [i \in 0 .. k + 1 |-> IF i <= k THEN g[i] ELSE step[k + 1][g[k]]]
    <2>3. step[k + 1][g[k]] \in X
      <3>1. step[k + 1] \in [X -> X] /\ g[k] \in X
        BY <2>1, <2>2
      <3>2. QED  BY <3>1
    <2>4. h \in [0 .. k + 1 -> X]
      BY <2>2, <2>3
    <2>5. ASSUME NEW i \in 1 .. k + 1
          PROVE  h[i] = step[i][h[i - 1]]
      <3>1. CASE i <= k
        <4>1. h[i] = g[i] /\ h[i - 1] = g[i - 1] /\ i \in 1 .. k
          BY <3>1
        <4>2. QED  BY <2>2, <4>1 DEF Loop
      <3>2. CASE i = k + 1
        <4>1. h[i] = step[k + 1][g[k]] /\ h[i - 1] = g[k]
          BY <3>2
        <4>2. QED  BY <3>2, <4>1
      <3>3. QED  BY <3>1, <3>2
    <2>6. h[0] = first
      BY <2>2 DEF Loop
    <2>7. QED  BY <2>4, <2>5, <2>6 DEF Loop
  <1>3. n \in S
    <2> HIDE DEF S
    <2>1. QED  BY <1>1, <1>2, SetInduction
  <1>4. QED  BY <1>3

-----------------------------------------------------------------------------
(* Lists.                                                                  *)

IsSeq(l) == l \in Seq(Range(l))

\* No two entries are of the same path.
Unique(l) == \A i, j \in DOMAIN l : l[i][1] = l[j][1] => i = j

LEMMA SeqIs ==
    ASSUME NEW l, NEW T, l \in Seq(T)
    PROVE  IsSeq(l) /\ Range(l) \subseteq T
  BY SeqOfRange, RangeOfSeq DEF IsSeq, Range

LEMMA Domain ==
    ASSUME NEW l, IsSeq(l)
    PROVE  Len(l) \in Nat /\ DOMAIN l = 1 .. Len(l) /\ l \in [1 .. Len(l) -> Range(l)]
  BY LenProperties DEF IsSeq

LEMMA NothingIn ==
    IsSeq(<<>>) /\ Range(<<>>) = {} /\ Unique(<<>>) /\ Len(<<>>) = 0
  BY DEF IsSeq, Range, Unique

LEMMA Appended ==
    ASSUME NEW l, IsSeq(l), NEW x
    PROVE  /\ IsSeq(Append(l, x)) /\ Append(l, x) # <<>>
           /\ Range(Append(l, x)) = Range(l) \cup {x}
           /\ Len(Append(l, x)) = Len(l) + 1 /\ Append(l, x)[Len(l) + 1] = x
           /\ \A i \in 1 .. Len(l) : Append(l, x)[i] = l[i]
  <1> DEFINE T == Range(l) \cup {x}
             m == Append(l, x)
  <1>1. l \in Seq(T)
    BY SeqMonotonic DEF IsSeq
  <1>2. /\ m \in Seq(T) /\ m # <<>> /\ Len(m) = Len(l) + 1
        /\ \A i \in 1 .. Len(l) : m[i] = l[i]
        /\ m[Len(l) + 1] = x
    BY <1>1, AppendProperties
  <1>3. Len(l) \in Nat /\ DOMAIN l = 1 .. Len(l) /\ DOMAIN m = 1 .. Len(m)
    BY <1>1, <1>2, LenProperties
  <1> HIDE DEF m
  <1>4. IsSeq(m) /\ Range(m) \subseteq T
    BY <1>2, SeqIs
  <1>5. T \subseteq Range(m)
    <2>1. ASSUME NEW i \in 1 .. Len(l)
          PROVE  l[i] \in Range(m)
      <3>1. m[i] = l[i] /\ i \in DOMAIN m
        BY <1>2, <1>3
      <3>2. QED  BY <3>1 DEF Range
    <2>2. x \in Range(m)
      <3>1. Len(l) + 1 \in DOMAIN m
        BY <1>2, <1>3
      <3>2. QED  BY <1>2, <3>1 DEF Range
    <2>3. QED  BY <1>3, <2>1, <2>2 DEF Range
  <1>6. QED  BY <1>2, <1>4, <1>5 DEF m

LEMMA Joined ==
    ASSUME NEW l, NEW k, IsSeq(l), IsSeq(k)
    PROVE  IsSeq(l \o k) /\ Range(l \o k) = Range(l) \cup Range(k)
  <1> DEFINE T == Range(l) \cup Range(k)
             m == l \o k
  <1>1. l \in Seq(T) /\ k \in Seq(T)
    BY SeqMonotonic DEF IsSeq
  <1>2. /\ m \in Seq(T) /\ Len(m) = Len(l) + Len(k)
        /\ \A i \in 1 .. Len(l) + Len(k) : m[i] = IF i <= Len(l) THEN l[i] ELSE k[i - Len(l)]
    BY <1>1, ConcatProperties
  <1>3. /\ Len(l) \in Nat /\ DOMAIN l = 1 .. Len(l) /\ DOMAIN m = 1 .. Len(m)
        /\ Len(k) \in Nat /\ DOMAIN k = 1 .. Len(k)
    BY <1>1, <1>2, LenProperties
  <1> HIDE DEF m
  <1>4. IsSeq(m) /\ Range(m) \subseteq T
    BY <1>2, SeqIs
  <1>5. ASSUME NEW i \in 1 .. Len(l)
        PROVE  l[i] \in Range(m)
    <2>1. m[i] = l[i] /\ i \in DOMAIN m
      BY <1>2, <1>3
    <2>2. QED  BY <2>1 DEF Range
  <1>6. ASSUME NEW i \in 1 .. Len(k)
        PROVE  k[i] \in Range(m)
    <2>1. m[Len(l) + i] = k[i] /\ Len(l) + i \in DOMAIN m
      BY <1>2, <1>3
    <2>2. QED  BY <2>1 DEF Range
  <1>7. T \subseteq Range(m)
    BY <1>3, <1>5, <1>6 DEF Range
  <1>8. QED  BY <1>4, <1>7 DEF m

LEMMA Rest ==
    ASSUME NEW l, IsSeq(l), l # <<>>
    PROVE  IsSeq(Tail(l)) /\ Range(l) = {Head(l)} \cup Range(Tail(l))
  <1> DEFINE T == Range(l)
             m == Tail(l)
  <1>1. /\ Head(l) \in T /\ m \in Seq(T) /\ Len(m) = Len(l) - 1
        /\ \A i \in 1 .. Len(m) : m[i] = l[i + 1]
    BY HeadTailProperties DEF IsSeq
  <1>2. Len(l) \in Nat /\ DOMAIN l = 1 .. Len(l) /\ DOMAIN m = 1 .. Len(m) /\ Len(m) \in Nat
    BY <1>1, LenProperties DEF IsSeq
  <1>3. Head(l) = l[1]
    BY DEF IsSeq
  <1> HIDE DEF m
  <1>4. IsSeq(m) /\ Range(m) \subseteq T
    BY <1>1, SeqIs
  <1>5. ASSUME NEW i \in 1 .. Len(l), i # 1
        PROVE  l[i] \in Range(m)
    <2>1. m[i - 1] = l[i] /\ i - 1 \in DOMAIN m
      BY <1>1, <1>2, <1>5
    <2>2. QED  BY <2>1 DEF Range
  <1>6. T \subseteq {Head(l)} \cup Range(m)
    BY <1>2, <1>3, <1>5 DEF Range
  <1>7. QED  BY <1>1, <1>4, <1>6 DEF m

LEMMA AppendedUnique ==
    ASSUME NEW l, IsSeq(l), Unique(l), NEW x, \A e \in Range(l) : e[1] # x[1]
    PROVE  Unique(Append(l, x))
  <1> DEFINE m == Append(l, x)
  <1>1. /\ IsSeq(m) /\ Len(m) = Len(l) + 1 /\ m[Len(l) + 1] = x
        /\ \A i \in 1 .. Len(l) : m[i] = l[i]
    BY Appended
  <1> HIDE DEF m
  <1>2. Len(l) \in Nat /\ DOMAIN l = 1 .. Len(l) /\ DOMAIN m = 1 .. Len(l) + 1
    BY <1>1, Domain
  <1>3. \A i \in 1 .. Len(l) : l[i][1] # x[1]
    BY <1>2 DEF Range
  <1>4. SUFFICES ASSUME NEW i \in 1 .. Len(l) + 1, NEW j \in 1 .. Len(l) + 1, m[i][1] = m[j][1]
                 PROVE  i = j
    BY <1>2 DEF Unique, m
  <1>5. CASE i \in 1 .. Len(l) /\ j \in 1 .. Len(l)
    BY <1>1, <1>2, <1>4, <1>5 DEF Unique
  <1>6. CASE i = Len(l) + 1 /\ j \in 1 .. Len(l)
    BY <1>1, <1>3, <1>4, <1>6
  <1>7. CASE i \in 1 .. Len(l) /\ j = Len(l) + 1
    BY <1>1, <1>3, <1>4, <1>7
  <1>8. QED  BY <1>2, <1>5, <1>6, <1>7

\* The loops of the comparisons have a result in each round.
LEMMA FilteredRuns ==
    ASSUME NEW list, IsSeq(list), NEW S
    PROVE  \E g : /\ Filtered(list, S) = g[Len(list)]
                  /\ g[0] = <<>>
                  /\ \A i \in 1 .. Len(list) :
                        g[i] = IF list[i] \in S THEN Append(g[i - 1], list[i]) ELSE g[i - 1]
  <1> DEFINE n == Len(list)
             X == Seq(Range(list))
             step == [i \in 1 .. n |-> [x \in X |-> IF list[i] \in S THEN Append(x, list[i]) ELSE x]]
             Keeps(g) == g = [i \in 0 .. n |->
                                IF i = 0 THEN <<>>
                                ELSE IF list[i] \in S THEN Append(g[i - 1], list[i])
                                ELSE g[i - 1]]
             kept == CHOOSE g : Keeps(g)
  <1>1. n \in Nat /\ DOMAIN list = 1 .. n /\ \A i \in 1 .. n : list[i] \in Range(list)
    BY Domain
  <1>2. \E g : Keeps(g)
    <2>1. <<>> \in X
      OBVIOUS
    <2>2. \A i \in 1 .. n : step[i] \in [X -> X]
      <3>1. SUFFICES ASSUME NEW i \in 1 .. n
                     PROVE  step[i] \in [X -> X]
        OBVIOUS
      <3>2. \A x \in X : Append(x, list[i]) \in X
        BY <1>1, AppendProperties
      <3>3. QED  BY <3>2
    <2> HIDE DEF X
    <2>3. PICK g \in [0 .. n -> X] : Loop(g, n, <<>>, step)
      <3> HIDE DEF n, step
      <3>1. QED  BY <1>1, <2>1, <2>2, LoopRuns
    <2>a. g[0] = <<>> /\ \A i \in 1 .. n : g[i] = step[i][g[i - 1]] /\ g[i - 1] \in X
      <3> HIDE DEF n, step
      <3>1. \A i \in 1 .. n : i - 1 \in 0 .. n
        BY <1>1
      <3>2. QED  BY <2>3, <3>1 DEF Loop
    <2>4. \A i \in 0 .. n : g[i] = IF i = 0 THEN <<>>
                                 ELSE IF list[i] \in S THEN Append(g[i - 1], list[i])
                                 ELSE g[i - 1]
      <3>1. ASSUME NEW i \in 1 .. n
            PROVE  g[i] = IF list[i] \in S THEN Append(g[i - 1], list[i]) ELSE g[i - 1]
        <4>1. g[i] = step[i][g[i - 1]] /\ g[i - 1] \in X
          BY <2>a
        <4>2. QED  BY <4>1
      <3>2. \A i \in 0 .. n : i = 0 \/ i \in 1 .. n
        BY <1>1
      <3> HIDE DEF n, step
      <3>3. QED  BY <2>a, <3>1, <3>2
    <2>5. Keeps(g)
      <3> HIDE DEF n
      <3>1. QED  BY <2>3, <2>4
    <2>6. QED  BY <2>5
  <1>3. Keeps(kept)
    BY <1>2
  <1>4. Filtered(list, S) = kept[n]
    BY DEF Filtered
  <1> HIDE DEF kept
  <1>5. kept[0] = <<>>
    BY <1>1, <1>3
  <1>6. ASSUME NEW i \in 1 .. n
        PROVE  kept[i] = IF list[i] \in S THEN Append(kept[i - 1], list[i]) ELSE kept[i - 1]
    <2>1. i \in 0 .. n /\ i # 0
      BY <1>1
    <2>2. QED  BY <1>3, <2>1
  <1> HIDE DEF n, Keeps
  <1>7. /\ Filtered(list, S) = kept[n] /\ kept[0] = <<>>
        /\ \A i \in 1 .. n : kept[i] = IF list[i] \in S THEN Append(kept[i - 1], list[i])
                                       ELSE kept[i - 1]
    BY <1>4, <1>5, <1>6
  <1>8. QED  BY <1>7 DEF n

\* What the loops of the comparisons keep of a list.
LEMMA FilteredIs ==
    ASSUME NEW list, IsSeq(list), NEW S
    PROVE  /\ IsSeq(Filtered(list, S))
           /\ Range(Filtered(list, S)) = Range(list) \cap S
           /\ Unique(list) => Unique(Filtered(list, S))
  <1> DEFINE n == Len(list)
  <1>1. n \in Nat /\ DOMAIN list = 1 .. n /\ \A i \in 1 .. n : list[i] \in Range(list)
    BY Domain
  <1>4. PICK kept : /\ Filtered(list, S) = kept[n]
                    /\ kept[0] = <<>>
                    /\ \A i \in 1 .. n : kept[i] = IF list[i] \in S
                          THEN Append(kept[i - 1], list[i]) ELSE kept[i - 1]
    BY FilteredRuns
  <1>5. kept[0] = <<>>
    BY <1>4
  <1>6. ASSUME NEW i \in 1 .. n
        PROVE  kept[i] = IF list[i] \in S THEN Append(kept[i - 1], list[i]) ELSE kept[i - 1]
    BY <1>4
  <1> HIDE DEF n
  <1> DEFINE Good(k, i) == /\ IsSeq(k)
                           /\ \A e : e \in Range(k) <=> e \in S /\ \E j \in 1 .. i : e = list[j]
                           /\ Unique(list) => Unique(k)
             T == {i \in Nat : i <= n => Good(kept[i], i)}
  <1>7. 0 \in T
    <2>1. Good(<<>>, 0)
      BY NothingIn
    <2>2. QED  BY <1>5, <2>1
  <1>8. ASSUME NEW i \in Nat, i \in T
        PROVE  i + 1 \in T
    <2>1. SUFFICES ASSUME i + 1 <= n
                   PROVE  Good(kept[i + 1], i + 1)
      OBVIOUS
    <2>2. i + 1 \in 1 .. n /\ Good(kept[i], i) /\ (i + 1) - 1 = i
      BY <1>1, <1>8, <2>1
    <2>3. CASE list[i + 1] \in S
      <3>1. kept[i + 1] = Append(kept[i], list[i + 1])
        BY <1>6, <2>2, <2>3
      <3>2. IsSeq(kept[i + 1]) /\ Range(kept[i + 1]) = Range(kept[i]) \cup {list[i + 1]}
        BY <2>2, <3>1, Appended
      <3>3. \A e : e \in Range(kept[i + 1]) <=> e \in S /\ \E j \in 1 .. i + 1 : e = list[j]
        <4>1. ASSUME NEW e, e \in Range(kept[i + 1])
              PROVE  e \in S /\ \E j \in 1 .. i + 1 : e = list[j]
          <5>1. CASE e = list[i + 1]
            BY <2>3, <5>1
          <5>2. CASE e \in Range(kept[i])
            <6>1. e \in S /\ \E j \in 1 .. i : e = list[j]
              BY <2>2, <5>2
            <6>2. QED  BY <6>1
          <5>3. QED  BY <3>2, <4>1, <5>1, <5>2
        <4>2. ASSUME NEW e, e \in S, NEW j \in 1 .. i + 1, e = list[j]
              PROVE  e \in Range(kept[i + 1])
          <5>1. CASE j = i + 1
            BY <3>2, <4>2, <5>1
          <5>2. CASE j \in 1 .. i
            BY <2>2, <3>2, <4>2, <5>2
          <5>3. QED  BY <5>1, <5>2
        <4>3. QED  BY <4>1, <4>2
      <3>4. ASSUME Unique(list)
            PROVE  Unique(kept[i + 1])
        <4>1. \A e \in Range(kept[i]) : e[1] # list[i + 1][1]
          <5>1. SUFFICES ASSUME NEW e \in Range(kept[i]), e[1] = list[i + 1][1]
                         PROVE  FALSE
            OBVIOUS
          <5>2. PICK j \in 1 .. i : e = list[j]
            BY <2>2
          <5>3. j \in 1 .. n
            BY <1>1, <2>1
          <5>4. j = i + 1
            BY <1>1, <2>2, <3>4, <5>1, <5>2, <5>3 DEF Unique
          <5>5. QED  BY <5>4
        <4>2. QED  BY <2>2, <3>1, <3>4, <4>1, AppendedUnique
      <3>5. QED  BY <3>2, <3>3, <3>4
    <2>4. CASE list[i + 1] \notin S
      <3>1. kept[i + 1] = kept[i]
        BY <1>6, <2>2, <2>4
      <3>2. \A e : e \in Range(kept[i]) <=> e \in S /\ \E j \in 1 .. i + 1 : e = list[j]
        <4>1. \A j \in 1 .. i + 1 : j \in 1 .. i \/ j = i + 1
          OBVIOUS
        <4>2. 1 .. i \subseteq 1 .. i + 1
          OBVIOUS
        <4>3. QED  BY <2>2, <2>4, <4>1, <4>2
      <3>3. QED  BY <2>2, <3>1, <3>2
    <2>5. QED  BY <2>3, <2>4
  <1>9. n \in T
    <2> HIDE DEF T
    <2>1. QED  BY <1>1, <1>7, <1>8, SetInduction
  <1>10. Good(kept[n], n)
    BY <1>1, <1>9
  <1>11. \A e : e \in Range(list) <=> \E j \in 1 .. n : e = list[j]
    BY <1>1 DEF Range
  <1>12. Range(kept[n]) = Range(list) \cap S
    BY <1>10, <1>11
  <1>13. QED  BY <1>4, <1>10, <1>12

\* What is kept first.
LEMMA FilteredFirst ==
    ASSUME NEW list, IsSeq(list), list # <<>>, NEW S, list[1] \in S
    PROVE  Filtered(list, S) # <<>> /\ Filtered(list, S)[1] = list[1]
  <1> DEFINE n == Len(list)
             First(k) == IsSeq(k) /\ k # <<>> /\ k[1] = list[1]
  <1>1. n \in Nat /\ n >= 1
    BY DEF IsSeq
  <1>2. PICK kept : /\ Filtered(list, S) = kept[n]
                    /\ kept[0] = <<>>
                    /\ \A i \in 1 .. n : kept[i] = IF list[i] \in S
                          THEN Append(kept[i - 1], list[i]) ELSE kept[i - 1]
    BY FilteredRuns
  <1> HIDE DEF n
  <1>3. \A k, x : First(k) => First(Append(k, x))
    <2>1. SUFFICES ASSUME NEW k, NEW x, First(k)
                   PROVE  First(Append(k, x))
      OBVIOUS
    <2>2. 1 \in 1 .. Len(k)
      BY <2>1 DEF IsSeq
    <2>3. QED  BY <2>1, <2>2, Appended
  <1> DEFINE T == {i \in Nat : i + 1 <= n => First(kept[i + 1])}
  <1>4. 0 \in T
    <2>1. 1 \in 1 .. n /\ 1 - 1 = 0
      BY <1>1
    <2>2. kept[1] = Append(<<>>, list[1])
      BY <1>2, <2>1
    <2>3. First(Append(<<>>, list[1]))
      <3>1. IsSeq(Append(<<>>, list[1])) /\ Append(<<>>, list[1]) # <<>>
        BY NothingIn, Appended
      <3>2. Append(<<>>, list[1])[1] = list[1]
        OBVIOUS
      <3>3. QED  BY <3>1, <3>2
    <2>4. First(kept[1])
      BY <2>2, <2>3
    <2> HIDE DEF First
    <2>5. QED  BY <2>4
  <1> HIDE DEF First
  <1>5. ASSUME NEW i \in Nat, i \in T
        PROVE  i + 1 \in T
    <2>1. SUFFICES ASSUME (i + 1) + 1 <= n
                   PROVE  First(kept[(i + 1) + 1])
      OBVIOUS
    <2>2. First(kept[i + 1]) /\ (i + 1) + 1 \in 1 .. n /\ ((i + 1) + 1) - 1 = i + 1
      BY <1>1, <1>5, <2>1
    <2>3. \/ kept[(i + 1) + 1] = kept[i + 1]
          \/ kept[(i + 1) + 1] = Append(kept[i + 1], list[(i + 1) + 1])
      BY <1>2, <2>2
    <2>4. QED  BY <1>3, <2>2, <2>3
  <1>6. n - 1 \in T
    <2>1. n - 1 \in Nat
      BY <1>1
    <2> HIDE DEF T
    <2>2. QED  BY <1>4, <1>5, <2>1, SetInduction
  <1>7. First(kept[n])
    <2>1. (n - 1) + 1 = n
      BY <1>1
    <2>2. QED  BY <1>1, <1>6, <2>1
  <1>8. QED  BY <1>2, <1>7 DEF First

-----------------------------------------------------------------------------
(* The scan of a directory.                                                *)

\* A file with a token, and the token.
Speaks(x) == x \notin {Absent, Empty, Dir}
Said(x) == Extract(x, NoToken)

\* What fileData may hold after the first i paths.
Heard(d, i, data) ==
    data = NoToken \/ \E j \in 1 .. i : Speaks(d[Order[j]]) /\ data = Said(d[Order[j]])

\* The hash of what is at Order[j].
Entry(d, j, h) ==
    /\ h[1] = Order[j] /\ d[Order[j]] # Absent
    /\ Speaks(d[Order[j]]) => h[2] = Said(d[Order[j]])
    /\ ~Speaks(d[Order[j]]) => Heard(d, j - 1, h[2])

\* One round of the loop of CreateAllHashFiles.
Visited(d, p, s) ==
    IF d[p] = Absent THEN s
    ELSE [fileData  |-> Extract(d[p], s.fileData),
          hashFiles |-> Append(s.hashFiles, HashFile(p, Extract(d[p], s.fileData)))]

LEMMA Extracted ==
    ASSUME UpdateRoundsAssumption, NEW x, NEW data, x # Absent
    PROVE  Extract(x, data) = IF Speaks(x) THEN Said(x) ELSE data
  <1>1. {Empty, Dir, Absent} \cap Content = {}
    BY DEF UpdateRoundsAssumption
  <1>2. CASE x \in {Empty, Dir}
    BY <1>1, <1>2 DEF Extract, Speaks
  <1>3. CASE x \in Content
    BY <1>1, <1>3 DEF Extract, Speaks, Said
  <1>4. CASE x \notin {Empty, Dir} /\ x \notin Content
    BY <1>4 DEF Extract, Speaks, Said
  <1>5. QED  BY <1>2, <1>3, <1>4

LEMMA OrderIs ==
    ASSUME UpdateRoundsAssumption
    PROVE  /\ Len(Order) \in Nat /\ DOMAIN Order = 1 .. Len(Order)
           /\ \A i \in 1 .. Len(Order) : Order[i] \in Path
           /\ \A i, j \in 1 .. Len(Order) : Order[i] = Order[j] => i = j
           /\ \A p \in Path : \E i \in 1 .. Len(Order) : p = Order[i]
  <1>1. Order \in Seq(Path) /\ IsInjective(Order)
    BY DEF UpdateRoundsAssumption
  <1>2. Len(Order) \in Nat /\ DOMAIN Order = 1 .. Len(Order)
    BY <1>1, LenProperties
  <1>3. QED  BY <1>1, <1>2 DEF IsInjective, Path, Range

\* The loop has a result in each round.
LEMMA ScanRuns ==
    ASSUME UpdateRoundsAssumption, NEW d
    PROVE  \E g : /\ CreateAllHashFiles(d) = g[Len(Order)].hashFiles
                  /\ g[0] = [fileData |-> NoToken, hashFiles |-> <<>>]
                  /\ \A i \in 1 .. Len(Order) : g[i] = Visited(d, Order[i], g[i - 1])
  <1> DEFINE n == Len(Order)
             D == {NoToken} \cup {Said(d[p]) : p \in Path}
             X == [fileData : D, hashFiles : Seq(Path \X D)]
             first == [fileData |-> NoToken, hashFiles |-> <<>>]
             step == [i \in 1 .. n |-> [x \in X |-> Visited(d, Order[i], x)]]
             Scans(g) == g = [i \in 0 .. n |->
                 IF i = 0 THEN [fileData |-> NoToken, hashFiles |-> <<>>]
                 ELSE LET p == Order[i]
                          data == Extract(d[p], g[i - 1].fileData)
                      IN IF d[p] = Absent THEN g[i - 1]
                         ELSE [fileData  |-> data,
                               hashFiles |-> Append(g[i - 1].hashFiles, HashFile(p, data))]]
             scan == CHOOSE g : Scans(g)
  <1>1. n \in Nat /\ \A i \in 1 .. n : Order[i] \in Path
    BY OrderIs
  <1>2. \E g : Scans(g)
    <2>1. first \in X
      OBVIOUS
    <2>2. \A i \in 1 .. n : step[i] \in [X -> X]
      <3>1. SUFFICES ASSUME NEW i \in 1 .. n, NEW x \in X, d[Order[i]] # Absent
                     PROVE  Visited(d, Order[i], x) \in X
        BY DEF Visited
      <3> DEFINE data == Extract(d[Order[i]], x.fileData)
      <3>2. x.fileData \in D /\ x.hashFiles \in Seq(Path \X D)
        OBVIOUS
      <3>3. Order[i] \in Path /\ data \in D
        BY <1>1, <3>1, <3>2, Extracted
      <3> HIDE DEF data, D
      <3>4. HashFile(Order[i], data) \in Path \X D
        BY <3>3 DEF HashFile
      <3>5. Append(x.hashFiles, HashFile(Order[i], data)) \in Seq(Path \X D)
        BY <3>2, <3>4, AppendProperties
      <3>6. Visited(d, Order[i], x) = [fileData |-> data, hashFiles |-> Append(x.hashFiles, HashFile(Order[i], data))]
        BY <3>1 DEF Visited, data
      <3>7. QED  BY <3>3, <3>5, <3>6
    <2>3. PICK g \in [0 .. n -> X] : Loop(g, n, first, step)
      <3> HIDE DEF n, step, X, first
      <3>1. QED  BY <1>1, <2>1, <2>2, LoopRuns
    <2>4. g[0] = first /\ \A i \in 1 .. n : g[i] = step[i][g[i - 1]] /\ g[i - 1] \in X
      <3> HIDE DEF n, step, X, first
      <3>1. \A i \in 1 .. n : i - 1 \in 0 .. n
        BY <1>1
      <3>2. QED  BY <2>3, <3>1 DEF Loop
    <2>5. ASSUME NEW i \in 1 .. n
          PROVE  g[i] = Visited(d, Order[i], g[i - 1])
      <3> HIDE DEF X
      <3>1. g[i] = step[i][g[i - 1]] /\ g[i - 1] \in X
        BY <2>4
      <3>2. QED  BY <3>1
    <2>6. \A i \in 0 .. n : i = 0 \/ i \in 1 .. n
      BY <1>1
    <2>7. \A i \in 0 .. n : g[i] = IF i = 0 THEN first ELSE Visited(d, Order[i], g[i - 1])
      <3> HIDE DEF n, step, X, first
      <3>1. QED  BY <2>4, <2>5, <2>6
    <2>8. Scans(g)
      <3> HIDE DEF n
      <3>1. QED  BY <2>3, <2>7 DEF Visited
    <2>9. QED  BY <2>8
  <1>3. Scans(scan)
    BY <1>2
  <1>4. CreateAllHashFiles(d) = scan[n].hashFiles
    BY DEF CreateAllHashFiles
  <1> HIDE DEF scan
  <1>5. scan[0] = first
    BY <1>1, <1>3
  <1>6. ASSUME NEW i \in 1 .. n
        PROVE  scan[i] = Visited(d, Order[i], scan[i - 1])
    <2>1. i \in 0 .. n /\ i # 0
      BY <1>1
    <2>2. QED  BY <1>3, <2>1 DEF Visited
  <1>7. QED  BY <1>4, <1>5, <1>6

\* After i rounds there is the hash of each of the first i paths that is there.
Scanned(d, i, s) ==
    /\ Heard(d, i, s.fileData)
    /\ IsSeq(s.hashFiles) /\ Unique(s.hashFiles)
    /\ \A h \in Range(s.hashFiles) : \E j \in 1 .. i : Entry(d, j, h) /\ h = <<h[1], h[2]>>
    /\ \A j \in 1 .. i : d[Order[j]] # Absent => \E h \in Range(s.hashFiles) : Entry(d, j, h)

LEMMA ScannedNext ==
    ASSUME UpdateRoundsAssumption, NEW d, NEW i \in Nat, i + 1 <= Len(Order), NEW s,
           Scanned(d, i, s)
    PROVE  Scanned(d, i + 1, Visited(d, Order[i + 1], s))
  <1> DEFINE p == Order[i + 1]
             data == Extract(d[p], s.fileData)
             h == HashFile(p, data)
             t == Visited(d, p, s)
  <1>1. Len(Order) \in Nat /\ i + 1 \in 1 .. Len(Order)
    BY OrderIs
  <1>2. \A k \in 1 .. i : k \in 1 .. i + 1 /\ k \in 1 .. Len(Order)
    BY <1>1
  <1>3. \A k \in 1 .. i + 1 : k \in 1 .. i \/ k = i + 1
    OBVIOUS
  <1>4. \A x : Heard(d, i, x) => Heard(d, i + 1, x)
    BY <1>2 DEF Heard
  <1>5. CASE d[p] = Absent
    <2>1. t = s
      BY <1>5 DEF Visited
    <2>2. QED  BY <1>2, <1>3, <1>4, <1>5, <2>1 DEF Scanned
  <1>6. CASE d[p] # Absent
    <2>1. t.fileData = data /\ t.hashFiles = Append(s.hashFiles, h)
      BY <1>6 DEF Visited
    <2>2. data = IF Speaks(d[p]) THEN Said(d[p]) ELSE s.fileData
      BY <1>6, Extracted
    <2>3. h[1] = p /\ h[2] = data /\ h = <<h[1], h[2]>>
      BY DEF HashFile
    <2> HIDE DEF h, data, t
    <2>4. Heard(d, i, s.fileData) /\ IsSeq(s.hashFiles) /\ Unique(s.hashFiles)
      BY DEF Scanned
    <2>5. Heard(d, i + 1, data)
      <3>1. CASE Speaks(d[p])
        <4>1. i + 1 \in 1 .. i + 1
          OBVIOUS
        <4>2. QED  BY <2>2, <3>1, <4>1 DEF Heard
      <3>2. CASE ~Speaks(d[p])
        BY <1>4, <2>2, <2>4, <3>2
      <3>3. QED  BY <3>1, <3>2
    <2>6. Entry(d, i + 1, h)
      BY <1>6, <2>2, <2>3, <2>4 DEF Entry
    <2>7. IsSeq(t.hashFiles) /\ Range(t.hashFiles) = Range(s.hashFiles) \cup {h}
      BY <2>1, <2>4, Appended
    <2>8. \A e \in Range(s.hashFiles) : e[1] # h[1]
      <3>1. SUFFICES ASSUME NEW e \in Range(s.hashFiles), e[1] = h[1]
                     PROVE  FALSE
        OBVIOUS
      <3>2. PICK j \in 1 .. i : Entry(d, j, e)
        BY DEF Scanned
      <3>3. Order[j] = Order[i + 1] /\ j \in 1 .. Len(Order)
        BY <1>2, <2>3, <3>1, <3>2 DEF Entry
      <3>4. j = i + 1
        BY <1>1, <3>3, OrderIs
      <3>5. QED  BY <3>4
    <2>9. Unique(t.hashFiles)
      BY <2>1, <2>4, <2>8, AppendedUnique
    <2>10. \A e \in Range(t.hashFiles) : \E j \in 1 .. i + 1 : Entry(d, j, e) /\ e = <<e[1], e[2]>>
      <3>1. \A e \in Range(s.hashFiles) : \E j \in 1 .. i : Entry(d, j, e) /\ e = <<e[1], e[2]>>
        BY DEF Scanned
      <3>2. QED  BY <1>2, <2>3, <2>6, <2>7, <3>1
    <2>11. \A j \in 1 .. i + 1 : d[Order[j]] # Absent => \E e \in Range(t.hashFiles) : Entry(d, j, e)
      <3>1. \A j \in 1 .. i : d[Order[j]] # Absent => \E e \in Range(s.hashFiles) : Entry(d, j, e)
        BY DEF Scanned
      <3>2. QED  BY <1>3, <2>6, <2>7, <3>1
    <2>12. QED  BY <2>1, <2>5, <2>7, <2>9, <2>10, <2>11 DEF Scanned, t
  <1>7. QED  BY <1>5, <1>6

\* The scan hashes what is there, each path once.
LEMMA ScanIs ==
    ASSUME UpdateRoundsAssumption, NEW d
    PROVE  /\ IsSeq(CreateAllHashFiles(d)) /\ Unique(CreateAllHashFiles(d))
           /\ \A h \in Range(CreateAllHashFiles(d)) :
                 \E j \in 1 .. Len(Order) : Entry(d, j, h) /\ h = <<h[1], h[2]>>
           /\ \A j \in 1 .. Len(Order) :
                 d[Order[j]] # Absent => \E h \in Range(CreateAllHashFiles(d)) : Entry(d, j, h)
  <1>1. PICK g : /\ CreateAllHashFiles(d) = g[Len(Order)].hashFiles
                 /\ g[0] = [fileData |-> NoToken, hashFiles |-> <<>>]
                 /\ \A i \in 1 .. Len(Order) : g[i] = Visited(d, Order[i], g[i - 1])
    BY ScanRuns
  <1>2. Len(Order) \in Nat
    BY OrderIs
  <1> DEFINE S == {i \in Nat : i <= Len(Order) => Scanned(d, i, g[i])}
  <1>3. 0 \in S
    <2>1. Scanned(d, 0, g[0])
      <3>1. g[0].fileData = NoToken /\ g[0].hashFiles = <<>>
        BY <1>1
      <3>2. QED  BY <3>1, NothingIn DEF Scanned, Heard
    <2>2. QED  BY <2>1
  <1>4. ASSUME NEW i \in Nat, i \in S
        PROVE  i + 1 \in S
    <2>1. SUFFICES ASSUME i + 1 <= Len(Order)
                   PROVE  Scanned(d, i + 1, g[i + 1])
      OBVIOUS
    <2>2. Scanned(d, i, g[i]) /\ i + 1 \in 1 .. Len(Order) /\ (i + 1) - 1 = i
      BY <1>2, <1>4, <2>1
    <2>3. g[i + 1] = Visited(d, Order[i + 1], g[i])
      BY <1>1, <2>2
    <2>4. QED  BY <2>1, <2>2, <2>3, ScannedNext
  <1>5. Len(Order) \in S
    <2> HIDE DEF S
    <2>1. QED  BY <1>2, <1>3, <1>4, SetInduction
  <1>6. Scanned(d, Len(Order), g[Len(Order)])
    BY <1>2, <1>5
  <1>7. QED  BY <1>1, <1>6 DEF Scanned

\* What is visited first is first in the list.
LEMMA ScanFirst ==
    ASSUME UpdateRoundsAssumption, NEW d, Order # <<>>, d[Order[1]] # Absent
    PROVE  CreateAllHashFiles(d) # <<>> /\ CreateAllHashFiles(d)[1][1] = Order[1]
  <1> DEFINE n == Len(Order)
             First(l) == IsSeq(l) /\ l # <<>> /\ l[1][1] = Order[1]
  <1>1. n \in Nat /\ n >= 1
    BY DEF UpdateRoundsAssumption
  <1>2. PICK g : /\ CreateAllHashFiles(d) = g[n].hashFiles
                 /\ g[0] = [fileData |-> NoToken, hashFiles |-> <<>>]
                 /\ \A i \in 1 .. n : g[i] = Visited(d, Order[i], g[i - 1])
    BY ScanRuns
  <1> HIDE DEF n
  <1>3. \A l, x : First(l) => First(Append(l, x))
    <2>1. SUFFICES ASSUME NEW l, NEW x, First(l)
                   PROVE  First(Append(l, x))
      OBVIOUS
    <2>2. 1 \in 1 .. Len(l)
      BY <2>1 DEF IsSeq
    <2>3. QED  BY <2>1, <2>2, Appended
  <1> DEFINE T == {i \in Nat : i + 1 <= n => First(g[i + 1].hashFiles)}
  <1>4. 0 \in T
    <2>1. 1 \in 1 .. n /\ 1 - 1 = 0
      BY <1>1
    <2>2. g[1] = Visited(d, Order[1], g[0])
      BY <1>2, <2>1
    <2> DEFINE h == HashFile(Order[1], Extract(d[Order[1]], g[0].fileData))
    <2>3. g[1].hashFiles = Append(g[0].hashFiles, h)
      BY <2>2 DEF Visited
    <2>4. h[1] = Order[1]
      BY DEF HashFile
    <2> HIDE DEF h
    <2>5. g[1].hashFiles = Append(<<>>, h)
      BY <1>2, <2>3
    <2>6. IsSeq(Append(<<>>, h)) /\ Append(<<>>, h) # <<>>
      BY NothingIn, Appended
    <2>7. Append(<<>>, h)[1] = h
      OBVIOUS
    <2>8. First(g[1].hashFiles)
      BY <2>4, <2>5, <2>6, <2>7
    <2> HIDE DEF First
    <2>9. QED  BY <2>8
  <1> HIDE DEF First
  <1>5. ASSUME NEW i \in Nat, i \in T
        PROVE  i + 1 \in T
    <2>1. SUFFICES ASSUME (i + 1) + 1 <= n
                   PROVE  First(g[(i + 1) + 1].hashFiles)
      OBVIOUS
    <2>2. First(g[i + 1].hashFiles) /\ (i + 1) + 1 \in 1 .. n /\ ((i + 1) + 1) - 1 = i + 1
      BY <1>1, <1>5, <2>1
    <2>3. g[(i + 1) + 1] = Visited(d, Order[(i + 1) + 1], g[i + 1])
      BY <1>2, <2>2
    <2>4. \/ g[(i + 1) + 1].hashFiles = g[i + 1].hashFiles
          \/ \E x : g[(i + 1) + 1].hashFiles = Append(g[i + 1].hashFiles, x)
      BY <2>3 DEF Visited
    <2>5. QED  BY <1>3, <2>2, <2>4
  <1>6. n - 1 \in T
    <2>1. n - 1 \in Nat
      BY <1>1
    <2> HIDE DEF T
    <2>2. QED  BY <1>4, <1>5, <2>1, SetInduction
  <1>7. First(g[n].hashFiles)
    <2>1. (n - 1) + 1 = n
      BY <1>1
    <2>2. QED  BY <1>1, <1>6, <2>1
  <1>8. QED  BY <1>2, <1>7 DEF First

-----------------------------------------------------------------------------
(* The directories a file is in.                                           *)

\* The equation of Ancestors, at p.
Climbs(f, p) == f[p] = IF Parent[p] = Root THEN {} ELSE {Parent[p]} \cup f[Parent[p]]

LEMMA ParentBefore ==
    ASSUME UpdateRoundsAssumption, NEW i, i \in 1 .. Len(Order), Parent[Order[i]] # Root
    PROVE  \E j \in 1 .. i - 1 : Parent[Order[i]] = Order[j]
  BY OrderIs DEF UpdateRoundsAssumption

LEMMA AncestorsClimb ==
    ASSUME UpdateRoundsAssumption
    PROVE  \A p \in Path : Climbs(Ancestors, p)
  <1> DEFINE n == Len(Order)
             X == [Path -> SUBSET Path]
             first == [p \in Path |-> {}]
             Up(x, p) == IF Parent[p] = Root THEN {} ELSE {Parent[p]} \cup x[Parent[p]]
             step == [i \in 1 .. n |-> [x \in X |-> [x EXCEPT ![Order[i]] = Up(x, Order[i])]]]
  <1>1. /\ n \in Nat /\ \A i \in 1 .. n : Order[i] \in Path
        /\ \A i, j \in 1 .. n : Order[i] = Order[j] => i = j
        /\ \A p \in Path : \E i \in 1 .. n : p = Order[i]
    BY OrderIs
  <1>2. Parent \in [Path -> Path \cup {Root}]
    BY DEF UpdateRoundsAssumption
  <1>3. first \in X
    OBVIOUS
  <1>4. \A i \in 1 .. n : step[i] \in [X -> X]
    <2>1. SUFFICES ASSUME NEW i \in 1 .. n, NEW x \in X
                   PROVE  [x EXCEPT ![Order[i]] = Up(x, Order[i])] \in X
      OBVIOUS
    <2>2. Order[i] \in Path
      BY <1>1
    <2>3. Up(x, Order[i]) \in SUBSET Path
      BY <1>2, <2>2
    <2> HIDE DEF Up
    <2>4. QED  BY <2>2, <2>3
  <1>5. PICK g \in [0 .. n -> X] : Loop(g, n, first, step)
    <2> HIDE DEF n, step, X, first
    <2>1. QED  BY <1>1, <1>3, <1>4, LoopRuns
  <1>6. \A i \in 1 .. n : g[i] = step[i][g[i - 1]] /\ g[i - 1] \in X
    <2> HIDE DEF n, step, X, first
    <2>1. \A i \in 1 .. n : i - 1 \in 0 .. n
      BY <1>1
    <2>2. QED  BY <1>5, <2>1 DEF Loop
  <1>7. ASSUME NEW i \in 1 .. n
        PROVE  g[i] = [g[i - 1] EXCEPT ![Order[i]] = Up(g[i - 1], Order[i])]
    <2> HIDE DEF X, Up
    <2>1. QED  BY <1>6
  <1> HIDE DEF step, first
  <1> DEFINE S == {i \in Nat : i <= n => \A j \in 1 .. i : Climbs(g[i], Order[j])}
  <1>8. 0 \in S
    OBVIOUS
  <1>9. ASSUME NEW i \in Nat, i \in S
        PROVE  i + 1 \in S
    <2>1. SUFFICES ASSUME i + 1 <= n, NEW j \in 1 .. i + 1
                   PROVE  Climbs(g[i + 1], Order[j])
      OBVIOUS
    <2> DEFINE f == g[i]
               h == g[i + 1]
    <2>2. i + 1 \in 1 .. n /\ j \in 1 .. n /\ (i + 1) - 1 = i
      BY <1>1, <2>1
    <2>3. f \in X /\ h = [f EXCEPT ![Order[i + 1]] = Up(f, Order[i + 1])]
      BY <1>6, <1>7, <2>2
    <2>4. \A k \in 1 .. i : Climbs(f, Order[k])
      BY <1>9, <2>1
    <2> HIDE DEF f, h
    <2>5. \A k \in 1 .. i : h[Order[k]] = f[Order[k]]
      <3>1. SUFFICES ASSUME NEW k \in 1 .. i
                     PROVE  h[Order[k]] = f[Order[k]]
        OBVIOUS
      <3>2. k \in 1 .. n /\ k # i + 1
        BY <1>1, <2>1
      <3>3. Order[k] # Order[i + 1] /\ Order[k] \in Path
        BY <1>1, <2>2, <3>2
      <3> HIDE DEF Up
      <3>4. QED  BY <2>3, <3>3
    <2>6. Parent[Order[j]] # Root => h[Parent[Order[j]]] = f[Parent[Order[j]]]
      <3>1. SUFFICES ASSUME Parent[Order[j]] # Root
                     PROVE  h[Parent[Order[j]]] = f[Parent[Order[j]]]
        OBVIOUS
      <3>2. PICK k \in 1 .. j - 1 : Parent[Order[j]] = Order[k]
        BY <2>2, <3>1, ParentBefore
      <3>3. k \in 1 .. i
        BY <2>1
      <3>4. QED  BY <2>5, <3>2, <3>3
    <2>7. CASE j = i + 1
      <3>1. Order[j] \in Path
        BY <1>1, <2>2
      <3>2. h[Order[j]] = Up(f, Order[j])
        <4> HIDE DEF Up
        <4>1. QED  BY <2>3, <2>7, <3>1
      <3>3. QED  BY <2>6, <3>2 DEF Climbs, h
    <2>8. CASE j \in 1 .. i
      BY <2>4, <2>5, <2>6, <2>8 DEF Climbs, h
    <2>9. QED  BY <2>7, <2>8
  <1>10. n \in S
    <2> HIDE DEF S
    <2>1. QED  BY <1>1, <1>8, <1>9, SetInduction
  <1> DEFINE Solves(f) == f = [p \in Path |-> IF Parent[p] = Root THEN {} ELSE {Parent[p]} \cup f[Parent[p]]]
             above == CHOOSE f : Solves(f)
  <1>11. Solves(g[n])
    <2>1. g[n] \in X
      BY <1>1, <1>5
    <2>2. \A p \in Path : Climbs(g[n], p)
      BY <1>1, <1>10
    <2> HIDE DEF n
    <2>3. QED  BY <2>1, <2>2 DEF Climbs
  <1>12. Solves(above)
    BY <1>11
  <1>13. Ancestors = above
    BY DEF Ancestors
  <1> HIDE DEF above
  <1>14. QED  BY <1>12, <1>13 DEF Climbs

\* The directories above p: each is visited before p, and theirs are above p too.
Over(p) ==
    /\ Ancestors[p] \subseteq Range(Parent) \cap Path
    /\ \A q \in Ancestors[p] : Before(q, p) /\ q # p /\ Ancestors[q] \subseteq Ancestors[p]

LEMMA AncestorsAre ==
    ASSUME UpdateRoundsAssumption, NEW p \in Path
    PROVE  Over(p)
  <1> DEFINE n == Len(Order)
             S == {i \in Nat : \A j \in 1 .. i : j <= n => Over(Order[j])}
  <1>1. /\ n \in Nat /\ DOMAIN Order = 1 .. n /\ \A i \in 1 .. n : Order[i] \in Path
        /\ \A i, j \in 1 .. n : Order[i] = Order[j] => i = j
    BY OrderIs
  <1>2. 0 \in S
    OBVIOUS
  <1>3. ASSUME NEW i \in Nat, i \in S
        PROVE  i + 1 \in S
    <2>1. SUFFICES ASSUME i + 1 <= n
                   PROVE  Over(Order[i + 1])
      BY <1>3
    <2> DEFINE q == Order[i + 1]
    <2>2. i + 1 \in 1 .. n /\ q \in Path
      BY <1>1, <2>1
    <2>3. Climbs(Ancestors, q)
      BY <2>2, AncestorsClimb
    <2>4. CASE Parent[q] = Root
      BY <2>3, <2>4 DEF Over, Climbs
    <2>5. CASE Parent[q] # Root
      <3>1. PICK j \in 1 .. i : Parent[q] = Order[j]
        BY <2>2, <2>5, ParentBefore
      <3>2. Over(Order[j]) /\ j \in 1 .. n
        BY <1>1, <1>3, <2>1, <3>1
      <3>3. Ancestors[q] = {Order[j]} \cup Ancestors[Order[j]]
        BY <2>3, <2>5, <3>1 DEF Climbs
      <3>4. Order[j] \in Range(Parent) /\ Order[j] \in Path
        <4>1. Parent \in [Path -> Path \cup {Root}]
          BY DEF UpdateRoundsAssumption
        <4>2. QED  BY <1>1, <2>2, <3>1, <3>2, <4>1 DEF Range
      <3>5. ASSUME NEW r, r \in Ancestors[q]
            PROVE  Before(r, q) /\ r # q /\ Ancestors[r] \subseteq Ancestors[q]
        <4>1. PICK k \in 1 .. n : k <= j /\ r = Order[k]
          <5>1. CASE r = Order[j]
            BY <1>1, <3>2, <5>1
          <5>2. CASE r \in Ancestors[Order[j]]
            <6>1. Before(r, Order[j])
              BY <3>2, <5>2 DEF Over
            <6>2. PICK k \in 1 .. n, m \in 1 .. n : k < m /\ Order[k] = r /\ Order[m] = Order[j]
              BY <1>1, <6>1 DEF Before
            <6>3. m = j
              BY <1>1, <3>2, <6>2
            <6>4. QED  BY <1>1, <6>2, <6>3
          <5>3. QED  BY <3>3, <3>5, <5>1, <5>2
        <4>2. k < i + 1
          BY <1>1, <3>1, <4>1
        <4>3. Before(r, q)
          BY <1>1, <2>2, <4>1, <4>2 DEF Before
        <4>4. r # q
          <5>1. r = q => k = i + 1
            BY <1>1, <2>2, <4>1
          <5>2. QED  BY <1>1, <4>2, <5>1
        <4>5. Ancestors[r] \subseteq Ancestors[q]
          BY <3>2, <3>3, <3>5 DEF Over
        <4>6. QED  BY <4>3, <4>4, <4>5
      <3>6. Ancestors[q] \subseteq Range(Parent) \cap Path
        BY <3>2, <3>3, <3>4 DEF Over
      <3>7. QED  BY <3>5, <3>6 DEF Over
    <2>6. QED  BY <2>4, <2>5
  <1>4. n \in S
    <2> HIDE DEF S, n
    <2>1. QED  BY <1>1, <1>2, <1>3, SetInduction
  <1>5. PICK i \in 1 .. n : p = Order[i]
    BY OrderIs
  <1>6. QED  BY <1>1, <1>4, <1>5

-----------------------------------------------------------------------------
(* What the variables may hold.                                            *)

\* A list of hashes, with each path once.
IsHashes(l) == IsSeq(l) /\ Unique(l) /\ \A h \in Range(l) : h = <<h[1], h[2]>> /\ h[1] \in Path

\* What the updater itself leaves under its names.
Trace(x) == x \in {Empty, Absent} \/ \E l : IsHashes(l) /\ l # <<>> /\ x = [lines |-> l]

OnServer(p, x) == x \in ServerMayHave(p) \/ (p \in UpdaterPath /\ Trace(x))
OnClient(p, x) ==
    \/ x \in {Empty, Dir, Absent} \cup Found(p)
    \/ p \in UpdaterPath /\ Trace(x)

\* Files on their way, or in fileList.
IsSent(l) ==
    IsSeq(l) /\ \A e \in Range(l) : e[1] \in Path /\ IsFile(e[2]) /\ OnServer(e[1], e[2])

ServerOK ==
    /\ server = [up |-> server.up, list |-> server.list, fileList |-> server.fileList]
    /\ server.up \in BOOLEAN
    /\ IsHashes(server.list) /\ IsSent(server.fileList)

ServerDiskOK == DOMAIN serverDisk = Path /\ \A p \in Path : OnServer(p, serverDisk[p])

DisksOK ==
    /\ DOMAIN disk = Client
    /\ \A c \in Client : DOMAIN disk[c] = Path /\ \A p \in Path : OnClient(p, disk[c][p])

SessionOK ==
    /\ session = [at |-> session.at, client |-> session.client,
                  connected |-> session.connected, manifest |-> session.manifest,
                  toDelete |-> session.toDelete, toReceive |-> session.toReceive,
                  promised |-> session.promised]
    /\ session.at \in {"none", "started", "uploaded", "compared", "deleted",
                       "receiving", "open", "finished"}
    /\ session.at # "none" => session.client \in Client
    /\ session.connected \in BOOLEAN
    /\ Trace(session.manifest)
    /\ IsHashes(session.toDelete) /\ IsSent(session.toReceive)
    /\ session.at = "open" => session.toReceive # <<>>

CountsOK == touched \subseteq Path /\ edits \in 0 .. MaxEdits /\ kills \in 0 .. MaxKills

\* A connection is one to a server that runs, and the thread reads the manifest that
\* was sent.
ConnectionOK ==
    /\ session.connected => server.up
    /\ session.at = "uploaded" /\ session.connected =>
          serverDisk[ManifestOf[session.client]] = session.manifest

Typed == ServerOK /\ ServerDiskOK /\ DisksOK /\ SessionOK /\ CountsOK /\ ConnectionOK

LEMMA NothingHashed == IsHashes(<<>>) /\ IsSent(<<>>)
  BY NothingIn DEF IsHashes, IsSent

LEMMA ScanHashes ==
    ASSUME UpdateRoundsAssumption, NEW d
    PROVE  IsHashes(CreateAllHashFiles(d))
  <1>1. \A h \in Range(CreateAllHashFiles(d)) :
           \E j \in 1 .. Len(Order) : Entry(d, j, h) /\ h = <<h[1], h[2]>>
    BY ScanIs
  <1>2. \A j \in 1 .. Len(Order) : Order[j] \in Path
    BY OrderIs
  <1>3. QED  BY <1>1, <1>2, ScanIs DEF IsHashes, Entry

LEMMA ManifestIs ==
    ASSUME NEW l, IsHashes(l)
    PROVE  Trace(CreateNewFileStucFileInDir(l))
  BY DEF Trace, CreateNewFileStucFileInDir

LEMMA ReadIs ==
    ASSUME NEW x, Trace(x)
    PROVE  IsHashes(ReadFromfileStucFileByDir(x))
  <1>1. CASE x \in {Empty, Dir, Absent}
    BY <1>1, NothingHashed DEF ReadFromfileStucFileByDir
  <1>2. CASE x \notin {Empty, Dir, Absent}
    <2>1. PICK l : IsHashes(l) /\ x = [lines |-> l]
      BY <1>2 DEF Trace
    <2>2. ReadFromfileStucFileByDir(x) = l
      BY <1>2, <2>1 DEF ReadFromfileStucFileByDir
    <2>3. QED  BY <2>1, <2>2
  <1>3. QED  BY <1>1, <1>2

LEMMA FilteredHashes ==
    ASSUME NEW l, IsHashes(l), NEW S
    PROVE  IsHashes(Filtered(l, S)) /\ Range(Filtered(l, S)) = Range(l) \cap S
  BY FilteredIs DEF IsHashes

LEMMA ServerContents ==
    ASSUME UpdateRoundsAssumption, NEW p \in Path
    PROVE  ServerMayHave(p) \subseteq Content \cup {Empty, Dir, Absent}
  <1>1. /\ ServerDisks \subseteq [Path -> Content \cup {Empty, Dir, Absent}]
        /\ Edits \subseteq AppPath \X (Content \cup {Empty, Dir, Absent})
    BY DEF UpdateRoundsAssumption
  <1>2. QED  BY <1>1 DEF ServerMayHave

LEMMA ClientContents ==
    ASSUME UpdateRoundsAssumption, NEW p \in Path
    PROVE  ClientMayHave(p) \subseteq Content \cup {Empty, Dir, Absent}
  <1>1. ClientDisks \subseteq [Client -> [Path -> Content \cup {Empty, Dir, Absent}]]
    BY DEF UpdateRoundsAssumption
  <1>2. QED  BY <1>1 DEF ClientMayHave

LEMMA Names ==
    ASSUME UpdateRoundsAssumption
    PROVE  /\ UpdaterPath \subseteq Path
           /\ {FileStructure, ServerManifest, ClientExe, ServerExe} \subseteq UpdaterPath
           /\ \A c \in Client : ManifestOf[c] \in UpdaterPath
           /\ \A p \in UpdaterPath : Ancestors[p] = {} /\ \A q \in Path : p \notin Ancestors[q]
           /\ \A p \in Path : Target(p) \in Path
           /\ \A p \in AppPath : Target(p) = p /\ p \in Path /\ p \notin UpdaterPath
           /\ \A p \in Path, q \in AppPath : Target(p) = q => p = q
  <1>1. /\ Client \subseteq DOMAIN ManifestOf /\ UpdaterPath \subseteq Path
        /\ \A p \in UpdaterPath : Parent[p] = Root /\ p \notin Range(Parent)
    BY DEF UpdateRoundsAssumption
  <1>2. {FileStructure, ServerManifest, ClientExe, ServerExe} \subseteq UpdaterPath
    BY DEF UpdaterPath
  <1>3. \A c \in Client : ManifestOf[c] \in UpdaterPath
    BY <1>1 DEF UpdaterPath, Range
  <1>4. \A p \in UpdaterPath : Ancestors[p] = {}
    BY <1>1, AncestorsClimb DEF Climbs
  <1>5. ASSUME NEW p \in UpdaterPath, NEW q \in Path
        PROVE  p \notin Ancestors[q]
    <2>1. Ancestors[q] \subseteq Range(Parent)
      BY AncestorsAre DEF Over
    <2>2. QED  BY <1>1, <2>1
  <1>6. QED  BY <1>1, <1>2, <1>3, <1>4, <1>5 DEF Target, AppPath

\* Files are read as they are.
LEMMA FilesAddedAre ==
    ASSUME UpdateRoundsAssumption, ServerDiskOK, NEW missing, IsHashes(missing), NEW manifest
    PROVE  /\ IsSent(FilesAdded(missing, manifest))
           /\ \A e : e \in Range(FilesAdded(missing, manifest)) <=>
                \E h \in Range(missing) : /\ h[1] \notin {manifest, ServerExe}
                                          /\ IsFile(serverDisk[h[1]])
                                          /\ e = <<h[1], serverDisk[h[1]]>>
  <1> DEFINE S == {file \in Range(missing) : /\ file[1] \notin {manifest, ServerExe}
                                             /\ IsFile(serverDisk[file[1]])}
             chosen == Filtered(missing, S)
             n == Len(chosen)
             T == {<<h[1], serverDisk[h[1]]>> : h \in S}
             added == [i \in DOMAIN chosen |-> <<chosen[i][1], serverDisk[chosen[i][1]]>>]
  <1>1. FilesAdded(missing, manifest) = added
    BY DEF FilesAdded
  <1>2. IsHashes(chosen) /\ Range(chosen) = S
    BY FilteredHashes
  <1> HIDE DEF chosen
  <1>3. n \in Nat /\ DOMAIN chosen = 1 .. n
    BY <1>2, Domain DEF IsHashes
  <1>4. \A i \in 1 .. n : chosen[i] \in S
    BY <1>2, <1>3 DEF Range
  <1>5. \A h \in S : \E i \in 1 .. n : h = chosen[i]
    <2> HIDE DEF S
    <2>1. QED  BY <1>2, <1>3 DEF Range
  <1>6. added \in [1 .. n -> T]
    <2> HIDE DEF n, S
    <2>1. QED  BY <1>3, <1>4
  <1>7. added \in Seq(T)
    <2> HIDE DEF added, n, T
    <2>1. QED  BY <1>3, <1>6
  <1>8. IsSeq(added) /\ Range(added) \subseteq T
    <2> HIDE DEF added, n, T
    <2>1. QED  BY <1>7, SeqIs
  <1>9. T \subseteq Range(added)
    <2>1. SUFFICES ASSUME NEW h \in S
                   PROVE  <<h[1], serverDisk[h[1]]>> \in Range(added)
      OBVIOUS
    <2>2. PICK i \in 1 .. n : h = chosen[i]
      <3> HIDE DEF S
      <3>1. QED  BY <1>5
    <2>3. i \in DOMAIN added /\ added[i] = <<h[1], serverDisk[h[1]]>>
      BY <1>3, <2>2
    <2> HIDE DEF added
    <2>4. QED  BY <2>3 DEF Range
  <1>10. \A h \in S : h[1] \in Path /\ IsFile(serverDisk[h[1]]) /\ OnServer(h[1], serverDisk[h[1]])
    BY DEF IsHashes, ServerDiskOK
  <1>11. Range(added) = T
    BY <1>8, <1>9
  <1> HIDE DEF added
  <1>12. IsSent(added)
    BY <1>8, <1>10, <1>11 DEF IsSent
  <1>13. QED  BY <1>1, <1>11, <1>12

LEMMA TypedInit == UpdateRoundsAssumption /\ Init => Typed
  <1> SUFFICES ASSUME UpdateRoundsAssumption, Init
               PROVE  Typed
    OBVIOUS
  <1>1. ServerOK /\ SessionOK /\ ConnectionOK
    BY NothingHashed DEF Init, Down, NoSession, ServerOK, SessionOK, ConnectionOK, Trace
  <1>2. ServerDiskOK
    <2>1. serverDisk \in ServerDisks /\ ServerDisks \subseteq [Path -> Content \cup {Empty, Dir, Absent}]
      BY DEF Init, UpdateRoundsAssumption
    <2>2. QED  BY <2>1 DEF ServerDiskOK, OnServer, ServerMayHave
  <1>3. DisksOK
    <2>1. disk \in ClientDisks /\ ClientDisks \subseteq [Client -> [Path -> Content \cup {Empty, Dir, Absent}]]
      BY DEF Init, UpdateRoundsAssumption
    <2>2. QED  BY <2>1 DEF DisksOK, OnClient, Found, ClientMayHave
  <1>4. CountsOK
    BY DEF Init, CountsOK, UpdateRoundsAssumption
  <1>5. QED  BY <1>1, <1>2, <1>3, <1>4 DEF Typed

\* A removal, at each path.
LEMMA Removed ==
    ASSUME NEW d, NEW p, DOMAIN d = Path
    PROVE  /\ DOMAIN DeleteFilesFromDir(d, p) = Path
           /\ \A q \in Path : DeleteFilesFromDir(d, p)[q] =
                 IF q = p /\ IsFile(d[q]) THEN Absent ELSE d[q]
  BY DEF DeleteFilesFromDir

LEMMA TypedServerStart ==
    ASSUME UpdateRoundsAssumption, Typed, ServerStart
    PROVE  Typed'
  <1> USE DEF Typed, ServerStart
  <1> DEFINE list == CreateAllHashFiles(serverDisk)
             written == CreateNewFileStucFileInDir(list)
  <1>1. IsHashes(list) /\ Trace(written)
    BY ScanHashes, ManifestIs
  <1>2. FileStructure \in UpdaterPath /\ FileStructure \in Path
    BY Names
  <1>3. /\ server' = [up |-> TRUE, list |-> list, fileList |-> <<>>]
        /\ serverDisk' = [serverDisk EXCEPT ![FileStructure] = written]
    OBVIOUS
  <1> HIDE DEF list, written
  <1>4. ServerOK'
    BY <1>1, <1>3, NothingHashed DEF ServerOK
  <1>5. ServerDiskOK'
    BY <1>1, <1>2, <1>3 DEF ServerDiskOK, OnServer
  <1>6. DisksOK' /\ SessionOK'
    BY DEF DisksOK, SessionOK, clientVars
  <1>7. CountsOK'
    BY DEF CountsOK, counters
  <1>8. ConnectionOK'
    BY DEF ConnectionOK, clientVars
  <1>9. QED  BY <1>4, <1>5, <1>6, <1>7, <1>8

LEMMA TypedServerKilled ==
    ASSUME UpdateRoundsAssumption, Typed, ServerKilled
    PROVE  Typed'
  <1> USE DEF Typed, ServerKilled
  <1>1. ServerOK' /\ ServerDiskOK' /\ DisksOK'
    BY NothingHashed DEF ServerOK, ServerDiskOK, DisksOK, Down
  <1>2. session' = [session EXCEPT !.connected = FALSE]
    OBVIOUS
  <1>3. SessionOK' /\ ConnectionOK'
    BY <1>2 DEF SessionOK, ConnectionOK
  <1>4. CountsOK'
    <2>1. MaxKills \in Nat /\ kills' = kills + 1 /\ kills < MaxKills
      BY DEF UpdateRoundsAssumption
    <2>2. QED  BY <2>1 DEF CountsOK
  <1>5. QED  BY <1>1, <1>3, <1>4

LEMMA TypedEdit ==
    ASSUME UpdateRoundsAssumption, Typed, NEW edit \in Edits, Edit(edit[1], edit[2])
    PROVE  Typed'
  <1> USE DEF Typed
  <1> DEFINE p == edit[1]
             x == edit[2]
  <1>1. p \in AppPath /\ p \in Path /\ x \in ServerMayHave(p)
    <2>1. Edits \subseteq AppPath \X (Content \cup {Empty, Dir, Absent})
      BY DEF UpdateRoundsAssumption
    <2>2. QED  BY <2>1 DEF ServerMayHave, AppPath
  <1>2. /\ edits < MaxEdits /\ serverDisk' = [serverDisk EXCEPT ![p] = x]
        /\ touched' = touched \cup {p} /\ edits' = edits + 1
        /\ UNCHANGED <<server, disk, session, kills>>
    BY DEF Edit, clientVars
  <1> HIDE DEF p, x
  <1>3. ServerOK' /\ DisksOK' /\ SessionOK'
    BY <1>2 DEF ServerOK, DisksOK, SessionOK
  <1>4. ServerDiskOK'
    BY <1>1, <1>2 DEF ServerDiskOK, OnServer
  <1>5. CountsOK'
    <2>1. MaxEdits \in Nat
      BY DEF UpdateRoundsAssumption
    <2>2. QED  BY <1>1, <1>2, <2>1 DEF CountsOK
  <1>6. ConnectionOK'
    <2>1. ASSUME session.at = "uploaded"
          PROVE  serverDisk'[ManifestOf[session.client]] = serverDisk[ManifestOf[session.client]]
      <3>1. session.client \in Client
        BY <2>1 DEF SessionOK
      <3>2. ManifestOf[session.client] \in Path /\ ManifestOf[session.client] # p
        BY <1>1, <3>1, Names DEF AppPath
      <3>3. QED  BY <1>2, <3>2 DEF ServerDiskOK
    <2>2. QED  BY <1>2, <2>1 DEF ConnectionOK
  <1>7. QED  BY <1>3, <1>4, <1>5, <1>6

LEMMA TypedClientStart ==
    ASSUME UpdateRoundsAssumption, Typed, NEW c \in Client, ClientStart(c)
    PROVE  Typed'
  <1> USE DEF Typed
  <1> DEFINE written == CreateNewFileStucFileInDir(CreateAllHashFiles(disk[c]))
  <1>1. Trace(written)
    BY ScanHashes, ManifestIs
  <1>2. FileStructure \in UpdaterPath /\ FileStructure \in Path
    BY Names
  <1>3. /\ disk' = [disk EXCEPT ![c][FileStructure] = written]
        /\ session' = [NoSession EXCEPT !.at = "started", !.client = c, !.manifest = written]
        /\ UNCHANGED <<serverDisk, server, touched, edits, kills>>
    BY DEF ClientStart, counters
  <1> HIDE DEF written
  <1>4. ServerOK' /\ ServerDiskOK' /\ CountsOK'
    BY <1>3 DEF ServerOK, ServerDiskOK, CountsOK
  <1>5. DisksOK'
    BY <1>1, <1>2, <1>3 DEF DisksOK, OnClient
  <1>6. SessionOK' /\ ConnectionOK'
    BY <1>1, <1>3, NothingHashed DEF SessionOK, ConnectionOK, NoSession
  <1>7. QED  BY <1>4, <1>5, <1>6

LEMMA TypedUpload ==
    ASSUME UpdateRoundsAssumption, Typed, Upload
    PROVE  Typed'
  <1> USE DEF Typed
  <1> DEFINE own == ManifestOf[session.client]
  <1>1. /\ session.at = "started" /\ server.up
        /\ serverDisk' = [serverDisk EXCEPT ![own] = session.manifest]
        /\ session' = [session EXCEPT !.at = "uploaded", !.connected = TRUE]
        /\ UNCHANGED <<server, disk, touched, edits, kills>>
    BY DEF Upload, counters
  <1>2. session.client \in Client /\ Trace(session.manifest)
    BY <1>1 DEF SessionOK
  <1>3. own \in UpdaterPath /\ own \in Path
    BY <1>2, Names
  <1>4. ServerOK' /\ DisksOK' /\ CountsOK'
    BY <1>1 DEF ServerOK, DisksOK, CountsOK
  <1>5. ServerDiskOK'
    <2> HIDE DEF own
    <2>1. QED  BY <1>1, <1>2, <1>3 DEF ServerDiskOK, OnServer
  <1>6. session' = [at |-> "uploaded", client |-> session.client,
                    connected |-> TRUE, manifest |-> session.manifest,
                    toDelete |-> session.toDelete, toReceive |-> session.toReceive,
                    promised |-> session.promised]
    BY <1>1 DEF SessionOK
  <1>7. SessionOK'
    BY <1>2, <1>6 DEF SessionOK
  <1>8. ConnectionOK'
    BY <1>1, <1>3, <1>6 DEF ConnectionOK, ServerDiskOK
  <1>9. QED  BY <1>4, <1>5, <1>7, <1>8

LEMMA TypedCompare ==
    ASSUME UpdateRoundsAssumption, Typed, Compare
    PROVE  Typed'
  <1> USE DEF Typed
  <1> DEFINE own == ManifestOf[session.client]
             hashList == ReadFromfileStucFileByDir(serverDisk[own])
             missing == FindMissingFiles(hashList, server.list)
             added == FilesAdded(missing, own)
             toDelete == FindFilesToDelete(hashList, server.list)
  <1>1. /\ session.at = "uploaded" /\ session.connected
        /\ server' = [server EXCEPT !.fileList = @ \o added]
        /\ session' = [session EXCEPT !.at = "compared", !.toDelete = toDelete]
        /\ serverDisk' = DeleteFilesFromDir(serverDisk, FileStructure)
        /\ UNCHANGED <<disk, touched, edits, kills>>
    BY DEF Compare, counters
  <1>2. session.client \in Client /\ Trace(serverDisk[own])
    BY <1>1 DEF SessionOK, ConnectionOK
  <1>3. FileStructure \in UpdaterPath /\ own \in Path
    BY <1>2, Names
  <1>4. IsHashes(hashList)
    BY <1>2, ReadIs
  <1>5. IsHashes(server.list) /\ IsSent(server.fileList)
    BY DEF ServerOK
  <1>6. IsHashes(missing) /\ IsHashes(toDelete)
    <2> HIDE DEF hashList
    <2>1. QED  BY <1>4, <1>5, FilteredHashes DEF FindMissingFiles, FindFilesToDelete
  <1>7. IsSent(added)
    <2> HIDE DEF missing, own
    <2>1. QED  BY <1>6, FilesAddedAre
  <1> HIDE DEF added, toDelete
  <1>8. ServerOK'
    <2>1. IsSent(server.fileList \o added)
      BY <1>5, <1>7, Joined DEF IsSent
    <2>2. server' = [up |-> server.up, list |-> server.list, fileList |-> server.fileList \o added]
      BY <1>1 DEF ServerOK
    <2>3. QED  BY <2>1, <2>2 DEF ServerOK
  <1>9. ServerDiskOK'
    <2>1. Trace(Absent)
      BY DEF Trace
    <2>2. QED  BY <1>1, <1>3, <2>1, Removed DEF ServerDiskOK, OnServer
  <1>10. DisksOK' /\ CountsOK'
    BY <1>1 DEF DisksOK, CountsOK
  <1>11. session' = [at |-> "compared", client |-> session.client,
                     connected |-> session.connected, manifest |-> session.manifest,
                     toDelete |-> toDelete, toReceive |-> session.toReceive,
                     promised |-> session.promised]
    BY <1>1 DEF SessionOK
  <1>12. SessionOK'
    BY <1>2, <1>6, <1>11 DEF SessionOK
  <1>13. ConnectionOK'
    BY <1>1, <1>11 DEF ConnectionOK, ServerOK
  <1>14. QED  BY <1>8, <1>9, <1>10, <1>12, <1>13

LEMMA TypedClientDelete ==
    ASSUME UpdateRoundsAssumption, Typed, ClientDelete
    PROVE  Typed'
  <1> USE DEF Typed
  <1>1. /\ session.at = "compared" /\ session' = [session EXCEPT !.at = "deleted"]
        /\ UNCHANGED <<serverDisk, server, touched, edits, kills>>
    BY DEF ClientDelete, counters
  <1>2. PICK hit : disk' = [disk EXCEPT ![session.client] =
           [p \in Path |-> IF p \in hit THEN DeleteFilesFromDir(@, p)[p] ELSE @[p]]]
    BY DEF ClientDelete
  <1>3. session.client \in Client
    BY <1>1 DEF SessionOK
  <1>4. ServerOK' /\ ServerDiskOK' /\ CountsOK'
    BY <1>1 DEF ServerOK, ServerDiskOK, CountsOK
  <1>5. DisksOK'
    <2>1. DOMAIN disk[session.client] = Path
      BY <1>3 DEF DisksOK
    <2>2. \A p \in Path : disk'[session.client][p] \in {Absent, disk[session.client][p]}
      BY <1>2, <1>3, <2>1, Removed DEF DisksOK
    <2>3. /\ DOMAIN disk' = Client /\ DOMAIN disk'[session.client] = Path
          /\ \A c \in Client : c # session.client => disk'[c] = disk[c]
      BY <1>2, <1>3 DEF DisksOK
    <2>4. QED  BY <1>3, <2>2, <2>3 DEF DisksOK, OnClient
  <1>6. SessionOK' /\ ConnectionOK'
    BY <1>1 DEF SessionOK, ConnectionOK
  <1>7. QED  BY <1>4, <1>5, <1>6

LEMMA TypedServerSend ==
    ASSUME UpdateRoundsAssumption, Typed, ServerSend
    PROVE  Typed'
  <1> USE DEF Typed
  <1>1. /\ session.at = "deleted" /\ session.connected
        /\ session' = [session EXCEPT !.at = "receiving", !.toReceive = server.fileList,
                                      !.promised = Current]
        /\ serverDisk' = DeleteFilesFromDir(serverDisk, ManifestOf[session.client])
        /\ UNCHANGED <<server, disk, touched, edits, kills>>
    BY DEF ServerSend, counters
  <1>2. ManifestOf[session.client] \in UpdaterPath
    BY <1>1, Names DEF SessionOK
  <1>3. ServerOK' /\ DisksOK' /\ CountsOK'
    BY <1>1 DEF ServerOK, DisksOK, CountsOK
  <1>4. ServerDiskOK'
    <2>1. Trace(Absent)
      BY DEF Trace
    <2>2. QED  BY <1>1, <1>2, <2>1, Removed DEF ServerDiskOK, OnServer
  <1>5. SessionOK' /\ ConnectionOK'
    <2>1. IsSent(server.fileList)
      BY DEF ServerOK
    <2> HIDE DEF Current
    <2>2. session' = [at |-> "receiving", client |-> session.client,
                      connected |-> session.connected, manifest |-> session.manifest,
                      toDelete |-> session.toDelete, toReceive |-> server.fileList,
                      promised |-> Current]
      BY <1>1 DEF SessionOK
    <2>3. QED  BY <1>1, <2>1, <2>2 DEF SessionOK, ConnectionOK
  <1>6. QED  BY <1>3, <1>4, <1>5

\* What is sent may be written at its target, and the rest may still come.
LEMMA NextFile ==
    ASSUME UpdateRoundsAssumption, SessionOK, session.toReceive # <<>>
    PROVE  /\ IsSent(Tail(session.toReceive))
           /\ Range(session.toReceive) = {Head(session.toReceive)} \cup Range(Tail(session.toReceive))
           /\ Head(session.toReceive)[1] \in Path /\ Target(Head(session.toReceive)[1]) \in Path
           /\ IsFile(Head(session.toReceive)[2])
           /\ OnServer(Head(session.toReceive)[1], Head(session.toReceive)[2])
           /\ OnClient(Target(Head(session.toReceive)[1]), Head(session.toReceive)[2])
  <1> DEFINE l == session.toReceive
             e == Head(l)
  <1>1. IsSent(l)
    BY DEF SessionOK
  <1>2. IsSeq(Tail(l)) /\ Range(l) = {e} \cup Range(Tail(l))
    BY <1>1, Rest DEF IsSent
  <1> HIDE DEF e, l
  <1>3. IsSent(Tail(l)) /\ e[1] \in Path /\ IsFile(e[2]) /\ OnServer(e[1], e[2])
    BY <1>1, <1>2 DEF IsSent
  <1>4. OnClient(Target(e[1]), e[2]) /\ Target(e[1]) \in Path
    BY <1>3, Names DEF OnClient, OnServer, Found, Target
  <1>5. QED  BY <1>2, <1>3, <1>4 DEF e, l

\* The two outcomes of opening a file.
Skips ==
    /\ \/ disk[session.client][Target(Head(session.toReceive)[1])] = Dir
       \/ Target(Head(session.toReceive)[1]) = ClientExe
    /\ session' = [session EXCEPT !.toReceive = Tail(@)]
    /\ UNCHANGED disk

Opens ==
    LET p == Target(Head(session.toReceive)[1]) IN
    /\ disk[session.client][p] # Dir /\ p # ClientExe
    /\ session' = [session EXCEPT !.at = "open"]
    /\ disk' = [disk EXCEPT ![session.client] =
                  [q \in Path |-> IF q = p THEN Empty
                                  ELSE IF q \in Ancestors[p] THEN Dir ELSE @[q]]]

LEMMA FileOpenIs ==
    ASSUME FileOpen
    PROVE  /\ session.at = "receiving" /\ session.toReceive # <<>>
           /\ ~Blocked(disk[session.client], Target(Head(session.toReceive)[1]))
           /\ Skips \/ Opens
           /\ UNCHANGED <<serverDisk, server, touched, edits, kills>>
  BY DEF FileOpen, Skips, Opens, counters

LEMMA TypedFileOpen ==
    ASSUME UpdateRoundsAssumption, Typed, FileOpen
    PROVE  Typed'
  <1> USE DEF Typed
  <1>1. /\ session.at = "receiving" /\ session.toReceive # <<>> /\ (Skips \/ Opens)
        /\ UNCHANGED <<serverDisk, server, touched, edits, kills>>
    BY FileOpenIs
  <1>2. IsSent(Tail(session.toReceive)) /\ session.client \in Client
    BY <1>1, NextFile DEF SessionOK
  <1>3. ServerOK' /\ ServerDiskOK' /\ CountsOK'
    BY <1>1 DEF ServerOK, ServerDiskOK, CountsOK
  <1>4. CASE Skips
    <2>1. session' = [at |-> session.at, client |-> session.client,
                      connected |-> session.connected, manifest |-> session.manifest,
                      toDelete |-> session.toDelete, toReceive |-> Tail(session.toReceive),
                      promised |-> session.promised]
      BY <1>4 DEF SessionOK, Skips
    <2>2. SessionOK' /\ ConnectionOK'
      BY <1>1, <1>2, <2>1 DEF SessionOK, ConnectionOK
    <2>3. DisksOK'
      BY <1>4 DEF DisksOK, Skips
    <2>4. QED  BY <1>3, <2>2, <2>3
  <1>5. CASE Opens
    <2>1. session' = [session EXCEPT !.at = "open"]
      BY <1>5 DEF Opens
    <2>2. SessionOK' /\ ConnectionOK'
      BY <1>1, <2>1 DEF SessionOK, ConnectionOK
    <2>3. /\ DOMAIN disk' = Client /\ DOMAIN disk'[session.client] = Path
          /\ \A c \in Client : c # session.client => disk'[c] = disk[c]
      BY <1>2, <1>5 DEF DisksOK, Opens
    <2>4. \A q \in Path : disk'[session.client][q] \in {Empty, Dir, disk[session.client][q]}
      BY <1>2, <1>5 DEF DisksOK, Opens
    <2>5. DisksOK'
      BY <1>2, <2>3, <2>4 DEF DisksOK, OnClient
    <2>6. QED  BY <1>3, <2>2, <2>5
  <1>6. QED  BY <1>1, <1>4, <1>5

LEMMA TypedFileWrite ==
    ASSUME UpdateRoundsAssumption, Typed, FileWrite
    PROVE  Typed'
  <1> USE DEF Typed
  <1> DEFINE e == Head(session.toReceive)
             p == Target(e[1])
  <1>1. /\ session.at = "open" /\ disk' = [disk EXCEPT ![session.client][p] = e[2]]
        /\ session' = [session EXCEPT !.at = "receiving", !.toReceive = Tail(@)]
        /\ UNCHANGED <<serverDisk, server, touched, edits, kills>>
    BY DEF FileWrite, counters
  <1>2. session.toReceive # <<>> /\ session.client \in Client
    BY <1>1 DEF SessionOK
  <1>3. IsSent(Tail(session.toReceive)) /\ p \in Path /\ OnClient(p, e[2])
    BY <1>2, NextFile
  <1>4. ServerOK' /\ ServerDiskOK' /\ CountsOK'
    BY <1>1 DEF ServerOK, ServerDiskOK, CountsOK
  <1>5. DisksOK'
    <2> HIDE DEF e, p
    <2>1. QED  BY <1>1, <1>2, <1>3 DEF DisksOK
  <1>6. session' = [at |-> "receiving", client |-> session.client,
                    connected |-> session.connected, manifest |-> session.manifest,
                    toDelete |-> session.toDelete, toReceive |-> Tail(session.toReceive),
                    promised |-> session.promised]
    BY <1>1 DEF SessionOK
  <1>7. SessionOK' /\ ConnectionOK'
    BY <1>1, <1>2, <1>3, <1>6 DEF SessionOK, ConnectionOK
  <1>8. QED  BY <1>4, <1>5, <1>7

LEMMA TypedClientFinish ==
    ASSUME UpdateRoundsAssumption, Typed, ClientFinish
    PROVE  Typed'
  <1> USE DEF Typed
  <1>1. /\ session.at = "receiving"
        /\ disk' = [disk EXCEPT ![session.client] = DeleteFilesFromDir(@, FileStructure)]
        /\ session' = [session EXCEPT !.at = "finished", !.connected = FALSE]
        /\ UNCHANGED <<serverDisk, server, touched, edits, kills>>
    BY DEF ClientFinish, counters
  <1>2. session.client \in Client
    BY <1>1 DEF SessionOK
  <1>3. ServerOK' /\ ServerDiskOK' /\ CountsOK'
    BY <1>1 DEF ServerOK, ServerDiskOK, CountsOK
  <1>4. DisksOK'
    BY <1>1, <1>2, Removed DEF DisksOK, OnClient
  <1>5. SessionOK' /\ ConnectionOK'
    BY <1>1 DEF SessionOK, ConnectionOK
  <1>6. QED  BY <1>3, <1>4, <1>5

\* A session that ends without having finished.
LEMMA TypedEnds ==
    ASSUME UpdateRoundsAssumption, Typed, FileThrows \/ ClientKilled
    PROVE  Typed'
  <1> USE DEF Typed
  <1>1. session' = NoSession /\ UNCHANGED <<serverDisk, server, disk, touched, edits>>
    BY DEF FileThrows, ClientKilled, counters
  <1>2. ServerOK' /\ ServerDiskOK' /\ DisksOK'
    BY <1>1 DEF ServerOK, ServerDiskOK, DisksOK
  <1>3. SessionOK' /\ ConnectionOK'
    BY <1>1, NothingHashed DEF SessionOK, ConnectionOK, NoSession, Trace
  <1>4. CountsOK'
    <2>1. MaxKills \in Nat
      BY DEF UpdateRoundsAssumption
    <2>2. kills' \in {kills, kills + 1} /\ (kills' # kills => kills < MaxKills)
      <3>1. CASE FileThrows
        BY <3>1 DEF FileThrows, counters
      <3>2. CASE ClientKilled
        BY <3>2 DEF ClientKilled, SessionOK
      <3>3. QED  BY <3>1, <3>2
    <2>3. QED  BY <1>1, <2>1, <2>2 DEF CountsOK
  <1>5. QED  BY <1>2, <1>3, <1>4

LEMMA TypedStep == UpdateRoundsAssumption /\ Typed /\ [Next]_vars => Typed'
  <1> SUFFICES ASSUME UpdateRoundsAssumption, Typed, [Next]_vars
               PROVE  Typed'
    OBVIOUS
  <1>1. CASE UNCHANGED vars
    BY <1>1 DEF vars, clientVars, counters, Typed, ServerOK, ServerDiskOK, DisksOK, SessionOK,
                CountsOK, ConnectionOK
  <1>2. CASE Next
    BY <1>2, TypedServerStart, TypedServerKilled, TypedEdit, TypedClientStart, TypedUpload,
       TypedCompare, TypedClientDelete, TypedServerSend, TypedFileOpen, TypedFileWrite,
       TypedClientFinish, TypedEnds DEF Next, Progress
  <1>3. QED  BY <1>1, <1>2

LEMMA TypedIsTypeOK ==
    ASSUME UpdateRoundsAssumption, Typed
    PROVE  TypeOK
  <1> DEFINE IsContent(x) == \/ x \in Content \cup {Empty, Dir, Absent}
                             \/ Range(ReadFromfileStucFileByDir(x)) # {}
             IsList(list) == IsInjective([i \in DOMAIN list |-> list[i][1]])
  <1>1. ASSUME NEW x, Trace(x)
        PROVE  IsContent(x)
    <2>1. CASE x \in {Empty, Dir, Absent}
      BY <2>1
    <2>2. CASE x \notin {Empty, Dir, Absent}
      <3>1. PICK l : IsHashes(l) /\ l # <<>> /\ x = [lines |-> l]
        BY <1>1, <2>2 DEF Trace
      <3>2. ReadFromfileStucFileByDir(x) = l
        BY <2>2, <3>1 DEF ReadFromfileStucFileByDir
      <3>3. Range(l) # {}
        BY <3>1, Rest DEF IsHashes
      <3>4. QED  BY <3>2, <3>3
    <2>3. QED  BY <2>1, <2>2
  <1>2. ASSUME NEW l, IsHashes(l)
        PROVE  IsList(l)
    BY <1>2 DEF IsHashes, Unique, IsInjective
  <1> HIDE DEF IsContent, IsList
  <1>3. DOMAIN serverDisk = Path /\ \A p \in Path : IsContent(serverDisk[p])
    <2>1. ASSUME NEW p \in Path
          PROVE  IsContent(serverDisk[p])
      BY <1>1, ServerContents DEF Typed, ServerDiskOK, OnServer, IsContent
    <2>2. QED  BY <2>1 DEF Typed, ServerDiskOK
  <1>4. /\ DOMAIN disk = Client
        /\ \A c \in Client : DOMAIN disk[c] = Path /\ \A p \in Path : IsContent(disk[c][p])
    <2>1. ASSUME NEW c \in Client, NEW p \in Path
          PROVE  IsContent(disk[c][p])
      <3>1. OnClient(p, disk[c][p])
        BY DEF Typed, DisksOK
      <3>2. Found(p) \subseteq Content \cup {Empty, Dir, Absent}
        BY ServerContents, ClientContents, Names DEF Found
      <3>3. QED  BY <1>1, <3>1, <3>2 DEF OnClient, IsContent
    <2>2. QED  BY <2>1 DEF Typed, DisksOK
  <1>5. server.up \in BOOLEAN /\ IsList(server.list) /\ IsList(session.toDelete)
    BY <1>2 DEF Typed, ServerOK, SessionOK
  <1>6. QED  BY <1>3, <1>4, <1>5 DEF Typed, SessionOK, CountsOK, TypeOK, IsContent, IsList

\* What the directories, the process of the server and the session may hold, for any
\* constants; the lists of hashes that are computed, stored, read back and sent hold
\* each path once.
THEOREM TypeCorrect == UpdateRoundsAssumption => (Spec => []TypeOK)
  <1> SUFFICES ASSUME UpdateRoundsAssumption
               PROVE  Spec => []TypeOK
    OBVIOUS
  <1>1. Init => Typed
    BY TypedInit
  <1>2. Typed /\ [Next]_vars => Typed'
    BY TypedStep
  <1>3. Typed => TypeOK
    BY TypedIsTypeOK
  <1>4. QED  BY <1>1, <1>2, <1>3, PTL DEF Spec

-----------------------------------------------------------------------------
(* Trees.                                                                  *)

\* What is there is in directories only.
IsTree(d) == \A q \in Path : d[q] # Absent => \A r \in Ancestors[q] : d[r] = Dir

\* The file that is open is there and empty, so that nothing can be under it.
Rooted ==
    /\ \A c \in Client : IsTree(disk[c])
    /\ session.at = "open" => disk[session.client][Target(Head(session.toReceive)[1])] = Empty

LEMMA RootedInit == UpdateRoundsAssumption /\ Init => Rooted
  <1> SUFFICES ASSUME UpdateRoundsAssumption, Init, NEW c \in Client
               PROVE  IsTree(disk[c])
    BY DEF Init, NoSession, Rooted
  <1>1. \A p \in Path : disk[c][p] # Absent => Parent[p] = Root \/ disk[c][Parent[p]] = Dir
    BY DEF Init, UpdateRoundsAssumption
  <1> DEFINE n == Len(Order)
             Good(p) == disk[c][p] # Absent => \A r \in Ancestors[p] : disk[c][r] = Dir
             S == {i \in Nat : \A j \in 1 .. i : j <= n => Good(Order[j])}
  <1>2. 0 \in S
    OBVIOUS
  <1>3. ASSUME NEW i \in Nat, i \in S
        PROVE  i + 1 \in S
    <2>1. SUFFICES ASSUME i + 1 <= n
                   PROVE  Good(Order[i + 1])
      BY <1>3
    <2> DEFINE p == Order[i + 1]
    <2>2. n \in Nat /\ i + 1 \in 1 .. n /\ p \in Path
      BY <2>1, OrderIs
    <2>3. Climbs(Ancestors, p)
      BY <2>2, AncestorsClimb
    <2>4. CASE Parent[p] = Root
      BY <2>3, <2>4 DEF Climbs
    <2>5. CASE Parent[p] # Root
      <3>1. PICK j \in 1 .. i : Parent[p] = Order[j]
        BY <2>2, <2>5, ParentBefore
      <3>2. Good(Parent[p])
        <4>1. j <= n
          BY <2>1, <2>2
        <4>2. QED  BY <1>3, <3>1, <4>1
      <3>3. Dir # Absent
        BY DEF UpdateRoundsAssumption
      <3>4. QED  BY <1>1, <2>2, <2>3, <2>5, <3>2, <3>3 DEF Climbs
    <2>6. QED  BY <2>4, <2>5
  <1>4. n \in Nat
    BY OrderIs
  <1>5. n \in S
    <2> HIDE DEF S, n
    <2>1. QED  BY <1>2, <1>3, <1>4, SetInduction
  <1>6. \A p \in Path : Good(p)
    BY <1>4, <1>5, OrderIs
  <1>7. QED  BY <1>6 DEF IsTree

LEMMA RootedStep ==
    ASSUME UpdateRoundsAssumption, Typed, Rooted, [Next]_vars
    PROVE  Rooted'
  <1> DEFINE c == session.client
             p == Target(Head(session.toReceive)[1])
             Others == \A k \in Client : k # c => disk'[k] = disk[k]
  <1>1. Empty \notin {Dir, Absent} /\ Dir # Absent
    BY DEF UpdateRoundsAssumption
  <1>2. session.at # "none" => c \in Client /\ DOMAIN disk[c] = Path
    BY DEF Typed, SessionOK, DisksOK
  <1>3. CASE UNCHANGED disk /\ (UNCHANGED session \/ session'.at # "open")
    BY <1>3 DEF Rooted
  <1>4. CASE ServerKilled
    <2>1. UNCHANGED disk /\ session' = [session EXCEPT !.connected = FALSE]
      BY <1>4 DEF ServerKilled
    <2>2. /\ session'.at = session.at /\ session'.client = session.client
          /\ session'.toReceive = session.toReceive
      BY <2>1 DEF Typed, SessionOK
    <2>3. QED  BY <2>1, <2>2 DEF Rooted
  <1>5. ASSUME NEW k \in Client, ClientStart(k)
        PROVE  Rooted'
    <2>1. /\ FileStructure \in Path /\ Ancestors[FileStructure] = {}
          /\ \A q \in Path : FileStructure \notin Ancestors[q]
      BY Names
    <2>2. session'.at = "started"
      BY <1>5 DEF ClientStart, NoSession
    <2>3. /\ \A q \in Path : q # FileStructure => disk'[k][q] = disk[k][q]
          /\ \A m \in Client : m # k => disk'[m] = disk[m]
      BY <1>5, <2>1 DEF ClientStart, Typed, DisksOK
    <2>4. IsTree(disk'[k])
      <3>1. \A q \in Path : Ancestors[q] \subseteq Path
        BY AncestorsAre DEF Over
      <3>2. QED  BY <2>1, <2>3, <3>1 DEF Rooted, IsTree
    <2>5. QED  BY <2>2, <2>3, <2>4 DEF Rooted
  <1>6. CASE ClientDelete
    <2>1. session.at = "compared" /\ session' = [session EXCEPT !.at = "deleted"]
      BY <1>6 DEF ClientDelete
    <2>2. session'.at = "deleted" /\ c \in Client
      BY <1>2, <2>1 DEF Typed, SessionOK
    <2>3. PICK hit : disk' = [disk EXCEPT ![c] =
             [q \in Path |-> IF q \in hit THEN DeleteFilesFromDir(@, q)[q] ELSE @[q]]]
      BY <1>6 DEF ClientDelete
    <2>4. /\ \A q \in Path : \/ disk'[c][q] = disk[c][q]
                             \/ disk'[c][q] = Absent /\ IsFile(disk[c][q])
          /\ Others
      <3>1. \A q \in Path : DeleteFilesFromDir(disk[c], q)[q] =
                            IF IsFile(disk[c][q]) THEN Absent ELSE disk[c][q]
        BY <1>2, <2>1, Removed
      <3>2. DOMAIN disk = Client
        BY DEF Typed, DisksOK
      <3>3. \A q \in Path : disk'[c][q] = IF q \in hit THEN DeleteFilesFromDir(disk[c], q)[q]
                                          ELSE disk[c][q]
        BY <2>2, <2>3, <3>2
      <3>4. Others
        BY <2>3, <3>2
      <3> HIDE DEF c, Others
      <3>5. QED  BY <3>1, <3>3, <3>4
    <2>5. IsTree(disk'[c])
      <3>1. \A q \in Path : Ancestors[q] \subseteq Path
        BY AncestorsAre DEF Over
      <3>2. QED  BY <2>2, <2>4, <3>1 DEF Rooted, IsTree, IsFile
    <2>6. QED  BY <2>2, <2>4, <2>5 DEF Rooted
  <1>7. CASE FileOpen
    <2>1. /\ session.at = "receiving" /\ session.toReceive # <<>>
          /\ ~Blocked(disk[c], p) /\ (Skips \/ Opens)
      BY <1>7, FileOpenIs
    <2>2. c \in Client /\ p \in Path
      BY <1>2, <2>1, NextFile DEF Typed
    <2>3. CASE Skips
      <3>1. session'.at = "receiving" /\ UNCHANGED disk
        BY <2>1, <2>3 DEF Skips, Typed, SessionOK
      <3>2. QED  BY <3>1 DEF Rooted
    <2>4. CASE Opens
      <3>1. /\ disk[c][p] # Dir
            /\ session' = [session EXCEPT !.at = "open"]
            /\ disk' = [disk EXCEPT ![c] =
                          [q \in Path |-> IF q = p THEN Empty
                                          ELSE IF q \in Ancestors[p] THEN Dir ELSE @[q]]]
        BY <2>4 DEF Opens
      <3>2. session'.client = c /\ session'.toReceive = session.toReceive
        BY <3>1 DEF Typed, SessionOK
      <3>3. /\ \A q \in Path : disk'[c][q] = IF q = p THEN Empty
                                              ELSE IF q \in Ancestors[p] THEN Dir ELSE disk[c][q]
            /\ Others
        BY <2>2, <3>1 DEF Typed, DisksOK
      <3>4. IsTree(disk[c])
        BY <2>2 DEF Rooted
      <3>5. \A q \in Ancestors[p] : disk[c][q] \in {Dir, Absent}
        BY <2>1 DEF Blocked, IsFile
      <3>6. \A q \in Path : Ancestors[q] \subseteq Path
        BY AncestorsAre DEF Over
      <3>7. Over(p)
        BY <2>2, AncestorsAre
      <3> HIDE DEF p, c, Others
      <3>8. ASSUME NEW q \in Path, disk'[c][q] # Absent, NEW r \in Ancestors[q]
            PROVE  disk'[c][r] = Dir
        <4>1. r \in Path
          BY <3>6
        <4>2. CASE q = p \/ q \in Ancestors[p]
          <5>1. r \in Ancestors[p] /\ r # p
            BY <3>7, <4>2 DEF Over
          <5>2. QED  BY <3>3, <4>1, <5>1
        <4>3. CASE q # p /\ q \notin Ancestors[p]
          <5>1. disk[c][q] # Absent
            BY <3>3, <3>8, <4>3
          <5>2. disk[c][r] = Dir
            BY <3>4, <5>1 DEF IsTree
          <5>3. r # p
            BY <3>1, <5>2
          <5>4. QED  BY <3>3, <4>1, <5>2, <5>3
        <4>4. QED  BY <4>2, <4>3
      <3>9. IsTree(disk'[c])
        BY <3>8 DEF IsTree
      <3>10. disk'[c][p] = Empty
        BY <2>2, <3>3
      <3>11. QED  BY <3>2, <3>3, <3>9, <3>10 DEF Rooted, p, c, Others
    <2>5. QED  BY <2>1, <2>3, <2>4
  <1>8. CASE FileWrite
    <2>1. /\ session.at = "open" /\ disk' = [disk EXCEPT ![c][p] = Head(session.toReceive)[2]]
          /\ session' = [session EXCEPT !.at = "receiving", !.toReceive = Tail(@)]
      BY <1>8 DEF FileWrite
    <2>2. session.toReceive # <<>> /\ c \in Client /\ session'.at = "receiving"
      BY <2>1 DEF Typed, SessionOK
    <2>3. p \in Path
      BY <2>2, NextFile DEF Typed
    <2>4. disk[c][p] = Empty /\ IsTree(disk[c])
      BY <2>1, <2>2 DEF Rooted
    <2>5. (\A q \in Path : q # p => disk'[c][q] = disk[c][q]) /\ Others
      BY <2>1, <2>2, <2>3 DEF Typed, DisksOK
    <2>6. \A q \in Path : Ancestors[q] \subseteq Path
      BY AncestorsAre DEF Over
    <2>7. Over(p)
      BY <2>3, AncestorsAre
    <2> HIDE DEF p, c, Others
    <2>8. ASSUME NEW q \in Path, disk'[c][q] # Absent, NEW r \in Ancestors[q]
          PROVE  disk'[c][r] = Dir
      <3>1. disk[c][q] # Absent
        BY <1>1, <2>4, <2>5, <2>8
      <3>2. r \in Path /\ disk[c][r] = Dir
        BY <2>4, <2>6, <3>1 DEF IsTree
      <3>3. QED  BY <1>1, <2>4, <2>5, <3>2
    <2>9. IsTree(disk'[c])
      BY <2>8 DEF IsTree
    <2>10. QED  BY <2>2, <2>5, <2>9 DEF Rooted, Others
  <1>9. CASE ClientFinish
    <2>1. /\ session.at = "receiving"
          /\ disk' = [disk EXCEPT ![c] = DeleteFilesFromDir(@, FileStructure)]
          /\ session' = [session EXCEPT !.at = "finished", !.connected = FALSE]
      BY <1>9 DEF ClientFinish
    <2>2. session'.at = "finished" /\ c \in Client
      BY <1>2, <2>1 DEF Typed, SessionOK
    <2>3. /\ \A q \in Path : \/ disk'[c][q] = disk[c][q]
                             \/ disk'[c][q] = Absent /\ IsFile(disk[c][q])
          /\ Others
      <3>1. \A q \in Path : DeleteFilesFromDir(disk[c], FileStructure)[q] =
                            IF q = FileStructure /\ IsFile(disk[c][q]) THEN Absent ELSE disk[c][q]
        BY <1>2, <2>1, Removed
      <3>2. DOMAIN disk = Client
        BY DEF Typed, DisksOK
      <3>3. disk'[c] = DeleteFilesFromDir(disk[c], FileStructure)
        BY <2>1, <2>2, <3>2
      <3>4. Others
        BY <2>1, <3>2
      <3> HIDE DEF c, Others
      <3>5. QED  BY <3>1, <3>3, <3>4
    <2>4. IsTree(disk'[c])
      <3>1. \A q \in Path : Ancestors[q] \subseteq Path
        BY AncestorsAre DEF Over
      <3>2. QED  BY <2>2, <2>3, <3>1 DEF Rooted, IsTree, IsFile
    <2>5. QED  BY <2>2, <2>3, <2>4 DEF Rooted
  <1>10. CASE UNCHANGED vars \/ ServerStart \/ \E edit \in Edits : Edit(edit[1], edit[2])
    BY <1>3, <1>10 DEF vars, clientVars, ServerStart, Edit
  <1>11. CASE Upload \/ Compare \/ ServerSend \/ FileThrows \/ ClientKilled
    <2>1. UNCHANGED disk
      BY <1>11 DEF Upload, Compare, ServerSend, FileThrows, ClientKilled
    <2>2. session'.at # "open"
      <3>1. CASE FileThrows \/ ClientKilled
        BY <3>1 DEF FileThrows, ClientKilled, NoSession
      <3>2. CASE Upload
        BY <3>2 DEF Upload, Typed, SessionOK
      <3>3. CASE Compare
        BY <3>3 DEF Compare, Typed, SessionOK
      <3>4. CASE ServerSend
        BY <3>4 DEF ServerSend, Typed, SessionOK
      <3>5. QED  BY <1>11, <3>1, <3>2, <3>3, <3>4
    <2>3. QED  BY <1>3, <2>1, <2>2
  <1>12. QED  BY <1>4, <1>5, <1>6, <1>7, <1>8, <1>9, <1>10, <1>11 DEF Next, Progress

\* The clients' directories stay trees, whatever the server sends, the operator edits
\* and a kill leaves behind: nothing is written under a file.
THEOREM TreeKeptHolds == UpdateRoundsAssumption => (Spec => []TreeKept)
  <1> SUFFICES ASSUME UpdateRoundsAssumption
               PROVE  Spec => []TreeKept
    OBVIOUS
  <1>1. Init => Typed /\ Rooted
    BY TypedInit, RootedInit
  <1>2. Typed /\ Rooted /\ [Next]_vars => (Typed /\ Rooted)'
    BY TypedStep, RootedStep
  <1>3. Rooted => TreeKept
    BY DEF Rooted, IsTree, TreeKept, Blocked, IsFile
  <1>4. QED  BY <1>1, <1>2, <1>3, PTL DEF Spec

-----------------------------------------------------------------------------
(* What a hash says of a file.                                             *)

\* A FileStructure file is not taken for a file of another kind, nor its first hash
\* for the first token of one.
FormatsDiffer ==
    /\ \A l : [lines |-> l] \notin Content
    /\ \A x \in Content : \A q, data : FirstToken[x] # <<q, data>>

HashesTell == UpdateRoundsAssumption /\ TokensTell /\ FilesStayFiles /\ FormatsDiffer

\* x may be what the server has for a file of the application.
ServerFile(p, x) == p \in AppPath /\ x \in ServerMayHave(p) /\ IsFile(x)

Directory(d) == IsTree(d) /\ \A p \in Path : OnClient(p, d[p])

\* What a client finds at a path is a version of the file, or a trace of the updater.
LEMMA Speaking ==
    ASSUME UpdateRoundsAssumption, NEW p \in Path, NEW x, OnClient(p, x), Speaks(x)
    PROVE  \/ x \in Found(p) \cap Content /\ Said(x) = FirstToken[x]
           \/ /\ p \in UpdaterPath /\ x \notin Content \cup {Empty, Dir, Absent}
              /\ \E q, data : Said(x) = <<q, data>>
           \/ ~FormatsDiffer
  <1>1. Found(p) \subseteq Content \cup {Empty, Dir, Absent}
    BY ServerContents, ClientContents, Names DEF Found
  <1>2. CASE x \in Found(p)
    <2>1. x \in Content /\ x \notin {Empty, Dir}
      BY <1>1, <1>2 DEF Speaks
    <2>2. Said(x) = FirstToken[x]
      BY <2>1 DEF Said, Extract
    <2>3. QED  BY <1>2, <2>1, <2>2
  <1>3. CASE x \notin Found(p) /\ FormatsDiffer
    <2>1. p \in UpdaterPath /\ Trace(x) /\ x \notin {Empty, Dir, Absent}
      BY <1>3 DEF OnClient, Speaks
    <2>2. PICK l : IsHashes(l) /\ l # <<>> /\ x = [lines |-> l]
      BY <2>1 DEF Trace
    <2>3. x \notin Content
      BY <1>3, <2>2 DEF FormatsDiffer
    <2>4. Said(x) = Head(l)
      <3>1. x.lines = l
        BY <2>2
      <3>2. QED  BY <2>1, <2>3, <3>1 DEF Said, Extract
    <2>5. Head(l) = <<Head(l)[1], Head(l)[2]>>
      <3>1. Head(l) \in Range(l)
        BY <2>2, Rest DEF IsHashes
      <3>2. QED  BY <2>2, <3>1 DEF IsHashes
    <2>6. QED  BY <2>1, <2>3, <2>4, <2>5
  <1>4. QED  BY <1>2, <1>3

\* The hash of a file of the server is found only where that file is.
LEMMA Tells ==
    ASSUME HashesTell, NEW d, Directory(d), NEW p, NEW x, ServerFile(p, x),
           <<p, FirstToken[x]>> \in Range(CreateAllHashFiles(d))
    PROVE  d[p] = x
  <1> USE DEF HashesTell
  <1> DEFINE h == <<p, FirstToken[x]>>
  <1>1. h[1] = p /\ h[2] = FirstToken[x]
    OBVIOUS
  <1>2. PICK j \in 1 .. Len(Order) : Entry(d, j, h)
    BY ScanIs
  <1> HIDE DEF h
  <1>3. p = Order[j] /\ d[p] # Absent /\ p \in Path /\ p \in AppPath
    BY <1>1, <1>2 DEF Entry, ServerFile, AppPath
  <1>4. /\ x \in Content /\ FirstToken[x] # NoToken
        /\ \A y \in Found(p) \cap Content : FirstToken[y] = FirstToken[x] => y = x
        /\ \A q \in Path \ Ancestors[p] : Before(q, p) =>
              \A y \in Found(q) \cap Content : FirstToken[y] # FirstToken[x]
    BY DEF TokensTell, ServerFile
  <1>5. CASE Speaks(d[p])
    <2>1. Said(d[p]) = FirstToken[x]
      BY <1>1, <1>2, <1>3, <1>5 DEF Entry
    <2>2. OnClient(p, d[p]) /\ p \notin UpdaterPath
      BY <1>3 DEF Directory, AppPath
    <2>3. d[p] \in Found(p) \cap Content /\ Said(d[p]) = FirstToken[d[p]]
      BY <1>3, <1>5, <2>2, Speaking
    <2>4. QED  BY <1>4, <2>1, <2>3
  <1>6. CASE ~Speaks(d[p])
    <2>1. Heard(d, j - 1, FirstToken[x])
      BY <1>1, <1>2, <1>3, <1>6 DEF Entry
    <2>2. PICK k \in 1 .. j - 1 : Speaks(d[Order[k]]) /\ FirstToken[x] = Said(d[Order[k]])
      BY <1>4, <2>1 DEF Heard
    <2> DEFINE q == Order[k]
    <2>3. q \in Path /\ Before(q, p)
      <3>1. k \in 1 .. Len(Order) /\ k < j /\ DOMAIN Order = 1 .. Len(Order)
        BY OrderIs
      <3>2. QED  BY <1>3, <3>1, OrderIs DEF Before
    <2>4. q \notin Ancestors[p]
      <3>1. \A r \in Ancestors[p] : d[r] = Dir
        BY <1>3 DEF Directory, IsTree
      <3>2. d[q] # Dir
        BY <2>2 DEF Speaks
      <3>3. QED  BY <3>1, <3>2
    <2>5. OnClient(q, d[q])
      BY <2>3 DEF Directory
    <2> HIDE DEF q
    <2>6. CASE d[q] \in Found(q) \cap Content /\ Said(d[q]) = FirstToken[d[q]]
      BY <1>4, <2>2, <2>3, <2>4, <2>6 DEF q
    <2>7. CASE \E r, data : Said(d[q]) = <<r, data>>
      BY <1>4, <2>2, <2>7 DEF FormatsDiffer, q
    <2>8. QED  BY <2>2, <2>3, <2>5, <2>6, <2>7, Speaking DEF q
  <1>7. QED  BY <1>5, <1>6

\* A file of the server is hashed with its own token.
LEMMA Hashed ==
    ASSUME HashesTell, NEW d, NEW p, ServerFile(p, d[p])
    PROVE  /\ <<p, FirstToken[d[p]]>> \in Range(CreateAllHashFiles(d))
           /\ \A h \in Range(CreateAllHashFiles(d)) : h[1] = p => h = <<p, FirstToken[d[p]]>>
  <1> USE DEF HashesTell
  <1>1. p \in Path /\ d[p] \in Content
    BY DEF ServerFile, TokensTell, AppPath
  <1>2. Speaks(d[p]) /\ Said(d[p]) = FirstToken[d[p]]
    <2>1. {Empty, Dir, Absent} \cap Content = {}
      BY DEF UpdateRoundsAssumption
    <2>2. QED  BY <1>1, <2>1 DEF Speaks, Said, Extract
  <1>3. PICK j \in 1 .. Len(Order) : p = Order[j]
    BY <1>1, OrderIs
  <1>4. ASSUME NEW h \in Range(CreateAllHashFiles(d)), h[1] = p
        PROVE  h = <<p, FirstToken[d[p]]>>
    <2>1. PICK k \in 1 .. Len(Order) : Entry(d, k, h) /\ h = <<h[1], h[2]>>
      BY ScanIs
    <2>2. Order[k] = p /\ h[2] = Said(d[p])
      BY <1>2, <1>4, <2>1 DEF Entry
    <2>3. QED  BY <1>2, <1>4, <2>1, <2>2
  <1>5. PICK h \in Range(CreateAllHashFiles(d)) : Entry(d, j, h)
    <2>1. d[Order[j]] # Absent
      BY <1>2, <1>3 DEF Speaks
    <2>2. QED  BY <2>1, ScanIs
  <1>6. h[1] = p
    BY <1>3, <1>5 DEF Entry
  <1>7. QED  BY <1>4, <1>5, <1>6

-----------------------------------------------------------------------------
(* What a client that finishes has.                                        *)

\* A file of the application as it was when the server started.
Untouched(p) == p \in AppPath \ touched /\ IsFile(serverDisk[p])

\* The server lists each, and what waits in fileList is as it is now.
Listed ==
    server.up => \A p : Untouched(p) => <<p, FirstToken[serverDisk[p]]>> \in Range(server.list)
Waiting ==
    \A e \in Range(server.fileList) : e[1] \in AppPath \ touched => e[2] = serverDisk[e[1]]

\* No client has a directory where the server has a file.
NoDirectories == \A c \in Client : \A p, x : ServerFile(p, x) => disk[c][p] # Dir

\* A manifest has the hash of a file of the server only where the client has the file.
Told ==
    session.at \in {"started", "uploaded"} =>
        \A p, x :
            ServerFile(p, x) /\ <<p, FirstToken[x]>> \in
                                    Range(ReadFromfileStucFileByDir(session.manifest))
            => disk[session.client][p] = x

\* After the comparison the client has what the server has, or it is in fileList ...
Chosen ==
    session.at \in {"compared", "deleted"} /\ session.connected =>
        \A p : Untouched(p) =>
            \/ disk[session.client][p] = serverDisk[p]
            \/ <<p, serverDisk[p]>> \in Range(server.fileList)

\* ... and is told to delete nothing that the server has.
Spared ==
    session.at = "compared" /\ session.connected =>
        Range(session.toDelete) \cap Range(server.list) = {}

\* What was promised is there or on its way, and nothing else will replace it.
Arriving ==
    session.at \in {"receiving", "open"} =>
        \A file \in session.promised :
            /\ ServerFile(file[1], file[2])
            /\ \/ disk[session.client][file[1]] = file[2]
               \/ \E e \in Range(session.toReceive) : e[1] = file[1]
            /\ \A e \in Range(session.toReceive) : e[1] = file[1] => e[2] = file[2]

Kept == Listed /\ Waiting /\ NoDirectories /\ Told /\ Chosen /\ Spared /\ Arriving /\ UpToDate

\* What the provers need of a file of the server.
LEMMA ServerFileIs ==
    ASSUME HashesTell, NEW p, NEW x, ServerFile(p, x)
    PROVE  /\ p \in Path /\ p \notin UpdaterPath /\ p \notin Range(Parent) /\ x \in Content
           /\ \A q \in Path : p \notin Ancestors[q]
           /\ \A c \in Client : \A d \in ClientDisks : d[c][p] # Dir
  <1> USE DEF HashesTell
  <1>1. p \notin Range(Parent) /\ Dir \notin ClientMayHave(p) /\ x \in Content
    BY DEF ServerFile, FilesStayFiles, TokensTell
  <1>2. \A q \in Path : Ancestors[q] \subseteq Range(Parent)
    BY AncestorsAre DEF Over
  <1>3. QED  BY <1>1, <1>2 DEF ServerFile, AppPath, ClientMayHave

LEMMA UntouchedIs ==
    ASSUME UpdateRoundsAssumption, Typed, NEW p, Untouched(p)
    PROVE  ServerFile(p, serverDisk[p])
  BY DEF Untouched, ServerFile, Typed, ServerDiskOK, OnServer, AppPath

LEMMA KeptInit == HashesTell /\ Init => Kept
  <1> SUFFICES ASSUME HashesTell, Init
               PROVE  Kept
    OBVIOUS
  <1>1. Listed /\ Waiting /\ Told /\ Chosen /\ Spared /\ Arriving /\ UpToDate
    BY NothingIn DEF Init, Down, NoSession, Listed, Waiting, Told, Chosen, Spared, Arriving, UpToDate
  <1>2. NoDirectories
    BY ServerFileIs DEF Init, NoDirectories
  <1>3. QED  BY <1>1, <1>2 DEF Kept

LEMMA KeptServerStart ==
    ASSUME HashesTell, Typed, Rooted, Kept, ServerStart
    PROVE  Kept'
  <1> USE DEF Kept
  <1>1. /\ server' = [up |-> TRUE, list |-> CreateAllHashFiles(serverDisk), fileList |-> <<>>]
        /\ serverDisk' = [serverDisk EXCEPT ![FileStructure] =
                             CreateNewFileStucFileInDir(CreateAllHashFiles(serverDisk))]
        /\ touched' = {} /\ UNCHANGED <<disk, session>> /\ ~server.up
    BY DEF ServerStart, clientVars
  <1>2. \A p \in AppPath : serverDisk'[p] = serverDisk[p]
    <2>1. FileStructure \in UpdaterPath
      BY Names DEF HashesTell
    <2>2. QED  BY <1>1, <2>1 DEF AppPath, Typed, ServerDiskOK
  <1>3. Listed'
    <2>1. SUFFICES ASSUME NEW p, Untouched(p)'
                   PROVE  <<p, FirstToken[serverDisk'[p]]>> \in Range(server'.list)
      BY DEF Listed
    <2>2. p \in AppPath /\ IsFile(serverDisk[p])
      BY <1>2, <2>1 DEF Untouched
    <2>3. ServerFile(p, serverDisk[p])
      BY <2>2 DEF ServerFile, Typed, ServerDiskOK, OnServer, AppPath
    <2>4. QED  BY <1>1, <1>2, <2>2, <2>3, Hashed
  <1>4. Waiting'
    BY <1>1, NothingIn DEF Waiting
  <1>5. ~session.connected
    BY <1>1 DEF Typed, ConnectionOK
  <1>6. NoDirectories' /\ Told' /\ Chosen' /\ Spared' /\ Arriving' /\ UpToDate'
    BY <1>1, <1>5 DEF NoDirectories, Told, Chosen, Spared, Arriving, UpToDate
  <1>7. QED  BY <1>3, <1>4, <1>6

LEMMA KeptServerKilled ==
    ASSUME HashesTell, Typed, Rooted, Kept, ServerKilled
    PROVE  Kept'
  <1> USE DEF Kept
  <1>1. /\ server' = Down /\ session' = [session EXCEPT !.connected = FALSE]
        /\ UNCHANGED <<serverDisk, disk, touched>>
    BY DEF ServerKilled
  <1>2. session' = [at |-> session.at, client |-> session.client,
                    connected |-> FALSE, manifest |-> session.manifest,
                    toDelete |-> session.toDelete, toReceive |-> session.toReceive,
                    promised |-> session.promised]
    BY <1>1 DEF Typed, SessionOK
  <1>3. Listed' /\ Waiting' /\ NoDirectories'
    BY <1>1, NothingIn DEF Listed, Waiting, NoDirectories, Down
  <1>4. Told' /\ Chosen' /\ Spared'
    BY <1>1, <1>2 DEF Told, Chosen, Spared
  <1>5. Arriving' /\ UpToDate'
    BY <1>1, <1>2 DEF Arriving, UpToDate
  <1>6. QED  BY <1>3, <1>4, <1>5

LEMMA KeptEdit ==
    ASSUME HashesTell, Typed, Rooted, Kept, NEW edit \in Edits, Edit(edit[1], edit[2])
    PROVE  Kept'
  <1> USE DEF Kept
  <1>1. /\ serverDisk' = [serverDisk EXCEPT ![edit[1]] = edit[2]]
        /\ touched' = touched \cup {edit[1]}
        /\ UNCHANGED <<server, disk, session>>
    BY DEF Edit, clientVars
  <1>2. \A p \in AppPath \ touched' : serverDisk'[p] = serverDisk[p] /\ p \notin touched
    BY <1>1 DEF AppPath, Typed, ServerDiskOK
  <1>3. \A p : Untouched(p)' => Untouched(p) /\ serverDisk'[p] = serverDisk[p]
    BY <1>2 DEF Untouched
  <1>4. Listed' /\ Waiting' /\ Chosen'
    BY <1>1, <1>2, <1>3 DEF Listed, Waiting, Chosen
  <1>5. NoDirectories' /\ Told' /\ Spared' /\ Arriving' /\ UpToDate'
    BY <1>1 DEF NoDirectories, Told, Spared, Arriving, UpToDate
  <1>6. QED  BY <1>4, <1>5

LEMMA KeptClientStart ==
    ASSUME HashesTell, Typed, Rooted, Kept, NEW c \in Client, ClientStart(c)
    PROVE  Kept'
  <1> USE DEF Kept
  <1> DEFINE scan == CreateAllHashFiles(disk[c])
             written == CreateNewFileStucFileInDir(scan)
  <1>1. /\ disk' = [disk EXCEPT ![c][FileStructure] = written]
        /\ session' = [NoSession EXCEPT !.at = "started", !.client = c, !.manifest = written]
        /\ UNCHANGED <<serverDisk, server, touched>>
    BY DEF ClientStart
  <1>2. session'.at = "started" /\ session'.client = c /\ session'.manifest = written
    BY <1>1 DEF NoSession
  <1> HIDE DEF written
  <1>3. /\ \A p \in AppPath : disk'[c][p] = disk[c][p]
        /\ \A k \in Client : k # c => disk'[k] = disk[k]
    <2>1. FileStructure \in UpdaterPath
      BY Names DEF HashesTell
    <2>2. QED  BY <1>1, <2>1 DEF AppPath, Typed, DisksOK
  <1>4. Told'
    <2>1. SUFFICES ASSUME NEW p, NEW x, ServerFile(p, x),
                          <<p, FirstToken[x]>> \in Range(ReadFromfileStucFileByDir(written))
                   PROVE  disk'[c][p] = x
      BY <1>2 DEF Told, ServerFile
    <2>2. Range(ReadFromfileStucFileByDir(written)) \subseteq Range(scan)
      BY NothingIn DEF written, ReadFromfileStucFileByDir, CreateNewFileStucFileInDir
    <2>3. Directory(disk[c])
      BY DEF Directory, Rooted, Typed, DisksOK
    <2>4. disk[c][p] = x
      BY <2>1, <2>2, <2>3, Tells
    <2>5. QED  BY <1>3, <2>1, <2>4 DEF ServerFile
  <1>5. NoDirectories'
    <2>1. \A k \in Client : \A p, x : ServerFile(p, x) => disk'[k][p] = disk[k][p]
      BY <1>3 DEF ServerFile
    <2>2. QED  BY <2>1 DEF NoDirectories, ServerFile
  <1>6. Listed' /\ Waiting' /\ Chosen' /\ Spared' /\ Arriving' /\ UpToDate'
    BY <1>1, <1>2 DEF Listed, Waiting, Chosen, Spared, Arriving, UpToDate, Untouched
  <1>7. QED  BY <1>4, <1>5, <1>6

\* The server's own files are not the application's.
LEMMA KeptUpload ==
    ASSUME HashesTell, Typed, Rooted, Kept, Upload
    PROVE  Kept'
  <1> USE DEF Kept
  <1>1. /\ session.at = "started"
        /\ serverDisk' = [serverDisk EXCEPT ![ManifestOf[session.client]] = session.manifest]
        /\ session' = [session EXCEPT !.at = "uploaded", !.connected = TRUE]
        /\ UNCHANGED <<server, disk, touched>>
    BY DEF Upload, counters
  <1>2. \A p \in AppPath : serverDisk'[p] = serverDisk[p]
    <2>1. ManifestOf[session.client] \in UpdaterPath
      BY <1>1, Names DEF HashesTell, Typed, SessionOK
    <2>2. QED  BY <1>1, <2>1 DEF AppPath, Typed, ServerDiskOK
  <1>3. session' = [at |-> "uploaded", client |-> session.client,
                    connected |-> TRUE, manifest |-> session.manifest,
                    toDelete |-> session.toDelete, toReceive |-> session.toReceive,
                    promised |-> session.promised]
    BY <1>1 DEF Typed, SessionOK
  <1>4. Listed' /\ Waiting' /\ NoDirectories'
    BY <1>1, <1>2 DEF Listed, Waiting, NoDirectories, Untouched
  <1>5. Told' /\ Chosen' /\ Spared' /\ Arriving' /\ UpToDate'
    BY <1>1, <1>3 DEF Told, Chosen, Spared, Arriving, UpToDate
  <1>6. QED  BY <1>4, <1>5

LEMMA KeptCompare ==
    ASSUME HashesTell, Typed, Rooted, Kept, Compare
    PROVE  Kept'
  <1> USE DEF Kept
  <1> DEFINE c == session.client
             own == ManifestOf[c]
             hashList == ReadFromfileStucFileByDir(serverDisk[own])
             missing == FindMissingFiles(hashList, server.list)
             added == FilesAdded(missing, own)
             toDelete == FindFilesToDelete(hashList, server.list)
  <1>1. /\ session.at = "uploaded" /\ session.connected
        /\ server' = [server EXCEPT !.fileList = @ \o added]
        /\ session' = [session EXCEPT !.at = "compared", !.toDelete = toDelete]
        /\ serverDisk' = DeleteFilesFromDir(serverDisk, FileStructure)
        /\ UNCHANGED <<disk, touched>>
    BY DEF Compare
  <1>2. c \in Client /\ serverDisk[own] = session.manifest /\ Trace(session.manifest)
    BY <1>1 DEF Typed, SessionOK, ConnectionOK
  <1>3. own \in UpdaterPath /\ FileStructure \in UpdaterPath /\ ServerExe \in UpdaterPath
    BY <1>2, Names DEF HashesTell
  <1>4. IsHashes(hashList) /\ IsHashes(server.list) /\ IsSent(server.fileList)
    BY <1>2, ReadIs DEF Typed, ServerOK
  <1>5. \A p, x : ServerFile(p, x) /\ <<p, FirstToken[x]>> \in Range(hashList) => disk[c][p] = x
    BY <1>1, <1>2 DEF Told
  <1> HIDE DEF hashList
  <1>6. /\ IsHashes(missing) /\ Range(missing) = Range(server.list) \ Range(hashList)
        /\ Range(toDelete) \cap Range(server.list) = {}
    BY <1>4, FilteredHashes DEF FindMissingFiles, FindFilesToDelete
  <1> HIDE DEF missing, toDelete
  <1>7. /\ IsSent(added)
        /\ \A e : e \in Range(added) <=>
             \E h \in Range(missing) :
                 /\ h[1] \notin {own, ServerExe} /\ IsFile(serverDisk[h[1]])
                 /\ e = <<h[1], serverDisk[h[1]]>>
    BY <1>6, FilesAddedAre DEF HashesTell, Typed
  <1> HIDE DEF added
  <1>8. Range(server.fileList \o added) = Range(server.fileList) \cup Range(added)
    BY <1>4, <1>7, Joined DEF IsSent
  <1>9. server' = [up |-> server.up, list |-> server.list, fileList |-> server.fileList \o added]
    BY <1>1 DEF Typed, ServerOK
  <1>10. session'.at = "compared" /\ session'.client = c /\ session'.toDelete = toDelete
    BY <1>1 DEF Typed, SessionOK
  <1>11. \A p \in AppPath : serverDisk'[p] = serverDisk[p]
    BY <1>1, <1>3, Removed DEF AppPath, Typed, ServerDiskOK
  <1>12. \A p : Untouched(p)' <=> Untouched(p)
    BY <1>1, <1>11 DEF Untouched
  <1>13. Listed'
    BY <1>9, <1>11, <1>12 DEF Listed, Untouched
  <1>14. Waiting'
    <2>1. SUFFICES ASSUME NEW e, e \in Range(server.fileList) \cup Range(added), e[1] \in AppPath \ touched
                   PROVE  e[2] = serverDisk[e[1]]
      BY <1>1, <1>8, <1>9, <1>11 DEF Waiting
    <2>2. CASE e \in Range(server.fileList)
      BY <2>1, <2>2 DEF Waiting
    <2>3. CASE e \in Range(added)
      BY <1>7, <2>3
    <2>4. QED  BY <2>1, <2>2, <2>3
  <1>15. Chosen'
    <2>1. SUFFICES ASSUME NEW p, Untouched(p)
                   PROVE  \/ disk[c][p] = serverDisk[p]
                          \/ <<p, serverDisk[p]>> \in Range(added)
      BY <1>1, <1>8, <1>9, <1>10, <1>11, <1>12 DEF Chosen, Untouched
    <2> DEFINE h == <<p, FirstToken[serverDisk[p]]>>
    <2>2. h \in Range(server.list)
      BY <1>1, <2>1 DEF Listed, Typed, ConnectionOK
    <2>3. ServerFile(p, serverDisk[p])
      BY <2>1, UntouchedIs DEF HashesTell
    <2>4. CASE h \in Range(hashList)
      BY <1>5, <2>3, <2>4
    <2>5. CASE h \notin Range(hashList)
      <3>1. h \in Range(missing) /\ h[1] = p
        BY <1>6, <2>2, <2>5
      <3>2. p \notin {own, ServerExe} /\ IsFile(serverDisk[p])
        BY <1>3, <2>1 DEF Untouched, AppPath
      <3>3. QED  BY <1>7, <3>1, <3>2
    <2>6. QED  BY <2>4, <2>5
  <1>16. Spared'
    BY <1>6, <1>9, <1>10 DEF Spared
  <1>17. NoDirectories' /\ Told' /\ Arriving' /\ UpToDate'
    BY <1>1, <1>10 DEF NoDirectories, Told, Arriving, UpToDate, ServerFile
  <1>18. QED  BY <1>13, <1>14, <1>15, <1>16, <1>17

\* The one hash that is read is of no file that the server lists.
LEMMA KeptClientDelete ==
    ASSUME HashesTell, Typed, Rooted, Kept, ClientDelete
    PROVE  Kept'
  <1> USE DEF Kept
  <1> DEFINE c == session.client
             scan == CreateAllHashFiles(disk[c])
             read == {session.toDelete[i] : i \in DOMAIN session.toDelete \cap {1}}
             hit == {file[1] : file \in Range(scan) \cap read} \ {ClientExe}
             Others == \A k \in Client : k # c => disk'[k] = disk[k]
  <1>1. /\ session.at = "compared" /\ session' = [session EXCEPT !.at = "deleted"]
        /\ disk' = [disk EXCEPT ![c] =
             [q \in Path |-> IF q \in hit THEN DeleteFilesFromDir(@, q)[q] ELSE @[q]]]
        /\ UNCHANGED <<serverDisk, server, touched>>
    BY DEF ClientDelete
  <1>2. c \in Client /\ DOMAIN disk = Client /\ DOMAIN disk[c] = Path
    BY <1>1 DEF Typed, SessionOK, DisksOK
  <1>3. read \subseteq Range(session.toDelete)
    BY DEF Range
  <1>4. \A q \in Path : DeleteFilesFromDir(disk[c], q)[q] =
                        IF IsFile(disk[c][q]) THEN Absent ELSE disk[c][q]
    BY <1>2, Removed
  <1> HIDE DEF hit
  <1>5. \A q \in Path : disk'[c][q] = IF q \in hit THEN DeleteFilesFromDir(disk[c], q)[q]
                                      ELSE disk[c][q]
    BY <1>1, <1>2
  <1>6. Others
    BY <1>1, <1>2
  <1>7. session' = [at |-> "deleted", client |-> c,
                    connected |-> session.connected, manifest |-> session.manifest,
                    toDelete |-> session.toDelete, toReceive |-> session.toReceive,
                    promised |-> session.promised]
    BY <1>1 DEF Typed, SessionOK
  <1>8. \A p : Untouched(p)' <=> Untouched(p)
    BY <1>1 DEF Untouched
  <1>9. ASSUME session.connected, NEW p, Untouched(p), disk[c][p] = serverDisk[p]
        PROVE  p \notin hit
    <2>1. SUFFICES ASSUME NEW file \in Range(scan), file \in Range(session.toDelete), file[1] = p
                   PROVE  FALSE
      BY <1>3 DEF hit
    <2>2. ServerFile(p, disk[c][p])
      BY <1>9, UntouchedIs DEF HashesTell
    <2>3. file = <<p, FirstToken[disk[c][p]]>>
      BY <2>1, <2>2, Hashed
    <2>4. file \in Range(server.list)
      BY <1>9, <2>3 DEF Listed, Typed, ConnectionOK
    <2>5. QED  BY <1>1, <1>9, <2>1, <2>4 DEF Spared
  <1>10. Chosen'
    <2>1. SUFFICES ASSUME session.connected, NEW p, Untouched(p)
                   PROVE  \/ disk'[c][p] = serverDisk[p]
                          \/ <<p, serverDisk[p]>> \in Range(server.fileList)
      BY <1>1, <1>7, <1>8 DEF Chosen
    <2>2. p \in Path
      BY <2>1 DEF Untouched, AppPath
    <2>3. \/ disk[c][p] = serverDisk[p]
          \/ <<p, serverDisk[p]>> \in Range(server.fileList)
      BY <1>1, <2>1 DEF Chosen
    <2> HIDE DEF c
    <2>4. CASE disk[c][p] = serverDisk[p]
      BY <1>5, <1>9, <2>1, <2>2, <2>4
    <2>5. QED  BY <2>3, <2>4
  <1>11. NoDirectories'
    <2>1. Dir # Absent
      BY DEF HashesTell, UpdateRoundsAssumption
    <2>2. SUFFICES ASSUME NEW k \in Client, NEW p, NEW x, ServerFile(p, x)
                   PROVE  disk'[k][p] # Dir
      BY DEF NoDirectories, ServerFile
    <2>3. disk[k][p] # Dir /\ p \in Path
      BY <2>2 DEF NoDirectories, ServerFile, AppPath
    <2> HIDE DEF c
    <2>4. CASE k = c
      BY <1>4, <1>5, <2>1, <2>3, <2>4
    <2>5. CASE k # c
      BY <1>6, <2>3, <2>5
    <2>6. QED  BY <2>4, <2>5
  <1>12. Listed' /\ Waiting'
    BY <1>1, <1>8 DEF Listed, Waiting, Untouched
  <1>13. Told' /\ Spared' /\ Arriving' /\ UpToDate'
    BY <1>7 DEF Told, Spared, Arriving, UpToDate
  <1>14. QED  BY <1>10, <1>11, <1>12, <1>13

LEMMA KeptServerSend ==
    ASSUME HashesTell, Typed, Rooted, Kept, ServerSend
    PROVE  Kept'
  <1> USE DEF Kept
  <1> DEFINE c == session.client
  <1>1. /\ session.at = "deleted" /\ session.connected
        /\ session' = [session EXCEPT !.at = "receiving", !.toReceive = server.fileList,
                                      !.promised = Current]
        /\ serverDisk' = DeleteFilesFromDir(serverDisk, ManifestOf[c])
        /\ UNCHANGED <<server, disk, touched>>
    BY DEF ServerSend
  <1>2. ManifestOf[c] \in UpdaterPath
    BY <1>1, Names DEF HashesTell, Typed, SessionOK
  <1>3. \A p \in AppPath : serverDisk'[p] = serverDisk[p]
    BY <1>1, <1>2, Removed DEF AppPath, Typed, ServerDiskOK
  <1>4. \A p : Untouched(p)' <=> Untouched(p)
    BY <1>1, <1>3 DEF Untouched
  <1>5. Listed' /\ Waiting' /\ NoDirectories'
    BY <1>1, <1>3, <1>4 DEF Listed, Waiting, NoDirectories, Untouched, ServerFile
  <1>6. \A file \in Current : Untouched(file[1]) /\ file[2] = serverDisk[file[1]]
    BY DEF Current, Untouched
  <1> HIDE DEF Current
  <1>7. session' = [at |-> "receiving", client |-> c,
                    connected |-> session.connected, manifest |-> session.manifest,
                    toDelete |-> session.toDelete, toReceive |-> server.fileList,
                    promised |-> Current]
    BY <1>1 DEF Typed, SessionOK
  <1>8. Arriving'
    <2>1. SUFFICES ASSUME NEW file \in Current
                   PROVE  /\ ServerFile(file[1], file[2])
                          /\ \/ disk[c][file[1]] = file[2]
                             \/ \E e \in Range(server.fileList) : e[1] = file[1]
                          /\ \A e \in Range(server.fileList) : e[1] = file[1] => e[2] = file[2]
      BY <1>1, <1>7 DEF Arriving, ServerFile
    <2> DEFINE p == file[1]
    <2>2. Untouched(p) /\ file[2] = serverDisk[p]
      BY <1>6
    <2>3. ServerFile(p, serverDisk[p])
      BY <2>2, UntouchedIs DEF HashesTell
    <2>4. \/ disk[c][p] = serverDisk[p]
          \/ <<p, serverDisk[p]>> \in Range(server.fileList)
      BY <1>1, <2>2 DEF Chosen
    <2>5. \A e \in Range(server.fileList) : e[1] = p => e[2] = serverDisk[p]
      BY <2>2 DEF Waiting, Untouched
    <2>6. QED  BY <2>2, <2>3, <2>4, <2>5
  <1>9. Told' /\ Chosen' /\ Spared' /\ UpToDate'
    BY <1>7 DEF Told, Chosen, Spared, UpToDate
  <1>10. QED  BY <1>5, <1>8, <1>9
\* What is promised is never skipped, and what is opened is still to be written.
LEMMA KeptFileOpen ==
    ASSUME HashesTell, Typed, Rooted, Kept, FileOpen
    PROVE  Kept'
  <1> USE DEF Kept
  <1> DEFINE c == session.client
             head == Head(session.toReceive)
             q == Target(head[1])
  <1>1. /\ session.at = "receiving" /\ session.toReceive # <<>> /\ (Skips \/ Opens)
        /\ UNCHANGED <<serverDisk, server, touched>>
    BY FileOpenIs
  <1>2. c \in Client /\ DOMAIN disk = Client /\ DOMAIN disk[c] = Path
    BY <1>1 DEF Typed, SessionOK, DisksOK
  <1>3. /\ Range(session.toReceive) = {head} \cup Range(Tail(session.toReceive))
        /\ head[1] \in Path /\ q \in Path
    BY <1>1, NextFile DEF HashesTell, Typed
  <1>4. Listed' /\ Waiting'
    BY <1>1 DEF Listed, Waiting, Untouched
  <1>5. \A p \in AppPath : (p = head[1] => q = p) /\ (q = p => p = head[1])
    BY <1>3, Names DEF HashesTell
  <1>6. CASE Skips
    <2>1. disk[c][q] = Dir \/ q = ClientExe
      BY <1>6 DEF Skips
    <2>2. session' = [at |-> "receiving", client |-> c,
                      connected |-> session.connected, manifest |-> session.manifest,
                      toDelete |-> session.toDelete, toReceive |-> Tail(session.toReceive),
                      promised |-> session.promised]
      BY <1>1, <1>6 DEF Typed, SessionOK, Skips
    <2>3. UNCHANGED disk
      BY <1>6 DEF Skips
    <2>4. ASSUME NEW p, NEW x, ServerFile(p, x)
          PROVE  p # head[1]
      <3>1. disk[c][p] # Dir /\ p \in AppPath
        BY <1>2, <2>4 DEF NoDirectories, ServerFile
      <3>2. p # ClientExe
        BY <3>1, Names DEF HashesTell, AppPath
      <3>3. QED  BY <1>5, <2>1, <3>1, <3>2
    <2>5. Arriving'
      <3>1. SUFFICES ASSUME NEW file \in session.promised
                     PROVE  /\ ServerFile(file[1], file[2])
                            /\ \/ disk[c][file[1]] = file[2]
                               \/ \E e \in Range(Tail(session.toReceive)) : e[1] = file[1]
                            /\ \A e \in Range(Tail(session.toReceive)) :
                                  e[1] = file[1] => e[2] = file[2]
        BY <2>2, <2>3 DEF Arriving, ServerFile
      <3>2. /\ ServerFile(file[1], file[2])
            /\ \/ disk[c][file[1]] = file[2]
               \/ \E e \in Range(session.toReceive) : e[1] = file[1]
            /\ \A e \in Range(session.toReceive) : e[1] = file[1] => e[2] = file[2]
        BY <1>1 DEF Arriving
      <3>3. file[1] # head[1]
        BY <2>4, <3>2
      <3> HIDE DEF c, head
      <3>4. QED  BY <1>3, <3>2, <3>3
    <2>6. NoDirectories' /\ Told' /\ Chosen' /\ Spared' /\ UpToDate'
      BY <2>2, <2>3 DEF NoDirectories, Told, Chosen, Spared, UpToDate, ServerFile
    <2>7. QED  BY <1>4, <2>5, <2>6
  <1>7. CASE Opens
    <2>1. /\ session' = [session EXCEPT !.at = "open"]
          /\ disk' = [disk EXCEPT ![c] =
                [r \in Path |-> IF r = q THEN Empty ELSE IF r \in Ancestors[q] THEN Dir ELSE @[r]]]
      BY <1>7 DEF Opens
    <2>2. session' = [at |-> "open", client |-> c,
                      connected |-> session.connected, manifest |-> session.manifest,
                      toDelete |-> session.toDelete, toReceive |-> session.toReceive,
                      promised |-> session.promised]
      BY <2>1 DEF Typed, SessionOK
    <2> HIDE DEF q
    <2>3. \A r \in Path : disk'[c][r] = IF r = q THEN Empty
                                        ELSE IF r \in Ancestors[q] THEN Dir ELSE disk[c][r]
      BY <1>2, <2>1
    <2>4. \A k \in Client : k # c => disk'[k] = disk[k]
      BY <1>2, <2>1
    <2>5. ASSUME NEW p, NEW x, ServerFile(p, x)
          PROVE  disk'[c][p] = IF p = q THEN Empty ELSE disk[c][p]
      <3>1. p \in Path /\ p \notin Ancestors[q]
        BY <1>3, <2>5, ServerFileIs
      <3>2. QED  BY <2>3, <3>1
    <2>6. Arriving'
      <3>1. SUFFICES ASSUME NEW file \in session.promised
                     PROVE  /\ ServerFile(file[1], file[2])
                            /\ \/ disk'[c][file[1]] = file[2]
                               \/ \E e \in Range(session.toReceive) : e[1] = file[1]
                            /\ \A e \in Range(session.toReceive) : e[1] = file[1] => e[2] = file[2]
        BY <2>2 DEF Arriving, ServerFile
      <3>2. /\ ServerFile(file[1], file[2])
            /\ \/ disk[c][file[1]] = file[2]
               \/ \E e \in Range(session.toReceive) : e[1] = file[1]
            /\ \A e \in Range(session.toReceive) : e[1] = file[1] => e[2] = file[2]
        BY <1>1 DEF Arriving
      <3>3. CASE file[1] = q
        <4>1. head[1] = file[1] /\ head \in Range(session.toReceive)
          BY <1>3, <1>5, <3>2, <3>3 DEF ServerFile
        <4>2. QED  BY <3>2, <4>1
      <3>4. CASE file[1] # q
        BY <2>5, <3>2, <3>4
      <3>5. QED  BY <3>3, <3>4
    <2>7. NoDirectories'
      <3>1. Dir # Empty
        BY DEF HashesTell, UpdateRoundsAssumption
      <3>2. SUFFICES ASSUME NEW k \in Client, NEW p, NEW x, ServerFile(p, x)
                     PROVE  disk'[k][p] # Dir
        BY DEF NoDirectories, ServerFile
      <3>3. disk[k][p] # Dir
        BY <3>2 DEF NoDirectories
      <3> HIDE DEF c
      <3>4. CASE k = c
        BY <2>5, <3>1, <3>2, <3>3, <3>4
      <3>5. CASE k # c
        BY <2>4, <3>3, <3>5
      <3>6. QED  BY <3>4, <3>5
    <2>8. Told' /\ Chosen' /\ Spared' /\ UpToDate'
      BY <2>2 DEF Told, Chosen, Spared, UpToDate
    <2>9. QED  BY <1>4, <2>6, <2>7, <2>8
  <1>8. QED  BY <1>1, <1>6, <1>7

LEMMA KeptFileWrite ==
    ASSUME HashesTell, Typed, Rooted, Kept, FileWrite
    PROVE  Kept'
  <1> USE DEF Kept
  <1> DEFINE c == session.client
             head == Head(session.toReceive)
             q == Target(head[1])
  <1>1. /\ session.at = "open" /\ disk' = [disk EXCEPT ![c][q] = head[2]]
        /\ session' = [session EXCEPT !.at = "receiving", !.toReceive = Tail(@)]
        /\ UNCHANGED <<serverDisk, server, touched>>
    BY DEF FileWrite
  <1>2. /\ c \in Client /\ DOMAIN disk = Client /\ DOMAIN disk[c] = Path
        /\ session.toReceive # <<>>
    BY <1>1 DEF Typed, SessionOK, DisksOK
  <1>3. /\ Range(session.toReceive) = {head} \cup Range(Tail(session.toReceive))
        /\ head[1] \in Path /\ q \in Path /\ IsFile(head[2])
    BY <1>2, NextFile DEF HashesTell, Typed
  <1>4. Listed' /\ Waiting'
    BY <1>1 DEF Listed, Waiting, Untouched
  <1>5. \A p \in AppPath : (p = head[1] => q = p) /\ (q = p => p = head[1])
    BY <1>3, Names DEF HashesTell
  <1>6. session' = [at |-> "receiving", client |-> c,
                    connected |-> session.connected, manifest |-> session.manifest,
                    toDelete |-> session.toDelete, toReceive |-> Tail(session.toReceive),
                    promised |-> session.promised]
    BY <1>1 DEF Typed, SessionOK
  <1> HIDE DEF q, head
  <1>7. /\ \A p \in Path : disk'[c][p] = IF p = q THEN head[2] ELSE disk[c][p]
        /\ \A k \in Client : k # c => disk'[k] = disk[k]
    BY <1>1, <1>2
  <1>8. Arriving'
    <2>1. SUFFICES ASSUME NEW file \in session.promised
                   PROVE  /\ ServerFile(file[1], file[2])
                          /\ \/ disk'[c][file[1]] = file[2]
                             \/ \E e \in Range(Tail(session.toReceive)) : e[1] = file[1]
                          /\ \A e \in Range(Tail(session.toReceive)) :
                                e[1] = file[1] => e[2] = file[2]
      BY <1>6 DEF Arriving, ServerFile
    <2>2. /\ ServerFile(file[1], file[2])
          /\ \/ disk[c][file[1]] = file[2]
             \/ \E e \in Range(session.toReceive) : e[1] = file[1]
          /\ \A e \in Range(session.toReceive) : e[1] = file[1] => e[2] = file[2]
      BY <1>1 DEF Arriving
    <2>3. file[1] \in AppPath /\ file[1] \in Path
      BY <2>2 DEF ServerFile, AppPath
    <2> HIDE DEF c
    <2>4. CASE file[1] = q
      <3>1. head[1] = file[1]
        BY <1>5, <2>3, <2>4
      <3>2. head[2] = file[2]
        BY <1>3, <2>2, <3>1
      <3>3. QED  BY <1>3, <1>7, <2>2, <2>4, <3>2
    <2>5. CASE file[1] # q
      <3>1. head[1] # file[1] /\ disk'[c][file[1]] = disk[c][file[1]]
        BY <1>5, <1>7, <2>3, <2>5
      <3>2. QED  BY <1>3, <2>2, <3>1
    <2>6. QED  BY <2>4, <2>5
  <1>9. NoDirectories'
    <2>1. SUFFICES ASSUME NEW k \in Client, NEW p, NEW x, ServerFile(p, x)
                   PROVE  disk'[k][p] # Dir
      BY DEF NoDirectories, ServerFile
    <2>2. disk[k][p] # Dir /\ p \in Path
      BY <2>1 DEF NoDirectories, ServerFile, AppPath
    <2> HIDE DEF c
    <2>3. CASE k = c
      BY <1>3, <1>7, <2>2, <2>3 DEF IsFile
    <2>4. CASE k # c
      BY <1>7, <2>2, <2>4
    <2>5. QED  BY <2>3, <2>4
  <1>10. Told' /\ Chosen' /\ Spared' /\ UpToDate'
    BY <1>6 DEF Told, Chosen, Spared, UpToDate
  <1>11. QED  BY <1>4, <1>8, <1>9, <1>10

\* Nothing is on its way any more.
LEMMA KeptClientFinish ==
    ASSUME HashesTell, Typed, Rooted, Kept, ClientFinish
    PROVE  Kept'
  <1> USE DEF Kept
  <1> DEFINE c == session.client
  <1>1. /\ session.at = "receiving" /\ session.toReceive = <<>>
        /\ disk' = [disk EXCEPT ![c] = DeleteFilesFromDir(@, FileStructure)]
        /\ session' = [session EXCEPT !.at = "finished", !.connected = FALSE]
        /\ UNCHANGED <<serverDisk, server, touched>>
    BY DEF ClientFinish
  <1>2. c \in Client /\ DOMAIN disk = Client /\ DOMAIN disk[c] = Path
    BY <1>1 DEF Typed, SessionOK, DisksOK
  <1>3. session' = [at |-> "finished", client |-> c,
                    connected |-> FALSE, manifest |-> session.manifest,
                    toDelete |-> session.toDelete, toReceive |-> session.toReceive,
                    promised |-> session.promised]
    BY <1>1 DEF Typed, SessionOK
  <1>4. Listed' /\ Waiting'
    BY <1>1 DEF Listed, Waiting, Untouched
  <1>5. FileStructure \in UpdaterPath
    BY Names DEF HashesTell
  <1>6. \A k \in Client : \A p \in AppPath : disk'[k][p] = disk[k][p]
    <2>1. \A p \in AppPath : DeleteFilesFromDir(disk[c], FileStructure)[p] = disk[c][p]
      BY <1>2, <1>5, Removed DEF AppPath
    <2>2. /\ disk'[c] = DeleteFilesFromDir(disk[c], FileStructure)
          /\ \A k \in Client : k # c => disk'[k] = disk[k]
      BY <1>1, <1>2
    <2> HIDE DEF c
    <2>3. QED  BY <2>1, <2>2
  <1>7. UpToDate'
    <2>1. SUFFICES ASSUME NEW file \in session.promised
                   PROVE  disk'[c][file[1]] = file[2]
      BY <1>3 DEF UpToDate
    <2>2. ServerFile(file[1], file[2]) /\ disk[c][file[1]] = file[2]
      BY <1>1, NothingIn DEF Arriving
    <2>3. QED  BY <1>2, <1>6, <2>2 DEF ServerFile
  <1>8. NoDirectories'
    BY <1>6 DEF NoDirectories, ServerFile
  <1>9. Told' /\ Chosen' /\ Spared' /\ Arriving'
    BY <1>3 DEF Told, Chosen, Spared, Arriving
  <1>10. QED  BY <1>4, <1>7, <1>8, <1>9

LEMMA KeptEnds ==
    ASSUME HashesTell, Typed, Rooted, Kept, FileThrows \/ ClientKilled
    PROVE  Kept'
  <1>1. session' = NoSession /\ UNCHANGED <<serverDisk, server, disk, touched>>
    BY DEF FileThrows, ClientKilled
  <1>2. QED  BY <1>1 DEF Kept, Listed, Waiting, NoDirectories, Untouched, ServerFile, Told,
                         Chosen, Spared, Arriving, UpToDate, NoSession

LEMMA KeptStep ==
    ASSUME HashesTell, Typed, Rooted, Kept, [Next]_vars
    PROVE  Kept'
  <1>1. CASE UNCHANGED vars
    BY <1>1 DEF vars, clientVars, Kept, Listed, Waiting, NoDirectories, Untouched, ServerFile,
                Told, Chosen, Spared, Arriving, UpToDate
  <1>2. CASE Next
    BY <1>2, KeptServerStart, KeptServerKilled, KeptEdit, KeptClientStart, KeptUpload,
       KeptCompare, KeptClientDelete, KeptServerSend, KeptFileOpen, KeptFileWrite,
       KeptClientFinish, KeptEnds DEF Next, Progress
  <1>3. QED  BY <1>1, <1>2

\* Whatever earlier sessions, edits and kills have left on either side, a client that
\* finishes has every file of the application that was current when it was sent --
\* wherever the first token of a file tells it from what a client may have in its
\* place or before it.
THEOREM UpToDateHolds == HashesTell => (Spec => []UpToDate)
  <1> SUFFICES ASSUME HashesTell
               PROVE  Spec => []UpToDate
    OBVIOUS
  <1> DEFINE IInv == Typed /\ Rooted /\ Kept
  <1>1. Init => IInv
    BY TypedInit, RootedInit, KeptInit DEF HashesTell
  <1>2. IInv /\ [Next]_vars => IInv'
    BY TypedStep, RootedStep, KeptStep DEF HashesTell
  <1>3. IInv => UpToDate
    BY DEF Kept
  <1>4. QED  BY <1>1, <1>2, <1>3, PTL DEF Spec
-----------------------------------------------------------------------------
(* Where nothing is ever deleted.                                          *)

Behind == UpdateRoundsAssumption /\ FormatsDiffer /\ ExecutableFirst

\* The hash of the executable of a client.
Stale(h) == \E x \in ClientMayHave(ClientExe) : h = <<ClientExe, FirstToken[x]>>

\* It is first in every list that comes from a client, and in none of the server's; so
\* what is first in the list of what is to be deleted is always the executable.
Shielded ==
    /\ \A c \in Client : disk[c][ClientExe] \in ClientMayHave(ClientExe)
    /\ session.at = "open" => Target(Head(session.toReceive)[1]) # ClientExe
    /\ \A h \in Range(server.list) : ~Stale(h)
    /\ session.at \in {"started", "uploaded"} =>
          LET l == ReadFromfileStucFileByDir(session.manifest) IN l # <<>> => Stale(l[1])
    /\ session.toDelete # <<>> => session.toDelete[1][1] = ClientExe

LEMMA BehindIs ==
    ASSUME Behind
    PROVE  /\ Order # <<>> /\ 1 \in 1 .. Len(Order) /\ Order[1] = ClientExe
           /\ ClientExe \in Path /\ ClientExe \in UpdaterPath /\ ClientExe # FileStructure
           /\ \A q \in Path : ClientExe \notin Ancestors[q]
           /\ \A x \in ClientMayHave(ClientExe) : x \in Content /\ x # Absent
  <1> USE DEF Behind
  <1>1. ClientExe \in Path /\ ClientExe \in UpdaterPath /\ \A q \in Path : ClientExe \notin Ancestors[q]
    BY Names
  <1>2. 1 \in 1 .. Len(Order)
    <2>1. Len(Order) \in Nat /\ \E i \in 1 .. Len(Order) : ClientExe = Order[i]
      BY <1>1, OrderIs
    <2>2. QED  BY <2>1
  <1>3. Order # <<>>
    BY <1>2
  <1>4. {Empty, Dir, Absent} \cap Content = {}
    BY DEF UpdateRoundsAssumption
  <1>5. QED  BY <1>1, <1>2, <1>3, <1>4 DEF ExecutableFirst

\* A client's list begins with its executable ...
LEMMA ClientList ==
    ASSUME Behind, NEW d, d[ClientExe] \in ClientMayHave(ClientExe)
    PROVE  CreateAllHashFiles(d) # <<>> /\ Stale(CreateAllHashFiles(d)[1])
  <1> USE DEF Behind
  <1> DEFINE l == CreateAllHashFiles(d)
             h == l[1]
             x == d[ClientExe]
  <1>1. Order[1] = ClientExe /\ Order # <<>> /\ x \in Content /\ x # Absent
    BY BehindIs
  <1>2. l # <<>> /\ h[1] = ClientExe
    BY <1>1, ScanFirst
  <1>3. h \in Range(l)
    <2>1. IsSeq(l)
      BY ScanIs
    <2> HIDE DEF l
    <2>2. Len(l) \in Nat /\ DOMAIN l = 1 .. Len(l) /\ Len(l) # 0
      BY <1>2, <2>1 DEF IsSeq
    <2>3. QED  BY <2>2 DEF Range
  <1>4. PICK j \in 1 .. Len(Order) : Entry(d, j, h) /\ h = <<h[1], h[2]>>
    BY <1>3, ScanIs
  <1> HIDE DEF h, l
  <1>5. Order[j] = ClientExe
    BY <1>2, <1>4 DEF Entry
  <1>6. Speaks(x) /\ Said(x) = FirstToken[x]
    <2>1. {Empty, Dir, Absent} \cap Content = {}
      BY DEF UpdateRoundsAssumption
    <2>2. QED  BY <1>1, <2>1 DEF Speaks, Said, Extract
  <1>7. h[2] = FirstToken[x]
    BY <1>4, <1>5, <1>6 DEF Entry
  <1>8. h = <<ClientExe, FirstToken[x]>>
    BY <1>2, <1>4, <1>7
  <1>9. QED  BY <1>2, <1>8 DEF Stale, h, l

\* ... and the server's never has that hash.
LEMMA ServerList ==
    ASSUME Behind, ServerDiskOK, NEW h \in Range(CreateAllHashFiles(serverDisk)), Stale(h)
    PROVE  FALSE
  <1> USE DEF Behind
  <1> DEFINE y == serverDisk[ClientExe]
  <1>1. PICK x \in ClientMayHave(ClientExe) : h = <<ClientExe, FirstToken[x]>>
    BY DEF Stale
  <1>2. /\ FirstToken[x] # NoToken /\ x \in Content
        /\ \A z \in ServerMayHave(ClientExe) \cap Content : FirstToken[z] # FirstToken[x]
    BY DEF ExecutableFirst
  <1>3. PICK j \in 1 .. Len(Order) : Entry(serverDisk, j, h)
    BY ScanIs
  <1>4. h[1] = ClientExe /\ h[2] = FirstToken[x]
    BY <1>1
  <1>5. Order[j] = ClientExe /\ j = 1
    <2>1. Order[j] = ClientExe
      BY <1>3, <1>4 DEF Entry
    <2>2. QED  BY <2>1, BehindIs, OrderIs
  <1>6. CASE ~Speaks(y)
    <2>1. Heard(serverDisk, 0, FirstToken[x])
      BY <1>3, <1>4, <1>5, <1>6 DEF Entry
    <2>2. QED  BY <1>2, <2>1 DEF Heard
  <1>7. CASE Speaks(y)
    <2>1. Said(y) = FirstToken[x]
      BY <1>3, <1>4, <1>5, <1>7 DEF Entry
    <2>2. OnServer(ClientExe, y)
      BY BehindIs DEF ServerDiskOK
    <2>3. CASE y \in ServerMayHave(ClientExe)
      <3>1. y \in Content
        BY <1>7, <2>3, BehindIs, ServerContents DEF Speaks
      <3>2. Said(y) = FirstToken[y]
        BY <1>7, <3>1 DEF Said, Extract, Speaks
      <3>3. QED  BY <1>2, <2>1, <2>3, <3>1, <3>2
    <2>4. CASE Trace(y)
      <3>1. OnClient(ClientExe, y)
        BY <2>4, BehindIs DEF OnClient
      <3>2. CASE y \in Found(ClientExe) \cap Content
        <4>1. PICK l : IsHashes(l) /\ y = [lines |-> l]
          BY <1>7, <2>4 DEF Trace, Speaks
        <4>2. QED  BY <3>2, <4>1 DEF FormatsDiffer
      <3>3. CASE \E q, data : Said(y) = <<q, data>>
        BY <1>2, <2>1, <3>3 DEF FormatsDiffer
      <3>4. QED  BY <1>7, <3>1, <3>2, <3>3, BehindIs, Speaking
    <2>5. QED  BY <2>2, <2>3, <2>4 DEF OnServer
  <1>8. QED  BY <1>6, <1>7

LEMMA ShieldedInit == Behind /\ Init => Shielded
  <1> SUFFICES ASSUME Behind, Init
               PROVE  Shielded
    OBVIOUS
  <1>1. \A c \in Client : disk[c][ClientExe] \in ClientMayHave(ClientExe)
    BY DEF Init, ClientMayHave
  <1>2. QED  BY <1>1, NothingIn DEF Init, Down, NoSession, Shielded
\* A step that is at none of the lists, and at no executable.
LEMMA ShieldedElse ==
    ASSUME Shielded,
           \A c \in Client : disk'[c][ClientExe] = disk[c][ClientExe],
           session'.at \notin {"open", "started", "uploaded"},
           session'.toDelete \in {session.toDelete, <<>>},
           server'.list \in {server.list, <<>>}
    PROVE  Shielded'
  BY NothingIn DEF Shielded

\* What the steps of a session leave of the executable and of the files.
LEMMA DiskKept ==
    ASSUME Behind, Typed, Shielded, [Next]_vars
    PROVE  /\ \A c \in Client : disk'[c][ClientExe] = disk[c][ClientExe]
           /\ \A c \in Client, p \in AppPath : disk[c][p] # Absent => disk'[c][p] # Absent
  <1> USE DEF Behind
  <1> DEFINE c == session.client
             head == Head(session.toReceive)
             q == Target(head[1])
             Kind(d, e) == /\ \A k \in Client : d[k][ClientExe] = e[k][ClientExe]
                           /\ \A k \in Client, p \in AppPath : e[k][p] # Absent => d[k][p] # Absent
  <1>1. /\ ClientExe \in Path /\ ClientExe # FileStructure /\ FileStructure \in UpdaterPath
        /\ \A p \in AppPath : p \in Path /\ p # FileStructure
    BY BehindIs, Names DEF AppPath
  <1>2. session.at # "none" => c \in Client /\ DOMAIN disk[c] = Path
    BY DEF Typed, SessionOK, DisksOK
  <1>3. DOMAIN disk = Client /\ \A k \in Client : DOMAIN disk[k] = Path
    BY DEF Typed, DisksOK
  <1>4. CASE UNCHANGED disk
    BY <1>4
  <1>5. ASSUME NEW k \in Client, ClientStart(k)
        PROVE  Kind(disk', disk)
    <2>1. PICK x : disk' = [disk EXCEPT ![k][FileStructure] = x]
      BY <1>5 DEF ClientStart
    <2>2. \A m \in Client : \A p \in Path : p # FileStructure => disk'[m][p] = disk[m][p]
      BY <1>3, <2>1
    <2>3. QED  BY <1>1, <2>2
  <1>6. CASE ClientDelete
    <2> DEFINE read == {session.toDelete[i] : i \in DOMAIN session.toDelete \cap {1}}
               hit == {file[1] : file \in Range(CreateAllHashFiles(disk[c])) \cap read} \ {ClientExe}
    <2>1. /\ session.at = "compared"
          /\ disk' = [disk EXCEPT ![c] =
                [p \in Path |-> IF p \in hit THEN DeleteFilesFromDir(@, p)[p] ELSE @[p]]]
      BY <1>6 DEF ClientDelete
    <2>2. \A h \in read : h[1] = ClientExe
      <3>1. 1 \in DOMAIN session.toDelete => session.toDelete # <<>>
        OBVIOUS
      <3>2. QED  BY <3>1 DEF Shielded
    <2>3. hit = {}
      BY <2>2
    <2> HIDE DEF hit
    <2>4. \A m \in Client : \A p \in Path : disk'[m][p] = disk[m][p]
      <3>1. \A p \in Path : disk'[c][p] = disk[c][p]
        BY <1>2, <1>3, <2>1, <2>3
      <3>2. \A m \in Client : m # c => disk'[m] = disk[m]
        BY <1>3, <2>1
      <3> HIDE DEF c
      <3>3. QED  BY <3>1, <3>2
    <2>5. QED  BY <1>1, <2>4
  <1>7. CASE FileOpen
    <2>1. /\ session.at = "receiving" /\ session.toReceive # <<>> /\ (Skips \/ Opens)
      BY <1>7, FileOpenIs
    <2>2. CASE Skips
      BY <1>4, <2>2 DEF Skips
    <2>3. CASE Opens
      <3>1. /\ q # ClientExe
            /\ disk' = [disk EXCEPT ![c] = [r \in Path |-> IF r = q THEN Empty
                                              ELSE IF r \in Ancestors[q] THEN Dir ELSE @[r]]]
        BY <2>3 DEF Opens
      <3>2. q \in Path
        BY <2>1, NextFile DEF Typed
      <3>3. ClientExe \notin Ancestors[q]
        BY <3>2, BehindIs
      <3>4. Empty # Absent /\ Dir # Absent
        BY DEF UpdateRoundsAssumption
      <3> HIDE DEF q
      <3>5. \A r \in Path : disk'[c][r] = IF r = q THEN Empty
                                          ELSE IF r \in Ancestors[q] THEN Dir ELSE disk[c][r]
        BY <1>2, <1>3, <2>1, <3>1
      <3>6. \A m \in Client : m # c => disk'[m] = disk[m]
        BY <1>3, <3>1
      <3> HIDE DEF c
      <3>7. QED  BY <1>1, <3>1, <3>3, <3>4, <3>5, <3>6
    <2>4. QED  BY <2>1, <2>2, <2>3
  <1>8. CASE FileWrite
    <2>1. session.at = "open" /\ disk' = [disk EXCEPT ![c][q] = head[2]]
      BY <1>8 DEF FileWrite
    <2>2. session.toReceive # <<>> /\ q # ClientExe
      BY <2>1 DEF Typed, SessionOK, Shielded
    <2>3. q \in Path /\ head[2] # Absent
      BY <2>2, NextFile DEF Typed, IsFile
    <2> HIDE DEF q, head
    <2>4. \A m \in Client : \A p \in Path :
             disk'[m][p] = IF m = c /\ p = q THEN head[2] ELSE disk[m][p]
      BY <1>2, <1>3, <2>1, <2>3
    <2>5. QED  BY <1>1, <2>2, <2>3, <2>4
  <1>9. CASE ClientFinish
    <2>1. /\ session.at = "receiving"
          /\ disk' = [disk EXCEPT ![c] = DeleteFilesFromDir(@, FileStructure)]
      BY <1>9 DEF ClientFinish
    <2>2. \A p \in Path : p # FileStructure => DeleteFilesFromDir(disk[c], FileStructure)[p] = disk[c][p]
      BY <1>2, <2>1, Removed
    <2>3. \A m \in Client : \A p \in Path : p # FileStructure => disk'[m][p] = disk[m][p]
      <3>1. disk'[c] = DeleteFilesFromDir(disk[c], FileStructure)
        BY <1>2, <1>3, <2>1
      <3>2. \A m \in Client : m # c => disk'[m] = disk[m]
        BY <1>3, <2>1
      <3> HIDE DEF c
      <3>3. QED  BY <2>2, <3>1, <3>2
    <2>4. QED  BY <1>1, <2>3
  <1>10. CASE \/ UNCHANGED vars \/ ServerStart \/ ServerKilled \/ Upload \/ Compare \/ ServerSend
              \/ FileThrows \/ ClientKilled \/ \E edit \in Edits : Edit(edit[1], edit[2])
    BY <1>4, <1>10 DEF vars, clientVars, ServerStart, ServerKilled, Upload, Compare, ServerSend,
                       FileThrows, ClientKilled, Edit
  <1>11. QED  BY <1>5, <1>6, <1>7, <1>8, <1>9, <1>10 DEF Next, Progress

LEMMA ShieldedStep ==
    ASSUME Behind, Typed, Shielded, [Next]_vars
    PROVE  Shielded'
  <1> USE DEF Behind
  <1> DEFINE c == session.client
  <1>1. \A k \in Client : disk'[k][ClientExe] = disk[k][ClientExe]
    BY DiskKept
  <1>2. CASE ServerStart
    <2>1. /\ server'.list = CreateAllHashFiles(serverDisk) /\ UNCHANGED session
      BY <1>2 DEF ServerStart, clientVars
    <2>2. \A h \in Range(server'.list) : ~Stale(h)
      BY <2>1, ServerList DEF Typed
    <2>3. QED  BY <1>1, <2>1, <2>2 DEF Shielded
  <1>3. CASE ServerKilled
    <2>1. server' = Down /\ session' = [session EXCEPT !.connected = FALSE]
      BY <1>3 DEF ServerKilled
    <2>2. /\ session'.at = session.at /\ session'.toReceive = session.toReceive
          /\ session'.manifest = session.manifest /\ session'.toDelete = session.toDelete
      BY <2>1 DEF Typed, SessionOK
    <2>3. server'.list = <<>>
      BY <2>1 DEF Down
    <2>4. QED  BY <1>1, <2>2, <2>3, NothingIn DEF Shielded
  <1>4. ASSUME NEW k \in Client, ClientStart(k)
        PROVE  Shielded'
    <2> DEFINE list == CreateAllHashFiles(disk[k])
               written == CreateNewFileStucFileInDir(list)
    <2>1. session' = [NoSession EXCEPT !.at = "started", !.client = k, !.manifest = written]
          /\ UNCHANGED server
      BY <1>4 DEF ClientStart
    <2>2. list # <<>> /\ Stale(list[1])
      BY ClientList DEF Shielded
    <2> HIDE DEF list
    <2>3. ReadFromfileStucFileByDir(written) \in {list, <<>>}
      BY <2>2 DEF ReadFromfileStucFileByDir, CreateNewFileStucFileInDir
    <2> HIDE DEF written
    <2>4. session'.at = "started" /\ session'.manifest = written /\ session'.toDelete = <<>>
      BY <2>1 DEF NoSession
    <2>5. QED  BY <1>1, <2>1, <2>2, <2>3, <2>4 DEF Shielded
  <1>5. CASE Upload
    <2>1. /\ session.at = "started" /\ UNCHANGED server
          /\ session' = [session EXCEPT !.at = "uploaded", !.connected = TRUE]
      BY <1>5 DEF Upload
    <2>2. /\ session'.at = "uploaded" /\ session'.manifest = session.manifest
          /\ session'.toDelete = session.toDelete
      BY <2>1 DEF Typed, SessionOK
    <2>3. QED  BY <1>1, <2>1, <2>2 DEF Shielded
  <1>6. CASE Compare
    <2> DEFINE own == ManifestOf[c]
               hashList == ReadFromfileStucFileByDir(serverDisk[own])
               toDelete == FindFilesToDelete(hashList, server.list)
    <2>1. /\ session.at = "uploaded" /\ session.connected
          /\ session' = [session EXCEPT !.at = "compared", !.toDelete = toDelete]
          /\ \E x : server' = [server EXCEPT !.fileList = x]
      BY <1>6 DEF Compare
    <2>2. serverDisk[own] = session.manifest /\ Trace(session.manifest)
      BY <2>1 DEF Typed, ConnectionOK, SessionOK
    <2>3. IsHashes(hashList) /\ (hashList # <<>> => Stale(hashList[1]))
      BY <2>1, <2>2, ReadIs DEF Shielded
    <2> HIDE DEF hashList
    <2>4. toDelete # <<>> => toDelete[1][1] = ClientExe
      <3>1. SUFFICES ASSUME toDelete # <<>>
                     PROVE  toDelete[1][1] = ClientExe
        OBVIOUS
      <3> DEFINE S == Range(hashList) \ Range(server.list)
      <3>2. toDelete = Filtered(hashList, S) /\ IsSeq(hashList)
        BY <2>3 DEF FindFilesToDelete, IsHashes
      <3>3. hashList # <<>>
        <4>1. SUFFICES ASSUME hashList = <<>>
                       PROVE  FALSE
          OBVIOUS
        <4>2. Filtered(<<>>, S) = <<>>
          BY FilteredRuns, NothingIn
        <4>3. QED  BY <3>1, <3>2, <4>1, <4>2
      <3>4. hashList[1] \in S
        <4>1. hashList[1] \in Range(hashList)
          <5>1. Len(hashList) \in Nat /\ DOMAIN hashList = 1 .. Len(hashList) /\ Len(hashList) # 0
            BY <3>2, <3>3 DEF IsSeq
          <5>2. QED  BY <5>1 DEF Range
        <4>2. QED  BY <2>3, <3>3, <4>1 DEF Shielded
      <3> HIDE DEF S
      <3>5. toDelete[1] = hashList[1]
        BY <3>2, <3>3, <3>4, FilteredFirst
      <3>6. QED  BY <2>3, <3>3, <3>5 DEF Stale
    <2> HIDE DEF toDelete
    <2>5. session'.at = "compared" /\ session'.toDelete = toDelete /\ server'.list = server.list
      BY <2>1 DEF Typed, SessionOK, ServerOK
    <2>6. QED  BY <1>1, <2>4, <2>5 DEF Shielded
  <1>7. CASE ClientDelete \/ ServerSend \/ FileWrite \/ ClientFinish
    <2>1. /\ session'.at \notin {"open", "started", "uploaded"} /\ session'.toDelete = session.toDelete
          /\ UNCHANGED server
      <3>1. CASE ClientDelete
        BY <3>1 DEF ClientDelete, Typed, SessionOK
      <3>2. CASE ServerSend
        BY <3>2 DEF ServerSend, Typed, SessionOK
      <3>3. CASE FileWrite
        BY <3>3 DEF FileWrite, Typed, SessionOK
      <3>4. CASE ClientFinish
        BY <3>4 DEF ClientFinish, Typed, SessionOK
      <3>5. QED  BY <1>7, <3>1, <3>2, <3>3, <3>4
    <2>2. QED  BY <1>1, <2>1, ShieldedElse
  <1>8. CASE FileOpen
    <2>1. /\ session.at = "receiving" /\ (Skips \/ Opens) /\ UNCHANGED server
      BY <1>8, FileOpenIs
    <2>2. CASE Skips
      <3>1. session'.at = "receiving" /\ session'.toDelete = session.toDelete
        BY <2>1, <2>2 DEF Skips, Typed, SessionOK
      <3>2. QED  BY <1>1, <2>1, <3>1, ShieldedElse
    <2>3. CASE Opens
      <3>1. /\ Target(Head(session.toReceive)[1]) # ClientExe
            /\ session' = [session EXCEPT !.at = "open"]
        BY <2>3 DEF Opens
      <3>2. /\ session'.at = "open" /\ session'.toReceive = session.toReceive
            /\ session'.toDelete = session.toDelete
        BY <3>1 DEF Typed, SessionOK
      <3>3. QED  BY <1>1, <2>1, <3>1, <3>2 DEF Shielded
    <2>4. QED  BY <2>1, <2>2, <2>3
  <1>9. CASE FileThrows \/ ClientKilled
    <2>1. session' = NoSession /\ UNCHANGED server
      BY <1>9 DEF FileThrows, ClientKilled
    <2>2. session'.at = "none" /\ session'.toDelete = <<>>
      BY <2>1 DEF NoSession
    <2>3. QED  BY <1>1, <2>1, <2>2, ShieldedElse
  <1>10. CASE UNCHANGED vars \/ \E edit \in Edits : Edit(edit[1], edit[2])
    <2>1. UNCHANGED <<server, session>>
      BY <1>10 DEF vars, clientVars, Edit
    <2>2. QED  BY <1>1, <2>1 DEF Shielded
  <1>11. QED  BY <1>2, <1>3, <1>4, <1>5, <1>6, <1>7, <1>8, <1>9, <1>10 DEF Next, Progress

\* Where a client's executable is visited first and begins unlike the server's, nothing
\* of the application is ever deleted: the one hash that is read of each message is
\* that of the executable, which the client keeps.
THEOREM DeletesNothingHolds == Behind => (Spec => [][DeletesNothing]_vars)
  <1> SUFFICES ASSUME Behind
               PROVE  Spec => [][DeletesNothing]_vars
    OBVIOUS
  <1>1. Init => Typed /\ Shielded
    BY TypedInit, ShieldedInit DEF Behind
  <1>2. Typed /\ Shielded /\ [Next]_vars => (Typed /\ Shielded)'
    BY TypedStep, ShieldedStep DEF Behind
  <1>3. Typed /\ Shielded /\ [Next]_vars => [DeletesNothing]_vars
    BY DiskKept DEF DeletesNothing
  <1>4. QED  BY <1>1, <1>2, <1>3, PTL DEF Spec
===============================================================================
