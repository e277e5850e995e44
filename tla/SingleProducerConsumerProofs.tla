-------------------- MODULE SingleProducerConsumerProofs --------------------
(***************************************************************************)
(* The blocks of a SingleProducerConsumer stay one ring, and the ring      *)
(* implements a channel, for any values, any MINIMUM_LIST_SIZE the code    *)
(* allows and every interleaving of the two threads.                       *)
(***************************************************************************)
EXTENDS SingleProducerConsumer, FiniteSetTheorems, SequenceTheorems, TLAPS

-----------------------------------------------------------------------------
(* Induction, of a set of numbers.                                         *)

LEMMA SetInduction ==
    ASSUME NEW S, 0 \in S, \A n \in Nat : n \in S => n + 1 \in S
    PROVE  Nat \subseteq S
  <1> SUFFICES ASSUME NEW m \in Nat, m \notin S
               PROVE  FALSE
    OBVIOUS
  <1> DEFINE A == {n \in 0 .. m : n \in S}
             up == [n \in A |-> n + 1]
  <1>1. IsFiniteSet(A)
    <2>1. IsFiniteSet(0 .. m)
      BY FS_Interval
    <2>2. QED  BY <2>1, FS_Subset
  <1>2. 0 \in A /\ up \in [A -> A \ {0}] /\ \A x, y \in A : up[x] = up[y] => x = y
    OBVIOUS
  <1> HIDE DEF A, up
  <1>3. IsFiniteSet(A \ {0}) /\ Cardinality(A \ {0}) < Cardinality(A)
    <2>1. Cardinality(A) \in Nat
      BY <1>1, FS_CardinalityType
    <2>2. 0 \in A
      BY <1>2
    <2>3. IsFiniteSet(A \ {0}) /\ Cardinality(A \ {0}) = Cardinality(A) - 1
      BY <1>1, <2>2, FS_RemoveElement
    <2>4. QED  BY <2>1, <2>3
  <1>4. QED  BY <1>1, <1>2, <1>3, FS_PigeonHole

-----------------------------------------------------------------------------
(* Rings.                                                                  *)

\* The blocks B, linked by nx, are the ring f[0], ..., f[n - 1].
IsRing(f, n, nx, B) ==
    /\ n \in Nat \ {0} /\ f \in [0 .. n - 1 -> B]
    /\ \A b \in B : \E i \in 0 .. n - 1 : f[i] = b
    /\ \A i, j \in 0 .. n - 1 : f[i] = f[j] => i = j
    /\ \A i \in 0 .. n - 2 : nx[f[i]] = f[i + 1]
    /\ nx[f[n - 1]] = f[0]

LEMMA RingSize ==
    ASSUME NEW f, NEW n, NEW nx, NEW B, IsRing(f, n, nx, B)
    PROVE  IsFiniteSet(B) /\ Cardinality(B) = n
  <1>1. IsFiniteSet(0 .. n - 1) /\ Cardinality(0 .. n - 1) = n
    BY FS_Interval DEF IsRing
  <1>2. f \in Surjection(0 .. n - 1, B) /\ f \in Injection(0 .. n - 1, B)
    BY DEF IsRing, Surjection, Injection, IsInjective
  <1>3. QED  BY <1>1, <1>2, FS_Surjection

\* Places count on from n - 1 to 0.
Wrapped(n, i) == IF i < n THEN i ELSE i - n

\* Behind and Between, with the links as an argument.
BehindBy(nx, b, k) ==
    LET at[n \in 0 .. k] == IF n = 0 THEN b ELSE nx[at[n - 1]] IN at[k]
BetweenBy(nx, from, to) ==
    LET n == CHOOSE k \in 0 .. MaxBlocks :
                /\ BehindBy(nx, from, k) = to
                /\ \A j \in 0 .. k - 1 : BehindBy(nx, from, j) # to
    IN [i \in 1 .. n |-> BehindBy(nx, from, i - 1)]

\* k blocks on in the ring.
LEMMA BehindIs ==
    ASSUME NEW f, NEW n, NEW nx, NEW B, IsRing(f, n, nx, B),
           NEW i \in 0 .. n - 1, NEW k \in 0 .. n
    PROVE  BehindBy(nx, f[i], k) = f[Wrapped(n, i + k)]
  <1> DEFINE on == [m \in 0 .. k |-> f[Wrapped(n, i + m)]]
             Steps(g) == g = [m \in 0 .. k |-> IF m = 0 THEN f[i] ELSE nx[g[m - 1]]]
             at == CHOOSE g : Steps(g)
  <1>1. n \in Nat \ {0} /\ k \in Nat /\ i \in Nat
    BY DEF IsRing
  <1>2. \A m \in 0 .. k : Wrapped(n, i + m) \in Nat
    BY <1>1 DEF Wrapped
  <1>3. ASSUME NEW m \in 1 .. k
        PROVE  f[Wrapped(n, i + m)] = nx[f[Wrapped(n, i + (m - 1))]]
    <2>1. CASE i + m < n
      <3>1. Wrapped(n, i + m) = i + m /\ Wrapped(n, i + (m - 1)) = i + m - 1 /\ i + m - 1 \in 0 .. n - 2
        BY <1>1, <2>1 DEF Wrapped
      <3>2. QED  BY <1>1, <3>1 DEF IsRing
    <2>2. CASE i + m = n
      <3>1. Wrapped(n, i + m) = 0 /\ Wrapped(n, i + (m - 1)) = n - 1
        BY <1>1, <2>2 DEF Wrapped
      <3>2. QED  BY <1>1, <3>1 DEF IsRing
    <2>3. CASE i + m > n
      <3>1. /\ Wrapped(n, i + m) = i + m - n /\ Wrapped(n, i + (m - 1)) = i + m - n - 1
            /\ i + m - n - 1 \in 0 .. n - 2 /\ i + m - n - 1 + 1 = i + m - n
        BY <1>1, <2>3 DEF Wrapped
      <3>2. QED  BY <1>1, <3>1 DEF IsRing
    <2>4. QED  BY <1>1, <2>1, <2>2, <2>3
  <1>4. f[Wrapped(n, i + 0)] = f[i]
    BY <1>1 DEF Wrapped
  <1>5. Steps(on)
    <2>1. \A m \in 0 .. k : on[m] = IF m = 0 THEN f[i] ELSE nx[on[m - 1]]
      <3>1. SUFFICES ASSUME NEW m \in 0 .. k
                     PROVE  on[m] = IF m = 0 THEN f[i] ELSE nx[on[m - 1]]
        OBVIOUS
      <3>2. CASE m = 0
        BY <1>4, <3>2
      <3>3. CASE m # 0
        <4>1. m \in 1 .. k /\ m - 1 \in 0 .. k
          BY <1>1, <3>3
        <4>2. on[m] = f[Wrapped(n, i + m)] /\ on[m - 1] = f[Wrapped(n, i + (m - 1))]
          BY <4>1
        <4>3. QED  BY <1>3, <3>3, <4>1, <4>2
      <3>4. QED  BY <3>2, <3>3
    <2>2. QED  BY <2>1
  <1>6. Steps(at)
    BY <1>5
  <1>7. BehindBy(nx, f[i], k) = at[k]
    BY DEF BehindBy
  <1> HIDE DEF at
  <1>8. \A m \in 0 .. k : at[m] = IF m = 0 THEN f[i] ELSE nx[at[m - 1]]
    BY <1>6
  <1> DEFINE S == {m \in Nat : m <= k => at[m] = f[Wrapped(n, i + m)]}
  <1>9. 0 \in S
    BY <1>1, <1>4, <1>8
  <1>10. ASSUME NEW m \in Nat, m \in S
         PROVE  m + 1 \in S
    <2>1. SUFFICES ASSUME m + 1 <= k
                   PROVE  at[m + 1] = f[Wrapped(n, i + (m + 1))]
      BY <1>1
    <2>2. m + 1 \in 1 .. k /\ m + 1 \in 0 .. k /\ m + 1 # 0 /\ (m + 1) - 1 = m /\ m <= k
      BY <1>1, <2>1
    <2>3. at[m + 1] = nx[at[m]]
      BY <1>8, <2>2
    <2>4. f[Wrapped(n, i + (m + 1))] = nx[f[Wrapped(n, i + m)]]
      BY <1>3, <2>2
    <2>5. QED  BY <1>10, <2>2, <2>3, <2>4
  <1>11. k \in S
    <2> HIDE DEF S
    <2>1. QED  BY <1>1, <1>9, <1>10, SetInduction
  <1>12. QED  BY <1>1, <1>7, <1>11

\* The blocks from one place to a later one.
LEMMA BetweenIs ==
    ASSUME NEW f, NEW n, NEW nx, NEW B, IsRing(f, n, nx, B), n <= MaxBlocks, MaxBlocks \in Nat,
           NEW i \in 0 .. n - 1, NEW j \in i .. n - 1
    PROVE  BetweenBy(nx, f[i], f[j]) = [k \in 1 .. j - i |-> f[i + k - 1]]
  <1> DEFINE Reaches(k) == /\ BehindBy(nx, f[i], k) = f[j]
                           /\ \A m \in 0 .. k - 1 : BehindBy(nx, f[i], m) # f[j]
             d == CHOOSE k \in 0 .. MaxBlocks : Reaches(k)
  <1>1. n \in Nat \ {0} /\ i \in Nat /\ j \in Nat /\ i <= j /\ j < n
    BY DEF IsRing
  <1>2. \A k \in 0 .. j - i : BehindBy(nx, f[i], k) = f[i + k]
    <2>1. SUFFICES ASSUME NEW k \in 0 .. j - i
                   PROVE  BehindBy(nx, f[i], k) = f[i + k]
      OBVIOUS
    <2>2. k \in 0 .. n /\ Wrapped(n, i + k) = i + k
      BY <1>1 DEF Wrapped
    <2>3. QED  BY <2>2, BehindIs
  <1>3. \A k \in 0 .. j - i : f[i + k] = f[j] => k = j - i
    BY <1>1 DEF IsRing
  <1>4. j - i \in 0 .. MaxBlocks /\ Reaches(j - i)
    <2>1. j - i \in 0 .. MaxBlocks /\ j - i \in 0 .. j - i /\ i + (j - i) = j
      BY <1>1
    <2>2. BehindBy(nx, f[i], j - i) = f[j]
      BY <1>2, <2>1
    <2>3. \A m \in 0 .. j - i - 1 : m \in 0 .. j - i /\ m # j - i
      BY <1>1
    <2>4. QED  BY <1>2, <1>3, <2>1, <2>2, <2>3
  <1>5. ASSUME NEW k \in 0 .. MaxBlocks, Reaches(k)
        PROVE  k = j - i
    <2>1. CASE k \in 0 .. j - i
      BY <1>2, <1>3, <1>5, <2>1
    <2>2. CASE k > j - i
      <3>1. j - i \in 0 .. k - 1
        BY <1>1, <2>2
      <3>2. QED  BY <1>4, <1>5, <3>1
    <2>3. QED  BY <1>1, <2>1, <2>2
  <1>6. d \in 0 .. MaxBlocks /\ Reaches(d)
    BY <1>4
  <1>7. BetweenBy(nx, f[i], f[j]) = [k \in 1 .. d |-> BehindBy(nx, f[i], k - 1)]
    BY DEF BetweenBy
  <1> HIDE DEF d
  <1>8. d = j - i
    BY <1>5, <1>6
  <1>9. \A k \in 1 .. j - i : BehindBy(nx, f[i], k - 1) = f[i + k - 1]
    <2>1. SUFFICES ASSUME NEW k \in 1 .. j - i
                   PROVE  BehindBy(nx, f[i], k - 1) = f[i + k - 1]
      OBVIOUS
    <2>2. k - 1 \in 0 .. j - i /\ i + (k - 1) = i + k - 1
      BY <1>1
    <2>3. QED  BY <1>2, <2>2
  <1>10. QED  BY <1>7, <1>8, <1>9

-----------------------------------------------------------------------------
(* What the calls make of a ring.                                          *)

\* The consumer lets go of the first block.
Rotated(f, n) == [i \in 0 .. n - 1 |-> f[Wrapped(n, i + 1)]]

LEMMA RotatedIs ==
    ASSUME NEW f, NEW n, NEW nx, NEW B, IsRing(f, n, nx, B)
    PROVE  /\ IsRing(Rotated(f, n), n, nx, B)
           /\ \A i \in 0 .. n - 2 : Rotated(f, n)[i] = f[i + 1]
           /\ Rotated(f, n)[n - 1] = f[0]
  <1> DEFINE g == Rotated(f, n)
  <1>1. n \in Nat \ {0} /\ f \in [0 .. n - 1 -> B]
    BY DEF IsRing
  <1>2. \A i \in 0 .. n - 2 : i \in 0 .. n - 1 /\ i + 1 \in 0 .. n - 1 /\ Wrapped(n, i + 1) = i + 1
    BY <1>1 DEF Wrapped
  <1>3. Wrapped(n, n - 1 + 1) = 0 /\ n - 1 \in 0 .. n - 1 /\ 0 \in 0 .. n - 1
    BY <1>1 DEF Wrapped
  <1>4. (\A i \in 0 .. n - 2 : g[i] = f[i + 1]) /\ g[n - 1] = f[0]
    BY <1>2, <1>3 DEF Rotated
  <1>5. \A i \in 0 .. n - 1 : i \in 0 .. n - 2 \/ i = n - 1
    BY <1>1
  <1>6. g \in [0 .. n - 1 -> B]
    <2>1. \A i \in 0 .. n - 1 : f[Wrapped(n, i + 1)] \in B
      BY <1>1, <1>2, <1>3, <1>5
    <2>2. QED  BY <2>1 DEF Rotated
  <1> HIDE DEF g
  <1>7. ASSUME NEW b \in B
        PROVE  \E i \in 0 .. n - 1 : g[i] = b
    <2>1. PICK i \in 0 .. n - 1 : f[i] = b
      BY DEF IsRing
    <2>2. CASE i = 0
      BY <1>3, <1>4, <2>1, <2>2
    <2>3. CASE i # 0
      <3>1. i - 1 \in 0 .. n - 2 /\ i - 1 \in 0 .. n - 1 /\ (i - 1) + 1 = i
        BY <1>1, <2>3
      <3>2. g[i - 1] = b
        BY <1>4, <2>1, <3>1
      <3>3. QED  BY <3>1, <3>2
    <2>4. QED  BY <2>2, <2>3
  <1>8. ASSUME NEW i \in 0 .. n - 1, NEW j \in 0 .. n - 1, g[i] = g[j]
        PROVE  i = j
    <2>1. PICK k \in 0 .. n - 1 : g[i] = f[k] /\ k = IF i = n - 1 THEN 0 ELSE i + 1
      BY <1>2, <1>3, <1>4, <1>5
    <2>2. PICK m \in 0 .. n - 1 : g[j] = f[m] /\ m = IF j = n - 1 THEN 0 ELSE j + 1
      BY <1>2, <1>3, <1>4, <1>5
    <2>3. k = m
      <3>1. f[k] = f[m]
        BY <1>8, <2>1, <2>2
      <3>2. QED  BY <3>1 DEF IsRing
    <2>4. QED  BY <1>1, <2>1, <2>2, <2>3
  <1>9. \A i \in 0 .. n - 2 : nx[g[i]] = g[i + 1]
    <2>1. SUFFICES ASSUME NEW i \in 0 .. n - 2
                   PROVE  nx[g[i]] = g[i + 1]
      OBVIOUS
    <2>2. CASE i + 1 \in 0 .. n - 2
      BY <1>4, <2>2 DEF IsRing
    <2>3. CASE i + 1 = n - 1
      BY <1>4, <2>3 DEF IsRing
    <2>4. QED  BY <1>1, <2>2, <2>3
  <1>10. nx[g[n - 1]] = g[0]
    <2>1. CASE n = 1
      BY <1>4, <2>1 DEF IsRing
    <2>2. CASE n > 1
      <3>1. 0 \in 0 .. n - 2
        BY <1>1, <2>2
      <3>2. QED  BY <1>4, <3>1 DEF IsRing
    <2>3. QED  BY <1>1, <2>1, <2>2
  <1>11. IsRing(g, n, nx, B)
    BY <1>1, <1>6, <1>7, <1>8, <1>9, <1>10 DEF IsRing
  <1>12. QED  BY <1>4, <1>11 DEF g

\* A new block goes behind the one at l.
Grown(f, n, l, new) == [i \in 0 .. n |-> IF i <= l THEN f[i] ELSE IF i = l + 1 THEN new ELSE f[i - 1]]

LEMMA GrownAt ==
    ASSUME NEW f, NEW n \in Nat, NEW l \in 0 .. n - 1, NEW new
    PROVE  /\ \A i \in 0 .. l : Grown(f, n, l, new)[i] = f[i]
           /\ Grown(f, n, l, new)[l + 1] = new
           /\ \A i \in l + 1 .. n - 1 : Grown(f, n, l, new)[i + 1] = f[i]
  <1>1. \A i \in 0 .. l : i \in 0 .. n /\ i <= l
    OBVIOUS
  <1>2. l + 1 \in 0 .. n /\ ~(l + 1 <= l)
    OBVIOUS
  <1>3. \A i \in l + 1 .. n - 1 : i + 1 \in 0 .. n /\ ~(i + 1 <= l) /\ i + 1 # l + 1 /\ (i + 1) - 1 = i
    OBVIOUS
  <1>4. QED  BY <1>1, <1>2, <1>3 DEF Grown

LEMMA GrownIs ==
    ASSUME NEW f, NEW n, NEW nx \in [Block -> Nat], NEW B \in SUBSET Block, IsRing(f, n, nx, B),
           NEW l \in 0 .. n - 1, NEW new \in Block \ B
    PROVE  IsRing(Grown(f, n, l, new), n + 1,
                  [nx EXCEPT ![f[l]] = new, ![new] = nx[f[l]]], B \cup {new})
  <1> DEFINE g == Grown(f, n, l, new)
             nn == [nx EXCEPT ![f[l]] = new, ![new] = nx[f[l]]]
  <1>1. n \in Nat \ {0} /\ f \in [0 .. n - 1 -> B] /\ l \in Nat /\ l < n /\ n - 1 \in 0 .. n - 1
    BY DEF IsRing
  <1>2. (\A i \in 0 .. l : g[i] = f[i]) /\ g[l + 1] = new /\ \A i \in l + 1 .. n - 1 : g[i + 1] = f[i]
    BY <1>1, GrownAt
  <1>3. \A b \in B : nn[b] = IF b = f[l] THEN new ELSE nx[b]
    OBVIOUS
  <1>4. nn[new] = nx[f[l]]
    BY <1>1
  <1>5. \A i \in 0 .. n : i \in 0 .. l \/ i = l + 1 \/ (i - 1 \in l + 1 .. n - 1 /\ (i - 1) + 1 = i)
    BY <1>1
  <1>6. g \in [0 .. n -> B \cup {new}]
    <2>1. \A i \in 0 .. n : i <= l => f[i] \in B
      BY <1>1
    <2>2. \A i \in 0 .. n : ~(i <= l) /\ i # l + 1 => f[i - 1] \in B
      BY <1>1
    <2>3. QED  BY <2>1, <2>2 DEF Grown
  <1> HIDE DEF g, nn
  <1>7. ASSUME NEW b \in B \cup {new}
        PROVE  \E i \in 0 .. n : g[i] = b
    <2>1. CASE b = new
      BY <1>1, <1>2, <2>1
    <2>2. CASE b # new
      <3>1. PICK i \in 0 .. n - 1 : f[i] = b
        BY <2>2 DEF IsRing
      <3>2. CASE i <= l
        <4>1. i \in 0 .. l /\ i \in 0 .. n
          BY <1>1, <3>2
        <4>2. QED  BY <1>2, <3>1, <4>1
      <3>3. CASE ~(i <= l)
        <4>1. i \in l + 1 .. n - 1 /\ i + 1 \in 0 .. n
          BY <1>1, <3>3
        <4>2. QED  BY <1>2, <3>1, <4>1
      <3>4. QED  BY <3>2, <3>3
    <2>3. QED  BY <2>1, <2>2
  <1>8. ASSUME NEW i \in 0 .. n, NEW j \in 0 .. n, g[i] = g[j]
        PROVE  i = j
    <2> DEFINE Old(k, m) == m \in 0 .. n - 1 /\ g[k] = f[m] /\ g[k] # new
                            /\ k = IF m <= l THEN m ELSE m + 1
    <2>1. ASSUME NEW k \in 0 .. n, k # l + 1
          PROVE  \E m \in 0 .. n - 1 : Old(k, m)
      <3>1. CASE k \in 0 .. l
        <4>1. k \in 0 .. n - 1 /\ k <= l
          BY <1>1, <3>1
        <4>2. g[k] = f[k] /\ f[k] \in B
          BY <1>1, <1>2, <3>1, <4>1
        <4>3. Old(k, k)
          BY <4>1, <4>2
        <4>4. QED  BY <4>1, <4>3
      <3>2. CASE k - 1 \in l + 1 .. n - 1 /\ (k - 1) + 1 = k
        <4>1. k - 1 \in 0 .. n - 1 /\ ~(k - 1 <= l)
          BY <1>1, <3>2
        <4>2. g[k] = f[k - 1] /\ f[k - 1] \in B
          BY <1>1, <1>2, <3>2, <4>1
        <4>3. Old(k, k - 1)
          BY <3>2, <4>1, <4>2
        <4>4. QED  BY <4>1, <4>3
      <3>3. QED  BY <1>5, <2>1, <3>1, <3>2
    <2>2. CASE i = l + 1 /\ j = l + 1
      BY <2>2
    <2>3. CASE i # l + 1 /\ j # l + 1
      <3>1. PICK k \in 0 .. n - 1 : Old(i, k)
        BY <2>1, <2>3
      <3>2. PICK m \in 0 .. n - 1 : Old(j, m)
        BY <2>1, <2>3
      <3>3. f[k] = f[m]
        BY <1>8, <3>1, <3>2
      <3>4. k = m
        BY <3>3 DEF IsRing
      <3>5. QED  BY <3>1, <3>2, <3>4
    <2>4. CASE i # l + 1 /\ j = l + 1
      BY <1>2, <1>8, <2>1, <2>4
    <2>5. CASE i = l + 1 /\ j # l + 1
      BY <1>2, <1>8, <2>1, <2>5
    <2>6. QED  BY <2>2, <2>3, <2>4, <2>5
  <1>9. \A i \in 0 .. n - 1 : f[i] \in B /\ (f[i] = f[l] => i = l)
    BY <1>1 DEF IsRing
  <1>10. ASSUME NEW i \in 0 .. n + 1 - 2
         PROVE  nn[g[i]] = g[i + 1]
    <2>1. CASE i < l
      <3>1. i \in 0 .. l /\ i + 1 \in 0 .. l /\ i \in 0 .. n - 2 /\ i \in 0 .. n - 1 /\ i # l
        BY <1>1, <2>1
      <3>2. nx[f[i]] = f[i + 1]
        BY <3>1 DEF IsRing
      <3>3. QED  BY <1>2, <1>3, <1>9, <3>1, <3>2
    <2>2. CASE i = l
      <3>1. i \in 0 .. l /\ i \in 0 .. n - 1
        BY <1>1, <2>2
      <3>2. QED  BY <1>2, <1>3, <1>9, <2>2, <3>1
    <2>3. CASE i = l + 1
      <3>1. i \in l + 1 .. n - 1 /\ l \in 0 .. n - 2
        BY <1>1, <2>3
      <3>2. nx[f[l]] = f[l + 1]
        BY <3>1 DEF IsRing
      <3>3. QED  BY <1>2, <1>4, <2>3, <3>1, <3>2
    <2>4. CASE i > l + 1
      <3>1. /\ i - 1 \in l + 1 .. n - 1 /\ (i - 1) + 1 = i /\ i \in l + 1 .. n - 1
            /\ i - 1 \in 0 .. n - 2 /\ i - 1 \in 0 .. n - 1 /\ i - 1 # l
        BY <1>1, <2>4
      <3>2. nx[f[i - 1]] = f[i]
        BY <3>1 DEF IsRing
      <3>3. g[i] = f[i - 1] /\ g[i + 1] = f[i]
        BY <1>2, <3>1
      <3>4. QED  BY <1>3, <1>9, <3>1, <3>2, <3>3
    <2>5. QED  BY <1>1, <2>1, <2>2, <2>3, <2>4
  <1>11. nn[g[n + 1 - 1]] = g[0]
    <2>1. g[0] = f[0] /\ nx[f[n - 1]] = f[0] /\ n + 1 - 1 = n
      BY <1>1, <1>2 DEF IsRing
    <2>2. CASE l = n - 1
      BY <1>1, <1>2, <1>4, <2>1, <2>2
    <2>3. CASE l < n - 1
      <3>1. n - 1 \in l + 1 .. n - 1 /\ (n - 1) + 1 = n /\ n - 1 # l
        BY <1>1, <2>3
      <3>2. g[n] = f[n - 1]
        BY <1>2, <3>1
      <3>3. QED  BY <1>1, <1>3, <1>9, <2>1, <3>1, <3>2
    <2>4. QED  BY <1>1, <2>2, <2>3
  <1>12. IsRing(g, n + 1, nn, B \cup {new})
    <2>1. n + 1 \in Nat \ {0} /\ n + 1 - 1 = n
      BY <1>1
    <2>2. QED  BY <1>6, <1>7, <1>8, <1>10, <1>11, <2>1 DEF IsRing
  <1>13. QED  BY <1>12 DEF g, nn

\* Clear takes out the s blocks behind the first.
Shrunk(f, n, s) == [i \in 0 .. n - s - 1 |-> IF i = 0 THEN f[0] ELSE f[i + s]]

LEMMA ShrunkIs ==
    ASSUME NEW f, NEW n, NEW nx \in [Block -> Nat], NEW B \in SUBSET Block, IsRing(f, n, nx, B),
           NEW s \in Nat, n - s > 1
    PROVE  /\ IsRing(Shrunk(f, n, s), n - s, [nx EXCEPT ![f[0]] = f[s + 1]],
                     B \ {f[k] : k \in 1 .. s})
           /\ Shrunk(f, n, s)[0] = f[0]
  <1> DEFINE g == Shrunk(f, n, s)
             nn == [nx EXCEPT ![f[0]] = f[s + 1]]
             C == B \ {f[k] : k \in 1 .. s}
             At(i) == IF i = 0 THEN 0 ELSE i + s
  <1>1. n \in Nat \ {0} /\ f \in [0 .. n - 1 -> B]
    BY DEF IsRing
  <1>2. \A i \in 0 .. n - s - 1 : At(i) \in 0 .. n - 1 /\ At(i) \notin 1 .. s /\ g[i] = f[At(i)]
    BY <1>1 DEF Shrunk
  <1>3. \A b \in B : nn[b] = IF b = f[0] THEN f[s + 1] ELSE nx[b]
    OBVIOUS
  <1>4. \A i \in 0 .. n - 1 : f[i] \in C <=> i \notin 1 .. s
    <2>1. SUFFICES ASSUME NEW i \in 0 .. n - 1
                   PROVE  f[i] \in C <=> i \notin 1 .. s
      OBVIOUS
    <2>2. f[i] \in B
      BY <1>1
    <2>3. \A k \in 1 .. s : k \in 0 .. n - 1
      BY <1>1
    <2>4. \A k \in 1 .. s : f[k] = f[i] => k = i
      BY <2>3 DEF IsRing
    <2>5. QED  BY <2>2, <2>4
  <1>5. g \in [0 .. n - s - 1 -> C]
    <2>1. \A i \in 0 .. n - s - 1 : g[i] \in C
      BY <1>2, <1>4
    <2>2. QED  BY <2>1 DEF Shrunk
  <1>6. n - s \in Nat \ {0} /\ 0 \in 0 .. n - s - 1 /\ g[0] = f[0]
    BY <1>1, <1>2
  <1>7. \A b \in C : b \in B
    OBVIOUS
  <1> HIDE DEF g, nn, C
  <1>8. ASSUME NEW b \in C
        PROVE  \E i \in 0 .. n - s - 1 : g[i] = b
    <2>1. PICK i \in 0 .. n - 1 : f[i] = b
      BY <1>7 DEF IsRing
    <2>2. i \notin 1 .. s
      BY <1>4, <2>1
    <2>3. CASE i = 0
      BY <1>6, <2>1, <2>3
    <2>4. CASE i # 0
      <3>1. i - s \in 0 .. n - s - 1 /\ At(i - s) = i
        BY <1>1, <2>2, <2>4
      <3>2. QED  BY <1>2, <2>1, <3>1
    <2>5. QED  BY <2>3, <2>4
  <1>9. ASSUME NEW i \in 0 .. n - s - 1, NEW j \in 0 .. n - s - 1, g[i] = g[j]
        PROVE  i = j
    <2>1. At(i) = At(j)
      <3>1. At(i) \in 0 .. n - 1 /\ At(j) \in 0 .. n - 1 /\ f[At(i)] = f[At(j)]
        BY <1>2, <1>9
      <3> HIDE DEF At
      <3>2. QED  BY <3>1 DEF IsRing
    <2>2. QED  BY <1>1, <2>1
  <1>10. ASSUME NEW i \in 0 .. n - s - 2
         PROVE  nn[g[i]] = g[i + 1]
    <2>1. i \in 0 .. n - s - 1 /\ i + 1 \in 0 .. n - s - 1 /\ At(i + 1) = i + 1 + s
      BY <1>1
    <2>2. CASE i = 0
      BY <1>1, <1>2, <1>3, <1>6, <2>1, <2>2
    <2>3. CASE i # 0
      <3>1. i + s \in 0 .. n - 2 /\ i + s \in 0 .. n - 1 /\ At(i) = i + s /\ i + s # 0 /\ 0 \in 0 .. n - 1
        BY <1>1, <2>3
      <3>2. nx[f[i + s]] = f[i + s + 1]
        BY <3>1 DEF IsRing
      <3>3. f[i + s] # f[0] /\ f[i + s] \in B
        BY <1>1, <3>1 DEF IsRing
      <3>4. g[i] = f[i + s] /\ g[i + 1] = f[i + s + 1]
        <4>1. i + 1 + s = i + s + 1
          BY <1>1
        <4>2. QED  BY <1>2, <2>1, <3>1, <4>1
      <3>5. QED  BY <1>3, <3>2, <3>3, <3>4
    <2>4. QED  BY <2>2, <2>3
  <1>11. nn[g[n - s - 1]] = g[0]
    <2>1. n - s - 1 \in 0 .. n - s - 1 /\ At(n - s - 1) = n - 1 /\ n - 1 \in 0 .. n - 1 /\ 0 \in 0 .. n - 1 /\ n - 1 # 0
      BY <1>1
    <2>2. g[n - s - 1] = f[n - 1]
      BY <1>2, <2>1
    <2>3. f[n - 1] # f[0] /\ f[n - 1] \in B /\ nx[f[n - 1]] = f[0]
      BY <1>1, <2>1 DEF IsRing
    <2>4. QED  BY <1>3, <1>6, <2>2, <2>3
  <1>12. IsRing(g, n - s, nn, C)
    BY <1>5, <1>6, <1>8, <1>9, <1>10, <1>11 DEF IsRing
  <1>13. QED  BY <1>6, <1>12 DEF g, nn, C

-----------------------------------------------------------------------------
(* The invariant.                                                          *)

TypeOK ==
    /\ next \in [Block -> Nat] /\ readyToRead \in [Block -> BOOLEAN]
    /\ object \in [Block -> Value \cup {NoValue}] /\ blocks \in SUBSET Block
    /\ writing \in {"idle", "grow", "test", "take", "unlock"} /\ reading \in {"idle", "test", "unlock"}

\* The ring begins where the consumer has got to; the other pointers follow in
\* the order in which a block passes them, and none has gone round.
Pointers(f, n, a, w, l) ==
    /\ n >= MinListSize /\ n <= MaxBlocks
    /\ a \in Nat /\ w \in Nat /\ l \in Nat /\ a <= w /\ w <= l /\ l < n
    /\ f[0] = readPointer /\ f[a] = readAheadPointer
    /\ f[w] = writePointer /\ f[l] = writeAheadPointer

\* What a thread has found out still holds when it acts on it: the block behind
\* writeAheadPointer is not the consumer's, and there is one to read or release,
\* whose flag nobody puts up again.
Assured(n, a, w, l) ==
    /\ writing \in {"test", "take"} => l + 1 < n
    /\ writing = "unlock" => w < l
    /\ reading = "test" => a < w
    /\ reading = "unlock" => 0 < a /\ ~readyToRead[readPointer]

\* What is locked or published was written.
Written(f, l) == \A i \in 0 .. l - 1 : object[f[i]] \in Value

\* The flag is up in no block but those that were published.
Flags(f, n, w) ==
    ~ClearUnread => \A i \in 0 .. n - 1 : readyToRead[f[i]] => i < w \/ (i = w /\ writing = "unlock")

Ring(f, n, a, w, l) ==
    /\ IsRing(f, n, next, blocks) /\ Pointers(f, n, a, w, l) /\ Assured(n, a, w, l)
    /\ Written(f, l) /\ Flags(f, n, w)

Sound == TypeOK /\ \E f, n, a, w, l : Ring(f, n, a, w, l)

LEMMA SoundInit == SingleProducerConsumerAssumption /\ Init => Sound
  <1> SUFFICES ASSUME SingleProducerConsumerAssumption, Init
               PROVE  Sound
    OBVIOUS
  <1> DEFINE f == [i \in 0 .. MinListSize - 1 |-> i + 1]
             n == MinListSize
  <1>1. n \in Nat /\ n >= 3 /\ MaxBlocks \in Nat /\ n <= MaxBlocks
    BY DEF SingleProducerConsumerAssumption
  <1>2. TypeOK
    BY <1>1 DEF TypeOK, Init, Block
  <1>3. IsRing(f, n, next, blocks)
    <2>1. f \in [0 .. n - 1 -> blocks]
      BY <1>1 DEF Init
    <2>2. \A b \in blocks : \E i \in 0 .. n - 1 : f[i] = b
      <3>1. \A b \in blocks : b - 1 \in 0 .. n - 1 /\ f[b - 1] = b
        BY <1>1 DEF Init
      <3>2. QED  BY <3>1
    <2>3. \A i, j \in 0 .. n - 1 : f[i] = f[j] => i = j
      BY <1>1
    <2>4. \A i \in 0 .. n - 2 : next[f[i]] = f[i + 1]
      BY <1>1 DEF Init, Block
    <2>5. next[f[n - 1]] = f[0]
      <3>1. n - 1 \in 0 .. n - 1 /\ f[n - 1] = n /\ f[0] = 1 /\ n \in Block
        BY <1>1 DEF Block
      <3>2. next[n] = 1
        BY <3>1 DEF Init
      <3> HIDE DEF f
      <3>3. QED  BY <3>1, <3>2
    <2> HIDE DEF f, n
    <2>6. QED  BY <1>1, <2>1, <2>2, <2>3, <2>4, <2>5 DEF IsRing
  <1>4. Pointers(f, n, 0, 0, 0)
    BY <1>1 DEF Pointers, Init
  <1>5. Assured(n, 0, 0, 0)
    BY DEF Assured, Init
  <1>6. Written(f, 0)
    BY DEF Written
  <1>7. Flags(f, n, 0)
    BY <1>1 DEF Flags, Init, Block
  <1>8. Ring(f, n, 0, 0, 0)
    BY <1>3, <1>4, <1>5, <1>6, <1>7 DEF Ring
  <1> HIDE DEF f
  <1>9. QED  BY <1>2, <1>8 DEF Sound

-----------------------------------------------------------------------------
(* What each step makes of the ring.  The conclusions say at what places   *)
(* the pointers are then.                                                  *)

\* The block at l + 1 is the one behind writeAheadPointer.
LEMMA NextBlock ==
    ASSUME TypeOK, NEW f, NEW n, NEW a, NEW w, NEW l, Ring(f, n, a, w, l)
    PROVE  /\ n \in Nat /\ f \in [0 .. n - 1 -> Block] /\ f \in [0 .. n - 1 -> blocks]
           /\ \A i, j \in 0 .. n - 1 : f[i] = f[j] => i = j
           /\ \A i \in 0 .. n - 2 : next[f[i]] = f[i + 1]
           /\ l + 1 < n => next[writeAheadPointer] = f[l + 1] /\ f[l + 1] # readPointer
           /\ l + 1 = n => next[writeAheadPointer] = readPointer
  <1>1. n \in Nat \ {0} /\ f \in [0 .. n - 1 -> blocks] /\ f \in [0 .. n - 1 -> Block]
    BY DEF TypeOK, Ring, IsRing
  <1>2. (\A i, j \in 0 .. n - 1 : f[i] = f[j] => i = j) /\ \A i \in 0 .. n - 2 : next[f[i]] = f[i + 1]
    BY DEF Ring, IsRing
  <1>3. ASSUME l + 1 < n
        PROVE  next[writeAheadPointer] = f[l + 1] /\ f[l + 1] # readPointer
    <2>1. l \in 0 .. n - 2 /\ l + 1 \in 0 .. n - 1 /\ 0 \in 0 .. n - 1 /\ l + 1 # 0
      BY <1>1, <1>3 DEF Ring, Pointers
    <2>2. QED  BY <1>2, <2>1 DEF Ring, Pointers
  <1>4. ASSUME l + 1 = n
        PROVE  next[writeAheadPointer] = readPointer
    <2>1. l = n - 1
      BY <1>1, <1>4 DEF Ring, Pointers
    <2>2. QED  BY <2>1 DEF Ring, Pointers, IsRing
  <1>5. QED  BY <1>1, <1>2, <1>3, <1>4

\* Where the pointers are.
LEMMA Bounds ==
    ASSUME TypeOK, NEW f, NEW n, NEW a, NEW w, NEW l, Ring(f, n, a, w, l)
    PROVE  /\ n \in Nat \ {0} /\ 0 \in 0 .. n - 1
           /\ a \in 0 .. n - 1 /\ w \in 0 .. n - 1 /\ l \in 0 .. n - 1 /\ a <= w /\ w <= l
           /\ readPointer = f[0] /\ readAheadPointer = f[a]
           /\ writePointer = f[w] /\ writeAheadPointer = f[l]
           /\ \A i \in 0 .. n - 1 : f[i] \in blocks /\ f[i] \in Block
           /\ \A i, j \in 0 .. n - 1 : f[i] = f[j] => i = j
           /\ \A i \in 0 .. n - 2 : next[f[i]] = f[i + 1]
  <1>1. n \in Nat \ {0} /\ f \in [0 .. n - 1 -> blocks] /\ blocks \subseteq Block
    BY DEF TypeOK, Ring, IsRing
  <1>2. a \in Nat /\ w \in Nat /\ l \in Nat /\ a <= w /\ w <= l /\ l < n
    BY DEF Ring, Pointers
  <1>3. /\ readPointer = f[0] /\ readAheadPointer = f[a]
        /\ writePointer = f[w] /\ writeAheadPointer = f[l]
    BY DEF Ring, Pointers
  <1>4. (\A i, j \in 0 .. n - 1 : f[i] = f[j] => i = j) /\ \A i \in 0 .. n - 2 : next[f[i]] = f[i + 1]
    BY DEF Ring, IsRing
  <1>5. QED  BY <1>1, <1>2, <1>3, <1>4

LEMMA WriteLockKeeps ==
    ASSUME TypeOK, NEW f, NEW n, NEW a, NEW w, NEW l, Ring(f, n, a, w, l), WriteLock
    PROVE  TypeOK' /\ Ring(f, n, a, w, l)'
  <1>1. UNCHANGED <<memory, reads, writePointer, writeAheadPointer>> /\ writing = "idle"
    BY DEF WriteLock
  <1>2. writing' = IF l + 1 = n THEN "grow" ELSE "test"
    <2>1. l + 1 < n \/ l + 1 = n
      BY NextBlock DEF Ring, Pointers
    <2>2. n \in Nat
      BY NextBlock
    <2>3. QED  BY <2>1, <2>2, NextBlock DEF WriteLock
  <1>3. l + 1 <= n
    BY NextBlock DEF Ring, Pointers
  <1>4. TypeOK'
    BY <1>1, <1>2 DEF TypeOK, memory, reads
  <1>5. IsRing(f, n, next, blocks)' /\ Pointers(f, n, a, w, l)' /\ Written(f, l)'
    BY <1>1 DEF memory, reads, Ring, Pointers, Written
  <1>6. Assured(n, a, w, l)'
    <2>1. n \in Nat
      BY NextBlock
    <2>2. QED  BY <1>1, <1>2, <1>3, <2>1 DEF Assured, memory, reads, Ring, Pointers
  <1>7. Flags(f, n, w)'
    BY <1>1, <1>2 DEF Flags, memory, Ring
  <1>8. QED  BY <1>4, <1>5, <1>6, <1>7 DEF Ring

LEMMA WriteLockTestKeeps ==
    ASSUME TypeOK, NEW f, NEW n, NEW a, NEW w, NEW l, Ring(f, n, a, w, l), WriteLockTest
    PROVE  TypeOK' /\ Ring(f, n, a, w, l)'
  <1>1. /\ UNCHANGED <<memory, reads, writePointer, writeAheadPointer>> /\ writing = "test"
        /\ writing' \in {"grow", "take"}
    BY DEF WriteLockTest
  <1>2. TypeOK'
    BY <1>1 DEF TypeOK, memory, reads
  <1>3. IsRing(f, n, next, blocks)' /\ Pointers(f, n, a, w, l)' /\ Written(f, l)'
    BY <1>1 DEF memory, reads, Ring, Pointers, Written
  <1>4. Assured(n, a, w, l)'
    BY <1>1 DEF Assured, memory, reads, Ring
  <1>5. Flags(f, n, w)'
    BY <1>1 DEF Flags, memory, Ring
  <1>6. QED  BY <1>2, <1>3, <1>4, <1>5 DEF Ring

LEMMA WriteLockGrowKeeps ==
    ASSUME SingleProducerConsumerAssumption,
           TypeOK, NEW f, NEW n, NEW a, NEW w, NEW l, Ring(f, n, a, w, l), WriteLockGrow
    PROVE  /\ TypeOK' /\ \E new \in Block \ blocks : Ring(Grown(f, n, l, new), n + 1, a, w, l)'
           /\ \A b \in blocks : object'[b] = object[b]
  <1>1. PICK new \in Block \ blocks :
            /\ blocks' = blocks \cup {new}
            /\ next' = [next EXCEPT ![writeAheadPointer] = new, ![new] = next[writeAheadPointer]]
            /\ readyToRead' = [readyToRead EXCEPT ![new] = FALSE]
            /\ object' = [object EXCEPT ![new] = NoValue]
    BY DEF WriteLockGrow
  <1>2. writing = "grow" /\ writing' = "take" /\ UNCHANGED <<reads, writePointer, writeAheadPointer>>
    BY DEF WriteLockGrow
  <1> DEFINE g == Grown(f, n, l, new)
  <1>3. /\ n \in Nat \ {0} /\ a \in Nat /\ w \in Nat /\ l \in Nat /\ a <= w /\ w <= l /\ l < n
        /\ l \in 0 .. n - 1 /\ writeAheadPointer = f[l] /\ writeAheadPointer \in Block
        /\ f \in [0 .. n - 1 -> blocks] /\ f \in [0 .. n - 1 -> Block]
    <2>1. n \in Nat \ {0} /\ f \in [0 .. n - 1 -> blocks] /\ f \in [0 .. n - 1 -> Block]
      BY NextBlock DEF Ring, IsRing
    <2>2. /\ a \in Nat /\ w \in Nat /\ l \in Nat /\ a <= w /\ w <= l /\ l < n
          /\ writeAheadPointer = f[l]
      BY DEF Ring, Pointers
    <2>3. QED  BY <2>1, <2>2
  <1>4. /\ IsRing(g, n + 1, next', blocks')
        /\ (\A i \in 0 .. l : g[i] = f[i]) /\ g[l + 1] = new /\ \A i \in l + 1 .. n - 1 : g[i + 1] = f[i]
    <2>1. next' = [next EXCEPT ![f[l]] = new, ![new] = next[f[l]]]
      BY <1>1, <1>3
    <2>2. /\ next \in [Block -> Nat] /\ blocks \in SUBSET Block /\ new \in Block \ blocks
          /\ IsRing(f, n, next, blocks) /\ l \in 0 .. n - 1
      BY <1>3 DEF TypeOK, Ring
    <2> HIDE DEF g
    <2>3. IsRing(g, n + 1, [next EXCEPT ![f[l]] = new, ![new] = next[f[l]]], blocks \cup {new})
      BY <2>2, GrownIs DEF g
    <2>4. (\A i \in 0 .. l : g[i] = f[i]) /\ g[l + 1] = new /\ \A i \in l + 1 .. n - 1 : g[i + 1] = f[i]
      BY <1>3, GrownAt DEF g
    <2>5. QED  BY <1>1, <2>1, <2>3, <2>4
  <1> HIDE DEF g
  <1>5. TypeOK'
    <2>1. \A b \in Block : next'[b] \in Nat
      <3>1. \A b \in Block : next[b] \in Nat
        BY DEF TypeOK
      <3>2. next[writeAheadPointer] \in Nat
        BY <1>3, <3>1
      <3>3. new \in Nat
        BY DEF Block, SingleProducerConsumerAssumption
      <3>4. QED  BY <1>1, <1>3, <3>1, <3>2, <3>3 DEF TypeOK
    <2>2. next' \in [Block -> Nat]
      BY <1>1, <2>1 DEF TypeOK
    <2>3. QED  BY <1>1, <1>2, <2>2 DEF TypeOK, reads
  <1>6. Pointers(g, n + 1, a, w, l)'
    <2>1. n + 1 <= MaxBlocks
      <3>1. IsFiniteSet(blocks') /\ Cardinality(blocks') = n + 1
        BY <1>4, RingSize
      <3>2. IsFiniteSet(Block) /\ Cardinality(Block) = MaxBlocks
        BY FS_Interval DEF Block, SingleProducerConsumerAssumption
      <3>3. blocks' \subseteq Block
        BY <1>5 DEF TypeOK
      <3>4. QED  BY <3>1, <3>2, <3>3, FS_Subset
    <2>2. 0 \in 0 .. l /\ a \in 0 .. l /\ w \in 0 .. l /\ l \in 0 .. l
      BY <1>3
    <2>3. n + 1 >= MinListSize
      BY <1>3 DEF Ring, Pointers, SingleProducerConsumerAssumption
    <2>4. QED  BY <1>2, <1>3, <1>4, <2>1, <2>2, <2>3 DEF Pointers, Ring, reads
  <1>7. \A b \in blocks : object'[b] = object[b] /\ readyToRead'[b] = readyToRead[b]
    BY <1>1 DEF TypeOK
  <1>8. Assured(n + 1, a, w, l)'
    <2>1. readyToRead'[readPointer] = readyToRead[readPointer]
      BY <1>7, Bounds
    <2>2. QED  BY <1>2, <1>3, <2>1 DEF Assured, Ring, reads
  <1>9. Written(g, l)'
    <2>1. \A i \in 0 .. l - 1 : i \in 0 .. l /\ i \in 0 .. n - 1 /\ f[i] \in blocks
      BY <1>3
    <2>2. QED  BY <1>4, <1>7, <2>1 DEF Written, Ring
  <1>10. Flags(g, n + 1, w)'
    <2>1. SUFFICES ASSUME ~ClearUnread, NEW i \in 0 .. n, readyToRead'[g[i]]
                   PROVE  i < w
      BY <1>3 DEF Flags
    <2>2. CASE i \in 0 .. l
      <3>1. i \in 0 .. n - 1 /\ f[i] \in blocks
        BY <1>3, <2>2
      <3>2. readyToRead[f[i]]
        BY <1>4, <1>7, <2>1, <2>2, <3>1
      <3>3. QED  BY <1>2, <2>1, <3>1, <3>2 DEF Ring, Flags
    <2>3. CASE i = l + 1
      <3>1. readyToRead'[new] = FALSE
        BY <1>1 DEF TypeOK
      <3>2. QED  BY <1>4, <2>1, <2>3, <3>1
    <2>4. CASE i > l + 1
      <3>1. i - 1 \in l + 1 .. n - 1 /\ (i - 1) + 1 = i /\ i - 1 \in 0 .. n - 1
        BY <1>3, <2>4
      <3>2. g[i] = f[i - 1] /\ f[i - 1] \in blocks
        BY <1>3, <1>4, <3>1
      <3>3. readyToRead[f[i - 1]]
        BY <1>7, <2>1, <3>2
      <3>4. i - 1 < w
        BY <1>2, <2>1, <3>1, <3>3 DEF Ring, Flags
      <3>5. QED  BY <1>3, <2>4, <3>4
    <2>5. QED  BY <1>3, <2>2, <2>3, <2>4
  <1>11. Ring(g, n + 1, a, w, l)'
    BY <1>4, <1>6, <1>8, <1>9, <1>10 DEF Ring
  <1>12. QED  BY <1>5, <1>7, <1>11 DEF g

LEMMA WriteLockReturnKeeps ==
    ASSUME TypeOK, NEW f, NEW n, NEW a, NEW w, NEW l, Ring(f, n, a, w, l), WriteLockReturn
    PROVE  /\ TypeOK' /\ Ring(f, n, a, w, l + 1)'
           /\ \A i \in 0 .. l - 1 : object'[f[i]] = object[f[i]]
  <1>1. /\ writing = "take" /\ writing' = "idle" /\ writeAheadPointer' = next[writeAheadPointer]
        /\ UNCHANGED <<next, readyToRead, blocks, reads, writePointer>>
    BY DEF WriteLockReturn
  <1>2. PICK v \in Value : object' = [object EXCEPT ![writeAheadPointer] = v]
    BY DEF WriteLockReturn
  <1>3. l + 1 < n
    BY <1>1 DEF Ring, Assured
  <1>4. TypeOK'
    BY <1>1, <1>2 DEF TypeOK, reads
  <1>5. IsRing(f, n, next, blocks)'
    BY <1>1 DEF Ring
  <1>6. Pointers(f, n, a, w, l + 1)'
    BY <1>1, <1>3, NextBlock DEF Ring, Pointers, reads
  <1>7. Assured(n, a, w, l + 1)'
    BY <1>1 DEF Ring, Assured, reads
  <1>8. \A i \in 0 .. l - 1 : object'[f[i]] = object[f[i]]
    <2>1. \A i \in 0 .. l - 1 : i \in 0 .. n - 1 /\ i # l
      BY Bounds
    <2>2. \A i \in 0 .. l - 1 : f[i] # writeAheadPointer /\ f[i] \in Block
      BY <2>1, Bounds
    <2>3. QED  BY <1>2, <2>2 DEF TypeOK
  <1>9. Written(f, l + 1)'
    <2>1. object'[f[l]] \in Value
      BY <1>2, Bounds DEF TypeOK
    <2>2. \A i \in 0 .. (l + 1) - 1 : i \in 0 .. l - 1 \/ i = l
      BY Bounds
    <2>3. QED  BY <1>8, <2>1, <2>2 DEF Written, Ring
  <1>10. Flags(f, n, w)'
    BY <1>1 DEF Flags, Ring
  <1>11. QED  BY <1>4, <1>5, <1>6, <1>7, <1>8, <1>9, <1>10 DEF Ring

LEMMA WriteUnlockKeeps ==
    ASSUME TypeOK, NEW f, NEW n, NEW a, NEW w, NEW l, Ring(f, n, a, w, l), WriteUnlock
    PROVE  TypeOK' /\ Ring(f, n, a, w, l)'
  <1>1. /\ writing = "idle" /\ writing' = "unlock" /\ writePointer # writeAheadPointer
        /\ readyToRead' = [readyToRead EXCEPT ![writePointer] = TRUE]
        /\ UNCHANGED <<next, object, blocks, reads, writePointer, writeAheadPointer>>
    BY DEF WriteUnlock
  <1>2. TypeOK'
    BY <1>1 DEF TypeOK, reads
  <1>3. IsRing(f, n, next, blocks)' /\ Pointers(f, n, a, w, l)' /\ Written(f, l)'
    BY <1>1 DEF Ring, Pointers, Written, reads
  <1>4. \A i \in 0 .. n - 1 : readyToRead'[f[i]] = IF i = w THEN TRUE ELSE readyToRead[f[i]]
    <2>1. \A i \in 0 .. n - 1 : f[i] \in Block /\ (f[i] = writePointer <=> i = w)
      BY Bounds
    <2>2. \A b \in Block : readyToRead'[b] = IF b = writePointer THEN TRUE ELSE readyToRead[b]
      BY <1>1 DEF TypeOK
    <2>3. QED  BY <2>1, <2>2
  <1>5. Assured(n, a, w, l)'
    <2>1. w < l
      BY <1>1, Bounds
    <2>2. reading = "unlock" => readyToRead'[f[0]] = readyToRead[f[0]]
      <3>1. reading = "unlock" => w # 0
        BY Bounds DEF Ring, Assured
      <3>2. QED  BY <1>4, <3>1, Bounds
    <2>3. QED  BY <1>1, <2>1, <2>2, Bounds DEF Assured, Ring, reads
  <1>6. Flags(f, n, w)'
    BY <1>1, <1>4 DEF Flags, Ring
  <1>7. QED  BY <1>2, <1>3, <1>5, <1>6 DEF Ring

LEMMA WriteUnlockedKeeps ==
    ASSUME TypeOK, NEW f, NEW n, NEW a, NEW w, NEW l, Ring(f, n, a, w, l), WriteUnlocked
    PROVE  TypeOK' /\ Ring(f, n, a, w + 1, l)'
  <1>1. /\ writing = "unlock" /\ writing' = "idle" /\ writePointer' = next[writePointer]
        /\ UNCHANGED <<memory, reads, writeAheadPointer>>
    BY DEF WriteUnlocked
  <1>2. w < l
    BY <1>1 DEF Ring, Assured
  <1>3. TypeOK'
    BY <1>1 DEF TypeOK, memory, reads
  <1>4. IsRing(f, n, next, blocks)' /\ Written(f, l)'
    BY <1>1 DEF Ring, Written, memory
  <1>5. Pointers(f, n, a, w + 1, l)'
    <2>1. next[f[w]] = f[w + 1]
      <3>1. w \in 0 .. n - 2
        BY <1>2, Bounds
      <3>2. QED  BY <3>1, Bounds
    <2>2. QED  BY <1>1, <1>2, <2>1 DEF Ring, Pointers, reads
  <1>6. Assured(n, a, w + 1, l)'
    BY <1>1, Bounds DEF Assured, Ring, memory, reads
  <1>7. Flags(f, n, w + 1)'
    BY <1>1, Bounds DEF Flags, Ring, memory
  <1>8. QED  BY <1>3, <1>4, <1>5, <1>6, <1>7 DEF Ring

LEMMA ReadLockKeeps ==
    ASSUME TypeOK, NEW f, NEW n, NEW a, NEW w, NEW l, Ring(f, n, a, w, l), ReadLock
    PROVE  TypeOK' /\ Ring(f, n, a, w, l)'
  <1>1. /\ reading = "idle" /\ reading' = "test" /\ readAheadPointer # writePointer
        /\ UNCHANGED <<memory, writes, readPointer, readAheadPointer>>
    BY DEF ReadLock
  <1>2. TypeOK' /\ IsRing(f, n, next, blocks)' /\ Pointers(f, n, a, w, l)' /\ Written(f, l)' /\ Flags(f, n, w)'
    BY <1>1 DEF TypeOK, Ring, Pointers, Written, Flags, memory, writes
  <1>3. Assured(n, a, w, l)'
    <2>1. a < w
      BY <1>1, Bounds
    <2>2. QED  BY <1>1, <2>1 DEF Assured, Ring, writes
  <1>4. QED  BY <1>2, <1>3 DEF Ring

LEMMA ReadLockTestKeeps ==
    ASSUME TypeOK, NEW f, NEW n, NEW a, NEW w, NEW l, Ring(f, n, a, w, l), ReadLockTest
    PROVE  TypeOK' /\ a < w /\ \E b \in {a, a + 1} : Ring(f, n, b, w, l)'
  <1>1. /\ reading = "test" /\ reading' = "idle" /\ UNCHANGED <<memory, writes, readPointer>>
        /\ readAheadPointer' \in {readAheadPointer, next[readAheadPointer]}
    BY DEF ReadLockTest
  <1>2. a < w
    BY <1>1 DEF Ring, Assured
  <1>3. TypeOK' /\ IsRing(f, n, next, blocks)' /\ Written(f, l)' /\ Flags(f, n, w)'
    BY <1>1 DEF TypeOK, Ring, Written, Flags, memory, writes
  <1>4. PICK b \in {a, a + 1} : readAheadPointer' = f[b]
    <2>1. a \in 0 .. n - 2
      BY <1>2, Bounds
    <2>2. next[f[a]] = f[a + 1]
      BY <2>1, Bounds
    <2>3. QED  BY <1>1, <2>2, Bounds
  <1>5. Pointers(f, n, b, w, l)'
    BY <1>1, <1>2, <1>4 DEF Pointers, Ring, writes
  <1>6. Assured(n, b, w, l)'
    BY <1>1 DEF Assured, Ring, memory, writes
  <1>7. QED  BY <1>2, <1>3, <1>5, <1>6 DEF Ring

LEMMA ReadUnlockKeeps ==
    ASSUME TypeOK, NEW f, NEW n, NEW a, NEW w, NEW l, Ring(f, n, a, w, l), ReadUnlock
    PROVE  TypeOK' /\ Ring(f, n, a, w, l)'
  <1>1. /\ reading = "idle" /\ reading' = "unlock" /\ readAheadPointer # readPointer
        /\ readyToRead' = [readyToRead EXCEPT ![readPointer] = FALSE]
        /\ UNCHANGED <<next, object, blocks, writes, readPointer, readAheadPointer>>
    BY DEF ReadUnlock
  <1>2. TypeOK' /\ IsRing(f, n, next, blocks)' /\ Pointers(f, n, a, w, l)' /\ Written(f, l)'
    BY <1>1 DEF TypeOK, Ring, Pointers, Written, writes
  <1>3. \A i \in 0 .. n - 1 : readyToRead'[f[i]] => readyToRead[f[i]]
    BY <1>1, Bounds DEF TypeOK
  <1>4. Assured(n, a, w, l)'
    <2>1. ~readyToRead'[readPointer]
      BY <1>1, Bounds DEF TypeOK
    <2>2. 0 < a
      BY <1>1, Bounds
    <2>3. QED  BY <1>1, <2>1, <2>2 DEF Assured, Ring, writes
  <1>5. Flags(f, n, w)'
    BY <1>1, <1>3 DEF Flags, Ring, writes
  <1>6. QED  BY <1>2, <1>4, <1>5 DEF Ring

\* The ring turns by one.
LEMMA ReadUnlockedKeeps ==
    ASSUME TypeOK, NEW f, NEW n, NEW a, NEW w, NEW l, Ring(f, n, a, w, l), ReadUnlocked
    PROVE  /\ TypeOK' /\ 0 < a /\ Ring(Rotated(f, n), n, a - 1, w - 1, l - 1)'
           /\ \A i \in 0 .. n - 2 : Rotated(f, n)[i] = f[i + 1]
  <1> DEFINE g == Rotated(f, n)
  <1>1. /\ reading = "unlock" /\ reading' = "idle" /\ readPointer' = next[readPointer]
        /\ UNCHANGED <<memory, writes, readAheadPointer>>
    BY DEF ReadUnlocked
  <1>2. 0 < a /\ ~readyToRead[readPointer]
    BY <1>1 DEF Ring, Assured
  <1>3. TypeOK'
    BY <1>1 DEF TypeOK, memory, writes
  <1>4. IsRing(g, n, next, blocks) /\ (\A i \in 0 .. n - 2 : g[i] = f[i + 1]) /\ g[n - 1] = f[0]
    BY RotatedIs DEF Ring
  <1> HIDE DEF g
  <1>5. IsRing(g, n, next, blocks)'
    BY <1>1, <1>4 DEF memory
  <1>6. Pointers(g, n, a - 1, w - 1, l - 1)'
    <2>1. /\ a - 1 \in 0 .. n - 2 /\ w - 1 \in 0 .. n - 2 /\ l - 1 \in 0 .. n - 2 /\ 0 \in 0 .. n - 2
          /\ (a - 1) + 1 = a /\ (w - 1) + 1 = w /\ (l - 1) + 1 = l
      BY <1>2, Bounds
    <2>2. g[a - 1] = f[a] /\ g[w - 1] = f[w] /\ g[l - 1] = f[l] /\ g[0] = f[0 + 1]
      BY <1>4, <2>1
    <2>3. next[f[0]] = f[0 + 1]
      BY <2>1, Bounds
    <2>4. a - 1 <= w - 1 /\ w - 1 <= l - 1 /\ l - 1 < n
      BY <1>2, Bounds
    <2>5. QED  BY <1>1, <2>1, <2>2, <2>3, <2>4, Bounds DEF Pointers, Ring, writes
  <1>7. Assured(n, a - 1, w - 1, l - 1)'
    BY <1>1, Bounds DEF Assured, Ring, writes
  <1>8. Written(g, l - 1)'
    <2>1. \A i \in 0 .. (l - 1) - 1 : i \in 0 .. n - 2 /\ i + 1 \in 0 .. l - 1
      BY Bounds
    <2>2. QED  BY <1>1, <1>4, <2>1 DEF Written, Ring, memory
  <1>9. Flags(g, n, w - 1)'
    <2>1. SUFFICES ASSUME ~ClearUnread, NEW i \in 0 .. n - 1, readyToRead[g[i]]
                   PROVE  i < w - 1 \/ (i = w - 1 /\ writing = "unlock")
      BY <1>1 DEF Flags, memory, writes
    <2>2. i # n - 1
      BY <1>2, <1>4, <2>1, Bounds
    <2>3. i \in 0 .. n - 2 /\ i + 1 \in 0 .. n - 1
      BY <2>2, Bounds
    <2>4. readyToRead[f[i + 1]]
      BY <1>4, <2>1, <2>3
    <2>5. i + 1 < w \/ (i + 1 = w /\ writing = "unlock")
      BY <2>1, <2>3, <2>4 DEF Flags, Ring
    <2>6. QED  BY <2>3, <2>5, Bounds
  <1>10. Ring(g, n, a - 1, w - 1, l - 1)'
    BY <1>5, <1>6, <1>7, <1>8, <1>9 DEF Ring
  <1>11. QED  BY <1>2, <1>3, <1>4, <1>10 DEF g

-----------------------------------------------------------------------------
(* What is locked, held and in between, by the places of the pointers.     *)

PlacesAre(f, a, w, l) ==
    /\ Taken  = [k \in 1 .. a |-> f[k - 1]]
    /\ Unread = [k \in 1 .. w - a |-> f[a + k - 1]]
    /\ Locked = [k \in 1 .. l - w |-> f[w + k - 1]]

BetweensAre(nx, f, a, w, l) ==
    /\ BetweenBy(nx, f[0], f[a]) = [k \in 1 .. a |-> f[k - 1]]
    /\ BetweenBy(nx, f[a], f[w]) = [k \in 1 .. w - a |-> f[a + k - 1]]
    /\ BetweenBy(nx, f[w], f[l]) = [k \in 1 .. l - w |-> f[w + k - 1]]

LEMMA PlacesBy ==
    ASSUME MaxBlocks \in Nat, NEW f, NEW n, NEW nx, NEW B, IsRing(f, n, nx, B), n <= MaxBlocks,
           NEW a \in Nat, NEW w \in Nat, NEW l \in Nat, a <= w, w <= l, l < n
    PROVE  BetweensAre(nx, f, a, w, l)
  <1>1. n \in Nat \ {0}
    BY DEF IsRing
  <1>2. /\ 0 \in 0 .. n - 1 /\ a \in 0 .. n - 1 /\ w \in 0 .. n - 1
        /\ a \in 0 .. n - 1 /\ w \in a .. n - 1 /\ l \in w .. n - 1
    BY <1>1
  <1>3. BetweenBy(nx, f[0], f[a]) = [k \in 1 .. a - 0 |-> f[0 + k - 1]]
    BY <1>2, BetweenIs
  <1>4. BetweenBy(nx, f[a], f[w]) = [k \in 1 .. w - a |-> f[a + k - 1]]
    BY <1>2, BetweenIs
  <1>5. BetweenBy(nx, f[w], f[l]) = [k \in 1 .. l - w |-> f[w + k - 1]]
    BY <1>2, BetweenIs
  <1>6. [k \in 1 .. a - 0 |-> f[0 + k - 1]] = [k \in 1 .. a |-> f[k - 1]]
    <2>1. a - 0 = a /\ \A k \in 1 .. a : 0 + k - 1 = k - 1
      OBVIOUS
    <2>2. QED  BY <2>1
  <1>7. QED  BY <1>3, <1>4, <1>5, <1>6 DEF BetweensAre

LEMMA Places ==
    ASSUME SingleProducerConsumerAssumption, NEW f, NEW n, NEW a, NEW w, NEW l, Ring(f, n, a, w, l)
    PROVE  PlacesAre(f, a, w, l)
  <1>1. /\ MaxBlocks \in Nat /\ IsRing(f, n, next, blocks) /\ n <= MaxBlocks
        /\ a \in Nat /\ w \in Nat /\ l \in Nat /\ a <= w /\ w <= l /\ l < n
        /\ f[0] = readPointer /\ f[a] = readAheadPointer
        /\ f[w] = writePointer /\ f[l] = writeAheadPointer
    BY DEF SingleProducerConsumerAssumption, Ring, Pointers
  <1>2. BetweensAre(next, f, a, w, l)
    BY <1>1, PlacesBy
  <1>3. /\ Taken = BetweenBy(next, readPointer, readAheadPointer)
        /\ Unread = BetweenBy(next, readAheadPointer, writePointer)
        /\ Locked = BetweenBy(next, writePointer, writeAheadPointer)
    BY DEF Taken, Unread, Locked, Between, Behind, BetweenBy, BehindBy
  <1>4. QED  BY <1>1, <1>2, <1>3 DEF PlacesAre, BetweensAre

LEMMA PlacesNext ==
    ASSUME SingleProducerConsumerAssumption, NEW f, NEW n, NEW a, NEW w, NEW l, Ring(f, n, a, w, l)'
    PROVE  PlacesAre(f, a, w, l)'
  <1>1. /\ MaxBlocks \in Nat /\ IsRing(f, n, next', blocks') /\ n <= MaxBlocks
        /\ a \in Nat /\ w \in Nat /\ l \in Nat /\ a <= w /\ w <= l /\ l < n
        /\ f[0] = readPointer' /\ f[a] = readAheadPointer'
        /\ f[w] = writePointer' /\ f[l] = writeAheadPointer'
    BY DEF SingleProducerConsumerAssumption, Ring, Pointers
  <1>2. BetweensAre(next', f, a, w, l)
    BY <1>1, PlacesBy
  <1>3. /\ Taken' = BetweenBy(next', readPointer', readAheadPointer')
        /\ Unread' = BetweenBy(next', readAheadPointer', writePointer')
        /\ Locked' = BetweenBy(next', writePointer', writeAheadPointer')
    BY DEF Taken, Unread, Locked, Between, Behind, BetweenBy, BehindBy
  <1>4. QED  BY <1>1, <1>2, <1>3 DEF PlacesAre, BetweensAre

LEMMA Lengths ==
    ASSUME SingleProducerConsumerAssumption,
           TypeOK, NEW f, NEW n, NEW a, NEW w, NEW l, Ring(f, n, a, w, l)
    PROVE  Len(Taken) = a /\ Len(Unread) = w - a /\ Len(Locked) = l - w
  <1>1. a \in Nat /\ w - a \in Nat /\ l - w \in Nat
    BY Bounds
  <1>2. PlacesAre(f, a, w, l)
    BY Places
  <1>3. Len(Taken) = a
    BY <1>1, <1>2 DEF PlacesAre
  <1>4. Len(Unread) = w - a
    BY <1>1, <1>2 DEF PlacesAre
  <1>5. Len(Locked) = l - w
    BY <1>1, <1>2 DEF PlacesAre
  <1>6. QED  BY <1>3, <1>4, <1>5

\* The blocks behind readPointer.
LEMMA BehindReadPointer ==
    ASSUME TypeOK, NEW f, NEW n, NEW a, NEW w, NEW l, Ring(f, n, a, w, l)
    PROVE  /\ \A k \in 0 .. n - 1 : Behind(readPointer, k) = f[k]
           /\ Behind(readPointer, n) = readPointer
  <1>1. \A k \in 0 .. n : Behind(readPointer, k) = BehindBy(next, f[0], k)
    <2>1. \A k \in 0 .. n : Behind(readPointer, k) = BehindBy(next, readPointer, k)
      BY DEF Behind, BehindBy
    <2>2. QED  BY <2>1, Bounds
  <1>2. \A k \in 0 .. n : BehindBy(next, f[0], k) = f[Wrapped(n, 0 + k)]
    BY Bounds, BehindIs DEF Ring
  <1>3. (\A k \in 0 .. n - 1 : k \in 0 .. n /\ Wrapped(n, 0 + k) = k) /\ n \in 0 .. n /\ Wrapped(n, 0 + n) = 0
    BY Bounds DEF Wrapped
  <1>4. QED  BY <1>1, <1>2, <1>3, Bounds

LEMMA CancelWriteLockKeeps ==
    ASSUME SingleProducerConsumerAssumption,
           TypeOK, NEW f, NEW n, NEW a, NEW w, NEW l, Ring(f, n, a, w, l), CancelWriteLock
    PROVE  TypeOK' /\ \E m \in w .. l - 1 : Ring(f, n, a, w, m)'
  <1>1. writing = "idle" /\ UNCHANGED <<memory, reads, writePointer, writing>>
    BY DEF CancelWriteLock
  <1>2. PICK i \in 1 .. Len(Locked) : writeAheadPointer' = Locked[i]
    BY DEF CancelWriteLock
  <1>3. Len(Locked) = l - w /\ \A k \in 1 .. l - w : Locked[k] = f[w + k - 1]
    <2>1. Locked = [k \in 1 .. l - w |-> f[w + k - 1]]
      BY Places DEF PlacesAre
    <2>2. l - w \in Nat
      BY Bounds
    <2>3. QED  BY <2>1, <2>2
  <1>4. PICK m \in w .. l - 1 : writeAheadPointer' = f[m]
    <2>1. w + i - 1 \in w .. l - 1
      BY <1>2, <1>3, Bounds
    <2>2. QED  BY <1>2, <1>3, <2>1
  <1>5. TypeOK' /\ IsRing(f, n, next, blocks)' /\ Flags(f, n, w)'
    BY <1>1 DEF TypeOK, Ring, Flags, memory, reads
  <1>6. m \in Nat /\ w <= m /\ m < n /\ m < l
    BY Bounds
  <1>7. Pointers(f, n, a, w, m)'
    BY <1>1, <1>4, <1>6 DEF Ring, Pointers, memory, reads
  <1>8. Assured(n, a, w, m)'
    BY <1>1 DEF Assured, Ring, memory, reads
  <1>9. Written(f, m)'
    <2>1. \A i_1 \in 0 .. m - 1 : i_1 \in 0 .. l - 1
      BY <1>6, Bounds
    <2>2. QED  BY <1>1, <2>1 DEF Written, Ring, memory
  <1>10. QED  BY <1>5, <1>7, <1>8, <1>9 DEF Ring

LEMMA CancelReadLockKeeps ==
    ASSUME SingleProducerConsumerAssumption,
           TypeOK, NEW f, NEW n, NEW a, NEW w, NEW l, Ring(f, n, a, w, l), CancelReadLock
    PROVE  TypeOK' /\ \E m \in 0 .. a - 1 : Ring(f, n, m, w, l)'
  <1>1. reading = "idle" /\ UNCHANGED <<memory, writes, readPointer, reading>>
    BY DEF CancelReadLock
  <1>2. PICK i \in 1 .. Len(Taken) : readAheadPointer' = Taken[i]
    BY DEF CancelReadLock
  <1>3. Len(Taken) = a /\ \A k \in 1 .. a : Taken[k] = f[k - 1]
    <2>1. Taken = [k \in 1 .. a |-> f[k - 1]]
      BY Places DEF PlacesAre
    <2>2. a \in Nat
      BY Bounds
    <2>3. QED  BY <2>1, <2>2
  <1>4. PICK m \in 0 .. a - 1 : readAheadPointer' = f[m]
    <2>1. i - 1 \in 0 .. a - 1
      BY <1>2, <1>3, Bounds
    <2>2. QED  BY <1>2, <1>3, <2>1
  <1>5. TypeOK' /\ IsRing(f, n, next, blocks)' /\ Flags(f, n, w)' /\ Written(f, l)'
    BY <1>1 DEF TypeOK, Ring, Flags, Written, memory, writes
  <1>6. m \in Nat /\ m <= w
    BY Bounds
  <1>7. Pointers(f, n, m, w, l)'
    BY <1>1, <1>4, <1>6 DEF Ring, Pointers, memory, writes
  <1>8. Assured(n, m, w, l)'
    BY <1>1 DEF Assured, Ring, memory, writes
  <1>9. QED  BY <1>5, <1>7, <1>8 DEF Ring

\* Clear leaves the first MinListSize blocks of a longer ring, and nothing in
\* them is locked, held or, unless ClearUnread, in between.
LEMMA ClearKeeps ==
    ASSUME SingleProducerConsumerAssumption,
           TypeOK, NEW f, NEW n, NEW a, NEW w, NEW l, Ring(f, n, a, w, l), Clear
    PROVE  TypeOK' /\ a = 0 /\ l = w /\ \E g : Ring(g, MinListSize, 0, 0, 0)'
  <1> DEFINE s == n - MinListSize
             g == Shrunk(f, n, s)
  <1>1. /\ writing = "idle" /\ reading = "idle" /\ Locked = <<>> /\ Taken = <<>>
        /\ ClearUnread \/ Unread = <<>>
        /\ writePointer' = readPointer /\ writeAheadPointer' = readPointer
        /\ readAheadPointer' = readPointer
        /\ UNCHANGED <<readyToRead, object, writing, readPointer, reading>>
    BY DEF Clear
  <1>2. /\ MinListSize \in Nat /\ MinListSize >= 3 /\ MinListSize <= n /\ n \in Nat
        /\ MinListSize <= MaxBlocks /\ MaxBlocks \in Nat
    BY Bounds DEF Ring, Pointers, SingleProducerConsumerAssumption
  <1>3. s \in Nat /\ n - s = MinListSize /\ s + 1 \in 0 .. n - 1 /\ \A k \in 1 .. s : k \in 0 .. n - 1
    BY <1>2
  <1>4. Cardinality(blocks) - MinListSize = s
    BY RingSize DEF Ring
  <1> HIDE DEF s
  <1>5. /\ blocks' = blocks \ {f[k] : k \in 1 .. s}
        /\ next' = [next EXCEPT ![f[0]] = f[s + 1]]
    <2>1. {Behind(readPointer, k) : k \in 1 .. s} = {f[k] : k \in 1 .. s}
      BY <1>3, BehindReadPointer
    <2>2. Behind(readPointer, s + 1) = f[s + 1]
      BY <1>3, BehindReadPointer
    <2>3. /\ blocks' = blocks \ {Behind(readPointer, k) : k \in 1 .. s}
          /\ next' = [next EXCEPT ![readPointer] = Behind(readPointer, s + 1)]
      BY <1>4 DEF Clear
    <2>4. QED  BY <2>1, <2>2, <2>3, Bounds
  <1>6. a = 0 /\ l = w /\ (~ClearUnread => w = 0)
    <2>1. /\ a \in Nat /\ w - a \in Nat /\ l - w \in Nat
          /\ w \in Nat /\ l \in Nat
      BY Bounds
    <2>2. Len(Taken) = a /\ Len(Unread) = w - a /\ Len(Locked) = l - w
      BY Lengths
    <2>3. QED  BY <1>1, <2>1, <2>2
  <1>7. IsRing(g, MinListSize, next', blocks') /\ g[0] = f[0]
    <2>1. /\ next \in [Block -> Nat] /\ blocks \in SUBSET Block /\ IsRing(f, n, next, blocks)
          /\ s \in Nat /\ n - s > 1
      BY <1>2, <1>3 DEF TypeOK, Ring
    <2> HIDE DEF g
    <2>2. /\ IsRing(g, n - s, [next EXCEPT ![f[0]] = f[s + 1]], blocks \ {f[k] : k \in 1 .. s})
          /\ g[0] = f[0]
      BY <2>1, ShrunkIs DEF g
    <2>3. QED  BY <1>3, <1>5, <2>2
  <1>8. TypeOK'
    <2>1. f[s + 1] \in Nat
      BY <1>3, Bounds DEF Block
    <2>2. next' \in [Block -> Nat]
      BY <1>5, <2>1 DEF TypeOK
    <2>3. blocks' \in SUBSET Block
      BY <1>5 DEF TypeOK
    <2>4. QED  BY <1>1, <2>2, <2>3 DEF TypeOK
  <1> HIDE DEF g
  <1>9. Pointers(g, MinListSize, 0, 0, 0)'
    BY <1>1, <1>2, <1>7, Bounds DEF Pointers
  <1>10. Assured(MinListSize, 0, 0, 0)'
    BY <1>1 DEF Assured
  <1>11. Written(g, 0)'
    BY DEF Written
  <1>12. Flags(g, MinListSize, 0)'
    <2>1. SUFFICES ASSUME ~ClearUnread, NEW i \in 0 .. MinListSize - 1
                   PROVE  ~readyToRead[g[i]]
      BY <1>1 DEF Flags
    <2>2. g[i] \in blocks
      BY <1>5, <1>7 DEF IsRing
    <2>3. PICK j \in 0 .. n - 1 : f[j] = g[i]
      BY <2>2 DEF Ring, IsRing
    <2>4. ~readyToRead[f[j]]
      BY <1>1, <1>2, <1>6, <2>1 DEF Ring, Flags
    <2>5. QED  BY <2>3, <2>4
  <1>13. Ring(g, MinListSize, 0, 0, 0)'
    BY <1>7, <1>9, <1>10, <1>11, <1>12 DEF Ring
  <1>14. QED  BY <1>6, <1>8, <1>13

-----------------------------------------------------------------------------
(* The ring, whatever the threads do.                                      *)

LEMMA SoundStep ==
    ASSUME SingleProducerConsumerAssumption, Sound, [Next]_vars
    PROVE  Sound'
  <1>1. TypeOK
    BY DEF Sound
  <1>2. PICK f, n, a, w, l : Ring(f, n, a, w, l)
    BY DEF Sound
  <1>3. CASE WriteLock
    BY <1>1, <1>2, <1>3, WriteLockKeeps DEF Sound
  <1>4. CASE WriteLockTest
    BY <1>1, <1>2, <1>4, WriteLockTestKeeps DEF Sound
  <1>5. CASE WriteLockGrow
    BY <1>1, <1>2, <1>5, WriteLockGrowKeeps DEF Sound
  <1>6. CASE WriteLockReturn
    BY <1>1, <1>2, <1>6, WriteLockReturnKeeps DEF Sound
  <1>7. CASE CancelWriteLock
    BY <1>1, <1>2, <1>7, CancelWriteLockKeeps DEF Sound
  <1>8. CASE WriteUnlock
    BY <1>1, <1>2, <1>8, WriteUnlockKeeps DEF Sound
  <1>9. CASE WriteUnlocked
    BY <1>1, <1>2, <1>9, WriteUnlockedKeeps DEF Sound
  <1>10. CASE ReadLock
    BY <1>1, <1>2, <1>10, ReadLockKeeps DEF Sound
  <1>11. CASE ReadLockTest
    BY <1>1, <1>2, <1>11, ReadLockTestKeeps DEF Sound
  <1>12. CASE CancelReadLock
    BY <1>1, <1>2, <1>12, CancelReadLockKeeps DEF Sound
  <1>13. CASE ReadUnlock
    BY <1>1, <1>2, <1>13, ReadUnlockKeeps DEF Sound
  <1>14. CASE ReadUnlocked
    BY <1>1, <1>2, <1>14, ReadUnlockedKeeps DEF Sound
  <1>15. CASE Clear
    BY <1>1, <1>2, <1>15, ClearKeeps DEF Sound
  <1>16. CASE UNCHANGED vars
    <2>1. TypeOK'
      BY <1>1, <1>16 DEF TypeOK, vars, memory, reads, writes
    <2>2. Ring(f, n, a, w, l)'
      BY <1>2, <1>16
         DEF Ring, Pointers, Assured, Written, Flags, vars, memory, reads, writes
    <2>3. QED  BY <2>1, <2>2 DEF Sound
  <1>17. QED  BY <1>3, <1>4, <1>5, <1>6, <1>7, <1>8, <1>9, <1>10, <1>11, <1>12, <1>13, <1>14, <1>15, <1>16
                 DEF Next, Producer, Consumer

\* In every reachable state the blocks are one ring that begins at readPointer,
\* the other pointers follow in their order, what a thread has found out still
\* holds, and what is locked or published was written.
THEOREM SoundHolds == SingleProducerConsumerAssumption => (Spec => []Sound)
  <1> SUFFICES ASSUME SingleProducerConsumerAssumption
               PROVE  Spec => []Sound
    OBVIOUS
  <1>1. Init => Sound
    BY SoundInit
  <1>2. Sound /\ [Next]_vars => Sound'
    BY SoundStep
  <1>3. QED  BY <1>1, <1>2, PTL DEF Spec

LEMMA SoundIsOneRing ==
    ASSUME SingleProducerConsumerAssumption, Sound
    PROVE  OneRing
  <1>1. TypeOK
    BY DEF Sound
  <1>2. PICK f, n, a, w, l : Ring(f, n, a, w, l)
    BY DEF Sound
  <1>3. /\ n \in Nat \ {0} /\ a \in Nat /\ w \in Nat /\ l \in Nat /\ a <= w /\ w <= l /\ l < n
        /\ w - a \in Nat /\ l - w \in Nat
    BY <1>1, <1>2, Bounds
  <1>4. Cardinality(blocks) = n
    BY <1>2, RingSize DEF Ring
  <1>5. (\A k \in 0 .. n - 1 : Behind(readPointer, k) = f[k]) /\ Behind(readPointer, n) = readPointer
    BY <1>1, <1>2, BehindReadPointer
  <1>6. {Behind(readPointer, k) : k \in 1 .. n} = blocks
    <2>1. ASSUME NEW k \in 1 .. n
          PROVE  Behind(readPointer, k) \in blocks
      <3>1. CASE k = n
        BY <1>1, <1>2, <1>5, <3>1, Bounds
      <3>2. CASE k # n
        <4>1. k \in 0 .. n - 1
          BY <1>3, <3>2
        <4>2. QED  BY <1>1, <1>2, <1>5, <4>1, Bounds
      <3>3. QED  BY <3>1, <3>2
    <2>2. ASSUME NEW b \in blocks
          PROVE  \E k \in 1 .. n : Behind(readPointer, k) = b
      <3>1. PICK k \in 0 .. n - 1 : f[k] = b
        BY <1>2 DEF Ring, IsRing
      <3>2. CASE k = 0
        <4>1. n \in 1 .. n /\ readPointer = b
          BY <1>1, <1>2, <1>3, <3>1, <3>2, Bounds
        <4>2. QED  BY <1>5, <4>1
      <3>3. CASE k # 0
        <4>1. k \in 1 .. n
          BY <1>3, <3>3
        <4>2. QED  BY <1>5, <3>1, <4>1
      <3>4. QED  BY <3>2, <3>3
    <2>3. QED  BY <2>1, <2>2
  <1>7. writePointer \in blocks /\ readAheadPointer \in blocks
    BY <1>1, <1>2, Bounds
  <1>8. Len(Taken) + Len(Unread) + Len(Locked) = l
    <2>1. Len(Taken) = a /\ Len(Unread) = w - a /\ Len(Locked) = l - w
      BY <1>1, <1>2, Lengths
    <2>2. QED  BY <1>3, <2>1
  <1>9. QED  BY <1>3, <1>4, <1>5, <1>6, <1>7, <1>8 DEF OneRing

\* The blocks form one ring through every pointer, and what the producer has
\* locked, what the consumer holds and what is in between do not overlap.
THEOREM OneRingHolds == SingleProducerConsumerAssumption => (Spec => []OneRing)
  <1> SUFFICES ASSUME SingleProducerConsumerAssumption
               PROVE  Spec => []OneRing
    OBVIOUS
  <1>1. Sound => OneRing
    BY SoundIsOneRing
  <1>2. QED  BY <1>1, SoundHolds, PTL

-----------------------------------------------------------------------------
(* The channel.                                                            *)

Held    == [k \in 1 .. Len(Taken) |-> object[Taken[k]]]
Waiting == [k \in 1 .. Len(Unread) |-> object[Unread[k]]]

\* The data ob of the blocks in the places i, ..., j - 1.
Cut(ob, f, i, j) == [k \in 1 .. j - i |-> ob[f[i + k - 1]]]

Among(V, ob, f, i, j) == \A k \in i .. j - 1 : ob[f[k]] \in V

IsCut(V, s, ob, f, i, j) ==
    s \in Seq(V) /\ Len(s) = j - i /\ \A k \in 1 .. j - i : s[k] = ob[f[i + k - 1]]

LEMMA CutIs ==
    ASSUME NEW V, NEW ob, NEW f, NEW i, NEW j, i \in Nat, j \in Nat, i <= j, Among(V, ob, f, i, j)
    PROVE  IsCut(V, Cut(ob, f, i, j), ob, f, i, j)
  <1> DEFINE s == Cut(ob, f, i, j)
  <1>1. j - i \in Nat
    OBVIOUS
  <1>2. \A k \in 1 .. j - i : i + k - 1 \in i .. j - 1
    OBVIOUS
  <1>3. s = [k \in 1 .. j - i |-> ob[f[i + k - 1]]]
    BY DEF Cut
  <1> HIDE DEF s
  <1>4. s \in [1 .. j - i -> V]
    BY <1>2, <1>3 DEF Among
  <1>5. s \in Seq(V)
    BY <1>1, <1>4, SeqDef
  <1>6. Len(s) = j - i
    BY <1>1, <1>3
  <1>7. QED  BY <1>3, <1>5, <1>6 DEF s, IsCut

\* The d places from m on have what the d places from i on had.
Matches(ob2, g, m, ob, f, i, d) == \A k \in 0 .. d - 1 : ob2[g[m + k]] = ob[f[i + k]]

LEMMA CutSame ==
    ASSUME NEW ob, NEW f, NEW ob2, NEW g, NEW i, NEW m, NEW d, i \in Nat, m \in Nat, d \in Nat,
           Matches(ob2, g, m, ob, f, i, d)
    PROVE  Cut(ob2, g, m, m + d) = Cut(ob, f, i, i + d)
  <1>1. (m + d) - m = d /\ (i + d) - i = d
    OBVIOUS
  <1>2. \A k \in 1 .. d : ob2[g[m + k - 1]] = ob[f[i + k - 1]]
    <2>1. \A k \in 1 .. d : k - 1 \in 0 .. d - 1 /\ m + (k - 1) = m + k - 1 /\ i + (k - 1) = i + k - 1
      OBVIOUS
    <2>2. QED  BY <2>1 DEF Matches
  <1>3. QED  BY <1>1, <1>2 DEF Cut

LEMMA CutAppend ==
    ASSUME NEW V, NEW ob, NEW f, NEW i, NEW j, i \in Nat, j \in Nat, i <= j,
           Among(V, ob, f, i, j), ob[f[j]] \in V
    PROVE  Cut(ob, f, i, j + 1) = Append(Cut(ob, f, i, j), ob[f[j]])
  <1> DEFINE s == Cut(ob, f, i, j)
             t == Cut(ob, f, i, j + 1)
             u == Append(s, ob[f[j]])
  <1>1. /\ s \in Seq(V) /\ Len(s) = j - i /\ \A k \in 1 .. j - i : s[k] = ob[f[i + k - 1]]
    <2>1. IsCut(V, Cut(ob, f, i, j), ob, f, i, j)
      BY CutIs
    <2>2. QED  BY <2>1 DEF IsCut
  <1>2. t \in Seq(V) /\ Len(t) = j + 1 - i /\ \A k \in 1 .. j + 1 - i : t[k] = ob[f[i + k - 1]]
    <2>1. j + 1 \in Nat /\ i <= j + 1 /\ Among(V, ob, f, i, j + 1)
      <3>1. \A k \in i .. (j + 1) - 1 : k \in i .. j - 1 \/ k = j
        OBVIOUS
      <3>2. QED  BY <3>1 DEF Among
    <2>2. IsCut(V, Cut(ob, f, i, j + 1), ob, f, i, j + 1)
      BY <2>1, CutIs
    <2>3. QED  BY <2>2 DEF IsCut
  <1>3. ob[f[j]] \in V /\ j - i \in Nat /\ i + (j - i + 1) - 1 = j /\ j - i + 1 = j + 1 - i
    BY DEF Among
  <1> HIDE DEF s, t
  <1>4. /\ u \in Seq(V) /\ Len(u) = j - i + 1 /\ (\A k \in 1 .. j - i : u[k] = s[k])
        /\ u[j - i + 1] = ob[f[j]]
    <2>1. s \in Seq(V) /\ ob[f[j]] \in V
      BY <1>1, <1>3
    <2>2. /\ u \in Seq(V) /\ Len(u) = Len(s) + 1 /\ (\A k \in 1 .. Len(s) : u[k] = s[k])
          /\ u[Len(s) + 1] = ob[f[j]]
      BY <2>1, AppendProperties
    <2> HIDE DEF u
    <2>3. QED  BY <1>1, <2>2
  <1> HIDE DEF u
  <1>5. \A k \in 1 .. Len(t) : t[k] = u[k]
    <2>1. SUFFICES ASSUME NEW k \in 1 .. j + 1 - i
                   PROVE  t[k] = u[k]
      BY <1>2
    <2>2. CASE k \in 1 .. j - i
      BY <1>1, <1>2, <1>4, <2>2
    <2>3. CASE k = j - i + 1
      BY <1>2, <1>3, <1>4, <2>3
    <2>4. QED  BY <1>3, <2>2, <2>3
  <1>6. QED  BY <1>2, <1>3, <1>4, <1>5, SeqEqual DEF s, t, u

LEMMA CutTail ==
    ASSUME NEW V, NEW ob, NEW f, NEW i, NEW j, i \in Nat, j \in Nat, i < j, Among(V, ob, f, i, j)
    PROVE  /\ Cut(ob, f, i, j) # <<>> /\ Head(Cut(ob, f, i, j)) = ob[f[i]]
           /\ Tail(Cut(ob, f, i, j)) = Cut(ob, f, i + 1, j)
  <1> DEFINE s == Cut(ob, f, i, j)
             t == Cut(ob, f, i + 1, j)
             u == Tail(s)
  <1>1. s \in Seq(V) /\ Len(s) = j - i /\ \A k \in 1 .. j - i : s[k] = ob[f[i + k - 1]]
    <2>1. i <= j
      OBVIOUS
    <2>2. IsCut(V, Cut(ob, f, i, j), ob, f, i, j)
      BY <2>1, CutIs
    <2>3. QED  BY <2>2 DEF IsCut
  <1>2. t \in Seq(V) /\ Len(t) = j - (i + 1) /\ \A k \in 1 .. j - (i + 1) : t[k] = ob[f[(i + 1) + k - 1]]
    <2>1. i + 1 \in Nat /\ i + 1 <= j /\ Among(V, ob, f, i + 1, j)
      BY DEF Among
    <2>2. IsCut(V, Cut(ob, f, i + 1, j), ob, f, i + 1, j)
      BY <2>1, CutIs
    <2>3. QED  BY <2>2 DEF IsCut
  <1> HIDE DEF s, t
  <1>3. s # <<>>
    BY <1>1
  <1>4. Head(s) = ob[f[i]]
    <2>1. 1 \in 1 .. j - i /\ i + 1 - 1 = i
      OBVIOUS
    <2>2. QED  BY <1>1, <1>3, <2>1
  <1>5. u \in Seq(V) /\ Len(u) = j - i - 1 /\ \A k \in 1 .. j - i - 1 : u[k] = s[k + 1]
    BY <1>1, <1>3, HeadTailProperties
  <1> HIDE DEF u
  <1>6. \A k \in 1 .. Len(t) : t[k] = u[k]
    <2>1. SUFFICES ASSUME NEW k \in 1 .. j - (i + 1)
                   PROVE  t[k] = u[k]
      BY <1>2
    <2>2. k \in 1 .. j - i - 1 /\ k + 1 \in 1 .. j - i /\ (i + 1) + k - 1 = i + (k + 1) - 1
      OBVIOUS
    <2>3. QED  BY <1>1, <1>2, <1>5, <2>2
  <1>7. Len(t) = Len(u)
    BY <1>2, <1>5
  <1>8. t = u
    BY <1>2, <1>5, <1>6, <1>7, SeqEqual
  <1>9. QED  BY <1>3, <1>4, <1>8 DEF s, t, u

PartsAre(ob, f, i, m, j) ==
    /\ SubSeq(Cut(ob, f, i, j), 1, m - i) = Cut(ob, f, i, m)
    /\ SubSeq(Cut(ob, f, i, j), m - i + 1, j - i) = Cut(ob, f, m, j)
    /\ Cut(ob, f, i, m) \o Cut(ob, f, m, j) = Cut(ob, f, i, j)

BothAmong(V, ob, f, i, m, j) == Among(V, ob, f, i, m) /\ Among(V, ob, f, m, j)

LEMMA CutParts ==
    ASSUME NEW V, NEW ob, NEW f, NEW i, NEW m, NEW j, i \in Nat, m \in Nat, j \in Nat, i <= m, m <= j,
           BothAmong(V, ob, f, i, m, j)
    PROVE  PartsAre(ob, f, i, m, j)
  <1> DEFINE s == Cut(ob, f, i, j)
             p == Cut(ob, f, i, m)
             q == Cut(ob, f, m, j)
  <1>1. s \in Seq(V) /\ Len(s) = j - i /\ \A k \in 1 .. j - i : s[k] = ob[f[i + k - 1]]
    <2>1. i <= j /\ Among(V, ob, f, i, j)
      <3>1. \A k \in i .. j - 1 : k \in i .. m - 1 \/ k \in m .. j - 1
        OBVIOUS
      <3>2. QED  BY <3>1 DEF Among, BothAmong
    <2>2. IsCut(V, Cut(ob, f, i, j), ob, f, i, j)
      BY <2>1, CutIs
    <2>3. QED  BY <2>2 DEF IsCut
  <1>2. p \in Seq(V) /\ Len(p) = m - i /\ \A k \in 1 .. m - i : p[k] = ob[f[i + k - 1]]
    <2>1. IsCut(V, Cut(ob, f, i, m), ob, f, i, m)
      BY CutIs DEF BothAmong
    <2>2. QED  BY <2>1 DEF IsCut
  <1>3. q \in Seq(V) /\ Len(q) = j - m /\ \A k \in 1 .. j - m : q[k] = ob[f[m + k - 1]]
    <2>1. IsCut(V, Cut(ob, f, m, j), ob, f, m, j)
      BY CutIs DEF BothAmong
    <2>2. QED  BY <2>1 DEF IsCut
  <1> HIDE DEF s, p, q
  <1>4. p \o q = s
    <2> DEFINE u == p \o q
    <2>1. /\ u \in Seq(V) /\ Len(u) = (m - i) + (j - m)
          /\ \A k \in 1 .. (m - i) + (j - m) : u[k] = IF k <= m - i THEN p[k] ELSE q[k - (m - i)]
      <3>1. p \in Seq(V) /\ q \in Seq(V) /\ Len(p) = m - i /\ Len(q) = j - m
        BY <1>2, <1>3
      <3>2. /\ u \in Seq(V) /\ Len(u) = Len(p) + Len(q)
            /\ \A k \in 1 .. Len(p) + Len(q) : u[k] = IF k <= Len(p) THEN p[k] ELSE q[k - Len(p)]
        BY <3>1, ConcatProperties
      <3> HIDE DEF u
      <3>3. QED  BY <3>1, <3>2
    <2> HIDE DEF u
    <2>2. (m - i) + (j - m) = j - i
      OBVIOUS
    <2>3. \A k \in 1 .. Len(s) : s[k] = u[k]
      <3>1. SUFFICES ASSUME NEW k \in 1 .. j - i
                     PROVE  s[k] = u[k]
        BY <1>1
      <3>2. CASE k <= m - i
        <4>1. k \in 1 .. m - i
          BY <3>2
        <4>2. QED  BY <1>1, <1>2, <2>1, <2>2, <3>2, <4>1
      <3>3. CASE ~(k <= m - i)
        <4>1. k - (m - i) \in 1 .. j - m /\ m + (k - (m - i)) - 1 = i + k - 1
          BY <3>3
        <4>2. QED  BY <1>1, <1>3, <2>1, <2>2, <3>3, <4>1
      <3>4. QED  BY <3>2, <3>3
    <2>4. Len(s) = Len(u)
      BY <1>1, <2>1, <2>2
    <2>5. s = u
      BY <1>1, <2>1, <2>3, <2>4, SeqEqual
    <2>6. QED  BY <2>5 DEF u
  <1>5. SubSeq(s, 1, m - i) = p
    <2> DEFINE u == SubSeq(s, 1, m - i)
    <2>1. 1 \in Int /\ m - i \in Int /\ (\A k \in 1 .. m - i : s[k] \in V)
      <3>1. \A k \in 1 .. m - i : k \in 1 .. j - i /\ i + k - 1 \in i .. m - 1
        OBVIOUS
      <3>2. QED  BY <1>1, <3>1 DEF Among, BothAmong
    <2>2. /\ u \in Seq(V) /\ Len(u) = IF 1 <= m - i THEN (m - i) - 1 + 1 ELSE 0
          /\ \A k \in 1 .. (m - i) - 1 + 1 : u[k] = s[1 + k - 1]
      BY <2>1, SubSeqProperties
    <2> HIDE DEF u
    <2>3. Len(p) = Len(u)
      BY <1>2, <2>2
    <2>4. \A k \in 1 .. Len(p) : p[k] = u[k]
      <3>1. SUFFICES ASSUME NEW k \in 1 .. m - i
                     PROVE  p[k] = u[k]
        BY <1>2
      <3>2. k \in 1 .. (m - i) - 1 + 1 /\ 1 + k - 1 = k /\ k \in 1 .. j - i
        OBVIOUS
      <3>3. QED  BY <1>1, <1>2, <2>2, <3>2
    <2>5. p = u
      BY <1>2, <2>2, <2>3, <2>4, SeqEqual
    <2>6. QED  BY <2>5 DEF u
  <1>6. SubSeq(s, m - i + 1, j - i) = q
    <2> DEFINE u == SubSeq(s, m - i + 1, j - i)
    <2>1. m - i + 1 \in Int /\ j - i \in Int /\ (\A k \in m - i + 1 .. j - i : s[k] \in V)
      <3>1. \A k \in m - i + 1 .. j - i : k \in 1 .. j - i /\ i + k - 1 \in m .. j - 1
        OBVIOUS
      <3>2. QED  BY <1>1, <3>1 DEF Among, BothAmong
    <2>2. /\ u \in Seq(V)
          /\ Len(u) = IF m - i + 1 <= j - i THEN (j - i) - (m - i + 1) + 1 ELSE 0
          /\ \A k \in 1 .. (j - i) - (m - i + 1) + 1 : u[k] = s[(m - i + 1) + k - 1]
      BY <2>1, SubSeqProperties
    <2> HIDE DEF u
    <2>3. Len(q) = Len(u)
      BY <1>3, <2>2
    <2>4. \A k \in 1 .. Len(q) : q[k] = u[k]
      <3>1. SUFFICES ASSUME NEW k \in 1 .. j - m
                     PROVE  q[k] = u[k]
        BY <1>3
      <3>2. /\ k \in 1 .. (j - i) - (m - i + 1) + 1 /\ (m - i + 1) + k - 1 \in 1 .. j - i
            /\ i + ((m - i + 1) + k - 1) - 1 = m + k - 1
        OBVIOUS
      <3>3. QED  BY <1>1, <1>3, <2>2, <3>2
    <2>5. q = u
      BY <1>3, <2>2, <2>3, <2>4, SeqEqual
    <2>6. QED  BY <2>5 DEF u
  <1>7. QED  BY <1>4, <1>5, <1>6 DEF s, p, q, PartsAre

LEMMA Data ==
    ASSUME SingleProducerConsumerAssumption, NEW f, NEW n, NEW a, NEW w, NEW l, Ring(f, n, a, w, l)
    PROVE  Held = Cut(object, f, 0, a) /\ Waiting = Cut(object, f, a, w)
  <1>1. a \in Nat /\ w - a \in Nat /\ a - 0 = a
    BY DEF Ring, Pointers
  <1>2. PlacesAre(f, a, w, l)
    BY Places
  <1>3. Len(Taken) = a /\ \A k \in 1 .. a : Taken[k] = f[0 + k - 1]
    <2>1. Taken = [k \in 1 .. a |-> f[k - 1]]
      BY <1>2 DEF PlacesAre
    <2>2. \A k \in 1 .. a : 0 + k - 1 = k - 1
      OBVIOUS
    <2>3. QED  BY <1>1, <2>1, <2>2
  <1>4. Len(Unread) = w - a /\ \A k \in 1 .. w - a : Unread[k] = f[a + k - 1]
    <2>1. Unread = [k \in 1 .. w - a |-> f[a + k - 1]]
      BY <1>2 DEF PlacesAre
    <2>2. QED  BY <1>1, <2>1
  <1>5. Held = Cut(object, f, 0, a)
    BY <1>1, <1>3 DEF Held, Cut
  <1>6. Waiting = Cut(object, f, a, w)
    BY <1>4 DEF Waiting, Cut
  <1>7. QED  BY <1>5, <1>6

LEMMA DataNext ==
    ASSUME SingleProducerConsumerAssumption, NEW f, NEW n, NEW a, NEW w, NEW l, Ring(f, n, a, w, l)'
    PROVE  Held' = Cut(object', f, 0, a) /\ Waiting' = Cut(object', f, a, w)
  <1>1. a \in Nat /\ w - a \in Nat /\ a - 0 = a
    BY DEF Ring, Pointers
  <1>2. PlacesAre(f, a, w, l)'
    BY PlacesNext
  <1>3. Len(Taken') = a /\ \A k \in 1 .. a : Taken'[k] = f[0 + k - 1]
    <2>1. Taken' = [k \in 1 .. a |-> f[k - 1]]
      BY <1>2 DEF PlacesAre
    <2>2. \A k \in 1 .. a : 0 + k - 1 = k - 1
      OBVIOUS
    <2>3. QED  BY <1>1, <2>1, <2>2
  <1>4. Len(Unread') = w - a /\ \A k \in 1 .. w - a : Unread'[k] = f[a + k - 1]
    <2>1. Unread' = [k \in 1 .. w - a |-> f[a + k - 1]]
      BY <1>2 DEF PlacesAre
    <2>2. QED  BY <1>1, <2>1
  <1>5. Held' = Cut(object', f, 0, a)
    BY <1>1, <1>3 DEF Held, Cut
  <1>6. Waiting' = Cut(object', f, a, w)
    BY <1>4 DEF Waiting, Cut
  <1>7. QED  BY <1>5, <1>6

\* As long as the blocks before writePointer keep their data, the channel does.
LEMMA SameData ==
    ASSUME SingleProducerConsumerAssumption,
           NEW f, NEW n, NEW a, NEW w, NEW l, Ring(f, n, a, w, l),
           NEW g, NEW m, NEW k, Ring(g, m, a, w, k)',
           \A i \in 0 .. w - 1 : object'[g[i]] = object[f[i]]
    PROVE  Held' = Held /\ Waiting' = Waiting
  <1>1. a \in Nat /\ w \in Nat /\ w - a \in Nat /\ 0 + a = a /\ a + (w - a) = w
    BY DEF Ring, Pointers
  <1>2. \A i \in 0 .. a - 1 : 0 + i = i /\ i \in 0 .. w - 1
    BY <1>1
  <1>3. \A i \in 0 .. (w - a) - 1 : a + i \in 0 .. w - 1
    BY <1>1
  <1>4. Cut(object', g, 0, 0 + a) = Cut(object, f, 0, 0 + a)
    <2>1. Matches(object', g, 0, object, f, 0, a)
      BY <1>2 DEF Matches
    <2>2. QED  BY <1>1, <2>1, CutSame
  <1>5. Cut(object', g, a, a + (w - a)) = Cut(object, f, a, a + (w - a))
    <2>1. Matches(object', g, a, object, f, a, w - a)
      BY <1>3 DEF Matches
    <2>2. QED  BY <1>1, <2>1, CutSame
  <1>6. Held = Cut(object, f, 0, a) /\ Waiting = Cut(object, f, a, w)
    BY Data
  <1>7. Held' = Cut(object', g, 0, a) /\ Waiting' = Cut(object', g, a, w)
    BY DataNext
  <1>8. QED  BY <1>1, <1>4, <1>5, <1>6, <1>7

\* What the data of a place is.
LEMMA DataAmong ==
    ASSUME TypeOK, NEW f, NEW n, NEW a, NEW w, NEW l, Ring(f, n, a, w, l),
           NEW i \in Nat, NEW j \in 0 .. n
    PROVE  Among(Value \cup {NoValue}, object, f, i, j)
  <1>1. \A k \in i .. j - 1 : k \in 0 .. n - 1
    BY Bounds
  <1>2. \A k \in i .. j - 1 : f[k] \in Block
    BY <1>1, Bounds
  <1>3. QED  BY <1>2 DEF Among, TypeOK

LEMMA ChannelSteps ==
    Queue!Next <=>
        \/ \E v \in Value : Waiting' = Append(Waiting, v) /\ Held' = Held
        \/ Waiting # <<>> /\ Held' = Append(Held, Head(Waiting)) /\ Waiting' = Tail(Waiting)
        \/ \E k \in 1 .. Len(Held) :
              /\ Held' = SubSeq(Held, 1, k - 1)
              /\ Waiting' = SubSeq(Held, k, Len(Held)) \o Waiting
        \/ Held # <<>> /\ Held' = Tail(Held) /\ Waiting' = Waiting
        \/ Held = <<>> /\ Waiting' = <<>> /\ Held' = Held
  BY Zenon DEF Queue!Next, Queue!Publish, Queue!Take, Queue!PutBack, Queue!Release, Queue!Reset,
            Held, Waiting

LEMMA PublishStep ==
    ASSUME SingleProducerConsumerAssumption,
           TypeOK, NEW f, NEW n, NEW a, NEW w, NEW l, Ring(f, n, a, w, l), WriteUnlocked
    PROVE  Queue!Next
  <1> DEFINE V == Value \cup {NoValue}
  <1>1. Ring(f, n, a, w + 1, l)' /\ object' = object
    BY WriteUnlockedKeeps DEF WriteUnlocked, memory
  <1>2. a \in Nat /\ w \in Nat /\ a <= w /\ w + 1 \in 0 .. n /\ w + 1 <= l
    BY <1>1, Bounds DEF Ring, Pointers
  <1>3. object[f[w]] \in Value
    <2>1. w \in 0 .. l - 1
      BY <1>2, Bounds
    <2>2. QED  BY <2>1 DEF Ring, Written
  <1>4. Among(V, object, f, a, w) /\ w \in Nat
    <2>1. w \in 0 .. n
      BY <1>2, Bounds
    <2>2. QED  BY <1>2, <2>1, DataAmong
  <1>5. Cut(object, f, a, w + 1) = Append(Cut(object, f, a, w), object[f[w]])
    BY <1>2, <1>3, <1>4, CutAppend
  <1>6. Held = Cut(object, f, 0, a) /\ Waiting = Cut(object, f, a, w)
    BY Data
  <1>7. Held' = Cut(object, f, 0, a) /\ Waiting' = Cut(object, f, a, w + 1)
    BY <1>1, DataNext
  <1>8. Waiting' = Append(Waiting, object[f[w]]) /\ Held' = Held
    BY <1>5, <1>6, <1>7
  <1>9. QED  BY <1>3, <1>8, ChannelSteps

LEMMA TakeStep ==
    ASSUME SingleProducerConsumerAssumption,
           TypeOK, NEW f, NEW n, NEW a, NEW w, NEW l, Ring(f, n, a, w, l), ReadLockTest
    PROVE  Queue!Next \/ (Held' = Held /\ Waiting' = Waiting)
  <1> DEFINE V == Value \cup {NoValue}
  <1>1. object' = object /\ a < w
    BY ReadLockTestKeeps DEF ReadLockTest, memory
  <1>2. PICK b \in {a, a + 1} : Ring(f, n, b, w, l)'
    BY ReadLockTestKeeps
  <1>3. CASE b = a
    <2>1. Ring(f, n, a, w, l)' /\ \A i \in 0 .. w - 1 : object'[f[i]] = object[f[i]]
      BY <1>1, <1>2, <1>3
    <2>2. QED  BY <2>1, SameData
  <1>4. CASE b = a + 1
    <2>1. a \in Nat /\ w \in Nat /\ w \in 0 .. n /\ a \in 0 .. n /\ 0 \in Nat /\ 0 <= a
      BY <1>1, Bounds
    <2>2. Among(V, object, f, 0, a) /\ Among(V, object, f, a, w) /\ object[f[a]] \in V
      BY <2>1, DataAmong, Bounds DEF TypeOK
    <2>3. Cut(object, f, 0, a + 1) = Append(Cut(object, f, 0, a), object[f[a]])
      BY <2>1, <2>2, CutAppend
    <2>4. /\ Cut(object, f, a, w) # <<>> /\ Head(Cut(object, f, a, w)) = object[f[a]]
          /\ Tail(Cut(object, f, a, w)) = Cut(object, f, a + 1, w)
      BY <1>1, <2>1, <2>2, CutTail
    <2>5. Held = Cut(object, f, 0, a) /\ Waiting = Cut(object, f, a, w)
      BY Data
    <2>6. Held' = Cut(object, f, 0, a + 1) /\ Waiting' = Cut(object, f, a + 1, w)
      BY <1>1, <1>2, <1>4, DataNext
    <2>7. Waiting # <<>> /\ Held' = Append(Held, Head(Waiting)) /\ Waiting' = Tail(Waiting)
      BY <2>3, <2>4, <2>5, <2>6
    <2>8. QED  BY <2>7, ChannelSteps
  <1>5. QED  BY <1>2, <1>3, <1>4

LEMMA PutBackStep ==
    ASSUME SingleProducerConsumerAssumption,
           TypeOK, NEW f, NEW n, NEW a, NEW w, NEW l, Ring(f, n, a, w, l), CancelReadLock
    PROVE  Queue!Next
  <1> DEFINE V == Value \cup {NoValue}
  <1>1. object' = object
    BY DEF CancelReadLock, memory
  <1>2. PICK m \in 0 .. a - 1 : Ring(f, n, m, w, l)'
    BY CancelReadLockKeeps
  <1>3. /\ a \in Nat /\ w \in Nat /\ m \in Nat /\ 0 \in Nat /\ 0 <= m /\ m <= a /\ a <= w
        /\ a \in 0 .. n /\ w \in 0 .. n /\ m \in 0 .. n /\ 0 <= a
        /\ m - 0 + 1 = m + 1 /\ a - 0 = a /\ m - 0 = (m + 1) - 1 /\ m + 1 \in 1 .. a
    BY Bounds
  <1>4. BothAmong(V, object, f, 0, m, a) /\ BothAmong(V, object, f, m, a, w) /\ Among(V, object, f, 0, a)
    BY <1>3, DataAmong DEF BothAmong
  <1>5. /\ SubSeq(Cut(object, f, 0, a), 1, m - 0) = Cut(object, f, 0, m)
        /\ SubSeq(Cut(object, f, 0, a), m - 0 + 1, a - 0) = Cut(object, f, m, a)
    <2>1. PartsAre(object, f, 0, m, a)
      BY <1>3, <1>4, CutParts
    <2>2. QED  BY <2>1 DEF PartsAre
  <1>6. Cut(object, f, m, a) \o Cut(object, f, a, w) = Cut(object, f, m, w)
    <2>1. PartsAre(object, f, m, a, w)
      BY <1>3, <1>4, CutParts
    <2>2. QED  BY <2>1 DEF PartsAre
  <1>7. Held = Cut(object, f, 0, a) /\ Waiting = Cut(object, f, a, w)
    BY Data
  <1>8. Held' = Cut(object, f, 0, m) /\ Waiting' = Cut(object, f, m, w)
    BY <1>1, <1>2, DataNext
  <1>9. Len(Held) = a
    <2>1. IsCut(V, Cut(object, f, 0, a), object, f, 0, a)
      BY <1>3, <1>4, CutIs
    <2>2. QED  BY <1>3, <1>7, <2>1 DEF IsCut
  <1>10. /\ Held' = SubSeq(Held, 1, (m + 1) - 1)
         /\ Waiting' = SubSeq(Held, m + 1, Len(Held)) \o Waiting
    BY <1>3, <1>5, <1>6, <1>7, <1>8, <1>9
  <1>11. QED  BY <1>3, <1>9, <1>10, ChannelSteps

LEMMA ReleaseStep ==
    ASSUME SingleProducerConsumerAssumption,
           TypeOK, NEW f, NEW n, NEW a, NEW w, NEW l, Ring(f, n, a, w, l), ReadUnlocked
    PROVE  Queue!Next
  <1> DEFINE V == Value \cup {NoValue}
             g == Rotated(f, n)
  <1>1. object' = object
    BY DEF ReadUnlocked, memory
  <1>2. 0 < a /\ Ring(g, n, a - 1, w - 1, l - 1)' /\ \A i \in 0 .. n - 2 : g[i] = f[i + 1]
    BY ReadUnlockedKeeps
  <1> HIDE DEF g
  <1>3. /\ n \in Nat /\ a \in Nat /\ w \in Nat /\ a <= w /\ w < n /\ a - 1 \in Nat /\ w - 1 \in Nat
        /\ w - a \in Nat /\ a \in 0 .. n /\ 0 \in Nat /\ 1 \in Nat
        /\ 0 + (a - 1) = a - 1 /\ 1 + (a - 1) = a /\ (a - 1) + (w - a) = w - 1 /\ a + (w - a) = w
    BY <1>2, Bounds
  <1>4. Among(V, object, f, 0, a)
    BY <1>3, DataAmong
  <1>5. Cut(object, f, 0, a) # <<>> /\ Tail(Cut(object, f, 0, a)) = Cut(object, f, 0 + 1, a)
    BY <1>2, <1>3, <1>4, CutTail
  <1>6. Cut(object, g, 0, 0 + (a - 1)) = Cut(object, f, 1, 1 + (a - 1))
    <2>1. \A k \in 0 .. (a - 1) - 1 : 0 + k \in 0 .. n - 2 /\ (0 + k) + 1 = 1 + k
      BY <1>3
    <2>2. Matches(object, g, 0, object, f, 1, a - 1)
      BY <1>2, <2>1 DEF Matches
    <2>3. QED  BY <1>3, <2>2, CutSame
  <1>7. Cut(object, g, a - 1, (a - 1) + (w - a)) = Cut(object, f, a, a + (w - a))
    <2>1. \A k \in 0 .. (w - a) - 1 : (a - 1) + k \in 0 .. n - 2 /\ ((a - 1) + k) + 1 = a + k
      BY <1>2, <1>3
    <2>2. Matches(object, g, a - 1, object, f, a, w - a)
      BY <1>2, <2>1 DEF Matches
    <2>3. QED  BY <1>3, <2>2, CutSame
  <1>8. Held = Cut(object, f, 0, a) /\ Waiting = Cut(object, f, a, w)
    BY Data
  <1>9. Held' = Cut(object, g, 0, a - 1) /\ Waiting' = Cut(object, g, a - 1, w - 1)
    BY <1>1, <1>2, DataNext
  <1>10. Held # <<>> /\ Held' = Tail(Held) /\ Waiting' = Waiting
    BY <1>3, <1>5, <1>6, <1>7, <1>8, <1>9
  <1>11. QED  BY <1>10, ChannelSteps

LEMMA ResetStep ==
    ASSUME SingleProducerConsumerAssumption,
           TypeOK, NEW f, NEW n, NEW a, NEW w, NEW l, Ring(f, n, a, w, l), Clear
    PROVE  Queue!Next
  <1>1. a = 0
    BY ClearKeeps
  <1>2. PICK g : Ring(g, MinListSize, 0, 0, 0)'
    BY ClearKeeps
  <1>3. Held = Cut(object, f, 0, 0)
    BY <1>1, Data
  <1>4. Held' = Cut(object', g, 0, 0) /\ Waiting' = Cut(object', g, 0, 0)
    BY <1>2, DataNext
  <1>5. \A ob, h : Cut(ob, h, 0, 0) = <<>>
    BY DEF Cut
  <1>6. Held = <<>> /\ Held' = <<>> /\ Waiting' = <<>>
    BY <1>3, <1>4, <1>5
  <1>7. QED  BY <1>6, ChannelSteps

\* The steps in which nothing is published, taken, put back or released.
LEMMA QuietStep ==
    ASSUME SingleProducerConsumerAssumption,
           TypeOK, NEW f, NEW n, NEW a, NEW w, NEW l, Ring(f, n, a, w, l),
           \/ WriteLock \/ WriteLockTest \/ WriteLockGrow \/ WriteLockReturn
           \/ CancelWriteLock \/ WriteUnlock \/ ReadLock \/ ReadUnlock
    PROVE  Held' = Held /\ Waiting' = Waiting
  <1>1. \A i \in 0 .. w - 1 : i \in 0 .. l /\ i \in 0 .. l - 1 /\ f[i] \in blocks
    BY Bounds
  <1>2. CASE WriteLock
    <2>1. Ring(f, n, a, w, l)' /\ \A i \in 0 .. w - 1 : object'[f[i]] = object[f[i]]
      BY <1>2, WriteLockKeeps DEF WriteLock, memory
    <2>2. QED  BY <2>1, SameData
  <1>3. CASE WriteLockTest
    <2>1. Ring(f, n, a, w, l)' /\ \A i \in 0 .. w - 1 : object'[f[i]] = object[f[i]]
      BY <1>3, WriteLockTestKeeps DEF WriteLockTest, memory
    <2>2. QED  BY <2>1, SameData
  <1>4. CASE WriteLockGrow
    <2>1. PICK new \in Block \ blocks : Ring(Grown(f, n, l, new), n + 1, a, w, l)'
      BY <1>4, WriteLockGrowKeeps
    <2>2. \A b \in blocks : object'[b] = object[b]
      BY <1>4, WriteLockGrowKeeps
    <2>3. \A i \in 0 .. l : Grown(f, n, l, new)[i] = f[i]
      BY GrownAt, Bounds
    <2>4. \A i \in 0 .. w - 1 : object'[Grown(f, n, l, new)[i]] = object[f[i]]
      BY <1>1, <2>2, <2>3
    <2>5. QED  BY <2>1, <2>4, SameData
  <1>5. CASE WriteLockReturn
    <2>1. Ring(f, n, a, w, l + 1)' /\ \A i \in 0 .. w - 1 : object'[f[i]] = object[f[i]]
      BY <1>1, <1>5, WriteLockReturnKeeps
    <2>2. QED  BY <2>1, SameData
  <1>6. CASE CancelWriteLock
    <2>1. PICK m \in w .. l - 1 : Ring(f, n, a, w, m)'
      BY <1>6, CancelWriteLockKeeps
    <2>2. \A i \in 0 .. w - 1 : object'[f[i]] = object[f[i]]
      BY <1>6 DEF CancelWriteLock, memory
    <2>3. QED  BY <2>1, <2>2, SameData
  <1>7. CASE WriteUnlock
    <2>1. Ring(f, n, a, w, l)' /\ \A i \in 0 .. w - 1 : object'[f[i]] = object[f[i]]
      BY <1>7, WriteUnlockKeeps DEF WriteUnlock
    <2>2. QED  BY <2>1, SameData
  <1>8. CASE ReadLock
    <2>1. Ring(f, n, a, w, l)' /\ \A i \in 0 .. w - 1 : object'[f[i]] = object[f[i]]
      BY <1>8, ReadLockKeeps DEF ReadLock, memory
    <2>2. QED  BY <2>1, SameData
  <1>9. CASE ReadUnlock
    <2>1. Ring(f, n, a, w, l)' /\ \A i \in 0 .. w - 1 : object'[f[i]] = object[f[i]]
      BY <1>9, ReadUnlockKeeps DEF ReadUnlock
    <2>2. QED  BY <2>1, SameData
  <1>10. QED  BY <1>2, <1>3, <1>4, <1>5, <1>6, <1>7, <1>8, <1>9

LEMMA ChannelStep ==
    ASSUME SingleProducerConsumerAssumption, Sound, [Next]_vars
    PROVE  Queue!Next \/ (Held' = Held /\ Waiting' = Waiting)
  <1>1. TypeOK
    BY DEF Sound
  <1>2. PICK f, n, a, w, l : Ring(f, n, a, w, l)
    BY DEF Sound
  <1>3. CASE \/ WriteLock \/ WriteLockTest \/ WriteLockGrow \/ WriteLockReturn
             \/ CancelWriteLock \/ WriteUnlock \/ ReadLock \/ ReadUnlock
    BY <1>1, <1>2, <1>3, QuietStep
  <1>4. CASE WriteUnlocked
    BY <1>1, <1>2, <1>4, PublishStep
  <1>5. CASE ReadLockTest
    BY <1>1, <1>2, <1>5, TakeStep
  <1>6. CASE CancelReadLock
    BY <1>1, <1>2, <1>6, PutBackStep
  <1>7. CASE ReadUnlocked
    BY <1>1, <1>2, <1>7, ReleaseStep
  <1>8. CASE Clear
    BY <1>1, <1>2, <1>8, ResetStep
  <1>9. CASE UNCHANGED vars
    <2>1. Ring(f, n, a, w, l)'
      BY <1>2, <1>9
         DEF Ring, Pointers, Assured, Written, Flags, vars, memory, reads, writes
    <2>2. \A i \in 0 .. w - 1 : object'[f[i]] = object[f[i]]
      BY <1>9 DEF vars, memory
    <2>3. QED  BY <1>2, <2>1, <2>2, SameData
  <1>10. QED  BY <1>3, <1>4, <1>5, <1>6, <1>7, <1>8, <1>9 DEF Next, Producer, Consumer

LEMMA ChannelInit == SingleProducerConsumerAssumption /\ Init => Queue!Init
  <1> SUFFICES ASSUME SingleProducerConsumerAssumption, Init
               PROVE  Queue!Init
    OBVIOUS
  <1>1. Sound
    BY SoundInit
  <1>2. PICK f, n, a, w, l : Ring(f, n, a, w, l)
    BY <1>1 DEF Sound
  <1>3. a = 0 /\ w = 0
    <2>1. f[a] = f[0] /\ f[w] = f[0]
      BY <1>2 DEF Init, Ring, Pointers
    <2>2. a \in 0 .. n - 1 /\ w \in 0 .. n - 1 /\ 0 \in 0 .. n - 1
      BY <1>1, <1>2, Bounds DEF Sound
    <2>3. QED  BY <1>2, <2>1, <2>2 DEF Ring, IsRing
  <1>4. Held = <<>> /\ Waiting = <<>>
    <2>1. Held = Cut(object, f, 0, 0) /\ Waiting = Cut(object, f, 0, 0)
      BY <1>2, <1>3, Data
    <2>2. Cut(object, f, 0, 0) = <<>>
      BY DEF Cut
    <2>3. QED  BY <2>1, <2>2
  <1>5. QED  BY <1>4 DEF Queue!Init, Held, Waiting

\* Whatever the two threads interleave, what WriteUnlock publishes is what
\* ReadLock returns, in that order and once: the ring implements a channel.
THEOREM ImplementsChannelHolds == SingleProducerConsumerAssumption => (Spec => Queue!Spec)
  <1> SUFFICES ASSUME SingleProducerConsumerAssumption
               PROVE  Spec => Queue!Spec
    OBVIOUS
  <1>1. Init => Queue!Init
    BY ChannelInit
  <1>2. Sound /\ [Next]_vars => [Queue!Next]_(Queue!vars)
    <2>1. ASSUME Held' = Held, Waiting' = Waiting
          PROVE  UNCHANGED Queue!vars
      BY <2>1 DEF Queue!vars, Held, Waiting
    <2>2. QED  BY <2>1, ChannelStep
  <1>3. QED  BY <1>1, <1>2, SoundHolds, PTL DEF Spec, Queue!Spec

\* The action property the runs check is what every step keeps.
THEOREM ImplementsChannelStepHolds == SingleProducerConsumerAssumption => (Spec => [][ImplementsChannel]_vars)
  <1> SUFFICES ASSUME SingleProducerConsumerAssumption
               PROVE  Spec => [][ImplementsChannel]_vars
    OBVIOUS
  <1>1. Sound /\ [Next]_vars => [ImplementsChannel]_vars
    <2>1. ASSUME Queue!Next \/ (Held' = Held /\ Waiting' = Waiting)
          PROVE  ImplementsChannel
      BY Zenon, <2>1 DEF ImplementsChannel, Held, Waiting
    <2>2. QED  BY <2>1, ChannelStep
  <1>2. QED  BY <1>1, SoundHolds, PTL DEF Spec

\* The buffer is circular: unless data that is not read may be cleared, it only
\* grows when every block is in use but the one WriteLock is about to return.
THEOREM GrowsWhenFullHolds ==
    SingleProducerConsumerAssumption /\ ~ClearUnread => (Spec => [][GrowsWhenFull]_vars)
  <1> SUFFICES ASSUME SingleProducerConsumerAssumption, ~ClearUnread
               PROVE  Spec => [][GrowsWhenFull]_vars
    OBVIOUS
  <1>1. ASSUME Sound, [Next]_vars
        PROVE  GrowsWhenFull
    <2>1. SUFFICES ASSUME writing # "grow", writing' = "grow"
                   PROVE  Len(Taken) + Len(Unread) + Len(Locked) + 1 = Cardinality(blocks)
      BY DEF GrowsWhenFull
    <2>2. TypeOK
      BY <1>1 DEF Sound
    <2>3. PICK f, n, a, w, l : Ring(f, n, a, w, l)
      BY <1>1 DEF Sound
    <2>4. WriteLock \/ WriteLockTest
      BY <1>1, <2>1
         DEF Next, Producer, Consumer, WriteLockGrow, WriteLockReturn, CancelWriteLock, WriteUnlock,
             WriteUnlocked, ReadLock, ReadLockTest, CancelReadLock, ReadUnlock, ReadUnlocked, Clear,
             vars, writes
    <2>5. l + 1 = n
      <3>1. l + 1 < n \/ l + 1 = n
        BY <2>2, <2>3, Bounds
      <3>2. SUFFICES ASSUME l + 1 < n
                     PROVE  FALSE
        BY <3>1
      <3>3. next[writeAheadPointer] = f[l + 1] /\ f[l + 1] # readPointer
        BY <2>2, <2>3, <3>2, NextBlock
      <3>4. WriteLockTest /\ readyToRead[f[l + 1]] /\ writing = "test"
        BY <2>1, <2>4, <3>3 DEF WriteLock, WriteLockTest
      <3>5. l + 1 \in 0 .. n - 1 /\ ~(l + 1 < w) /\ l + 1 # w
        BY <2>2, <2>3, <3>2, Bounds
      <3>6. QED  BY <2>3, <3>4, <3>5 DEF Ring, Flags
    <2>6. Cardinality(blocks) = n
      BY <2>3, RingSize DEF Ring
    <2>7. Len(Taken) = a /\ Len(Unread) = w - a /\ Len(Locked) = l - w
      BY <2>2, <2>3, Lengths
    <2>8. QED  BY <2>2, <2>3, <2>5, <2>6, <2>7, Bounds
  <1>2. Sound /\ [Next]_vars => [GrowsWhenFull]_vars
    BY <1>1
  <1>3. QED  BY <1>2, SoundHolds, PTL DEF Spec
=============================================================================
