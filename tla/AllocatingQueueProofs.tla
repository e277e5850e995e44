------------------------ MODULE AllocatingQueueProofs ------------------------
(***************************************************************************)
(* A structure of a ThreadsafeAllocatingQueue has one owner, for any       *)
(* threads and structures, as long as Clear is called while no other       *)
(* thread is in a method, and a consumer that takes what it has seen is    *)
(* the only one.                                                           *)
(***************************************************************************)
EXTENDS ThreadsafeAllocatingQueue, FiniteSetTheorems, TLAPS

\* Clear is called alone or never.
QuietClear == ClearsAlone \/ MayClear = {}

\* Nobody takes anything between the two calls of a consumer that seeks.
LoneSeeker == \A t \in Seekers, u \in Consumer : t = u

-----------------------------------------------------------------------------
(* Sequences.                                                              *)

\* The structure s is in the queue q.
Among(q, s) == \E k \in 1 .. Len(q) : q[k] = s

\* No structure is in it twice.
Once(q) == \A j, k \in 1 .. Len(q) : q[j] = q[k] => j = k

\* One more at the end ...
LEMMA PushedIs ==
    ASSUME NEW q \in Seq(Structure), NEW s \in Structure, NEW r, r = Queue!InsertedAt(q, s, Len(q))
    PROVE  /\ r \in Seq(Structure) /\ Len(r) = Len(q) + 1
           /\ \A k \in 1 .. Len(q) : r[k] = q[k]
           /\ r[Len(q) + 1] = s
           /\ \A x : Among(r, x) <=> x = s \/ Among(q, x)
           /\ Once(q) /\ ~Among(q, s) => Once(r)
  <1>1. Len(q) \in Nat
    OBVIOUS
  <1>2. r = [k \in 1 .. Len(q) + 1 |->
                IF k <= Len(q) THEN q[k] ELSE IF k = Len(q) + 1 THEN s ELSE q[k - 1]]
    BY DEF Queue!InsertedAt
  <1>3. \A k \in 1 .. Len(q) + 1 : r[k] = IF k <= Len(q) THEN q[k] ELSE s
    BY <1>1, <1>2
  <1>4. r \in Seq(Structure) /\ Len(r) = Len(q) + 1
    <2>1. r \in [1 .. Len(q) + 1 -> Structure]
      BY <1>1, <1>2, <1>3
    <2>2. QED  BY <1>1, <2>1
  <1>5. (\A k \in 1 .. Len(q) : r[k] = q[k]) /\ r[Len(q) + 1] = s
    BY <1>1, <1>3
  <1>6. \A x : Among(r, x) <=> x = s \/ Among(q, x)
    <2>1. ASSUME NEW x, Among(r, x)
          PROVE  x = s \/ Among(q, x)
      BY <1>1, <1>3, <1>4, <2>1 DEF Among
    <2>2. ASSUME NEW x, x = s \/ Among(q, x)
          PROVE  Among(r, x)
      <3>1. CASE x = s
        <4>1. Len(q) + 1 \in 1 .. Len(r)
          BY <1>1, <1>4
        <4>2. QED  BY <1>5, <3>1, <4>1 DEF Among
      <3>2. CASE Among(q, x)
        <4>1. PICK k \in 1 .. Len(q) : q[k] = x
          BY <3>2 DEF Among
        <4>2. k \in 1 .. Len(r) /\ r[k] = x
          BY <1>1, <1>4, <1>5, <4>1
        <4>3. QED  BY <4>2 DEF Among
      <3>3. QED  BY <2>2, <3>1, <3>2
    <2>3. QED  BY <2>1, <2>2
  <1>7. Once(q) /\ ~Among(q, s) => Once(r)
    BY <1>1, <1>3, <1>4 DEF Once, Among
  <1>8. QED  BY <1>4, <1>5, <1>6, <1>7

\* ... and one less anywhere.
LEMMA RemovedIs ==
    ASSUME NEW q \in Seq(Structure), NEW n \in Nat, n < Len(q), NEW r, r = Queue!RemovedAt(q, n)
    PROVE  /\ r \in Seq(Structure) /\ Len(r) = Len(q) - 1
           /\ \A k \in 1 .. Len(r) : r[k] = q[IF k <= n THEN k ELSE k + 1]
           /\ n + 1 \in 1 .. Len(q) /\ q[n + 1] \in Structure
           /\ Once(q) => /\ Once(r)
                         /\ \A x : Among(r, x) <=> x # q[n + 1] /\ Among(q, x)
  <1>1. Len(q) \in Nat /\ n + 1 \in 1 .. Len(q)
    OBVIOUS
  <1>2. r = [k \in 1 .. Len(q) - 1 |-> IF k <= n THEN q[k] ELSE q[k + 1]]
    BY DEF Queue!RemovedAt
  <1>3. r \in Seq(Structure) /\ Len(r) = Len(q) - 1
    <2>1. r \in [1 .. Len(q) - 1 -> Structure]
      BY <1>1, <1>2
    <2>2. QED  BY <1>1, <2>1
  <1>4. \A k \in 1 .. Len(r) : r[k] = q[IF k <= n THEN k ELSE k + 1]
    BY <1>1, <1>2, <1>3
  <1>5. ASSUME Once(q)
        PROVE  Once(r)
    <2>1. SUFFICES ASSUME NEW j \in 1 .. Len(r), NEW k \in 1 .. Len(r), r[j] = r[k]
                   PROVE  j = k
      BY DEF Once
    <2>2. /\ (IF j <= n THEN j ELSE j + 1) \in 1 .. Len(q)
          /\ (IF k <= n THEN k ELSE k + 1) \in 1 .. Len(q)
      BY <1>1, <1>3, <2>1
    <2>3. (IF j <= n THEN j ELSE j + 1) = (IF k <= n THEN k ELSE k + 1)
      BY <1>4, <1>5, <2>1, <2>2 DEF Once
    <2>4. QED  BY <1>1, <2>1, <2>3
  <1>6. ASSUME Once(q), NEW x
        PROVE  Among(r, x) <=> x # q[n + 1] /\ Among(q, x)
    <2>1. ASSUME Among(r, x)
          PROVE  x # q[n + 1] /\ Among(q, x)
      <3>1. PICK k \in 1 .. Len(r) : r[k] = x
        BY <2>1 DEF Among
      <3>2. PICK j \in 1 .. Len(q) : j = IF k <= n THEN k ELSE k + 1
        BY <1>1, <1>3, <3>1
      <3>3. q[j] = x /\ j # n + 1
        BY <1>1, <1>4, <3>1, <3>2
      <3>4. QED  BY <1>1, <1>6, <3>2, <3>3 DEF Once, Among
    <2>2. ASSUME x # q[n + 1], Among(q, x)
          PROVE  Among(r, x)
      <3>1. PICK j \in 1 .. Len(q) : q[j] = x
        BY <2>2 DEF Among
      <3>2. j # n + 1
        BY <2>2, <3>1
      <3>3. PICK k \in 1 .. Len(r) : j = IF k <= n THEN k ELSE k + 1
        <4>1. CASE j <= n
          <5>1. j \in 1 .. Len(r)
            BY <1>1, <1>3, <3>1, <4>1
          <5>2. QED  BY <4>1, <5>1
        <4>2. CASE ~(j <= n)
          <5>1. j - 1 \in 1 .. Len(r) /\ ~(j - 1 <= n) /\ j = (j - 1) + 1
            BY <1>1, <1>3, <3>1, <3>2, <4>2
          <5>2. QED  BY <5>1
        <4>3. QED  BY <4>1, <4>2
      <3>4. QED  BY <1>4, <3>1, <3>3 DEF Among
    <2>3. QED  BY <2>1, <2>2
  <1>7. q[n + 1] \in Structure
    BY <1>1
  <1>8. QED  BY <1>1, <1>3, <1>4, <1>5, <1>6, <1>7

-----------------------------------------------------------------------------
(* Where the structures are.                                               *)

TypeOK ==
    /\ queue \in Seq(Structure) /\ allocated \subseteq Structure
    /\ holds \in [Thread -> SUBSET Structure]
    /\ DOMAIN pc = Thread /\ DOMAIN seen = Seekers
    /\ \A t \in Thread : pc[t] = "looked" => t \in Consumer
    /\ \A t \in Thread : pc[t] = "seen" => t \in Seekers

HeldBy(h, s) == \E t \in Thread : s \in h[t]

\* Each is with one thread or once in the queue, if it is allocated.
Placed(q, h, a) ==
    /\ Once(q)
    /\ \A t, u \in Thread : \A s \in h[t] : s \in h[u] => t = u
    /\ \A s \in Structure : ~(HeldBy(h, s) /\ Among(q, s))
    /\ \A s \in Structure : s \in a <=> HeldBy(h, s) \/ Among(q, s)

\* A seeker takes what is still where it saw it.
Sighted ==
    \A t \in Seekers : pc[t] = "seen" =>
        \E k \in 1 .. Len(queue) : seen[t] = <<k - 1, queue[k]>>

\* While a thread is in Clear nobody else has anything or does anything, and
\* it leaves nothing in the queue.
Quiet ==
    \A t \in Thread : Clearing(t) =>
        /\ ClearsAlone
        /\ \A u \in Thread : holds[u] = {} /\ (u # t => pc[u] = "idle")
        /\ pc[t] = "unlocked" => queue = <<>>

NoneClears == \A t \in Thread : ~Clearing(t)

Owned == TypeOK /\ Quiet /\ (NoneClears => Placed(queue, holds, allocated) /\ Sighted)

-----------------------------------------------------------------------------
(* A structure changes hands.                                              *)

Given(h, t, s) == [h EXCEPT ![t] = @ \cup {s}]
Taken(h, t, s) == [h EXCEPT ![t] = @ \ {s}]

LEMMA GivenIs ==
    ASSUME NEW h \in [Thread -> SUBSET Structure], NEW t \in Thread, NEW s \in Structure
    PROVE  /\ Given(h, t, s) \in [Thread -> SUBSET Structure]
           /\ \A u \in Thread : Given(h, t, s)[u] = IF u = t THEN h[t] \cup {s} ELSE h[u]
           /\ \A x : HeldBy(Given(h, t, s), x) <=> x = s \/ HeldBy(h, x)
  <1>1. \A u \in Thread : Given(h, t, s)[u] = IF u = t THEN h[t] \cup {s} ELSE h[u]
    BY DEF Given
  <1>2. Given(h, t, s) \in [Thread -> SUBSET Structure]
    BY DEF Given
  <1>3. \A x : HeldBy(Given(h, t, s), x) <=> x = s \/ HeldBy(h, x)
    BY <1>1 DEF HeldBy
  <1>4. QED  BY <1>1, <1>2, <1>3

LEMMA TakenIs ==
    ASSUME NEW h \in [Thread -> SUBSET Structure], NEW t \in Thread, NEW s \in h[t],
           \A u \in Thread : s \in h[u] => t = u
    PROVE  /\ Taken(h, t, s) \in [Thread -> SUBSET Structure]
           /\ \A u \in Thread : Taken(h, t, s)[u] = IF u = t THEN h[t] \ {s} ELSE h[u]
           /\ \A x : HeldBy(Taken(h, t, s), x) <=> x # s /\ HeldBy(h, x)
  <1>1. \A u \in Thread : Taken(h, t, s)[u] = IF u = t THEN h[t] \ {s} ELSE h[u]
    BY DEF Taken
  <1>2. Taken(h, t, s) \in [Thread -> SUBSET Structure]
    BY DEF Taken
  <1>3. \A x : HeldBy(Taken(h, t, s), x) <=> x # s /\ HeldBy(h, x)
    BY <1>1 DEF HeldBy
  <1>4. QED  BY <1>1, <1>2, <1>3

\* From the pool to a thread ...
LEMMA LeavesPool ==
    ASSUME NEW q \in Seq(Structure), NEW h \in [Thread -> SUBSET Structure], NEW a,
           Placed(q, h, a), NEW t \in Thread, NEW s \in Structure, s \notin a,
           NEW g, g = Given(h, t, s)
    PROVE  g \in [Thread -> SUBSET Structure] /\ Placed(q, g, a \cup {s})
  <1>1. /\ Given(h, t, s) \in [Thread -> SUBSET Structure]
        /\ \A u \in Thread : Given(h, t, s)[u] = IF u = t THEN h[t] \cup {s} ELSE h[u]
        /\ \A x : HeldBy(Given(h, t, s), x) <=> x = s \/ HeldBy(h, x)
    BY GivenIs
  <1>2. ~HeldBy(h, s) /\ ~Among(q, s)
    BY DEF Placed
  <1>3. \A u \in Thread : s \notin h[u]
    BY <1>2 DEF HeldBy
  <1>4. \A u, v \in Thread : \A x \in g[u] : x \in g[v] => u = v
    BY <1>1, <1>3 DEF Placed
  <1>5. \A x \in Structure : ~(HeldBy(g, x) /\ Among(q, x))
    BY <1>1, <1>2 DEF Placed
  <1>6. \A x \in Structure : x \in a \cup {s} <=> HeldBy(g, x) \/ Among(q, x)
    BY <1>1 DEF Placed
  <1>7. QED  BY <1>1, <1>4, <1>5, <1>6 DEF Placed

\* ... and back.
LEMMA EntersPool ==
    ASSUME NEW q \in Seq(Structure), NEW h \in [Thread -> SUBSET Structure], NEW a,
           Placed(q, h, a), NEW t \in Thread, NEW s \in h[t],
           NEW g, g = Taken(h, t, s)
    PROVE  g \in [Thread -> SUBSET Structure] /\ Placed(q, g, a \ {s})
  <1>1. \A u \in Thread : s \in h[u] => t = u
    BY DEF Placed
  <1>2. /\ Taken(h, t, s) \in [Thread -> SUBSET Structure]
        /\ \A u \in Thread : Taken(h, t, s)[u] = IF u = t THEN h[t] \ {s} ELSE h[u]
        /\ \A x : HeldBy(Taken(h, t, s), x) <=> x # s /\ HeldBy(h, x)
    BY <1>1, TakenIs
  <1>3. HeldBy(h, s) /\ s \in Structure
    BY DEF HeldBy
  <1>4. ~Among(q, s)
    BY <1>3 DEF Placed
  <1>5. \A u, v \in Thread : \A x \in g[u] : x \in g[v] => u = v
    BY <1>2 DEF Placed
  <1>6. \A x \in Structure : ~(HeldBy(g, x) /\ Among(q, x))
    BY <1>2 DEF Placed
  <1>7. \A x \in Structure : x \in a \ {s} <=> HeldBy(g, x) \/ Among(q, x)
    BY <1>2, <1>4 DEF Placed
  <1>8. QED  BY <1>2, <1>5, <1>6, <1>7 DEF Placed

\* From a thread to the queue ...
LEMMA EntersQueue ==
    ASSUME NEW q \in Seq(Structure), NEW h \in [Thread -> SUBSET Structure], NEW a,
           Placed(q, h, a), NEW t \in Thread, NEW s \in h[t],
           NEW g, g = Taken(h, t, s),
           NEW r, r = Queue!InsertedAt(q, s, Len(q))
    PROVE  g \in [Thread -> SUBSET Structure] /\ Placed(r, g, a)
  <1>1. \A u \in Thread : s \in h[u] => t = u
    BY DEF Placed
  <1>2. /\ Taken(h, t, s) \in [Thread -> SUBSET Structure]
        /\ \A u \in Thread : Taken(h, t, s)[u] = IF u = t THEN h[t] \ {s} ELSE h[u]
        /\ \A x : HeldBy(Taken(h, t, s), x) <=> x # s /\ HeldBy(h, x)
    BY <1>1, TakenIs
  <1>3. HeldBy(h, s) /\ s \in Structure
    BY DEF HeldBy
  <1>4. ~Among(q, s) /\ Once(q)
    BY <1>3 DEF Placed
  <1>5. Once(r) /\ \A x : Among(r, x) <=> x = s \/ Among(q, x)
    BY <1>3, <1>4, PushedIs
  <1>6. \A u, v \in Thread : \A x \in g[u] : x \in g[v] => u = v
    BY <1>2 DEF Placed
  <1>7. \A x \in Structure : ~(HeldBy(g, x) /\ Among(r, x))
    BY <1>2, <1>5 DEF Placed
  <1>8. \A x \in Structure : x \in a <=> HeldBy(g, x) \/ Among(r, x)
    BY <1>2, <1>3, <1>5 DEF Placed
  <1>9. QED  BY <1>2, <1>5, <1>6, <1>7, <1>8 DEF Placed

\* ... and to another.
LEMMA LeavesQueue ==
    ASSUME NEW q \in Seq(Structure), NEW h \in [Thread -> SUBSET Structure], NEW a,
           Placed(q, h, a), NEW t \in Thread, NEW n \in Nat, n < Len(q),
           NEW g, g = Given(h, t, q[n + 1]),
           NEW r, r = Queue!RemovedAt(q, n)
    PROVE  g \in [Thread -> SUBSET Structure] /\ Placed(r, g, a)
  <1> DEFINE s == q[n + 1]
  <1>1. n + 1 \in 1 .. Len(q) /\ s \in Structure
    BY RemovedIs
  <1>2. Once(q) /\ Among(q, s)
    BY <1>1 DEF Among, Placed
  <1>3. Once(r) /\ \A x : Among(r, x) <=> x # s /\ Among(q, x)
    BY <1>2, RemovedIs
  <1> HIDE DEF s
  <1>4. g = Given(h, t, s)
    BY DEF s
  <1>5. /\ Given(h, t, s) \in [Thread -> SUBSET Structure]
        /\ \A u \in Thread : Given(h, t, s)[u] = IF u = t THEN h[t] \cup {s} ELSE h[u]
        /\ \A x : HeldBy(Given(h, t, s), x) <=> x = s \/ HeldBy(h, x)
    BY <1>1, GivenIs
  <1>6. ~HeldBy(h, s)
    BY <1>1, <1>2 DEF Placed
  <1>7. \A u \in Thread : s \notin h[u]
    BY <1>6 DEF HeldBy
  <1>8. \A u, v \in Thread : \A x \in g[u] : x \in g[v] => u = v
    BY <1>4, <1>5, <1>7 DEF Placed
  <1>9. \A x \in Structure : ~(HeldBy(g, x) /\ Among(r, x))
    BY <1>3, <1>4, <1>5, <1>6 DEF Placed
  <1>10. \A x \in Structure : x \in a <=> HeldBy(g, x) \/ Among(r, x)
    BY <1>2, <1>3, <1>4, <1>5 DEF Placed
  <1>11. QED  BY <1>3, <1>4, <1>5, <1>8, <1>9, <1>10 DEF Placed

-----------------------------------------------------------------------------
(* Every step keeps them there.                                            *)

\* A new queue, with nothing allocated, satisfies the invariant.
THEOREM OwnedInit == ThreadsafeAllocatingQueueAssumption /\ Init => Owned
  <1> SUFFICES ASSUME ThreadsafeAllocatingQueueAssumption, Init
               PROVE  Owned
    OBVIOUS
  <1>1. \A t \in Thread : pc[t] = "idle" /\ holds[t] = {}
    BY DEF Init
  <1>2. NoneClears
    BY <1>1 DEF NoneClears, Clearing
  <1>3. TypeOK
    BY <1>1 DEF Init, TypeOK
  <1>4. Quiet
    BY <1>2 DEF NoneClears, Quiet
  <1>5. (\A x : ~HeldBy(holds, x)) /\ (\A x : ~Among(queue, x)) /\ Once(queue)
    BY <1>1 DEF Init, HeldBy, Among, Once
  <1>6. Placed(queue, holds, allocated)
    BY <1>1, <1>5 DEF Init, Placed
  <1>7. Sighted
    BY <1>1 DEF Sighted, ThreadsafeAllocatingQueueAssumption, Thread
  <1>8. QED  BY <1>3, <1>4, <1>6, <1>7 DEF Owned

\* Who calls a method does so while nobody is in Clear.
LEMMA CallsQuietly ==
    ASSUME Owned, NEW t \in Thread, Calls(t)
    PROVE  NoneClears
  <1>1. CASE ClearsAlone
    BY <1>1 DEF Calls, NoneClears
  <1>2. CASE ~ClearsAlone
    BY <1>2 DEF Owned, Quiet, NoneClears
  <1>3. QED  BY <1>1, <1>2

\* A thread that is in a method of its own is not in Clear, and nobody else is.
LEMMA InMethodQuietly ==
    ASSUME Owned, NEW t \in Thread, pc[t] \in {"looked", "seen"}
    PROVE  NoneClears
  <1>1. SUFFICES ASSUME NEW u \in Thread, Clearing(u)
                 PROVE  FALSE
    BY DEF NoneClears
  <1>2. u # t
    BY <1>1 DEF Clearing
  <1>3. pc[t] = "idle"
    BY <1>1, <1>2 DEF Owned, Quiet
  <1>4. QED  BY <1>3

\* What a step outside Clear has to show.
LEMMA OwnedOutside ==
    ASSUME NoneClears, TypeOK', Placed(queue, holds, allocated)', Sighted',
           NEW t \in Thread, pc'[t] \in {"idle", "looked", "seen"},
           \A u \in Thread : u # t => pc'[u] = pc[u]
    PROVE  Owned'
  <1>1. NoneClears'
    <2>1. SUFFICES ASSUME NEW u \in Thread
                   PROVE  ~Clearing(u)'
      BY DEF NoneClears
    <2>2. CASE u = t
      BY <2>2 DEF Clearing
    <2>3. CASE u # t
      BY <2>3 DEF NoneClears, Clearing
    <2>4. QED  BY <2>2, <2>3
  <1>2. Quiet'
    BY <1>1 DEF NoneClears, Quiet
  <1>3. QED  BY <1>2 DEF Owned

LEMMA OwnedAllocate ==
    ASSUME Owned, NEW t \in Thread, NEW s \in Structure, Allocate(t, s)
    PROVE  Owned'
  <1>1. NoneClears
    BY CallsQuietly DEF Allocate
  <1>2. TypeOK /\ Placed(queue, holds, allocated) /\ Sighted
    BY <1>1 DEF Owned
  <1>3. /\ holds' = Given(holds, t, s) /\ s \notin allocated /\ allocated' = allocated \cup {s}
        /\ pc[t] = "idle" /\ UNCHANGED <<queue, pc, seen>>
    BY DEF Allocate, Calls, Has, Given, Pool!Allocate
  <1>4. holds' \in [Thread -> SUBSET Structure] /\ Placed(queue, holds', allocated')
    BY <1>2, <1>3, LeavesPool DEF TypeOK
  <1>5. TypeOK'
    BY <1>2, <1>3, <1>4 DEF TypeOK
  <1>6. Sighted' /\ Placed(queue, holds, allocated)'
    BY <1>2, <1>3, <1>4 DEF Sighted
  <1>7. QED  BY <1>1, <1>3, <1>5, <1>6, OwnedOutside

LEMMA OwnedDeallocate ==
    ASSUME Owned, NEW t \in Thread, NEW s \in Structure, Deallocate(t, s)
    PROVE  Owned'
  <1>1. NoneClears
    BY CallsQuietly DEF Deallocate
  <1>2. TypeOK /\ Placed(queue, holds, allocated) /\ Sighted
    BY <1>1 DEF Owned
  <1>3. /\ holds' = Taken(holds, t, s) /\ s \in holds[t] /\ allocated' = allocated \ {s}
        /\ pc[t] = "idle" /\ UNCHANGED <<queue, pc, seen>>
    BY DEF Deallocate, Calls, Loses, Taken, Pool!Release
  <1>4. holds' \in [Thread -> SUBSET Structure] /\ Placed(queue, holds', allocated')
    BY <1>2, <1>3, EntersPool DEF TypeOK
  <1>5. TypeOK'
    BY <1>2, <1>3, <1>4 DEF TypeOK
  <1>6. Sighted' /\ Placed(queue, holds, allocated)'
    BY <1>2, <1>3, <1>4 DEF Sighted
  <1>7. QED  BY <1>1, <1>3, <1>5, <1>6, OwnedOutside

\* A structure that is pushed moves none that was seen.
LEMMA OwnedPush ==
    ASSUME Owned, NEW t \in Thread, NEW s \in Structure, Push(t, s)
    PROVE  Owned'
  <1>1. NoneClears
    BY CallsQuietly DEF Push
  <1>2. TypeOK /\ Placed(queue, holds, allocated) /\ Sighted
    BY <1>1 DEF Owned
  <1>3. /\ holds' = Taken(holds, t, s) /\ s \in holds[t]
        /\ queue' = Queue!InsertedAt(queue, s, Len(queue))
        /\ pc[t] = "idle" /\ UNCHANGED <<allocated, pc, seen>>
    BY DEF Push, Calls, Loses, Taken, Queue!Push
  <1>4. holds' \in [Thread -> SUBSET Structure] /\ Placed(queue', holds', allocated')
    BY <1>2, <1>3, EntersQueue DEF TypeOK
  <1>5. queue' \in Seq(Structure) /\ Len(queue') = Len(queue) + 1
        /\ \A k \in 1 .. Len(queue) : queue'[k] = queue[k]
    <2>1. queue \in Seq(Structure)
      BY <1>2 DEF TypeOK
    <2>2. \A r : r = Queue!InsertedAt(queue, s, Len(queue)) =>
            /\ r \in Seq(Structure) /\ Len(r) = Len(queue) + 1
            /\ \A k \in 1 .. Len(queue) : r[k] = queue[k]
      BY <2>1, PushedIs
    <2>3. QED  BY <1>3, <2>2
  <1>6. TypeOK'
    BY <1>2, <1>3, <1>4, <1>5 DEF TypeOK
  <1>7. Sighted'
    <2>1. SUFFICES ASSUME NEW u \in Seekers, pc[u] = "seen"
                   PROVE  \E k \in 1 .. Len(queue') : seen[u] = <<k - 1, queue'[k]>>
      BY <1>3 DEF Sighted
    <2>2. PICK k \in 1 .. Len(queue) : seen[u] = <<k - 1, queue[k]>>
      BY <1>2, <2>1 DEF Sighted
    <2>3. k \in 1 .. Len(queue') /\ queue'[k] = queue[k]
      BY <1>2, <1>5, <2>2 DEF TypeOK
    <2>4. QED  BY <2>2, <2>3
  <1>8. QED  BY <1>1, <1>3, <1>4, <1>6, <1>7, OwnedOutside

-----------------------------------------------------------------------------
\* The taking of the structure at a position.
LEMMA TakenAt ==
    ASSUME TypeOK, Placed(queue, holds, allocated), NEW t \in Thread,
           NEW n \in Nat, n < Len(queue), queue' = Queue!RemovedAt(queue, n),
           holds' = Given(holds, t, queue[n + 1]), UNCHANGED allocated
    PROVE  /\ queue' \in Seq(Structure) /\ holds' \in [Thread -> SUBSET Structure]
           /\ Placed(queue, holds, allocated)'
  <1>1. queue' \in Seq(Structure)
    BY RemovedIs DEF TypeOK
  <1>2. holds' \in [Thread -> SUBSET Structure] /\ Placed(queue', holds', allocated)
    BY LeavesQueue DEF TypeOK
  <1>3. QED  BY <1>1, <1>2

\* If the consumer that takes is not one that has seen, none has.
LEMMA NoneHasSeen ==
    ASSUME LoneSeeker, NEW t \in Consumer, pc'[t] # "seen"
    PROVE  Sighted'
  BY DEF LoneSeeker, Sighted

LEMMA TakeIs ==
    ASSUME TypeOK, Placed(queue, holds, allocated), NEW t \in Thread, Take(t), UNCHANGED allocated
    PROVE  /\ queue' \in Seq(Structure) /\ holds' \in [Thread -> SUBSET Structure]
           /\ Placed(queue, holds, allocated)'
  <1>1. /\ 0 < Len(queue) /\ queue' = Queue!RemovedAt(queue, 0)
        /\ holds' = [holds EXCEPT ![t] = @ \cup {Head(queue)}]
    BY DEF Take, Has, Queue!Pop, Queue!RemoveAtIndex
  <1>2. Head(queue) = queue[0 + 1]
    BY <1>1 DEF TypeOK
  <1>3. holds' = Given(holds, t, queue[0 + 1])
    BY <1>1, <1>2 DEF Given
  <1>4. QED  BY <1>1, <1>3, TakenAt

LEMMA OwnedPop ==
    ASSUME LoneSeeker, Owned, NEW t \in Thread, Pop(t)
    PROVE  Owned'
  <1>1. NoneClears
    BY CallsQuietly DEF Pop
  <1>2. TypeOK /\ Placed(queue, holds, allocated)
    BY <1>1 DEF Owned
  <1>3. /\ t \in Consumer /\ Take(t) /\ pc[t] = "idle" /\ UNCHANGED <<allocated, pc, seen>>
    BY DEF Pop, Calls
  <1>4. /\ queue' \in Seq(Structure) /\ holds' \in [Thread -> SUBSET Structure]
        /\ Placed(queue, holds, allocated)'
    BY <1>2, <1>3, TakeIs
  <1>5. TypeOK'
    BY <1>2, <1>3, <1>4 DEF TypeOK
  <1>6. Sighted'
    BY <1>3, NoneHasSeen
  <1>7. QED  BY <1>1, <1>3, <1>4, <1>5, <1>6, OwnedOutside

LEMMA GoesIs ==
    ASSUME TypeOK, NEW t \in Thread, NEW where, Goes(t, where)
    PROVE  /\ DOMAIN pc' = Thread /\ pc'[t] = where
           /\ \A u \in Thread : u # t => pc'[u] = pc[u]
  BY DEF TypeOK, Goes

LEMMA OwnedPopInaccurateLooks ==
    ASSUME LoneSeeker, Owned, NEW t \in Thread, PopInaccurateLooks(t)
    PROVE  Owned'
  <1>1. NoneClears
    BY CallsQuietly DEF PopInaccurateLooks
  <1>2. TypeOK /\ Placed(queue, holds, allocated)
    BY <1>1 DEF Owned
  <1>3. t \in Consumer /\ Goes(t, "looked") /\ UNCHANGED <<queue, holds, allocated, seen>>
    BY DEF PopInaccurateLooks
  <1>4. /\ DOMAIN pc' = Thread /\ pc'[t] = "looked"
        /\ \A u \in Thread : u # t => pc'[u] = pc[u]
    BY <1>2, <1>3, GoesIs
  <1>5. TypeOK' /\ Placed(queue, holds, allocated)'
    BY <1>2, <1>3, <1>4 DEF TypeOK
  <1>6. Sighted'
    BY <1>3, <1>4, NoneHasSeen
  <1>7. QED  BY <1>1, <1>4, <1>5, <1>6, OwnedOutside

LEMMA OwnedPopInaccurateLocks ==
    ASSUME LoneSeeker, Owned, NEW t \in Thread, PopInaccurateLocks(t)
    PROVE  Owned'
  <1>1. pc[t] = "looked" /\ Goes(t, "idle") /\ UNCHANGED <<allocated, seen>>
    BY DEF PopInaccurateLocks
  <1>2. NoneClears
    BY <1>1, InMethodQuietly
  <1>3. TypeOK /\ Placed(queue, holds, allocated)
    BY <1>2 DEF Owned
  <1>4. t \in Consumer
    BY <1>1, <1>3 DEF TypeOK
  <1>5. /\ DOMAIN pc' = Thread /\ pc'[t] = "idle"
        /\ \A u \in Thread : u # t => pc'[u] = pc[u]
    BY <1>1, <1>3, GoesIs
  <1>6. /\ queue' \in Seq(Structure) /\ holds' \in [Thread -> SUBSET Structure]
        /\ Placed(queue, holds, allocated)'
    <2>1. CASE Take(t)
      BY <1>1, <1>3, <2>1, TakeIs
    <2>2. CASE UNCHANGED <<queue, holds>>
      BY <1>1, <1>3, <2>2 DEF TypeOK
    <2>3. QED  BY <2>1, <2>2 DEF PopInaccurateLocks
  <1>7. TypeOK'
    BY <1>1, <1>3, <1>5, <1>6 DEF TypeOK
  <1>8. Sighted'
    BY <1>4, <1>5, NoneHasSeen
  <1>9. QED  BY <1>2, <1>5, <1>6, <1>7, <1>8, OwnedOutside

LEMMA OwnedLook ==
    ASSUME ThreadsafeAllocatingQueueAssumption, Owned, NEW t \in Thread, Look(t)
    PROVE  Owned'
  <1>1. NoneClears
    BY CallsQuietly DEF Look
  <1>2. TypeOK /\ Placed(queue, holds, allocated) /\ Sighted
    BY <1>1 DEF Owned
  <1>3. t \in Seekers /\ Goes(t, "seen") /\ UNCHANGED <<queue, holds, allocated>>
    BY DEF Look
  <1>4. PICK k \in 1 .. Len(queue) : seen' = [seen EXCEPT ![t] = <<k - 1, queue[k]>>]
    <2>1. DOMAIN queue = 1 .. Len(queue)
      BY <1>2 DEF TypeOK
    <2>2. QED  BY <2>1 DEF Look
  <1>5. /\ DOMAIN pc' = Thread /\ pc'[t] = "seen"
        /\ \A u \in Thread : u # t => pc'[u] = pc[u]
    BY <1>2, <1>3, GoesIs
  <1>6. TypeOK' /\ Placed(queue, holds, allocated)'
    BY <1>2, <1>3, <1>4, <1>5 DEF TypeOK
  <1>7. Sighted'
    <2>1. SUFFICES ASSUME NEW u \in Seekers, pc'[u] = "seen"
                   PROVE  \E j \in 1 .. Len(queue) : seen'[u] = <<j - 1, queue[j]>>
      BY <1>3 DEF Sighted
    <2>2. CASE u = t
      <3>1. seen'[u] = <<k - 1, queue[k]>>
        BY <1>2, <1>3, <1>4, <2>2 DEF TypeOK
      <3>2. QED  BY <3>1
    <2>3. CASE u # t
      <3>1. pc[u] = "seen"
        BY <1>2, <1>5, <2>1, <2>3
           DEF ThreadsafeAllocatingQueueAssumption, Thread
      <3>2. seen'[u] = seen[u]
        BY <1>2, <1>4, <2>3 DEF TypeOK
      <3>3. QED  BY <1>2, <3>1, <3>2 DEF Sighted
    <2>4. QED  BY <2>2, <2>3
  <1>8. QED  BY <1>1, <1>5, <1>6, <1>7, OwnedOutside

\* What it saw is there still, and nowhere else.
LEMMA OwnedRemoveAtIndex ==
    ASSUME ThreadsafeAllocatingQueueAssumption, LoneSeeker, Owned,
           NEW t \in Thread, RemoveAtIndex(t)
    PROVE  Owned'
  <1>1. /\ pc[t] = "seen" /\ Goes(t, "idle") /\ UNCHANGED <<allocated, seen>>
        /\ holds' = Given(holds, t, seen[t][2])
        /\ \/ Queue!RemoveAtIndex(seen[t][1])
           \/ seen[t][1] >= Len(queue) /\ UNCHANGED queue
    BY DEF RemoveAtIndex, Has, Given
  <1>2. NoneClears
    BY <1>1, InMethodQuietly
  <1>3. TypeOK /\ Placed(queue, holds, allocated) /\ Sighted
    BY <1>2 DEF Owned
  <1>4. t \in Seekers /\ t \in Consumer
    BY <1>1, <1>3 DEF TypeOK, ThreadsafeAllocatingQueueAssumption
  <1>5. PICK k \in 1 .. Len(queue) : seen[t] = <<k - 1, queue[k]>>
    BY <1>1, <1>3, <1>4 DEF Sighted
  <1>6. /\ k - 1 \in Nat /\ k - 1 < Len(queue) /\ queue[(k - 1) + 1] = queue[k]
        /\ seen[t][1] = k - 1 /\ seen[t][2] = queue[k]
    BY <1>3, <1>5 DEF TypeOK
  <1>7. queue' = Queue!RemovedAt(queue, k - 1) /\ holds' = Given(holds, t, queue[(k - 1) + 1])
    <2>1. Len(queue) \in Nat
      BY <1>3 DEF TypeOK
    <2>2. ~(seen[t][1] >= Len(queue))
      BY <1>6, <2>1
    <2>3. QED  BY <1>1, <1>6, <2>2 DEF Queue!RemoveAtIndex
  <1>8. /\ queue' \in Seq(Structure) /\ holds' \in [Thread -> SUBSET Structure]
        /\ Placed(queue, holds, allocated)'
    BY <1>1, <1>3, <1>6, <1>7, TakenAt
  <1>9. /\ DOMAIN pc' = Thread /\ pc'[t] = "idle"
        /\ \A u \in Thread : u # t => pc'[u] = pc[u]
    BY <1>1, <1>3, GoesIs
  <1>10. TypeOK'
    BY <1>1, <1>3, <1>8, <1>9 DEF TypeOK
  <1>11. Sighted'
    BY <1>4, <1>9, NoneHasSeen
  <1>12. QED  BY <1>2, <1>8, <1>9, <1>10, <1>11, OwnedOutside

-----------------------------------------------------------------------------
(* The steps of Clear.                                                     *)

LEMMA OwnedClearLocks ==
    ASSUME QuietClear, Owned, NEW t \in Thread, ClearLocks(t)
    PROVE  Owned'
  <1>1. /\ t \in MayClear /\ (\A u \in Thread : holds[u] = {}) /\ Goes(t, "destroy")
        /\ UNCHANGED <<queue, allocated, holds, seen>>
    BY DEF ClearLocks
  <1>2. ClearsAlone /\ \A u \in Thread : pc[u] = "idle"
    BY <1>1 DEF QuietClear, ClearLocks
  <1>3. /\ DOMAIN pc' = Thread /\ pc'[t] = "destroy"
        /\ \A u \in Thread : u # t => pc'[u] = "idle"
    BY <1>1, <1>2, GoesIs DEF Owned
  <1>4. TypeOK'
    BY <1>1, <1>3 DEF Owned, TypeOK
  <1>5. Quiet' /\ ~NoneClears'
    BY <1>1, <1>2, <1>3 DEF Quiet, NoneClears, Clearing
  <1>6. QED  BY <1>4, <1>5 DEF Owned

\* The steps between: t stays in Clear, and the queue becomes no other than
\* the empty one.
LEMMA OwnedInClear ==
    ASSUME Owned, NEW t \in Thread, Clearing(t), NEW where, Goes(t, where),
           where \in {"destroy", "release", "emptied", "unlocked"},
           queue' = queue \/ queue' = <<>>, where = "unlocked" => queue' = <<>>,
           allocated' \subseteq allocated, UNCHANGED <<holds, seen>>
    PROVE  Owned'
  <1>1. TypeOK /\ ClearsAlone /\ \A u \in Thread : holds[u] = {} /\ (u # t => pc[u] = "idle")
    BY DEF Owned, Quiet
  <1>2. /\ DOMAIN pc' = Thread /\ pc'[t] = where
        /\ \A u \in Thread : u # t => pc'[u] = "idle"
    BY <1>1, GoesIs
  <1>3. TypeOK'
    <2>1. queue' \in Seq(Structure)
      <3>1. queue \in Seq(Structure) /\ <<>> \in Seq(Structure)
        BY <1>1 DEF TypeOK
      <3>2. QED  BY <3>1
    <2>2. \A u \in Thread : pc'[u] \notin {"looked", "seen"}
      BY <1>2
    <2>3. QED  BY <1>1, <1>2, <2>1, <2>2 DEF TypeOK
  <1>4. Quiet' /\ ~NoneClears'
    BY <1>1, <1>2 DEF Quiet, NoneClears, Clearing
  <1>5. QED  BY <1>3, <1>4 DEF Owned

LEMMA OwnedClearClearsPool ==
    ASSUME ThreadsafeAllocatingQueueAssumption, Owned, NEW t \in Thread, ClearClearsPool(t)
    PROVE  Owned'
  <1>1. pc[t] = "unlocked" /\ allocated' = {} /\ Goes(t, "idle") /\ UNCHANGED <<queue, holds, seen>>
    BY DEF ClearClearsPool, Pool!Clear
  <1>2. /\ TypeOK /\ queue = <<>>
        /\ \A u \in Thread : holds[u] = {} /\ (u # t => pc[u] = "idle")
    BY <1>1 DEF Owned, Quiet, Clearing
  <1>3. DOMAIN pc' = Thread /\ \A u \in Thread : pc'[u] = "idle"
    BY <1>1, <1>2, GoesIs
  <1>4. TypeOK'
    BY <1>1, <1>2, <1>3 DEF TypeOK
  <1>5. Quiet'
    BY <1>3 DEF Quiet, Clearing
  <1>6. (\A x : ~HeldBy(holds', x)) /\ (\A x : ~Among(queue', x)) /\ Once(queue')
    BY <1>1, <1>2 DEF HeldBy, Among, Once
  <1>7. Placed(queue, holds, allocated)'
    BY <1>1, <1>2, <1>6 DEF Placed
  <1>8. Sighted'
    BY <1>3 DEF Sighted, ThreadsafeAllocatingQueueAssumption, Thread
  <1>9. QED  BY <1>4, <1>5, <1>7, <1>8 DEF Owned

LEMMA OwnedClear ==
    ASSUME ThreadsafeAllocatingQueueAssumption, QuietClear, Owned, NEW t \in Thread, Clear(t)
    PROVE  Owned'
  <1>1. CASE ClearLocks(t)
    BY <1>1, OwnedClearLocks
  <1>2. CASE ClearDestroys(t)
    <2>1. Clearing(t)
      BY <1>2 DEF ClearDestroys, Clearing
    <2>2. CASE Goes(t, "release")
      BY <1>2, <2>1, <2>2, OwnedInClear DEF ClearDestroys
    <2>3. CASE Goes(t, "emptied")
      BY <1>2, <2>1, <2>3, OwnedInClear DEF ClearDestroys
    <2>4. QED  BY <1>2, <2>2, <2>3 DEF ClearDestroys
  <1>3. CASE ClearReleases(t)
    <2>1. Clearing(t) /\ Goes(t, "destroy") /\ allocated' \subseteq allocated
      BY <1>3 DEF ClearReleases, Clearing
    <2>2. QED  BY <1>3, <2>1, OwnedInClear DEF ClearReleases
  <1>4. CASE ClearEmpties(t)
    <2>1. Clearing(t) /\ Goes(t, "unlocked") /\ queue' = <<>>
      BY <1>4 DEF ClearEmpties, Clearing, Queue!Clear
    <2>2. QED  BY <1>4, <2>1, OwnedInClear DEF ClearEmpties
  <1>5. CASE ClearClearsPool(t)
    BY <1>5, OwnedClearClearsPool
  <1>6. QED  BY <1>1, <1>2, <1>3, <1>4, <1>5 DEF Clear

-----------------------------------------------------------------------------
LEMMA OwnedStep ==
    ASSUME ThreadsafeAllocatingQueueAssumption, QuietClear, LoneSeeker, Owned, [Next]_vars
    PROVE  Owned'
  <1>1. ASSUME NEW t \in Thread, Pop(t)
        PROVE  Owned'
    BY <1>1, OwnedPop
  <1>2. ASSUME NEW t \in Thread, PopInaccurate(t)
        PROVE  Owned'
    BY <1>2, OwnedPopInaccurateLooks, OwnedPopInaccurateLocks DEF PopInaccurate
  <1>3. ASSUME NEW t \in Thread, Look(t)
        PROVE  Owned'
    BY <1>3, OwnedLook
  <1>4. ASSUME NEW t \in Thread, RemoveAtIndex(t)
        PROVE  Owned'
    BY <1>4, OwnedRemoveAtIndex
  <1>5. ASSUME NEW t \in Thread, Clear(t)
        PROVE  Owned'
    BY <1>5, OwnedClear
  <1>6. ASSUME NEW t \in Thread, NEW s \in Structure, Allocate(t, s)
        PROVE  Owned'
    BY <1>6, OwnedAllocate
  <1>7. ASSUME NEW t \in Thread, NEW s \in Structure, Push(t, s)
        PROVE  Owned'
    BY <1>7, OwnedPush
  <1>8. ASSUME NEW t \in Thread, NEW s \in Structure, Deallocate(t, s)
        PROVE  Owned'
    BY <1>8, OwnedDeallocate
  <1>9. CASE UNCHANGED vars
    BY <1>9 DEF vars, Owned, TypeOK, Quiet, NoneClears, Clearing, Sighted
  <1>10. QED  BY <1>1, <1>2, <1>3, <1>4, <1>5, <1>6, <1>7, <1>8, <1>9 DEF Next

\* The hypotheses on the constants.
Ordinary == ThreadsafeAllocatingQueueAssumption /\ QuietClear /\ LoneSeeker

\* Every interleaving of the threads' calls keeps each structure in one place.
THEOREM OwnedHolds == Ordinary => (Spec => []Owned)
  <1> SUFFICES ASSUME Ordinary
               PROVE  Spec => []Owned
    OBVIOUS
  <1>1. Init => Owned
    BY OwnedInit DEF Ordinary
  <1>2. Owned /\ [Next]_vars => Owned'
    BY OwnedStep DEF Ordinary
  <1>3. QED  BY <1>1, <1>2, PTL DEF Spec

\* What is once in a set is counted once.
LEMMA CountedOnce ==
    ASSUME NEW X, \A x, y \in X : x = y
    PROVE  Cardinality(X) = IF X = {} THEN 0 ELSE 1
  <1>1. CASE X = {}
    BY <1>1, FS_EmptySet
  <1>2. CASE X # {}
    <2>1. PICK x : X = {x}
      BY <1>2
    <2>2. QED  BY <1>2, <2>1, FS_Singleton
  <1>3. QED  BY <1>1, <1>2

LEMMA OwnedIsOneOwner == Owned => OneOwner
  <1> SUFFICES ASSUME Owned, NoneClears, NEW s \in Structure
               PROVE  Owners(s) + Occurrences(s) = IF s \in allocated THEN 1 ELSE 0
    BY DEF OneOwner, NoneClears
  <1>1. TypeOK /\ Placed(queue, holds, allocated)
    BY DEF Owned
  <1> DEFINE O == {t \in Thread : s \in holds[t]}
             P == {k \in DOMAIN queue : queue[k] = s}
  <1>2. DOMAIN queue = 1 .. Len(queue)
    BY <1>1 DEF TypeOK
  <1>3. (O = {} <=> ~HeldBy(holds, s)) /\ \A t, u \in O : t = u
    BY <1>1 DEF Placed, HeldBy
  <1>4. (P = {} <=> ~Among(queue, s)) /\ \A j, k \in P : j = k
    BY <1>1, <1>2 DEF Placed, Once, Among
  <1>5. /\ ~(HeldBy(holds, s) /\ Among(queue, s))
        /\ s \in allocated <=> HeldBy(holds, s) \/ Among(queue, s)
    BY <1>1 DEF Placed
  <1>6. Owners(s) = Cardinality(O) /\ Occurrences(s) = Cardinality(P)
    BY DEF Owners, Occurrences
  <1> HIDE DEF O, P
  <1>7. Cardinality(O) = IF O = {} THEN 0 ELSE 1
    BY <1>3, CountedOnce
  <1>8. Cardinality(P) = IF P = {} THEN 0 ELSE 1
    BY <1>4, CountedOnce
  <1>9. QED  BY <1>3, <1>4, <1>5, <1>6, <1>7, <1>8

\* In whatever order threads allocate, push, pop, look, take and deallocate,
\* each structure is with one of them, or once in the queue, or in the pool.
THEOREM OneOwnerHolds == Ordinary => (Spec => []OneOwner)
  <1>1. Owned => OneOwner
    BY OwnedIsOneOwner
  <1>2. QED  BY <1>1, OwnedHolds, PTL

-----------------------------------------------------------------------------
(* The order.                                                              *)

LEMMA CountedIfAmong ==
    ASSUME NEW q \in Seq(Structure), NEW s
    PROVE  Cardinality({k \in DOMAIN q : q[k] = s}) = 0 <=> ~Among(q, s)
  <1> DEFINE P == {k \in DOMAIN q : q[k] = s}
  <1>1. DOMAIN q = 1 .. Len(q) /\ Len(q) \in Nat
    OBVIOUS
  <1>2. IsFiniteSet(1 .. Len(q))
    BY <1>1, FS_Interval
  <1>3. IsFiniteSet(P)
    BY <1>1, <1>2, FS_Subset
  <1>4. P = {} <=> ~Among(q, s)
    BY <1>1 DEF Among
  <1> HIDE DEF P
  <1>5. Cardinality(P) = 0 <=> ~Among(q, s)
    BY <1>3, <1>4, FS_EmptySet
  <1>6. QED  BY <1>5 DEF P

\* What a step makes of the queue if nobody takes what was seen.
LEMMA QueueChanges ==
    ASSUME Owned, Seekers = {}, [Next]_vars
    PROVE  \/ queue' = queue \/ queue' = <<>>
           \/ \E s \in Structure : queue' = Queue!InsertedAt(queue, s, Len(queue))
           \/ /\ Placed(queue, holds, allocated)
              /\ 0 < Len(queue) /\ queue' = Queue!RemovedAt(queue, 0)
  <1> DEFINE Goal == \/ queue' = queue \/ queue' = <<>>
                     \/ \E s \in Structure : queue' = Queue!InsertedAt(queue, s, Len(queue))
                     \/ /\ Placed(queue, holds, allocated)
                        /\ 0 < Len(queue) /\ queue' = Queue!RemovedAt(queue, 0)
  <1>1. ASSUME NEW t \in Thread, Pop(t)
        PROVE  Goal
    <2>1. Placed(queue, holds, allocated)
      BY <1>1, CallsQuietly DEF Pop, Owned
    <2>2. QED  BY <1>1, <2>1 DEF Pop, Take, Queue!Pop, Queue!RemoveAtIndex
  <1>2. ASSUME NEW t \in Thread, PopInaccurate(t)
        PROVE  Goal
    <2>1. CASE PopInaccurateLooks(t)
      BY <2>1 DEF PopInaccurateLooks
    <2>2. CASE PopInaccurateLocks(t)
      <3>1. Placed(queue, holds, allocated)
        BY <2>2, InMethodQuietly DEF PopInaccurateLocks, Owned
      <3>2. QED  BY <2>2, <3>1 DEF PopInaccurateLocks, Take, Queue!Pop, Queue!RemoveAtIndex
    <2>3. QED  BY <1>2, <2>1, <2>2 DEF PopInaccurate
  <1>3. ASSUME NEW t \in Thread, Look(t) \/ RemoveAtIndex(t)
        PROVE  Goal
    BY <1>3 DEF Look, RemoveAtIndex, Owned, TypeOK
  <1>4. ASSUME NEW t \in Thread, Clear(t)
        PROVE  Goal
    BY <1>4 DEF Clear, ClearLocks, ClearDestroys, ClearReleases, ClearEmpties, ClearClearsPool, Queue!Clear
  <1>5. ASSUME NEW t \in Thread, NEW s \in Structure, Allocate(t, s) \/ Push(t, s) \/ Deallocate(t, s)
        PROVE  Goal
    BY <1>5 DEF Allocate, Push, Deallocate, Queue!Push
  <1>6. ASSUME UNCHANGED vars
        PROVE  Goal
    BY <1>6 DEF vars
  <1> HIDE DEF Goal
  <1>7. Goal
    <2>1. CASE Next
      <3>1. PICK t \in Thread :
                \/ Pop(t) \/ PopInaccurate(t) \/ Look(t) \/ RemoveAtIndex(t) \/ Clear(t)
                \/ \E s \in Structure : Allocate(t, s) \/ Push(t, s) \/ Deallocate(t, s)
        BY <2>1 DEF Next
      <3>2. QED  BY <3>1, <1>1, <1>2, <1>3, <1>4, <1>5
    <2>2. QED  BY <1>6, <2>1
  <1>8. QED  BY <1>7 DEF Goal

LEMMA LeaveInOrderStep ==
    ASSUME Owned, Owned', Seekers = {}, [Next]_vars
    PROVE  LeaveInOrder
  <1>1. queue \in Seq(Structure) /\ queue' \in Seq(Structure) /\ DOMAIN queue = 1 .. Len(queue)
    BY DEF Owned, TypeOK
  <1>2. SUFFICES ASSUME NEW s \in Structure, NEW r \in Structure, Before(s, r), ~Among(queue', r)
                 PROVE  ~Among(queue', s)
    <2>1. \A x : Occurrences(x)' = 0 <=> ~Among(queue', x)
      BY <1>1, CountedIfAmong DEF Occurrences
    <2>2. QED  BY <1>2, <2>1 DEF LeaveInOrder
  <1>3. PICK j \in 1 .. Len(queue), k \in 1 .. Len(queue) : j < k /\ queue[j] = s /\ queue[k] = r
    BY <1>1, <1>2 DEF Before
  <1>4. Among(queue, r)
    BY <1>3 DEF Among
  <1>5. CASE queue' = queue
    BY <1>2, <1>4, <1>5
  <1>6. CASE queue' = <<>>
    BY <1>6 DEF Among
  <1>7. ASSUME NEW x \in Structure, queue' = Queue!InsertedAt(queue, x, Len(queue))
        PROVE  FALSE
    <2>1. \A q : q = Queue!InsertedAt(queue, x, Len(queue)) =>
            \A y : Among(q, y) <=> y = x \/ Among(queue, y)
      BY <1>1, PushedIs
    <2>2. QED  BY <1>2, <1>4, <1>7, <2>1
  <1>8. CASE /\ Placed(queue, holds, allocated)
             /\ 0 < Len(queue) /\ queue' = Queue!RemovedAt(queue, 0)
    <2>1. Once(queue)
      BY <1>8 DEF Placed
    <2>2. \A q : q = Queue!RemovedAt(queue, 0) =>
            \A y : Among(q, y) <=> y # queue[0 + 1] /\ Among(queue, y)
      BY <1>1, <1>8, <2>1, RemovedIs
    <2>3. r = queue[1]
      BY <1>2, <1>4, <1>8, <2>2
    <2>4. k = 1
      BY <1>3, <1>8, <2>1, <2>3 DEF Once
    <2>5. QED  BY <1>3, <2>4
  <1>9. QED  BY <1>5, <1>6, <1>7, <1>8, QueueChanges

\* As long as nobody takes from the middle, no structure overtakes another,
\* whoever pops.
THEOREM LeaveInOrderHolds == Ordinary /\ Seekers = {} => (Spec => [][LeaveInOrder]_vars)
  <1> SUFFICES ASSUME Ordinary, Seekers = {}
               PROVE  Spec => [][LeaveInOrder]_vars
    OBVIOUS
  <1>1. Spec => []Owned
    BY OwnedHolds
  <1>2. Owned /\ Owned' /\ [Next]_vars => LeaveInOrder
    BY LeaveInOrderStep
  <1>3. QED  BY <1>1, <1>2, PTL DEF Spec
=============================================================================
