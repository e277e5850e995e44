--------------------------- MODULE ThreadPoolProofs ---------------------------
(***************************************************************************)
(* The thread pool, for any worker threads and inputs: no two threads work *)
(* on one input, the counters are those of the threads, a pool that is     *)
(* paused is quiet, and none is left of one that was stopped.              *)
(***************************************************************************)
EXTENDS ThreadPool, FiniteSetTheorems, TLAPS

USE DEF ThreadPoolAssumption

-----------------------------------------------------------------------------
(* Queues.                                                                 *)

\* The input j is in the queue q.
Among(q, j) == \E k \in 1 .. Len(q) : q[k] = j

\* No input is in it twice.
Once(q) == \A j, k \in 1 .. Len(q) : q[j] = q[k] => j = k

LEMMA AppendIs ==
    ASSUME NEW q \in Seq(Job), NEW x \in Job
    PROVE  /\ Append(q, x) \in Seq(Job)
           /\ \A j : Among(Append(q, x), j) <=> j = x \/ Among(q, j)
           /\ Once(q) /\ ~Among(q, x) => Once(Append(q, x))
  <1>1. /\ Append(q, x) \in Seq(Job) /\ Len(q) \in Nat /\ Len(Append(q, x)) = Len(q) + 1
        /\ \A k \in 1 .. Len(q) + 1 : Append(q, x)[k] = IF k <= Len(q) THEN q[k] ELSE x
    OBVIOUS
  <1>2. \A j : Among(Append(q, x), j) <=> j = x \/ Among(q, j)
    <2>1. SUFFICES ASSUME NEW j
                   PROVE  Among(Append(q, x), j) <=> j = x \/ Among(q, j)
      OBVIOUS
    <2>2. Among(Append(q, x), j) => j = x \/ Among(q, j)
      BY <1>1 DEF Among
    <2>3. j = x => Among(Append(q, x), j)
      <3>1. Len(q) + 1 \in 1 .. Len(Append(q, x)) /\ Append(q, x)[Len(q) + 1] = x
        BY <1>1
      <3>2. QED  BY <3>1 DEF Among
    <2>4. Among(q, j) => Among(Append(q, x), j)
      BY <1>1 DEF Among
    <2>5. QED  BY <2>2, <2>3, <2>4
  <1>3. Once(q) /\ ~Among(q, x) => Once(Append(q, x))
    BY <1>1 DEF Once, Among
  <1>4. QED  BY <1>1, <1>2, <1>3

\* What is left of a queue.
LeftOf(r, q) ==
    r \in Seq(Job) /\ (Once(q) => Once(r)) /\ \A j : Among(r, j) => Among(q, j)

LEMMA TailIs ==
    ASSUME NEW q \in Seq(Job), q # <<>>
    PROVE  /\ Head(q) \in Job /\ Among(q, Head(q)) /\ LeftOf(Tail(q), q)
           /\ Once(q) => ~Among(Tail(q), Head(q))
  <1>1. /\ Len(q) \in Nat /\ Len(q) > 0 /\ Head(q) = q[1] /\ Head(q) \in Job
        /\ Tail(q) \in Seq(Job) /\ Len(Tail(q)) = Len(q) - 1
        /\ \A k \in 1 .. Len(q) - 1 : Tail(q)[k] = q[k + 1]
    OBVIOUS
  <1>2. Among(q, Head(q))
    BY <1>1 DEF Among
  <1>3. \A j : Among(Tail(q), j) => Among(q, j)
    <2>1. SUFFICES ASSUME NEW j, NEW k \in 1 .. Len(Tail(q)), Tail(q)[k] = j
                   PROVE  Among(q, j)
      BY DEF Among
    <2>2. k + 1 \in 1 .. Len(q) /\ q[k + 1] = j
      BY <1>1, <2>1
    <2>3. QED  BY <2>2 DEF Among
  <1>4. Once(q) => Once(Tail(q))
    BY <1>1 DEF Once
  <1>5. Once(q) => ~Among(Tail(q), Head(q))
    BY <1>1 DEF Once, Among
  <1>6. QED  BY <1>1, <1>2, <1>3, <1>4, <1>5 DEF LeftOf

LEMMA RemoveAtIs ==
    ASSUME NEW q \in Seq(Job), NEW n \in 1 .. Len(q)
    PROVE  LeftOf(RemoveAt(q, n), q)
  <1> DEFINE r == RemoveAt(q, n)
             a == SubSeq(q, 1, n - 1)
             b == SubSeq(q, n + 1, Len(q))
  <1>1. /\ Len(q) \in Nat /\ a \in Seq(Job) /\ b \in Seq(Job)
        /\ Len(a) = n - 1 /\ Len(b) = Len(q) - n
        /\ (\A k \in 1 .. n - 1 : a[k] = q[k]) /\ \A k \in 1 .. Len(q) - n : b[k] = q[n + k]
    OBVIOUS
  <1>2. r = a \o b
    BY DEF RemoveAt
  <1> HIDE DEF r, a, b
  <1>3. r \in Seq(Job) /\ Len(r) = Len(q) - 1
    BY <1>1, <1>2
  <1>4. \A k \in 1 .. Len(q) - 1 : r[k] = q[IF k < n THEN k ELSE k + 1]
    BY <1>1, <1>2
  <1> DEFINE From(k) == IF k < n THEN k ELSE k + 1
  <1>5. \A k \in 1 .. Len(r) : From(k) \in 1 .. Len(q) /\ r[k] = q[From(k)]
    BY <1>1, <1>3, <1>4
  <1>6. \A j, k \in 1 .. Len(r) : From(j) = From(k) => j = k
    BY <1>1, <1>3
  <1> HIDE DEF From
  <1>7. \A j : Among(r, j) => Among(q, j)
    <2>1. SUFFICES ASSUME NEW j, NEW k \in 1 .. Len(r), r[k] = j
                   PROVE  Among(q, j)
      BY DEF Among
    <2>2. From(k) \in 1 .. Len(q) /\ q[From(k)] = j
      BY <1>5, <2>1
    <2>3. QED  BY <2>2 DEF Among
  <1>8. ASSUME Once(q)
        PROVE  Once(r)
    <2>1. SUFFICES ASSUME NEW j \in 1 .. Len(r), NEW k \in 1 .. Len(r), r[j] = r[k]
                   PROVE  j = k
      BY DEF Once
    <2>2. From(j) = From(k)
      BY <1>5, <1>8, <2>1 DEF Once
    <2>3. QED  BY <1>6, <2>2
  <1>9. LeftOf(r, q)
    BY <1>3, <1>7, <1>8 DEF LeftOf
  <1>10. QED  BY <1>9 DEF r

LEMMA EmptyIs == \A q \in Seq(Job) : LeftOf(<<>>, q) /\ LeftOf(q, q)
  BY DEF LeftOf, Once, Among

-----------------------------------------------------------------------------
(* The invariant.                                                          *)

Places == {"off", "created", "check", "enter", "fetch", "call", "exit", "leave"}

TypeOK ==
    /\ numThreadsRunning \in Int /\ numThreadsWorking \in Int
    /\ inputQueue \in Seq(Job) /\ outputQueue \in Seq(Job)
    /\ worker \in [Worker -> [at : Places, job : Job \cup {None}]]

\* A worker has an input while it is in the callback.
InCallback == \A w \in Worker : worker[w].at = "call" <=> worker[w].job # None

\* Each input is once in one queue, or with one worker.
Placed ==
    /\ Once(inputQueue) /\ Once(outputQueue)
    /\ \A j : ~(Among(inputQueue, j) /\ Among(outputQueue, j))
    /\ \A w \in Worker : worker[w].job # None =>
          ~Among(inputQueue, worker[w].job) /\ ~Among(outputQueue, worker[w].job)
    /\ \A v, w \in Worker : v # w /\ worker[v].job # None => worker[v].job # worker[w].job

\* The mutex of the working threads is held by Pause until Resume.
Held == user \in {"pausing", "paused"} => workingThreadCountMutex

Sound == TypeOK /\ InCallback /\ Placed /\ CountsRight /\ Held /\ PausedQuiet

\* What a step that moves one worker does.
MovesTo(w, place, job) == worker' = [worker EXCEPT ![w] = [at |-> place, job |-> job]]

LEMMA MovedIs ==
    ASSUME TypeOK, NEW w \in Worker, NEW place \in Places, NEW job \in Job \cup {None},
           MovesTo(w, place, job)
    PROVE  /\ worker' \in [Worker -> [at : Places, job : Job \cup {None}]]
           /\ worker'[w].at = place /\ worker'[w].job = job
           /\ \A v \in Worker : v # w => worker'[v] = worker[v]
  BY DEF TypeOK, MovesTo

\* Moves keeps the input.
LEMMA MovesIs ==
    ASSUME TypeOK, NEW w \in Worker, NEW from, NEW place \in Places, Moves(w, from, place)
    PROVE  worker[w].at = from /\ MovesTo(w, place, worker[w].job) /\ worker[w].job \in Job \cup {None}
  <1>1. worker[w] \in [at : Places, job : Job \cup {None}]
    BY DEF TypeOK
  <1>2. [worker[w] EXCEPT !.at = place] = [at |-> place, job |-> worker[w].job]
    BY <1>1
  <1>3. worker' = [worker EXCEPT ![w] = [worker[w] EXCEPT !.at = place]]
    BY DEF Moves
  <1>4. QED  BY <1>1, <1>2, <1>3 DEF Moves, At, MovesTo

\* What each step of a worker is.
LEMMA WorkerIs ==
    ASSUME TypeOK, NEW w \in Worker, WorkerThread(w)
    PROVE  \/ /\ worker[w].at = "created" /\ MovesTo(w, "check", worker[w].job)
              /\ numThreadsRunning' = numThreadsRunning + 1
              /\ UNCHANGED <<numThreadsWorking, inputQueue, outputQueue>>
           \/ /\ worker[w].at = "check"
              /\ MovesTo(w, "enter", worker[w].job) \/ MovesTo(w, "leave", worker[w].job)
              /\ UNCHANGED <<numThreadsRunning, numThreadsWorking, inputQueue, outputQueue>>
           \/ /\ worker[w].at = "enter" /\ MovesTo(w, "fetch", worker[w].job)
              /\ ~workingThreadCountMutex
              /\ numThreadsWorking' = numThreadsWorking + 1
              /\ UNCHANGED <<numThreadsRunning, inputQueue, outputQueue>>
           \/ /\ worker[w].at = "fetch" /\ MovesTo(w, "exit", worker[w].job)
              /\ UNCHANGED <<numThreadsRunning, numThreadsWorking, inputQueue, outputQueue>>
           \/ /\ worker[w].at = "fetch" /\ inputQueue # <<>> /\ MovesTo(w, "call", Head(inputQueue))
              /\ inputQueue' = Tail(inputQueue)
              /\ UNCHANGED <<numThreadsRunning, numThreadsWorking, outputQueue>>
           \/ /\ worker[w].at = "call" /\ MovesTo(w, "exit", None)
              /\ outputQueue' = outputQueue \/ outputQueue' = Append(outputQueue, worker[w].job)
              /\ UNCHANGED <<numThreadsRunning, numThreadsWorking, inputQueue>>
           \/ /\ worker[w].at = "exit" /\ MovesTo(w, "check", worker[w].job)
              /\ numThreadsWorking' = numThreadsWorking - 1
              /\ UNCHANGED <<numThreadsRunning, inputQueue, outputQueue>>
           \/ /\ worker[w].at = "leave" /\ MovesTo(w, "off", worker[w].job)
              /\ numThreadsRunning' = numThreadsRunning - 1
              /\ UNCHANGED <<numThreadsWorking, inputQueue, outputQueue>>
  <1>1. CASE WorkerStart(w)
    BY <1>1, MovesIs DEF WorkerStart, queues, Places
  <1>2. CASE WorkerCheck(w)
    BY <1>2, MovesIs DEF WorkerCheck, queues, counts, Places
  <1>3. CASE WorkerEnter(w)
    BY <1>3, MovesIs DEF WorkerEnter, queues, Places
  <1>4. CASE WorkerFetch(w)
    <2>1. CASE inputQueue = <<>>
      <3>1. MovesTo(w, "exit", worker[w].job)
        BY <1>4, <2>1 DEF WorkerFetch, MovesTo, TypeOK
      <3>2. QED  BY <1>4, <2>1, <3>1 DEF WorkerFetch, At, counts
    <2>2. CASE inputQueue # <<>>
      BY <1>4, <2>2 DEF WorkerFetch, At, counts, MovesTo
    <2>3. QED  BY <2>1, <2>2
  <1>5. CASE WorkerCall(w)
    BY <1>5 DEF WorkerCall, At, counts, MovesTo
  <1>6. CASE WorkerExit(w)
    BY <1>6, MovesIs DEF WorkerExit, queues, Places
  <1>7. CASE WorkerLeave(w)
    BY <1>7, MovesIs DEF WorkerLeave, queues, Places
  <1>8. QED  BY <1>1, <1>2, <1>3, <1>4, <1>5, <1>6, <1>7 DEF WorkerThread

\* What each step of the user is to the workers and the queues.
LEMMA UserIs ==
    ASSUME TypeOK, UserStep
    PROVE  /\ \/ worker' = worker /\ numThreadsWorking' = numThreadsWorking
              \/ /\ worker' = worker /\ numThreadsWorking' = 0
                 /\ \A w \in Worker : worker[w].at = "off"
              \/ /\ numThreadsWorking' = numThreadsWorking
                 /\ \E w \in Worker : worker[w].at = "off" /\ MovesTo(w, "created", worker[w].job)
           /\ UNCHANGED numThreadsRunning
           /\ \/ LeftOf(inputQueue', inputQueue) /\ LeftOf(outputQueue', outputQueue)
              \/ /\ UNCHANGED <<outputQueue, worker>>
                 /\ \E j \in Job \ (Range(inputQueue) \cup Range(outputQueue) \cup InHand) :
                       inputQueue' = Append(inputQueue, j)
  <1>1. /\ LeftOf(inputQueue, inputQueue) /\ LeftOf(outputQueue, outputQueue)
        /\ LeftOf(<<>>, inputQueue) /\ LeftOf(<<>>, outputQueue)
    BY EmptyIs DEF TypeOK
  <1>2. CASE StartThreads
    BY <1>1, <1>2 DEF StartThreads, queues, At
  <1>3. CASE CreateThread
    <2>1. PICK w \in Worker : Moves(w, "off", "created")
      BY <1>3 DEF CreateThread, Moves
    <2>2. worker[w].at = "off" /\ MovesTo(w, "created", worker[w].job)
      BY <2>1, MovesIs DEF Places
    <2>3. QED  BY <1>1, <1>3, <2>2 DEF CreateThread, counts, queues
  <1>4. CASE CreateFails \/ Started \/ StopThreads \/ Stopped \/ Pause \/ Paused \/ Resume
    BY <1>1, <1>4 DEF CreateFails, Started, StopThreads, Stopped, Pause, Paused, Resume, counts, queues
  <1>5. CASE AddInput
    BY <1>5 DEF AddInput, counts
  <1>6. CASE GetOutput
    <2>1. LeftOf(outputQueue', outputQueue)
      BY <1>6, TailIs DEF GetOutput, TypeOK
    <2>2. QED  BY <1>1, <1>6, <2>1 DEF GetOutput, counts
  <1>7. CASE RemoveInputAtIndex
    <2>1. PICK n \in 1 .. Len(inputQueue) : inputQueue' = RemoveAt(inputQueue, n)
      BY <1>7 DEF RemoveInputAtIndex
    <2>2. LeftOf(inputQueue', inputQueue)
      BY <2>1, RemoveAtIs DEF TypeOK
    <2>3. QED  BY <1>1, <1>7, <2>2 DEF RemoveInputAtIndex, counts
  <1>8. CASE LockInput \/ UnlockInput
    BY <1>1, <1>8 DEF LockInput, UnlockInput, counts
  <1>9. CASE Clear \/ ClearOutput
    BY <1>1, <1>9 DEF Clear, ClearOutput, counts
  <1>10. CASE IsWorking \/ IsWorkingInput \/ IsWorkingCount \/ IsWorkingReturns
    BY <1>1, <1>10 DEF IsWorking, IsWorkingInput, IsWorkingCount, IsWorkingReturns, counts, queues
  <1>11. QED  BY <1>2, <1>3, <1>4, <1>5, <1>6, <1>7, <1>8, <1>9, <1>10 DEF UserStep, UserGoesOn

-----------------------------------------------------------------------------
(* Counting the workers.                                                   *)

Count(P) == Cardinality({w \in Worker : worker[w].at \in P})

InRound == {"fetch", "call", "exit"}
Alive == Places \ {"off", "created"}

LEMMA Counted ==
    ASSUME ThreadPoolAssumption, NEW P
    PROVE  /\ Count(P) \in Nat
           /\ Count(P) = 0 => \A w \in Worker : worker[w].at \notin P
           /\ Count(P) = Cardinality(Worker) => \A w \in Worker : worker[w].at \in P
  <1> DEFINE X == {w \in Worker : worker[w].at \in P}
  <1>1. IsFiniteSet(Worker) /\ X \subseteq Worker
    OBVIOUS
  <1>2. \A w \in Worker : w \in X <=> worker[w].at \in P
    OBVIOUS
  <1>3. Count(P) = Cardinality(X)
    BY DEF Count
  <1> HIDE DEF X
  <1>4. IsFiniteSet(X) /\ (Cardinality(X) = Cardinality(Worker) => X = Worker)
    BY <1>1, FS_Subset
  <1>5. Cardinality(X) \in Nat
    BY <1>4, FS_CardinalityType
  <1>6. Cardinality(X) = 0 => X = {}
    BY <1>4, FS_EmptySet
  <1>7. QED  BY <1>2, <1>3, <1>4, <1>5, <1>6

LEMMA CountMoves ==
    ASSUME ThreadPoolAssumption, TypeOK, NEW w \in Worker, NEW place \in Places,
           NEW job \in Job \cup {None}, MovesTo(w, place, job), NEW P
    PROVE  Count(P)' = Count(P) + (IF place \in P THEN 1 ELSE 0)
                                - (IF worker[w].at \in P THEN 1 ELSE 0)
  <1> DEFINE X == {v \in Worker : worker[v].at \in P}
             Y == {v \in Worker : worker'[v].at \in P}
  <1>1. worker'[w].at = place /\ \A v \in Worker : v # w => worker'[v] = worker[v]
    BY MovedIs
  <1>2. Y = IF place \in P THEN X \cup {w} ELSE X \ {w}
    BY <1>1
  <1>3. w \in X <=> worker[w].at \in P
    OBVIOUS
  <1>4. IsFiniteSet(Worker) /\ X \subseteq Worker
    OBVIOUS
  <1>5. Count(P) = Cardinality(X) /\ Count(P)' = Cardinality(Y)
    BY DEF Count
  <1> HIDE DEF X, Y
  <1>6. IsFiniteSet(X)
    BY <1>4, FS_Subset
  <1>7. Cardinality(X) \in Nat
    BY <1>6, FS_CardinalityType
  <1>8. Cardinality(X \cup {w}) = IF w \in X THEN Cardinality(X) ELSE Cardinality(X) + 1
    BY <1>6, FS_AddElement
  <1>9. Cardinality(X \ {w}) = IF w \in X THEN Cardinality(X) - 1 ELSE Cardinality(X)
    BY <1>6, FS_RemoveElement
  <1>10. QED  BY <1>2, <1>3, <1>5, <1>7, <1>8, <1>9

LEMMA CountsAre ==
    ASSUME TypeOK
    PROVE  CountsRight <=> numThreadsWorking = Count(InRound) /\ numThreadsRunning = Count(Alive)
  <1>1. Working = {w \in Worker : worker[w].at \in InRound}
    BY DEF Working, InRound
  <1>2. {w \in Worker : worker[w].at \notin {"off", "created"}} = {w \in Worker : worker[w].at \in Alive}
    BY DEF TypeOK, Alive
  <1>3. QED  BY <1>1, <1>2 DEF CountsRight, Count

-----------------------------------------------------------------------------
(* The steps of a worker.                                                  *)

LEMMA WorkerKeeps ==
    ASSUME NEW w \in Worker, WorkerThread(w)
    PROVE  UNCHANGED <<runThreads, user, workingThreadCountMutex>>
  BY DEF WorkerThread, WorkerStart, WorkerCheck, WorkerEnter, WorkerFetch, WorkerCall, WorkerExit,
         WorkerLeave, mutexes

\* Outside the callback a worker has no input, before and after.
LEMMA KeepsJob ==
    ASSUME TypeOK, InCallback, Placed, NEW w \in Worker, NEW place \in Places,
           worker[w].at # "call", place # "call", MovesTo(w, place, worker[w].job),
           UNCHANGED <<inputQueue, outputQueue>>, numThreadsRunning' \in Int, numThreadsWorking' \in Int
    PROVE  TypeOK' /\ InCallback' /\ Placed'
  <1>1. worker[w].job = None /\ worker[w].job \in Job \cup {None}
    BY DEF InCallback, TypeOK
  <1>2. /\ worker' \in [Worker -> [at : Places, job : Job \cup {None}]]
        /\ worker'[w].at = place /\ worker'[w].job = None
        /\ \A v \in Worker : v # w => worker'[v] = worker[v]
    BY <1>1, MovedIs
  <1>3. TypeOK'
    BY <1>2 DEF TypeOK
  <1>4. InCallback'
    BY <1>2 DEF InCallback
  <1>5. Placed'
    BY <1>2 DEF Placed
  <1>6. QED  BY <1>3, <1>4, <1>5

LEMMA TakesJob ==
    ASSUME ThreadPoolAssumption, TypeOK, InCallback, Placed, NEW w \in Worker, worker[w].at = "fetch",
           inputQueue # <<>>, MovesTo(w, "call", Head(inputQueue)), inputQueue' = Tail(inputQueue),
           UNCHANGED <<numThreadsRunning, numThreadsWorking, outputQueue>>
    PROVE  TypeOK' /\ InCallback' /\ Placed'
  <1> DEFINE j == Head(inputQueue)
  <1>1. /\ j \in Job /\ Among(inputQueue, j) /\ LeftOf(inputQueue', inputQueue)
        /\ ~Among(inputQueue', j) /\ ~Among(outputQueue, j)
    BY TailIs DEF TypeOK, Placed
  <1> HIDE DEF j
  <1>2. MovesTo(w, "call", j) /\ j # None
    BY <1>1 DEF j
  <1>3. /\ worker' \in [Worker -> [at : Places, job : Job \cup {None}]]
        /\ worker'[w].at = "call" /\ worker'[w].job = j
        /\ \A v \in Worker : v # w => worker'[v] = worker[v]
    BY <1>1, <1>2, MovedIs DEF Places
  <1>4. TypeOK'
    BY <1>1, <1>3 DEF TypeOK, LeftOf
  <1>5. InCallback'
    BY <1>2, <1>3 DEF InCallback
  <1>6. Placed'
    <2>1. \A v \in Worker : v # w => worker[v].job # j
      BY <1>1, <1>2 DEF Placed
    <2>2. Once(inputQueue') /\ \A k : Among(inputQueue', k) => Among(inputQueue, k)
      BY <1>1 DEF Placed, LeftOf
    <2>3. QED  BY <1>1, <1>3, <2>1, <2>2 DEF Placed
  <1>7. QED  BY <1>4, <1>5, <1>6

LEMMA ReturnsJob ==
    ASSUME ThreadPoolAssumption, TypeOK, InCallback, Placed, NEW w \in Worker, worker[w].at = "call",
           MovesTo(w, "exit", None),
           outputQueue' = outputQueue \/ outputQueue' = Append(outputQueue, worker[w].job),
           UNCHANGED <<numThreadsRunning, numThreadsWorking, inputQueue>>
    PROVE  TypeOK' /\ InCallback' /\ Placed'
  <1> DEFINE j == worker[w].job
  <1>1. j # None /\ j \in Job /\ ~Among(inputQueue, j) /\ ~Among(outputQueue, j)
    BY DEF TypeOK, InCallback, Placed
  <1>2. /\ worker' \in [Worker -> [at : Places, job : Job \cup {None}]]
        /\ worker'[w].at = "exit" /\ worker'[w].job = None
        /\ \A v \in Worker : v # w => worker'[v] = worker[v]
    BY MovedIs DEF Places
  <1>3. \A v \in Worker : v # w => worker[v].job # j
    BY <1>1 DEF Placed
  <1>4. outputQueue' = outputQueue \/ outputQueue' = Append(outputQueue, j)
    OBVIOUS
  <1> HIDE DEF j
  <1>5. /\ outputQueue' \in Seq(Job) /\ Once(outputQueue')
        /\ \A k : Among(outputQueue', k) => k = j \/ Among(outputQueue, k)
    <2>1. CASE outputQueue' = outputQueue
      BY <2>1 DEF TypeOK, Placed
    <2>2. CASE outputQueue' = Append(outputQueue, j)
      BY <1>1, <2>2, AppendIs DEF TypeOK, Placed
    <2>3. QED  BY <1>4, <2>1, <2>2
  <1>6. TypeOK'
    BY <1>2, <1>5 DEF TypeOK
  <1>7. InCallback'
    BY <1>2 DEF InCallback
  <1>8. Placed'
    BY <1>1, <1>2, <1>3, <1>5 DEF Placed
  <1>9. QED  BY <1>6, <1>7, <1>8

LEMMA WorkerPlaced ==
    ASSUME ThreadPoolAssumption, TypeOK, InCallback, Placed, NEW w \in Worker, WorkerThread(w)
    PROVE  TypeOK' /\ InCallback' /\ Placed'
  <1>1. numThreadsRunning \in Int /\ numThreadsWorking \in Int
    BY DEF TypeOK
  <1>2. CASE /\ worker[w].at = "fetch" /\ inputQueue # <<>> /\ MovesTo(w, "call", Head(inputQueue))
             /\ inputQueue' = Tail(inputQueue)
             /\ UNCHANGED <<numThreadsRunning, numThreadsWorking, outputQueue>>
    BY <1>2, TakesJob
  <1>3. CASE /\ worker[w].at = "call" /\ MovesTo(w, "exit", None)
             /\ outputQueue' = outputQueue \/ outputQueue' = Append(outputQueue, worker[w].job)
             /\ UNCHANGED <<numThreadsRunning, numThreadsWorking, inputQueue>>
    BY <1>3, ReturnsJob
  <1>4. CASE /\ worker[w].at # "call"
             /\ \E place \in Places \ {"call"} : MovesTo(w, place, worker[w].job)
             /\ UNCHANGED <<inputQueue, outputQueue>>
             /\ numThreadsRunning' \in Int /\ numThreadsWorking' \in Int
    BY <1>4, KeepsJob
  <1>5. QED
    <2>1. {"check", "enter", "leave", "fetch", "exit", "off"} \subseteq Places \ {"call"}
      BY DEF Places
    <2>2. QED  BY <1>1, <1>2, <1>3, <1>4, <2>1, WorkerIs

LEMMA WorkerCounts ==
    ASSUME ThreadPoolAssumption, TypeOK, TypeOK', CountsRight, NEW w \in Worker, WorkerThread(w)
    PROVE  CountsRight'
  <1> DEFINE Goes(places) == \E place \in places, job \in Job \cup {None} : MovesTo(w, place, job)
  <1>1. worker[w].job \in Job \cup {None} /\ worker[w].at \in Places
    BY DEF TypeOK
  <1>2. /\ numThreadsWorking \in Int /\ numThreadsRunning \in Int
        /\ numThreadsWorking = Count(InRound) /\ numThreadsRunning = Count(Alive)
    BY CountsAre DEF TypeOK
  <1>3. SUFFICES numThreadsWorking' = Count(InRound)' /\ numThreadsRunning' = Count(Alive)'
    <2>1. Working' = {v \in Worker : worker'[v].at \in InRound}
      BY DEF Working, InRound
    <2>2. {v \in Worker : worker'[v].at \notin {"off", "created"}} = {v \in Worker : worker'[v].at \in Alive}
      BY DEF TypeOK, Alive
    <2>3. QED  BY <2>1, <2>2 DEF CountsRight, Count
  <1>4. ASSUME NEW place \in Places, NEW job \in Job \cup {None}, MovesTo(w, place, job)
        PROVE  /\ Count(InRound)' = numThreadsWorking + (IF place \in InRound THEN 1 ELSE 0)
                                                       - (IF worker[w].at \in InRound THEN 1 ELSE 0)
               /\ Count(Alive)' = numThreadsRunning + (IF place \in Alive THEN 1 ELSE 0)
                                                     - (IF worker[w].at \in Alive THEN 1 ELSE 0)
    BY <1>2, <1>4, CountMoves
  <1>5. CASE /\ worker[w].at = "created" /\ MovesTo(w, "check", worker[w].job)
             /\ numThreadsRunning' = numThreadsRunning + 1 /\ UNCHANGED numThreadsWorking
    BY <1>1, <1>2, <1>4, <1>5 DEF InRound, Alive, Places
  <1>6. CASE /\ worker[w].at = "check"
             /\ MovesTo(w, "enter", worker[w].job) \/ MovesTo(w, "leave", worker[w].job)
             /\ UNCHANGED <<numThreadsRunning, numThreadsWorking>>
    BY <1>1, <1>2, <1>4, <1>6 DEF InRound, Alive, Places
  <1>7. CASE /\ worker[w].at = "enter" /\ MovesTo(w, "fetch", worker[w].job)
             /\ numThreadsWorking' = numThreadsWorking + 1 /\ UNCHANGED numThreadsRunning
    BY <1>1, <1>2, <1>4, <1>7 DEF InRound, Alive, Places
  <1>8. CASE /\ worker[w].at \in {"fetch", "call"}
             /\ \E place \in {"call", "exit"}, job \in Job \cup {None} : MovesTo(w, place, job)
             /\ UNCHANGED <<numThreadsRunning, numThreadsWorking>>
    BY <1>1, <1>2, <1>4, <1>8 DEF InRound, Alive, Places
  <1>9. CASE /\ worker[w].at = "exit" /\ MovesTo(w, "check", worker[w].job)
             /\ numThreadsWorking' = numThreadsWorking - 1 /\ UNCHANGED numThreadsRunning
    BY <1>1, <1>2, <1>4, <1>9 DEF InRound, Alive, Places
  <1>10. CASE /\ worker[w].at = "leave" /\ MovesTo(w, "off", worker[w].job)
              /\ numThreadsRunning' = numThreadsRunning - 1 /\ UNCHANGED numThreadsWorking
    BY <1>1, <1>2, <1>4, <1>10 DEF InRound, Alive, Places
  <1>11. inputQueue # <<>> => Head(inputQueue) \in Job
    BY TailIs DEF TypeOK
  <1>12. QED  BY <1>1, <1>5, <1>6, <1>7, <1>8, <1>9, <1>10, <1>11, WorkerIs

\* While the pool is paused no worker enters a round.
LEMMA WorkerQuiet ==
    ASSUME TypeOK, Held, PausedQuiet, NEW w \in Worker, WorkerThread(w)
    PROVE  Held' /\ PausedQuiet'
  <1>1. UNCHANGED <<runThreads, user, workingThreadCountMutex>>
    BY WorkerKeeps
  <1>2. Held'
    BY <1>1 DEF Held
  <1>3. ASSUME user = "paused"
        PROVE  Working' = {}
    <2>1. workingThreadCountMutex /\ \A v \in Worker : worker[v].at \notin {"fetch", "call", "exit"}
      BY <1>3 DEF Held, PausedQuiet, Working
    <2>2. worker[w].job \in Job \cup {None}
      BY DEF TypeOK
    <2>3. \E place \in {"check", "enter", "leave", "off"} : MovesTo(w, place, worker[w].job)
      BY <2>1, WorkerIs
    <2>4. PICK place \in {"check", "enter", "leave", "off"} : MovesTo(w, place, worker[w].job)
      BY <2>3
    <2>5. worker'[w].at = place /\ \A v \in Worker : v # w => worker'[v] = worker[v]
      BY <2>2, <2>4, MovedIs DEF Places
    <2>6. \A v \in Worker : worker'[v].at \notin {"fetch", "call", "exit"}
      BY <2>1, <2>5
    <2>7. QED  BY <2>6 DEF Working
  <1>4. QED  BY <1>1, <1>2, <1>3 DEF PausedQuiet

-----------------------------------------------------------------------------
(* The steps of the user.                                                  *)

LEMMA NewInput ==
    ASSUME TypeOK, NEW j \in Job \ (Range(inputQueue) \cup Range(outputQueue) \cup InHand),
           ThreadPoolAssumption
    PROVE  ~Among(inputQueue, j) /\ ~Among(outputQueue, j) /\ \A w \in Worker : worker[w].job # j
  <1>1. DOMAIN inputQueue = 1 .. Len(inputQueue) /\ DOMAIN outputQueue = 1 .. Len(outputQueue)
    BY DEF TypeOK
  <1>2. ~Among(inputQueue, j) /\ ~Among(outputQueue, j)
    BY <1>1 DEF Among, Range
  <1>3. \A w \in Worker : worker[w].job # j
    BY DEF InHand
  <1>4. QED  BY <1>2, <1>3

LEMMA UserPlaced ==
    ASSUME ThreadPoolAssumption, TypeOK, InCallback, Placed, UserStep
    PROVE  TypeOK' /\ InCallback' /\ Placed'
  <1>1. /\ inputQueue \in Seq(Job) /\ outputQueue \in Seq(Job)
        /\ numThreadsRunning' \in Int /\ numThreadsWorking' \in Int
    BY UserIs DEF TypeOK
  <1> DEFINE Same == /\ worker' \in [Worker -> [at : Places, job : Job \cup {None}]]
                     /\ \A v \in Worker : /\ worker'[v].job = worker[v].job
                                          /\ worker'[v].at = "call" <=> worker[v].at = "call"
  <1>2. Same
    <2>1. ASSUME worker' = worker
          PROVE  Same
      BY <2>1 DEF TypeOK
    <2>2. ASSUME NEW w \in Worker, worker[w].at = "off", MovesTo(w, "created", worker[w].job)
          PROVE  Same
      <3>1. worker[w].job \in Job \cup {None} /\ "created" \in Places
        BY DEF TypeOK, Places
      <3>2. /\ worker' \in [Worker -> [at : Places, job : Job \cup {None}]]
            /\ worker'[w].at = "created" /\ worker'[w].job = worker[w].job
            /\ \A v \in Worker : v # w => worker'[v] = worker[v]
        BY <2>2, <3>1, MovedIs
      <3>3. QED  BY <2>2, <3>2
    <2> HIDE DEF Same
    <2>3. QED  BY <2>1, <2>2, UserIs
  <1>3. InCallback'
    <2>1. \A v \in Worker : /\ worker'[v].job = worker[v].job
                            /\ worker'[v].at = "call" <=> worker[v].at = "call"
      BY <1>2 DEF Same
    <2> HIDE DEF Same
    <2>2. SUFFICES ASSUME NEW v \in Worker
                   PROVE  worker'[v].at = "call" <=> worker'[v].job # None
      BY DEF InCallback
    <2>3. worker[v].at = "call" <=> worker[v].job # None
      BY DEF InCallback
    <2>4. QED  BY <2>1, <2>3
  <1>4. ASSUME LeftOf(inputQueue', inputQueue), LeftOf(outputQueue', outputQueue)
        PROVE  TypeOK' /\ Placed'
    <2>1. TypeOK'
      BY <1>1, <1>2, <1>4 DEF TypeOK, LeftOf
    <2>2. Placed'
      <3>1. \A v \in Worker : worker'[v].job = worker[v].job
        BY <1>2 DEF Same
      <3> HIDE DEF Same
      <3>2. /\ Once(inputQueue') /\ \A j : Among(inputQueue', j) => Among(inputQueue, j)
            /\ Once(outputQueue') /\ \A j : Among(outputQueue', j) => Among(outputQueue, j)
        BY <1>4 DEF Placed, LeftOf
      <3>3. QED  BY <3>1, <3>2 DEF Placed
    <2>3. QED  BY <2>1, <2>2
  <1>5. ASSUME NEW j \in Job \ (Range(inputQueue) \cup Range(outputQueue) \cup InHand),
               inputQueue' = Append(inputQueue, j), UNCHANGED <<outputQueue, worker>>
        PROVE  TypeOK' /\ Placed'
    <2>1. ~Among(inputQueue, j) /\ ~Among(outputQueue, j) /\ \A w \in Worker : worker[w].job # j
      BY NewInput
    <2>2. /\ inputQueue' \in Seq(Job) /\ Once(inputQueue')
          /\ \A k : Among(inputQueue', k) <=> k = j \/ Among(inputQueue, k)
      BY <1>1, <1>5, <2>1, AppendIs DEF Placed
    <2>3. TypeOK'
      BY <1>1, <1>2, <1>5, <2>2 DEF TypeOK
    <2>4. Placed'
      BY <1>5, <2>1, <2>2 DEF Placed
    <2>5. QED  BY <2>3, <2>4
  <1> HIDE DEF Same
  <1>6. TypeOK' /\ Placed'
    BY <1>4, <1>5, UserIs
  <1>7. QED  BY <1>3, <1>6

LEMMA UserCounts ==
    ASSUME ThreadPoolAssumption, TypeOK, TypeOK', CountsRight, UserStep
    PROVE  CountsRight'
  <1>1. /\ numThreadsWorking = Count(InRound) /\ numThreadsRunning = Count(Alive)
        /\ numThreadsWorking \in Int /\ numThreadsRunning \in Int
    BY CountsAre DEF TypeOK
  <1>2. SUFFICES numThreadsWorking' = Count(InRound)' /\ numThreadsRunning' = Count(Alive)'
    <2>1. Working' = {v \in Worker : worker'[v].at \in InRound}
      BY DEF Working, InRound
    <2>2. {v \in Worker : worker'[v].at \notin {"off", "created"}} = {v \in Worker : worker'[v].at \in Alive}
      BY DEF TypeOK, Alive
    <2>3. QED  BY <2>1, <2>2 DEF CountsRight, Count
  <1>3. CASE worker' = worker /\ UNCHANGED <<numThreadsWorking, numThreadsRunning>>
    BY <1>1, <1>3 DEF Count
  <1>4. CASE /\ worker' = worker /\ numThreadsWorking' = 0 /\ UNCHANGED numThreadsRunning
             /\ \A w \in Worker : worker[w].at = "off"
    <2>1. {w \in Worker : worker[w].at \in InRound} = {}
      BY <1>4 DEF InRound
    <2>2. Count(InRound) = 0
      BY <2>1, FS_EmptySet DEF Count
    <2>3. QED  BY <1>1, <1>4, <2>2 DEF Count
  <1>5. ASSUME NEW w \in Worker, worker[w].at = "off", MovesTo(w, "created", worker[w].job),
               UNCHANGED <<numThreadsWorking, numThreadsRunning>>
        PROVE  numThreadsWorking' = Count(InRound)' /\ numThreadsRunning' = Count(Alive)'
    <2>1. worker[w].job \in Job \cup {None} /\ "created" \in Places
      BY DEF TypeOK, Places
    <2>2. Count(InRound)' = Count(InRound) + (IF "created" \in InRound THEN 1 ELSE 0)
                                           - (IF worker[w].at \in InRound THEN 1 ELSE 0)
      BY <1>5, <2>1, CountMoves
    <2>3. Count(Alive)' = Count(Alive) + (IF "created" \in Alive THEN 1 ELSE 0)
                                       - (IF worker[w].at \in Alive THEN 1 ELSE 0)
      BY <1>5, <2>1, CountMoves
    <2>4. QED  BY <1>1, <1>5, <2>2, <2>3 DEF InRound, Alive, Places
  <1>6. QED  BY <1>3, <1>4, <1>5, UserIs

\* What the user's place becomes, and the mutex with it.
LEMMA UserMovesTo ==
    ASSUME TypeOK, UserStep
    PROVE  /\ user' = "paused" => /\ worker' = worker
                                  /\ user = "paused" \/ (user = "pausing" /\ numThreadsWorking = 0)
           /\ user' \in {"pausing", "paused"} =>
                 \/ workingThreadCountMutex'
                 \/ user \in {"pausing", "paused"} /\ UNCHANGED workingThreadCountMutex
  <1>1. CASE StartThreads \/ CreateFails \/ StopThreads \/ Pause \/ Resume
    BY <1>1 DEF StartThreads, CreateFails, StopThreads, Pause, Resume, UserMoves, mutexes
  <1>2. CASE CreateThread
    BY <1>2 DEF CreateThread, mutexes
  <1>3. CASE Started \/ Stopped \/ Paused \/ ClearOutput
    BY <1>3 DEF Started, Stopped, Paused, ClearOutput, UserMoves, mutexes
  <1>4. CASE IsWorking \/ IsWorkingInput \/ IsWorkingCount \/ IsWorkingReturns
    BY <1>4 DEF IsWorking, IsWorkingInput, IsWorkingCount, IsWorkingReturns, UserMoves, mutexes
  <1>5. CASE AddInput \/ GetOutput \/ LockInput \/ RemoveInputAtIndex \/ UnlockInput
    <2>1. UNCHANGED <<worker, user, workingThreadCountMutex>>
      BY <1>5 DEF AddInput, GetOutput, LockInput, RemoveInputAtIndex, UnlockInput, mutexes
    <2>2. QED  BY <2>1
  <1>6. CASE Clear
    BY <1>6 DEF Clear
  <1>7. QED  BY <1>1, <1>2, <1>3, <1>4, <1>5, <1>6 DEF UserStep, UserGoesOn

LEMMA UserQuiet ==
    ASSUME ThreadPoolAssumption, TypeOK, CountsRight, Held, PausedQuiet, UserStep
    PROVE  Held' /\ PausedQuiet'
  <1>1. Held'
    BY UserMovesTo DEF Held
  <1>2. ASSUME user' = "paused"
        PROVE  Working' = {}
    <2>1. worker' = worker /\ (user = "paused" \/ (user = "pausing" /\ numThreadsWorking = 0))
      BY <1>2, UserMovesTo
    <2>2. CASE user = "paused"
      BY <2>1, <2>2 DEF PausedQuiet, Working
    <2>3. CASE numThreadsWorking = 0
      <3>1. Count(InRound) = 0
        BY <2>3, CountsAre
      <3>2. \A w \in Worker : worker[w].at \notin InRound
        BY <3>1, Counted
      <3>3. QED  BY <2>1, <3>2 DEF Working, InRound
    <2>4. QED  BY <2>1, <2>2, <2>3
  <1>3. QED  BY <1>1, <1>2 DEF PausedQuiet

-----------------------------------------------------------------------------
LEMMA SoundInit == ThreadPoolAssumption /\ Init => Sound
  <1> SUFFICES ASSUME ThreadPoolAssumption, Init
               PROVE  Sound
    OBVIOUS
  <1>1. \A w \in Worker : worker[w] = Off
    BY DEF Init
  <1>2. TypeOK
    BY DEF Init, TypeOK, Off, Places
  <1>3. InCallback /\ Held /\ PausedQuiet
    BY <1>1 DEF Init, InCallback, Held, PausedQuiet, Off
  <1>4. Placed
    BY <1>1 DEF Init, Placed, Once, Among, Off
  <1>5. CountsRight
    <2>1. Working = {} /\ {w \in Worker : worker[w].at \notin {"off", "created"}} = {}
      BY <1>1 DEF Working, Off
    <2>2. QED  BY <2>1, FS_EmptySet DEF CountsRight, Init
  <1>6. QED  BY <1>2, <1>3, <1>4, <1>5 DEF Sound

LEMMA SoundStep ==
    ASSUME ThreadPoolAssumption, Sound, [Next]_vars
    PROVE  Sound'
  <1>1. TypeOK /\ InCallback /\ Placed /\ CountsRight /\ Held /\ PausedQuiet
    BY DEF Sound
  <1>2. ASSUME NEW w \in Worker, WorkerThread(w)
        PROVE  Sound'
    <2>1. TypeOK' /\ InCallback' /\ Placed'
      BY <1>1, <1>2, WorkerPlaced
    <2>2. CountsRight'
      BY <1>1, <1>2, <2>1, WorkerCounts
    <2>3. Held' /\ PausedQuiet'
      BY <1>1, <1>2, WorkerQuiet
    <2>4. QED  BY <2>1, <2>2, <2>3 DEF Sound
  <1>3. CASE UserStep
    <2>1. TypeOK' /\ InCallback' /\ Placed'
      BY <1>1, <1>3, UserPlaced
    <2>2. CountsRight'
      BY <1>1, <1>3, <2>1, UserCounts
    <2>3. Held' /\ PausedQuiet'
      BY <1>1, <1>3, UserQuiet
    <2>4. QED  BY <2>1, <2>2, <2>3 DEF Sound
  <1>4. CASE UNCHANGED vars
    BY <1>1, <1>4 DEF vars, counts, queues, mutexes, Sound, TypeOK, InCallback, Placed, CountsRight,
                      Held, PausedQuiet, Working
  <1>5. QED  BY <1>2, <1>3, <1>4 DEF Next

\* Every interleaving of the user's calls with the threads keeps the invariant.
THEOREM SoundHolds == ThreadPoolAssumption => (Spec => []Sound)
  <1>1. ThreadPoolAssumption /\ Init => Sound
    BY SoundInit
  <1>2. ThreadPoolAssumption /\ Sound /\ [Next]_vars => Sound'
    BY SoundStep
  <1> SUFFICES ASSUME ThreadPoolAssumption
               PROVE  Spec => []Sound
    OBVIOUS
  <1>3. QED  BY <1>1, <1>2, PTL DEF Spec

LEMMA SoundIsOnePlace == ThreadPoolAssumption /\ Sound => OnePlace
  <1> SUFFICES ASSUME ThreadPoolAssumption, Sound
               PROVE  OnePlace
    OBVIOUS
  <1>1. TypeOK /\ Placed
    BY DEF Sound
  <1>2. /\ inputQueue \in Seq(Job) /\ outputQueue \in Seq(Job)
        /\ DOMAIN inputQueue = 1 .. Len(inputQueue) /\ DOMAIN outputQueue = 1 .. Len(outputQueue)
    BY <1>1 DEF TypeOK
  <1>3. /\ \A j : j \in Range(inputQueue) => Among(inputQueue, j)
        /\ \A j : j \in Range(outputQueue) => Among(outputQueue, j)
    BY <1>2 DEF Range, Among
  <1>4. InHand \cap (Range(inputQueue) \cup Range(outputQueue)) = {}
    <2>1. SUFFICES ASSUME NEW w \in Worker, worker[w].job # None
                   PROVE  worker[w].job \notin Range(inputQueue) /\ worker[w].job \notin Range(outputQueue)
      BY DEF InHand
    <2>2. QED  BY <1>1, <1>3, <2>1 DEF Placed
  <1>5. IsInjective(inputQueue \o outputQueue)
    <2> DEFINE p == inputQueue
               q == outputQueue
               r == p \o q
    <2>1. Once(p) /\ Once(q) /\ \A j : ~(Among(p, j) /\ Among(q, j))
      BY <1>1 DEF Placed
    <2>2. /\ p \in Seq(Job) /\ q \in Seq(Job) /\ Len(p) \in Nat /\ Len(q) \in Nat
          /\ DOMAIN r = 1 .. Len(p) + Len(q)
          /\ \A k \in 1 .. Len(p) + Len(q) : r[k] = IF k <= Len(p) THEN p[k] ELSE q[k - Len(p)]
      BY <1>2
    <2> HIDE DEF p, q, r
    <2>3. ASSUME NEW a \in DOMAIN r, NEW b \in DOMAIN r, r[a] = r[b], a <= Len(p), ~(b <= Len(p))
          PROVE  FALSE
      <3>1. a \in 1 .. Len(p) /\ p[a] = r[a]
        BY <2>2, <2>3
      <3>2. b - Len(p) \in 1 .. Len(q) /\ q[b - Len(p)] = r[a]
        BY <2>2, <2>3
      <3>3. Among(p, r[a]) /\ Among(q, r[a])
        BY <3>1, <3>2 DEF Among
      <3>4. QED  BY <2>1, <3>3
    <2>4. ASSUME NEW a \in DOMAIN r, NEW b \in DOMAIN r, r[a] = r[b], a <= Len(p), b <= Len(p)
          PROVE  a = b
      BY <2>1, <2>2, <2>4 DEF Once
    <2>5. ASSUME NEW a \in DOMAIN r, NEW b \in DOMAIN r, r[a] = r[b], ~(a <= Len(p)), ~(b <= Len(p))
          PROVE  a = b
      <3>1. a - Len(p) \in 1 .. Len(q) /\ q[a - Len(p)] = r[a]
        BY <2>2, <2>5
      <3>2. b - Len(p) \in 1 .. Len(q) /\ q[b - Len(p)] = r[a]
        BY <2>2, <2>5
      <3>3. a - Len(p) = b - Len(p)
        BY <2>1, <3>1, <3>2 DEF Once
      <3>4. QED  BY <2>2, <3>3
    <2>6. \A a, b \in DOMAIN r : r[a] = r[b] => a = b
      BY <2>3, <2>4, <2>5
    <2>7. QED  BY <2>6 DEF IsInjective, p, q, r
  <1>6. QED  BY <1>1, <1>4, <1>5 DEF OnePlace, Placed

\* No two threads ever work on the same input, nor is it in a queue while one does,
\* whatever is added, taken, removed or cleared in between.
THEOREM OnePlaceHolds == ThreadPoolAssumption => (Spec => []OnePlace)
  <1> SUFFICES ASSUME ThreadPoolAssumption
               PROVE  Spec => []OnePlace
    OBVIOUS
  <1>1. Sound => OnePlace
    BY SoundIsOnePlace
  <1>2. QED  BY <1>1, SoundHolds, PTL

\* The counters that StopThreads, Pause and IsWorking wait for or ask are those of the
\* threads, across any number of starts, failed starts and stops.
THEOREM CountsRightHolds == ThreadPoolAssumption => (Spec => []CountsRight)
  <1>1. Sound => CountsRight
    BY DEF Sound
  <1>2. QED  BY <1>1, SoundHolds, PTL

\* While the user has paused the pool no thread is in a callback or enters one.
THEOREM PausedQuietHolds == ThreadPoolAssumption => (Spec => []PausedQuiet)
  <1>1. Sound => PausedQuiet
    BY DEF Sound
  <1>2. QED  BY <1>1, SoundHolds, PTL

-----------------------------------------------------------------------------
(* Stopping.                                                               *)

Starting == user \in {"creating", "starting"}

\* Only a pool that starts has threads that have not counted themselves, and one
\* that is off and not waiting for its threads has none.
Ended ==
    /\ ~runThreads => ~Starting
    /\ ~Starting => \A w \in Worker : worker[w].at # "created"
    /\ ~runThreads /\ user # "stopping" => \A w \in Worker : worker[w].at = "off"

LEMMA WorkerEnded ==
    ASSUME TypeOK, Ended, NEW w \in Worker, WorkerThread(w)
    PROVE  Ended'
  <1>1. UNCHANGED <<runThreads, user, workingThreadCountMutex>>
    BY WorkerKeeps
  <1>2. worker[w].at # "off"
    BY WorkerIs
  <1>3. PICK place \in Places \ {"created"}, job \in Job \cup {None} : MovesTo(w, place, job)
    <2>1. worker[w].job \in Job \cup {None} /\ (inputQueue # <<>> => Head(inputQueue) \in Job)
      BY TailIs DEF TypeOK
    <2>2. {"check", "enter", "leave", "fetch", "call", "exit", "off"} \subseteq Places \ {"created"}
      BY DEF Places
    <2>3. QED  BY <2>1, <2>2, WorkerIs
  <1>4. worker'[w].at = place /\ \A v \in Worker : v # w => worker'[v] = worker[v]
    BY <1>3, MovedIs
  <1>5. QED  BY <1>1, <1>2, <1>4 DEF Ended, Starting

LEMMA UserEnded ==
    ASSUME ThreadPoolAssumption, ~CreateMayFail, TypeOK, CountsRight, Ended, UserStep
    PROVE  Ended'
  <1>1. CASE StartThreads
    BY <1>1 DEF StartThreads, UserMoves, At, Ended, Starting
  <1>2. CASE CreateThread
    <2>1. Starting /\ runThreads /\ Starting' /\ runThreads'
      BY <1>2 DEF CreateThread, Ended, Starting
    <2>2. QED  BY <2>1 DEF Ended
  <1>3. CASE CreateFails
    BY <1>3 DEF CreateFails
  <1>4. CASE Started
    <2>1. numThreadsRunning = Cardinality(Worker) /\ user = "starting" /\ UNCHANGED <<runThreads, worker>>
      BY <1>4 DEF Started, UserMoves
    <2>2. \A w \in Worker : worker[w].at \in Alive
      BY <2>1, CountsAre, Counted
    <2>3. QED  BY <2>1, <2>2 DEF Ended, Starting, Alive
  <1>5. CASE StopThreads
    BY <1>5 DEF StopThreads, UserMoves, Ended, Starting
  <1>6. CASE Stopped
    <2>1. /\ numThreadsRunning = 0 /\ user = "stopping" /\ user' = "idle"
          /\ UNCHANGED <<runThreads, worker>>
      BY <1>6 DEF Stopped, UserMoves
    <2>2. \A w \in Worker : worker[w].at \notin Alive
      BY <2>1, CountsAre, Counted
    <2>3. \A w \in Worker : worker[w].at = "off"
      <3>1. \A w \in Worker : worker[w].at \in Places /\ worker[w].at # "created"
        BY <2>1 DEF TypeOK, Ended, Starting
      <3>2. QED  BY <2>2, <3>1 DEF Alive
    <2>4. QED  BY <2>1, <2>3 DEF Ended, Starting
  <1>7. CASE Pause \/ Paused \/ Resume \/ ClearOutput
    <2>1. /\ UNCHANGED <<runThreads, worker>> /\ user # "stopping" /\ ~Starting
          /\ user' \in {"pausing", "paused", "idle"}
      BY <1>7 DEF Pause, Paused, Resume, ClearOutput, UserMoves, Starting
    <2>2. QED  BY <2>1 DEF Ended, Starting
  <1>8. CASE IsWorking \/ IsWorkingInput \/ IsWorkingCount \/ IsWorkingReturns
    <2>1. /\ UNCHANGED <<runThreads, worker>> /\ user # "stopping" /\ ~Starting
          /\ user' \in {"idle", "askInput", "askCount", "notWorking"}
      BY <1>8 DEF IsWorking, IsWorkingInput, IsWorkingCount, IsWorkingReturns, UserMoves, Starting
    <2>2. QED  BY <2>1 DEF Ended, Starting
  <1>9. CASE AddInput \/ GetOutput \/ LockInput \/ RemoveInputAtIndex \/ UnlockInput
    <2>1. UNCHANGED <<runThreads, worker, user>>
      BY <1>9 DEF AddInput, GetOutput, LockInput, RemoveInputAtIndex, UnlockInput
    <2>2. QED  BY <2>1 DEF Ended, Starting
  <1>10. CASE Clear
    <2>1. /\ UNCHANGED <<runThreads, worker>> /\ user = "idle" /\ user' \in {"idle", "clearing"}
      BY <1>10 DEF Clear
    <2>2. QED  BY <2>1 DEF Ended, Starting
  <1>11. QED  BY <1>1, <1>2, <1>3, <1>4, <1>5, <1>6, <1>7, <1>8, <1>9, <1>10 DEF UserStep, UserGoesOn

\* If every thread can be created, none is left when StopThreads has returned.
THEOREM StopsAllHolds == ThreadPoolAssumption /\ ~CreateMayFail => (Spec => []StopsAll)
  <1> SUFFICES ASSUME ThreadPoolAssumption, ~CreateMayFail
               PROVE  Spec => []StopsAll
    OBVIOUS
  <1>1. Init => Ended
    BY DEF Init, Ended, Starting, Off
  <1>2. Sound /\ Ended /\ [Next]_vars => Ended'
    <2> SUFFICES ASSUME Sound, Ended, [Next]_vars
                 PROVE  Ended'
      OBVIOUS
    <2>1. TypeOK /\ CountsRight
      BY DEF Sound
    <2>2. ASSUME NEW w \in Worker, WorkerThread(w)
          PROVE  Ended'
      BY <2>1, <2>2, WorkerEnded
    <2>3. CASE UserStep
      BY <2>1, <2>3, UserEnded
    <2>4. CASE UNCHANGED vars
      BY <2>4 DEF vars, Ended, Starting
    <2>5. QED  BY <2>2, <2>3, <2>4 DEF Next
  <1>3. Ended => StopsAll
    BY DEF Ended, StopsAll, At
  <1>4. QED  BY <1>1, <1>2, <1>3, SoundHolds, PTL DEF Spec
=============================================================================
