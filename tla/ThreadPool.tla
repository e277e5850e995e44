----------------------------- MODULE ThreadPool -----------------------------
(***************************************************************************)
(* The template ThreadPool of ThreadPool.h: worker threads that take       *)
(* inputs from a queue, and one user thread that calls every method.       *)
(*                                                                         *)
(* A section under a mutex that is released at its end is one step.  Two   *)
(* mutexes are variables, since a method returns with them held: Pause     *)
(* keeps workingThreadCountMutex, Clear of a pool that does not run keeps  *)
(* runThreadsMutex.  On Windows both are critical sections: the thread     *)
(* that holds one may enter it again.  The event the workers wait on only  *)
(* shortens their wait of a second and is left out, like the data and the  *)
(* factory of each thread.                                                 *)
(***************************************************************************)
EXTENDS Naturals, Sequences, FiniteSets, SequencesExt

CONSTANTS Worker,         \* threads that can be started
          Job,            \* inputs; each is in the pool at most once
          None,           \* userCallback == 0
          CreateMayFail,  \* may RakThread::Create fail
          ClearStopped    \* may Clear be called while the pool does not run

ThreadPoolAssumption ==
    /\ IsFiniteSet(Worker) /\ IsFiniteSet(Job) /\ None \notin Job
    /\ CreateMayFail \in BOOLEAN /\ ClearStopped \in BOOLEAN

VARIABLES
    runThreads, numThreadsRunning, numThreadsWorking,
    inputQueue,               \* inputQueue and inputFunctionQueue, paired
    outputQueue,
    inputLocked,              \* LockInput was called
    workingThreadCountMutex,  \* held by the user
    runThreadsMutex,          \* held by the user
    worker,                   \* where each worker is, and its input
    user                      \* where the user thread is

queues   == <<inputQueue, outputQueue, inputLocked>>
counts   == <<numThreadsRunning, numThreadsWorking>>
mutexes  == <<workingThreadCountMutex, runThreadsMutex>>
vars     == <<runThreads, counts, queues, mutexes, worker, user>>

Off == [at |-> "off", job |-> None]

Init ==
    /\ runThreads = FALSE
    /\ numThreadsRunning = 0 /\ numThreadsWorking = 0
    /\ inputQueue = <<>> /\ outputQueue = <<>> /\ inputLocked = FALSE
    /\ workingThreadCountMutex = FALSE /\ runThreadsMutex = FALSE
    /\ worker = [w \in Worker |-> Off]
    /\ user = "idle"

InHand == {worker[w].job : w \in Worker} \ {None}

-----------------------------------------------------------------------------
(* WorkerThread.                                                           *)

At(w, from) == worker[w].at = from

Moves(w, from, to) ==
    At(w, from) /\ worker' = [worker EXCEPT ![w].at = to]

WorkerStart(w) ==
    /\ Moves(w, "created", "check")
    /\ numThreadsRunning' = numThreadsRunning + 1
    /\ UNCHANGED <<runThreads, numThreadsWorking, queues, mutexes, user>>

\* runThreads, read under its mutex.
WorkerCheck(w) ==
    /\ ~runThreadsMutex
    /\ Moves(w, "check", IF runThreads THEN "enter" ELSE "leave")
    /\ UNCHANGED <<runThreads, counts, queues, mutexes, user>>

\* ++numThreadsWorking.
WorkerEnter(w) ==
    /\ ~workingThreadCountMutex
    /\ Moves(w, "enter", "fetch")
    /\ numThreadsWorking' = numThreadsWorking + 1
    /\ UNCHANGED <<runThreads, numThreadsRunning, queues, mutexes, user>>

\* Mutant: the input stays in the queue while it is processed.
WorkerFetchPeek(w) ==
    /\ ~inputLocked
    /\ At(w, "fetch")
    /\ IF inputQueue = <<>>
       THEN worker' = [worker EXCEPT ![w].at = "exit"]
       ELSE worker' = [worker EXCEPT ![w] = [at |-> "call", job |-> Head(inputQueue)]]
    /\ UNCHANGED <<runThreads, counts, mutexes, user, queues>>

\* Mutant: a thread that finds no input ends.
WorkerFetchLeaves(w) ==
    /\ ~inputLocked
    /\ At(w, "fetch")
    /\ IF inputQueue = <<>>
       THEN worker' = [worker EXCEPT ![w].at = "leave"] /\ UNCHANGED inputQueue
       ELSE /\ worker' = [worker EXCEPT ![w] = [at |-> "call", job |-> Head(inputQueue)]]
            /\ inputQueue' = Tail(inputQueue)
    /\ UNCHANGED <<runThreads, counts, mutexes, user, outputQueue, inputLocked>>

\* The next input, if there is one.
WorkerFetch(w) ==
    /\ ~inputLocked
    /\ At(w, "fetch")
    /\ IF inputQueue = <<>>
       THEN worker' = [worker EXCEPT ![w].at = "exit"] /\ UNCHANGED inputQueue
       ELSE /\ worker' = [worker EXCEPT ![w] = [at |-> "call", job |-> Head(inputQueue)]]
            /\ inputQueue' = Tail(inputQueue)
    /\ UNCHANGED <<runThreads, counts, mutexes, user, outputQueue, inputLocked>>

\* The callback, which decides whether it returns output.
WorkerCall(w) ==
    /\ At(w, "call")
    /\ worker' = [worker EXCEPT ![w] = [at |-> "exit", job |-> None]]
    /\ outputQueue' \in {outputQueue, Append(outputQueue, worker[w].job)}
    /\ UNCHANGED <<runThreads, counts, mutexes, user, inputQueue, inputLocked>>

\* --numThreadsWorking; the wait of the next round ends by itself.
WorkerExit(w) ==
    /\ ~workingThreadCountMutex
    /\ Moves(w, "exit", "check")
    /\ numThreadsWorking' = numThreadsWorking - 1
    /\ UNCHANGED <<runThreads, numThreadsRunning, queues, mutexes, user>>

\* Mutant: the thread ends without --numThreadsRunning.
WorkerLeaveCounted(w) ==
    /\ Moves(w, "leave", "off")
    /\ UNCHANGED <<runThreads, counts, queues, mutexes, user>>

WorkerLeave(w) ==
    /\ Moves(w, "leave", "off")
    /\ numThreadsRunning' = numThreadsRunning - 1
    /\ UNCHANGED <<runThreads, numThreadsWorking, queues, mutexes, user>>

WorkerThread(w) ==
    \/ WorkerStart(w) \/ WorkerCheck(w) \/ WorkerEnter(w) \/ WorkerFetch(w)
    \/ WorkerCall(w) \/ WorkerExit(w) \/ WorkerLeave(w)

-----------------------------------------------------------------------------
(* The user thread: starting and stopping.                                 *)

UserMoves(from, to) == user = from /\ user' = to

\* The user starts the pool again only when the threads of a failed start have
\* ended.
StartThreads ==
    /\ UserMoves("idle", "creating")
    /\ \A w \in Worker : At(w, "off")
    /\ ~runThreads /\ runThreads' = TRUE
    /\ numThreadsWorking' = 0
    /\ UNCHANGED <<numThreadsRunning, queues, mutexes, worker>>

\* One thread after the other; when one cannot be created, StopThreads.
CreateThread ==
    /\ user = "creating"
    /\ \E w \in Worker :
          /\ At(w, "off")
          /\ worker' = [worker EXCEPT ![w].at = "created"]
          /\ user' = IF \A v \in Worker \ {w} : ~At(v, "off")
                     THEN "starting" ELSE "creating"
    /\ UNCHANGED <<runThreads, counts, queues, mutexes>>

CreateFails ==
    /\ CreateMayFail /\ UserMoves("creating", "stopping")
    /\ runThreads' = FALSE
    /\ UNCHANGED <<counts, queues, mutexes, worker>>

\* The loop until numThreadsRunning == numThreads.
Started ==
    /\ UserMoves("starting", "idle")
    /\ numThreadsRunning = Cardinality(Worker)
    /\ UNCHANGED <<runThreads, counts, queues, mutexes, worker>>

\* Mutant: StopThreads does not wait for the threads.
StopThreadsAtOnce ==
    /\ user = "idle" /\ ~inputLocked
    /\ runThreads /\ runThreads' = FALSE
    /\ UNCHANGED <<counts, queues, mutexes, worker, user>>

\* The user calls nothing that waits while the input is locked.
StopThreads ==
    /\ UserMoves("idle", "stopping")
    /\ ~inputLocked
    /\ runThreads /\ runThreads' = FALSE
    /\ UNCHANGED <<counts, queues, mutexes, worker>>

\* The loop until numThreadsRunning == 0.
Stopped ==
    /\ UserMoves("stopping", "idle")
    /\ numThreadsRunning = 0
    /\ UNCHANGED <<runThreads, counts, queues, mutexes, worker>>

\* Mutant: numThreadsWorking is read before the mutex is taken.
PauseUnlocked ==
    /\ UserMoves("idle", "pausing")
    /\ runThreads /\ ~inputLocked
    /\ UNCHANGED <<runThreads, counts, queues, mutexes, worker>>

\* Pause takes workingThreadCountMutex ...
Pause ==
    /\ UserMoves("idle", "pausing")
    /\ runThreads /\ ~inputLocked
    /\ workingThreadCountMutex' = TRUE
    /\ UNCHANGED <<runThreads, counts, queues, runThreadsMutex, worker>>

\* ... and waits until numThreadsWorking is 0.
Paused ==
    /\ UserMoves("pausing", "paused")
    /\ numThreadsWorking = 0
    /\ UNCHANGED <<runThreads, counts, queues, mutexes, worker>>

Resume ==
    /\ UserMoves("paused", "idle")
    /\ workingThreadCountMutex' = FALSE
    /\ UNCHANGED <<runThreads, counts, queues, runThreadsMutex, worker>>

-----------------------------------------------------------------------------
(* The user thread: inputs and outputs.                                    *)

UserCalls == user \in {"idle", "paused"}

AddInput ==
    /\ UserCalls
    /\ \E j \in Job \ (Range(inputQueue) \cup Range(outputQueue) \cup InHand) :
          inputQueue' = Append(inputQueue, j)
    /\ UNCHANGED <<runThreads, counts, mutexes, worker, user, outputQueue, inputLocked>>

\* GetOutput, once HasOutput has said there is one: only the user takes any.
GetOutput ==
    /\ UserCalls /\ outputQueue # <<>>
    /\ outputQueue' = Tail(outputQueue)
    /\ UNCHANGED <<runThreads, counts, mutexes, worker, user, inputQueue, inputLocked>>

LockInput ==
    /\ UserCalls /\ ~inputLocked
    /\ inputLocked' = TRUE
    /\ UNCHANGED <<runThreads, counts, mutexes, worker, user, inputQueue, outputQueue>>

\* RemoveInputAtIndex, between LockInput and UnlockInput.
RemoveInputAtIndex ==
    /\ UserCalls /\ inputLocked
    /\ \E i \in 1 .. Len(inputQueue) : inputQueue' = RemoveAt(inputQueue, i)
    /\ UNCHANGED <<runThreads, counts, mutexes, worker, user, outputQueue, inputLocked>>

UnlockInput ==
    /\ UserCalls /\ inputLocked
    /\ inputLocked' = FALSE
    /\ UNCHANGED <<runThreads, counts, mutexes, worker, user, inputQueue, outputQueue>>

\* Clear: of a pool that runs, the input under its mutex, then the output; of
\* one that does not, both, and runThreadsMutex is not released.
Clear ==
    /\ user = "idle" /\ ~inputLocked
    /\ runThreads \/ ClearStopped
    /\ inputQueue' = <<>>
    /\ IF runThreads
       THEN user' = "clearing" /\ UNCHANGED <<outputQueue, runThreadsMutex>>
       ELSE outputQueue' = <<>> /\ runThreadsMutex' = TRUE /\ UNCHANGED user
    /\ UNCHANGED <<runThreads, counts, workingThreadCountMutex, worker, inputLocked>>

ClearOutput ==
    /\ UserMoves("clearing", "idle")
    /\ outputQueue' = <<>>
    /\ UNCHANGED <<runThreads, counts, mutexes, worker, inputQueue, inputLocked>>

\* IsWorking asks for output, then for input, then for working threads.
IsWorking ==
    /\ UserMoves("idle", IF outputQueue # <<>> THEN "idle" ELSE "askInput")
    /\ UNCHANGED <<runThreads, counts, queues, mutexes, worker>>

IsWorkingInput ==
    /\ UserMoves("askInput", IF inputQueue # <<>> THEN "idle" ELSE "askCount")
    /\ UNCHANGED <<runThreads, counts, queues, mutexes, worker>>

IsWorkingCount ==
    /\ UserMoves("askCount", IF numThreadsWorking # 0 THEN "idle" ELSE "notWorking")
    /\ UNCHANGED <<runThreads, counts, queues, mutexes, worker>>

IsWorkingReturns ==
    /\ UserMoves("notWorking", "idle")
    /\ UNCHANGED <<runThreads, counts, queues, mutexes, worker>>

\* The steps of a method after its first one.
UserGoesOn ==
    \/ CreateThread \/ Started \/ Stopped \/ Paused \/ ClearOutput
    \/ IsWorkingInput \/ IsWorkingCount \/ IsWorkingReturns

UserStep ==
    \/ StartThreads \/ CreateFails \/ StopThreads \/ Pause \/ Resume \/ UserGoesOn
    \/ AddInput \/ GetOutput \/ LockInput \/ RemoveInputAtIndex \/ UnlockInput
    \/ Clear \/ IsWorking

Next == UserStep \/ \E w \in Worker : WorkerThread(w)

\* Threads run, and the loops of StartThreads, StopThreads and Pause look again and
\* again.  A user who has locked the input unlocks it, whatever else is called in
\* between, and some thread gets the input's mutex if it is free again and again.
Fairness ==
    /\ \A w \in Worker : WF_vars(WorkerThread(w))
    /\ SF_vars(\E w \in Worker : WorkerFetch(w))
    /\ WF_vars(UserGoesOn)
    /\ SF_vars(UnlockInput)

Spec == Init /\ [][Next]_vars
FairSpec == Spec /\ Fairness

-----------------------------------------------------------------------------
(* Properties.                                                             *)

Working == {w \in Worker : worker[w].at \in {"fetch", "call", "exit"}}

\* An input is in one place: no two threads ever work on it, and it is not in
\* a queue while one does.
OnePlace ==
    /\ \A v, w \in Worker : v # w /\ worker[v].job # None => worker[v].job # worker[w].job
    /\ InHand \cap (Range(inputQueue) \cup Range(outputQueue)) = {}
    /\ IsInjective(inputQueue \o outputQueue)

\* The counters that StopThreads, Pause and IsWorking rely on are those of the
\* threads, across any number of starts and stops.
CountsRight ==
    /\ numThreadsWorking = Cardinality(Working)
    /\ numThreadsRunning = Cardinality({w \in Worker : worker[w].at \notin {"off", "created"}})

\* While the pool is paused no callback runs and none begins.
PausedQuiet == user = "paused" => Working = {}

\* Once StopThreads has returned, whether called or on the way out of a
\* StartThreads that failed, no thread is left.
StopsAll == user = "idle" /\ ~runThreads => \A w \in Worker : At(w, "off")

\* Every input is taken while the pool runs, unless the user pauses for ever.
InputTaken ==
    \A j \in Job :
        []<>(j \notin Range(inputQueue) \/ ~runThreads \/ user \in {"pausing", "paused"})

\* StopThreads returns.
StopReturns == []<>(user # "stopping")
=============================================================================
