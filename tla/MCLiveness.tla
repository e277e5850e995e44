----------------------------- MODULE MCLiveness -----------------------------
(***************************************************************************)
(* What must happen in the end, on small instances: the update sessions of *)
(* MCUpdateSession, a thread pool of RakNet, and its delta messages.  A    *)
(* behaviour is of the one that case names; the fairness of each is        *)
(* required while it is the case.                                          *)
(***************************************************************************)
EXTENDS MCUpdateSession

CONSTANTS w1, w2, j1, j2, none

VARIABLES case,
          runThreads, numThreadsRunning, numThreadsWorking, inputQueue, outputQueue, inputLocked,
          workingThreadCountMutex, runThreadsMutex, worker, user,   \* a thread pool
          value, variableList, updatedVariablesHistory, network, receipts, copy,
          nextSendReceipt, changes, losses                          \* delta messages

\* A pool that clears its queues only while it runs, and whose threads start.
Pool == INSTANCE ThreadPool
    WITH Worker <- {w1, w2}, Job <- {j1, j2}, None <- none, CreateMayFail <- FALSE, ClearStopped <- FALSE

\* One change and two losses: what was lost can be lost again.
Delta == INSTANCE VariableDelta
    WITH Variables <- 2, Value <- {v1, v2}, BitsPerByte <- 2, Garbage <- {{}},
         MaxChanges <- 1, MaxLosses <- 2, MaxOutstanding <- 2

ASSUME LivenessAssumption == Pool!ThreadPoolAssumption /\ Delta!VariableDeltaAssumption

Cases == {"session", "pool", "delta"}

poolVars  == <<runThreads, numThreadsRunning, numThreadsWorking, inputQueue, outputQueue, inputLocked,
               workingThreadCountMutex, runThreadsMutex, worker, user>>
deltaVars == <<value, variableList, updatedVariablesHistory, network, receipts, copy,
               nextSendReceipt, changes, losses>>
all       == <<case, vars, poolVars, deltaVars>>

Start ==
    /\ case \in Cases
    /\ Init /\ Pool!Init /\ Delta!Init
    /\ case # "delta" => \A i \in 1 .. 2 : value[i] = v1

Idle(name, v) == IF case = name THEN TRUE ELSE UNCHANGED v

Step ==
    /\ \/ case = "session" /\ Next
       \/ case = "pool" /\ Pool!Next
       \/ case = "delta" /\ Delta!Next
    /\ UNCHANGED case
    /\ Idle("session", vars) /\ Idle("pool", poolVars) /\ Idle("delta", deltaVars)

\* Fairness of UpdateSession.
SessionFairness ==
    /\ WF_vars(case = "session" /\ ServerSends)
    /\ \A c \in Client :
          /\ WF_vars(case = "session" /\ ServerServes(c))
          /\ WF_vars(case = "session" /\ ReaderThread(c))
          /\ WF_vars(case = "session" /\ (ClientConnected(c) \/ GiveUp(c)))
          /\ WF_vars(case = "session" /\ ClientLoop(c))

\* Fairness of ThreadPool.
PoolFairness ==
    /\ \A w \in {w1, w2} : WF_poolVars(case = "pool" /\ Pool!WorkerThread(w))
    /\ SF_poolVars(case = "pool" /\ \E w \in {w1, w2} : Pool!WorkerFetch(w))
    /\ WF_poolVars(case = "pool" /\ Pool!UserGoesOn)
    /\ SF_poolVars(case = "pool" /\ Pool!UnlockInput)

\* Fairness of VariableDelta.
DeltaFairness ==
    /\ WF_deltaVars(case = "delta" /\ Delta!Serialize({}))
    /\ WF_deltaVars(case = "delta" /\ Delta!Deliver)
    /\ WF_deltaVars(case = "delta" /\ \E r \in receipts : Delta!Acked(r) \/ Delta!Lost(r))

FairSuite == Start /\ [][Step]_all /\ SessionFairness /\ PoolFairness /\ DeltaFairness

-----------------------------------------------------------------------------

\* No thread is left once StopThreads has returned.
StopsAll == case = "pool" => Pool!StopsAll

\* Every input is taken while the pool runs, unless the user pauses for ever.
InputTaken == Pool!InputTaken

\* StopThreads returns.
StopReturns == Pool!StopReturns

\* When nothing changes or is lost any more the remote system has every variable.
Converges == case = "delta" => Delta!Converges
=============================================================================
