---------------------- MODULE ThreadsafeAllocatingQueue ----------------------
(***************************************************************************)
(* The class ThreadsafeAllocatingQueue of DS_ThreadsafeAllocatingQueue.h:  *)
(* a SequenceQueue under queueMutex and a BlockPool under memoryPoolMutex. *)
(* Producers allocate and push, consumers pop and deallocate.  A method    *)
(* that holds one mutex from its first read to its last write is one step. *)
(***************************************************************************)
EXTENDS Naturals, Sequences, FiniteSets

CONSTANTS Structure,    \* the blocks of the pool
          Producer, Consumer,
          Seekers,      \* the consumers that look with operator[] and take with RemoveAtIndex
          MayClear,     \* the threads that call Clear
          ClearsAlone,  \* is no other thread in a method while one is in Clear
          None          \* no thread, no structure

Thread == Producer \cup Consumer

ThreadsafeAllocatingQueueAssumption ==
    /\ Seekers \subseteq Consumer /\ MayClear \subseteq Thread /\ ClearsAlone \in BOOLEAN
    /\ None \notin Structure \cup Thread

VARIABLES queue,      \* the member queue
          allocated,  \* what the member memoryPool has given away
          holds,      \* the structures each thread has
          pc,         \* what each thread is doing
          seen,       \* the position and the structure a seeker saw
          i,          \* the local variable of Clear, which holds memoryPoolMutex
          poolMutex   \* who has memoryPoolMutex

vars == <<queue, allocated, holds, pc, seen, i, poolMutex>>

Queue == INSTANCE SequenceQueue WITH Value <- Structure, items <- queue
Pool == INSTANCE BlockPool

Goes(t, where) == pc' = [pc EXCEPT ![t] = where]
Has(t, s) == holds' = [holds EXCEPT ![t] = @ \cup {s}]
Loses(t, s) == holds' = [holds EXCEPT ![t] = @ \ {s}]

Clearing(t) == pc[t] \in {"destroy", "release", "emptied", "unlocked"}

\* A thread calls a method.
Calls(t) == pc[t] = "idle" /\ (ClearsAlone => \A u \in Thread : ~Clearing(u))

-----------------------------------------------------------------------------
(* Producers.                                                              *)

Allocate(t, s) ==
    /\ Calls(t) /\ t \in Producer /\ poolMutex = None
    /\ Pool!Allocate(s) /\ Has(t, s)
    /\ UNCHANGED <<queue, pc, seen, i, poolMutex>>

Push(t, s) ==
    /\ Calls(t) /\ t \in Producer /\ s \in holds[t]
    /\ Queue!Push(s) /\ Loses(t, s)
    /\ UNCHANGED <<allocated, pc, seen, i, poolMutex>>

-----------------------------------------------------------------------------
(* Consumers.                                                              *)

\* Mutant: the last one pushed.
TakeLast(t) == Queue!PopTail /\ Has(t, queue[Len(queue)])

Take(t) == Queue!Pop /\ Has(t, Head(queue))

Pop(t) ==
    /\ Calls(t) /\ t \in Consumer
    /\ Take(t)
    /\ UNCHANGED <<allocated, pc, seen, i, poolMutex>>

\* PopInaccurate looks before it locks ...
PopInaccurateLooks(t) ==
    /\ Calls(t) /\ t \in Consumer /\ queue # <<>>
    /\ Goes(t, "looked")
    /\ UNCHANGED <<queue, allocated, holds, seen, i, poolMutex>>

\* ... and once more after.
PopInaccurateLocks(t) ==
    /\ pc[t] = "looked"
    /\ \/ Take(t)
       \/ queue = <<>> /\ UNCHANGED <<queue, holds>>
    /\ Goes(t, "idle")
    /\ UNCHANGED <<allocated, seen, i, poolMutex>>

\* operator[].
Look(t) ==
    /\ Calls(t) /\ t \in Seekers
    /\ \E k \in DOMAIN queue : seen' = [seen EXCEPT ![t] = <<k - 1, queue[k]>>]
    /\ Goes(t, "seen")
    /\ UNCHANGED <<queue, allocated, holds, i, poolMutex>>

\* The seeker takes what it saw; a position past the end removes nothing.
RemoveAtIndex(t) ==
    /\ pc[t] = "seen"
    /\ LET position == seen[t][1]
       IN  \/ Queue!RemoveAtIndex(position)
           \/ position >= Len(queue) /\ UNCHANGED queue
    /\ Has(t, seen[t][2])
    /\ Goes(t, "idle")
    /\ UNCHANGED <<allocated, seen, i, poolMutex>>

\* The destructor, which touches what only the caller has, and Release.
Deallocate(t, s) ==
    /\ Calls(t) /\ t \in Consumer /\ s \in holds[t] /\ poolMutex = None
    /\ Pool!Release(s) /\ Loses(t, s)
    /\ UNCHANGED <<queue, pc, seen, i, poolMutex>>

-----------------------------------------------------------------------------
(* Clear takes memoryPoolMutex twice and queueMutex never.                 *)

\* It is called when no thread has a structure, which it would lose.
ClearLocks(t) ==
    /\ Calls(t) /\ t \in MayClear /\ poolMutex = None
    /\ \A u \in Thread : holds[u] = {}
    /\ ClearsAlone => \A u \in Thread : pc[u] = "idle"
    /\ poolMutex' = t /\ i' = 0
    /\ Goes(t, "destroy")
    /\ UNCHANGED <<queue, allocated, holds, seen>>

\* The test of the loop, and the destructor of queue[i].
ClearDestroys(t) ==
    /\ pc[t] = "destroy"
    /\ Goes(t, IF i < Len(queue) THEN "release" ELSE "emptied")
    /\ UNCHANGED <<queue, allocated, holds, seen, i, poolMutex>>

\* queue[i] once more: what it is past the end is undefined, and Clear stops.
ClearReleases(t) ==
    /\ pc[t] = "release" /\ i < Len(queue)
    /\ allocated' = allocated \ {queue[i + 1]}
    /\ i' = i + 1
    /\ Goes(t, "destroy")
    /\ UNCHANGED <<queue, holds, seen, poolMutex>>

\* Mutant: the queue keeps what was released.
ClearEmptiesNothing(t) ==
    /\ pc[t] = "emptied"
    /\ poolMutex' = None
    /\ Goes(t, "unlocked")
    /\ UNCHANGED <<queue, allocated, holds, seen, i>>

ClearEmpties(t) ==
    /\ pc[t] = "emptied"
    /\ Queue!Clear
    /\ poolMutex' = None
    /\ Goes(t, "unlocked")
    /\ UNCHANGED <<allocated, holds, seen, i>>

ClearClearsPool(t) ==
    /\ pc[t] = "unlocked" /\ poolMutex = None
    /\ Pool!Clear
    /\ Goes(t, "idle")
    /\ UNCHANGED <<queue, holds, seen, i, poolMutex>>

-----------------------------------------------------------------------------
Init ==
    /\ queue = <<>> /\ allocated = {}
    /\ holds = [t \in Thread |-> {}]
    /\ pc = [t \in Thread |-> "idle"]
    /\ seen = [t \in Seekers |-> <<0, None>>]
    /\ i = 0
    /\ poolMutex = None

Clear(t) ==
    ClearLocks(t) \/ ClearDestroys(t) \/ ClearReleases(t) \/ ClearEmpties(t) \/ ClearClearsPool(t)

PopInaccurate(t) == PopInaccurateLooks(t) \/ PopInaccurateLocks(t)

Next ==
    \E t \in Thread :
        \/ Pop(t) \/ PopInaccurate(t) \/ Look(t) \/ RemoveAtIndex(t) \/ Clear(t)
        \/ \E s \in Structure : Allocate(t, s) \/ Push(t, s) \/ Deallocate(t, s)

Spec == Init /\ [][Next]_vars

-----------------------------------------------------------------------------
(* Properties.                                                             *)

Occurrences(s) == Cardinality({k \in DOMAIN queue : queue[k] = s})
Owners(s) == Cardinality({t \in Thread : s \in holds[t]})

\* Whenever nobody is in Clear, each structure is with one thread, or once in
\* the queue, or in the pool, and nowhere else.
OneOwner ==
    \/ \E t \in Thread : Clearing(t)
    \/ \A s \in Structure : Owners(s) + Occurrences(s) = IF s \in allocated THEN 1 ELSE 0

Before(s, r) == \E j, k \in DOMAIN queue : j < k /\ queue[j] = s /\ queue[k] = r

\* Structures leave the queue in the order they entered it, with one consumer
\* that pops or several.
LeaveInOrder ==
    \A s, r \in Structure : Before(s, r) /\ Occurrences(r)' = 0 => Occurrences(s)' = 0
=============================================================================
