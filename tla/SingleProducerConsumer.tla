----------------------- MODULE SingleProducerConsumer -----------------------
(***************************************************************************)
(* The lock-free queue of SingleProducerConsumer.h: a ring of blocks, one  *)
(* thread that writes and one that reads.  Each access of a thread to a    *)
(* variable the other one writes is a step of its own; the variables are   *)
(* volatile, which for the compiler of the project orders them.            *)
(***************************************************************************)
EXTENDS Naturals, Sequences, FiniteSets

CONSTANTS Value,       \* data passed
          NoValue,     \* a block that was never written
          MinListSize, \* MINIMUM_LIST_SIZE
          MaxBlocks,   \* bound of the model: blocks that exist at a time
          ClearUnread  \* may Clear be called with data that is not read

SingleProducerConsumerAssumption ==
    /\ MinListSize \in Nat \ {0, 1, 2}
    /\ MaxBlocks \in Nat /\ MaxBlocks >= MinListSize
    /\ ClearUnread \in BOOLEAN

Block == 1 .. MaxBlocks

VARIABLES
    next, readyToRead, object,     \* the fields of each block
    blocks,                        \* blocks that are allocated
    writePointer, writeAheadPointer,
    readPointer, readAheadPointer,
    writing,                       \* where the producer is
    reading                        \* where the consumer is

memory  == <<next, readyToRead, object, blocks>>
writes  == <<writePointer, writeAheadPointer, writing>>
reads   == <<readPointer, readAheadPointer, reading>>
vars    == <<memory, writes, reads>>

Init ==
    /\ blocks = 1 .. MinListSize
    /\ next = [b \in Block |-> IF b = MinListSize THEN 1 ELSE b + 1]
    /\ readyToRead = [b \in Block |-> FALSE]
    /\ object = [b \in Block |-> NoValue]
    /\ writePointer = 1 /\ writeAheadPointer = 1
    /\ readPointer = 1 /\ readAheadPointer = 1
    /\ writing = "idle" /\ reading = "idle"

\* The block k steps behind b, and the blocks from one to another.
Behind(b, k) ==
    LET at[n \in 0 .. k] == IF n = 0 THEN b ELSE next[at[n - 1]] IN at[k]

Between(from, to) ==
    LET n == CHOOSE k \in 0 .. MaxBlocks :
                /\ Behind(from, k) = to
                /\ \A j \in 0 .. k - 1 : Behind(from, j) # to
    IN [i \in 1 .. n |-> Behind(from, i - 1)]

Locked == Between(writePointer, writeAheadPointer)
Taken  == Between(readPointer, readAheadPointer)
Unread == Between(readAheadPointer, writePointer)

-----------------------------------------------------------------------------
(* The producer.                                                           *)

\* Mutant: one block too early.
WriteLockEarly ==
    /\ writing = "idle"
    /\ \/ blocks # Block     \* bound of the model
       \/ ~readyToRead[next[writeAheadPointer]] /\ next[next[writeAheadPointer]] # readPointer
    /\ writing' = IF next[next[writeAheadPointer]] = readPointer THEN "grow" ELSE "test"
    /\ UNCHANGED <<memory, reads, writePointer, writeAheadPointer>>

\* WriteLock: writeAheadPointer->next == readPointer ...
WriteLock ==
    /\ writing = "idle"
    /\ \/ blocks # Block     \* bound of the model
       \/ ~readyToRead[next[writeAheadPointer]] /\ next[writeAheadPointer] # readPointer
    /\ writing' = IF next[writeAheadPointer] = readPointer THEN "grow" ELSE "test"
    /\ UNCHANGED <<memory, reads, writePointer, writeAheadPointer>>

\* ... or writeAheadPointer->next->readyToRead.
WriteLockTest ==
    /\ writing = "test"
    /\ writing' = IF readyToRead[next[writeAheadPointer]] THEN "grow" ELSE "take"
    /\ UNCHANGED <<memory, reads, writePointer, writeAheadPointer>>

\* Mutant: the new block is not linked to the rest of the ring.
WriteLockGrowShort ==
    /\ writing = "grow"
    /\ \E new \in Block \ blocks :
          /\ \A b \in Block \ blocks : new <= b
          /\ blocks' = blocks \cup {new}
          /\ next' = [next EXCEPT ![writeAheadPointer] = new,
                                  ![new] = next[next[writeAheadPointer]]]
          /\ readyToRead' = [readyToRead EXCEPT ![new] = FALSE]
          /\ object' = [object EXCEPT ![new] = NoValue]
    /\ writing' = "take"
    /\ UNCHANGED <<reads, writePointer, writeAheadPointer>>

\* A new block behind the one that will be returned.
WriteLockGrow ==
    /\ writing = "grow"
    /\ \E new \in Block \ blocks :
          /\ \A b \in Block \ blocks : new <= b
          /\ blocks' = blocks \cup {new}
          /\ next' = [next EXCEPT ![writeAheadPointer] = new,
                                  ![new] = next[writeAheadPointer]]
          /\ readyToRead' = [readyToRead EXCEPT ![new] = FALSE]
          /\ object' = [object EXCEPT ![new] = NoValue]
    /\ writing' = "take"
    /\ UNCHANGED <<reads, writePointer, writeAheadPointer>>

\* Mutant: the block behind is returned.
WriteLockReturnNext ==
    /\ writing = "take"
    /\ \E v \in Value : object' = [object EXCEPT ![next[writeAheadPointer]] = v]
    /\ writeAheadPointer' = next[writeAheadPointer]
    /\ writing' = "idle"
    /\ UNCHANGED <<next, readyToRead, blocks, reads, writePointer>>

\* The block is returned and the producer writes to it.
WriteLockReturn ==
    /\ writing = "take"
    /\ \E v \in Value : object' = [object EXCEPT ![writeAheadPointer] = v]
    /\ writeAheadPointer' = next[writeAheadPointer]
    /\ writing' = "idle"
    /\ UNCHANGED <<next, readyToRead, blocks, reads, writePointer>>

\* CancelWriteLock: of a block that is locked and those locked after it.
CancelWriteLock ==
    /\ writing = "idle"
    /\ \E i \in 1 .. Len(Locked) : writeAheadPointer' = Locked[i]
    /\ UNCHANGED <<memory, reads, writePointer, writing>>

\* WriteUnlock: the flag, then the pointer.
WriteUnlock ==
    /\ writing = "idle" /\ writePointer # writeAheadPointer
    /\ readyToRead' = [readyToRead EXCEPT ![writePointer] = TRUE]
    /\ writing' = "unlock"
    /\ UNCHANGED <<next, object, blocks, reads, writePointer, writeAheadPointer>>

WriteUnlocked ==
    /\ writing = "unlock"
    /\ writePointer' = next[writePointer]
    /\ writing' = "idle"
    /\ UNCHANGED <<memory, reads, writeAheadPointer>>

-----------------------------------------------------------------------------
(* The consumer.                                                           *)

\* ReadLock: nothing to read while readAheadPointer == writePointer ...
ReadLock ==
    /\ reading = "idle" /\ readAheadPointer # writePointer
    /\ reading' = "test"
    /\ UNCHANGED <<memory, writes, readPointer, readAheadPointer>>

\* ... or the block is not ready.
ReadLockTest ==
    /\ reading = "test"
    /\ readAheadPointer' = IF readyToRead[readAheadPointer]
                           THEN next[readAheadPointer] ELSE readAheadPointer
    /\ reading' = "idle"
    /\ UNCHANGED <<memory, writes, readPointer>>

\* CancelReadLock: of a block that is locked and those locked after it.
CancelReadLock ==
    /\ reading = "idle"
    /\ \E i \in 1 .. Len(Taken) : readAheadPointer' = Taken[i]
    /\ UNCHANGED <<memory, writes, readPointer, reading>>

\* ReadUnlock: the flag, then the pointer.
ReadUnlock ==
    /\ reading = "idle" /\ readAheadPointer # readPointer
    /\ readyToRead' = [readyToRead EXCEPT ![readPointer] = FALSE]
    /\ reading' = "unlock"
    /\ UNCHANGED <<next, object, blocks, writes, readPointer, readAheadPointer>>

ReadUnlocked ==
    /\ reading = "unlock"
    /\ readPointer' = next[readPointer]
    /\ reading' = "idle"
    /\ UNCHANGED <<memory, writes, readAheadPointer>>

-----------------------------------------------------------------------------

\* Clear, which no other call may overlap: the blocks behind readPointer go
\* until MinListSize are left.  No flag is reset.
Clear ==
    /\ writing = "idle" /\ reading = "idle"
    /\ Locked = <<>> /\ Taken = <<>>
    /\ ClearUnread \/ Unread = <<>>
    /\ LET surplus == Cardinality(blocks) - MinListSize
           gone    == {Behind(readPointer, k) : k \in 1 .. surplus}
       IN /\ blocks' = blocks \ gone
          /\ next' = [next EXCEPT ![readPointer] = Behind(readPointer, surplus + 1)]
    /\ writePointer' = readPointer
    /\ writeAheadPointer' = readPointer
    /\ readAheadPointer' = readPointer
    /\ UNCHANGED <<readyToRead, object, writing, readPointer, reading>>

Producer ==
    \/ WriteLock \/ WriteLockTest \/ WriteLockGrow \/ WriteLockReturn
    \/ CancelWriteLock \/ WriteUnlock \/ WriteUnlocked

Consumer ==
    ReadLock \/ ReadLockTest \/ CancelReadLock \/ ReadUnlock \/ ReadUnlocked

Next == Producer \/ Consumer \/ Clear

Spec == Init /\ [][Next]_vars

-----------------------------------------------------------------------------
(* Properties.                                                             *)

Queue == INSTANCE Channel
    WITH taken  <- [i \in 1 .. Len(Taken) |-> object[Taken[i]]],
         unread <- [i \in 1 .. Len(Unread) |-> object[Unread[i]]]

\* Whatever the two threads interleave, what WriteUnlock publishes is what
\* ReadLock returns, in that order and once, and no block changes under the
\* consumer: the ring implements a channel.
ImplementsChannel ==
    [Queue!Next]_<<[i \in 1 .. Len(Taken) |-> object[Taken[i]]],
                   [i \in 1 .. Len(Unread) |-> object[Unread[i]]]>>

\* The blocks form one ring through every pointer, and those the producer has
\* locked, those the consumer holds and those in between do not overlap: a
\* block is never written that can be read, though neither thread ever waits.
OneRing ==
    /\ {Behind(readPointer, k) : k \in 1 .. Cardinality(blocks)} = blocks
    /\ Behind(readPointer, Cardinality(blocks)) = readPointer
    /\ writePointer \in blocks /\ readAheadPointer \in blocks
    /\ Len(Taken) + Len(Unread) + Len(Locked) < Cardinality(blocks)

\* The buffer is circular: it only grows when every block is in use but the one
\* that WriteLock is about to return.
GrowsWhenFull ==
    writing # "grow" /\ writing' = "grow" =>
        Len(Taken) + Len(Unread) + Len(Locked) + 1 = Cardinality(blocks)
=============================================================================
