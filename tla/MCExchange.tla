----------------------------- MODULE MCExchange -----------------------------
(***************************************************************************)
(* Small instances of what passes data between threads and systems: the    *)
(* buffer of two threads, the thread pool, the locked queue, the messages  *)
(* that keep variables the same, bit streams, and the digest that is fed   *)
(* in pieces.  As in MCStructures a behaviour is of the one that the       *)
(* variable case names.                                                    *)
(***************************************************************************)
EXTENDS Integers, Sequences

CONSTANTS d1, d2, none,
          w1, w2, j1, j2, j3,         \* workers and jobs
          s1, s2, s3, p1, p2, c1, c2  \* structures, producers and consumers

VARIABLES case,
          next, readyToRead, object, blocks,       \* a buffer of two threads
          writePointer, writeAheadPointer, readPointer, readAheadPointer, writing, reading,
          runThreads, numThreadsRunning, numThreadsWorking, inputQueue, outputQueue, inputLocked,
          workingThreadCountMutex, runThreadsMutex, worker, user,      \* a thread pool
          queue, allocated, holds, pc, seen, i, poolMutex,             \* a locked queue
          value, variableList, updatedVariablesHistory, network, receipts, copy,
          nextSendReceipt, changes, losses,                            \* delta messages
          program, tracker, compared, comparison, waiting, joined, systems, \* identical messages
          bits, written, ends, sent, readOffset, got, writerBig, readerBig, \* a bit stream
          text, fed, count, buffer, state, finalized, digest, digested      \* a digest

spc   == <<next, readyToRead, object, blocks, writePointer, writeAheadPointer,
           readPointer, readAheadPointer, writing, reading>>
pool  == <<runThreads, numThreadsRunning, numThreadsWorking, inputQueue, outputQueue, inputLocked,
           workingThreadCountMutex, runThreadsMutex, worker, user>>
taq   == <<queue, allocated, holds, pc, seen, i, poolMutex>>
delta == <<value, variableList, updatedVariablesHistory, network, receipts, copy,
           nextSendReceipt, changes, losses>>
same  == <<program, tracker, compared, comparison, waiting, joined, systems>>
bs    == <<bits, written, ends, sent, readOffset, got, writerBig, readerBig>>
md5   == <<text, fed, count, buffer, state, finalized, digest, digested>>

-----------------------------------------------------------------------------
(* The instances.  Those of one component differ in their bounds and share *)
(* its variables.                                                          *)

\* Two values and data that is cleared unread; one value and room to grow twice.
Ordered == INSTANCE SingleProducerConsumer
    WITH Value <- {d1, d2}, NoValue <- none, MinListSize <- 3, MaxBlocks <- 4, ClearUnread <- TRUE
Growing == INSTANCE SingleProducerConsumer
    WITH Value <- {d1}, NoValue <- none, MinListSize <- 3, MaxBlocks <- 4, ClearUnread <- FALSE

\* Threads that may fail to start, and more jobs than workers.
Pool == INSTANCE ThreadPool
    WITH Worker <- {w1, w2}, Job <- {j1, j2, j3}, None <- none, CreateMayFail <- TRUE, ClearStopped <- TRUE
PopQueue == INSTANCE ThreadsafeAllocatingQueue
    WITH Structure <- {s1, s2, s3}, Producer <- {p1, p2}, Consumer <- {c1, c2}, Seekers <- {},
         MayClear <- {c1}, ClearsAlone <- TRUE, None <- none
SeekQueue == INSTANCE ThreadsafeAllocatingQueue
    WITH Structure <- {s1, s2, s3}, Producer <- {p1, p2}, Consumer <- {c1}, Seekers <- {c1},
         MayClear <- {p1}, ClearsAlone <- TRUE, None <- none

\* Three variables, which need two bytes of bits.
Delta == INSTANCE VariableDelta
    WITH Variables <- 3, Value <- {d1, d2}, BitsPerByte <- 2, Garbage <- {{}, {0, 1}},
         MaxChanges <- 2, MaxLosses <- 1, MaxOutstanding <- 2
Identical == INSTANCE VariableIdentical
    WITH System <- {s1, s2, s3}, Variables <- 2, Value <- {d1, d2}, BitsPerByte <- 8, JoinsLate <- FALSE,
         value <- program, variableList <- tracker, didComparisonThisTick <- compared,
         identicalSerializationBs <- comparison, copy <- systems

\* Whole numbers behind none or one bit, fractions and rotations, and streams
\* that have lost bits at their end.
Whole == INSTANCE BitStream
    WITH Kinds <- {"bool", "short", "delta", "first", "deltabool", "compressed",
                   "compresseddelta", "casted", "range", "uint24", "address"},
         ByteBits <- 2, Shorts <- {0, 6, 15}, Ends <- {0, 7, 8, 15}, Unit <- 3,
         Tiny <- 4, Magnitudes <- {0, 4, 5, 6}, Cuts <- {0}, MaxStart <- 1, MaxFields <- 2
Rounded == INSTANCE BitStream
    WITH Kinds <- {"bool", "float", "double", "normvector", "vector", "quat", "matrix"},
         ByteBits <- 2, Shorts <- {0, 6, 15}, Ends <- {0, 7, 8, 15}, Unit <- 3,
         Tiny <- 4, Magnitudes <- {0, 4, 5, 6}, Cuts <- {0}, MaxStart <- 1, MaxFields <- 2
Cut == INSTANCE BitStream
    WITH Kinds <- {"bool", "short", "delta", "compressed", "range", "uint24", "vector"},
         ByteBits <- 2, Shorts <- {0, 6, 15}, Ends <- {0, 7, 8, 15}, Unit <- 3,
         Tiny <- 4, Magnitudes <- {0, 4, 5, 6}, Cuts <- {0, 1, 5}, MaxStart <- 1, MaxFields <- 2

Block == INSTANCE Md5Block
CountBytes(word) == Block!encode(<< <<word \div Block!Half, word % Block!Half>> >>)
AppendBlock(blocksBefore, block) == Append(blocksBefore, block)

Abc      == [n \in 1 .. 26 |-> 96 + n]
Capitals == [n \in 1 .. 26 |-> 64 + n]
Figures  == [n \in 1 .. 10 |-> 47 + n]
Eighty   == [n \in 1 .. 80 |-> 48 + (n % 10)]

\* Texts of RFC 1321, A.5, with their digests.
Known == {
    [of |-> <<>>,
     is |-> <<212, 29, 140, 217, 143, 0, 178, 4,
               233, 128, 9, 152, 236, 248, 66, 126>>],
    [of |-> <<97, 98, 99>>,
     is |-> <<144, 1, 80, 152, 60, 210, 79, 176,
               214, 150, 63, 125, 40, 225, 127, 114>>],
    [of |-> Capitals \o Abc \o Figures,
     is |-> <<209, 116, 171, 152, 210, 119, 217, 245,
               165, 97, 28, 44, 159, 65, 157, 159>>],
    [of |-> Eighty,
     is |-> <<87, 237, 244, 162, 43, 227, 201, 85,
               172, 73, 218, 46, 33, 7, 182, 122>>] }

\* The compression function of the code; and one that keeps the blocks it is
\* given, so that their order and content can be compared, with counts of ten
\* bits, so that they overflow.
Digest == INSTANCE Md5Stream
    WITH WordBits <- 30, Transform <- Block!transform, EncodeWord <- CountBytes,
         InitialWords <- Block!InitialState, Garbage <- none,
         Texts <- {test.of : test \in Known}, Pieces <- {1, 60}
Blocks == INSTANCE Md5Stream
    WITH WordBits <- 10, Transform <- AppendBlock, EncodeWord <- CountBytes,
         InitialWords <- <<>>, Garbage <- none,
         Texts <- {[n \in 1 .. 200 |-> 1000 + n]}, Pieces <- {0, 1, 7, 55, 56, 63, 64, 65, 128, 135}

ASSUME ExchangeAssumption ==
    /\ Ordered!SingleProducerConsumerAssumption /\ Growing!SingleProducerConsumerAssumption
    /\ PopQueue!ThreadsafeAllocatingQueueAssumption /\ SeekQueue!ThreadsafeAllocatingQueueAssumption
    /\ Pool!ThreadPoolAssumption /\ Delta!VariableDeltaAssumption /\ Identical!VariableIdenticalAssumption
    /\ Whole!BitStreamAssumption /\ Rounded!BitStreamAssumption /\ Cut!BitStreamAssumption
    /\ Digest!Md5StreamAssumption /\ Blocks!Md5StreamAssumption

-----------------------------------------------------------------------------
(* The suite.                                                              *)

Cases == {"ordered", "growing", "pool", "pop queue", "seek queue", "delta", "identical",
          "whole", "rounded", "cut", "digest", "blocks"}

all == <<case, spc, pool, taq, delta, same, bs, md5>>

\* Where an object may begin in one of several states, the idle one has one.
Start ==
    /\ case \in Cases
    /\ IF case = "growing" THEN Growing!Init ELSE Ordered!Init
    /\ Pool!Init
    /\ IF case = "seek queue" THEN SeekQueue!Init ELSE PopQueue!Init
    /\ Delta!Init /\ (case # "delta" => \A k \in 1 .. 3 : value[k] = d1)
    /\ Identical!Init /\ (case # "identical" => \A k \in 1 .. 2 : program[k] = d1)
    /\ Whole!Init /\ (case \notin {"whole", "rounded", "cut"} => ~writerBig /\ ~readerBig)
    /\ IF case = "digest" THEN Digest!Init ELSE Blocks!Init

\* The variables v of an object, if it is not its behaviour.
Idle(names, v) == IF case \in names THEN TRUE ELSE UNCHANGED v

OthersIdle ==
    /\ UNCHANGED case
    /\ Idle({"ordered", "growing"}, spc) /\ Idle({"pool"}, pool)
    /\ Idle({"pop queue", "seek queue"}, taq) /\ Idle({"delta"}, delta)
    /\ Idle({"identical"}, same) /\ Idle({"whole", "rounded", "cut"}, bs)
    /\ Idle({"digest", "blocks"}, md5)

Step ==
    /\ \/ case = "ordered" /\ Ordered!Next
       \/ case = "growing" /\ Growing!Next
       \/ case = "pool" /\ Pool!Next
       \/ case = "pop queue" /\ PopQueue!Next
       \/ case = "seek queue" /\ SeekQueue!Next
       \/ case = "delta" /\ Delta!Next
       \/ case = "identical" /\ Identical!Next
       \/ case = "whole" /\ Whole!Next
       \/ case = "rounded" /\ Rounded!Next
       \/ case = "cut" /\ Cut!Next
       \/ case = "digest" /\ Digest!Next
       \/ case = "blocks" /\ Blocks!Next
    /\ OthersIdle

Suite == Start /\ [][Step]_all

-----------------------------------------------------------------------------
(* The properties of the instances, each made of parts that the modules    *)
(* state.                                                                  *)

\* The blocks of the buffer of two threads are one ring, and none is written that can
\* be read; a structure of the locked queue is with one thread, once in the queue, or
\* in the pool.
OneOwner ==
    /\ case = "ordered" => Ordered!OneRing
    /\ case = "growing" => Growing!OneRing
    /\ case = "pop queue" => PopQueue!OneOwner
    /\ case = "seek queue" => SeekQueue!OneOwner

\* What the producer's WriteUnlock publishes is what the consumer's ReadLock returns, in
\* order and once, from a buffer that only grows when all its blocks are in use; and
\* structures leave the locked queue in the order they entered it.
OrderKept ==
    [][ /\ case = "ordered" => Ordered!ImplementsChannel
        /\ case = "growing" => Growing!GrowsWhenFull
        /\ case = "pop queue" => PopQueue!LeaveInOrder ]_all

\* An input of the thread pool is in one place, so that no two threads work on it; its
\* counters are those of its threads; and while it is paused no callback runs.
PoolRight ==
    case = "pool" => Pool!OnePlace /\ Pool!CountsRight /\ Pool!PausedQuiet

\* A variable that the remote system lacks is dirty, or in a message without a receipt,
\* and the bit field of a message has the variables that are in it; all systems that
\* were sent this tick's message have the same variables.
NothingForgotten ==
    /\ case = "delta" => Delta!NothingForgotten /\ Delta!BitFieldRight
    /\ case = "identical" => Identical!SameForAll

\* The systems that were sent this tick's message have the variables of the program.
Current == [][case = "identical" => Identical!Current]_all

\* The reader of a stream is where the writer was after the same calls and has read
\* what was written, as near as its size allows; a read succeeds if and only if all
\* the bits of its value arrived.
StreamsRight ==
    /\ case = "whole" => Whole!InStep /\ Whole!ReadsBack
    /\ case = "rounded" => Rounded!InStep /\ Rounded!ReadsBack
    /\ case = "cut" => Cut!SucceedsIfThere

\* However a text is cut, the digest is that of the text, and between calls the buffer
\* has the bytes that do not fill a block; for the standard's texts it is the one the
\* standard gives: transform, encode, decode and the tables are the standard's.
DigestRight ==
    /\ case = "blocks" => Blocks!DigestOfText /\ Blocks!BufferHoldsTail
    /\ case = "digest" /\ finalized => \A test \in Known :
           SubSeq(text, 1, digested) = test.of => Block!encode(digest) = test.is
=============================================================================
