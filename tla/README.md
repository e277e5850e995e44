# Verification of c-clientUpdater

c-clientUpdater keeps a program up to date on client machines. A server holds
the current files; a client that starts sends the list of its file hashes, the
server sends what the client lacks, and tells it which files to delete. The
network library it is built on, RakNet, is part of the repository: most of it as
a binary with headers, its containers and serializers as templates whose code is
in the headers.

This directory holds TLA+ modules translated from the C++ source (`src/`), TLC
configurations that check them on small instances, and TLAPS proofs for every
size of the instance. Source paths below are relative to `src/`; `Raknet/` stands
for `dependencies/Raknet/includes/`.

## 1. Inventory of the system

### The updater

| Component | Source | State | Operations |
|---|---|---|---|
| Update protocol, server side | `ClientUpdater/NetworkManager.cpp` `UpdateServer`, `NetworkManager.h` `FileCB` | `finishedDownloading`, `fileList`, the receivers of `fileListTransfer`, the `FileStructure<ip>.txt` files | one `case` per packet: `ID_NEW_INCOMING_CONNECTION`, `ID_SENDFILE`, `ID_CLIENTFILESEND`, disconnection, loss; `OnFile`, `OnDownloadComplete` inside `Receive()` |
| Reader threads | `FileManager.cpp` `ReadFromfileStucFileByDir`, the lambda in `UpdateServer` | the lists a thread computed; the shared `fileList`; the server's `FileStructure.txt` | read the manifest, compare, `AddFile`, reply, delete |
| Update protocol, client side | `NetworkManager.cpp` `UpdateClient`, `FileCB` | the directory, `FileStructure.txt`, `fileList`, one receiver | `ID_SENDFILE`, `ID_CLIENTCANFILESBESENT`, files, `ID_FILESFINISHED`, disconnection, loss |
| Connection set-up | `NetworkManager.cpp` `StartServer`, `StartClientConnectionToServer` | RakNet's connections, timer, tries | accept up to 2, poll, give up after 5 x 3 s |
| Hash lists | `FileManager.cpp`, `HashFile.cpp` | none (functions of a directory) | `CreateAllHashFiles`, `CreateNewFileStucFileInDir`, `FindMissingFiles`, `FindFilesToDelete`, `DeleteFilesFromDir` |
| Client and server programs | `Client/Client.cpp`, `Server/Server.cpp` | the process, the directory it leaves | `main` |
| MD5 | `ClientUpdater/md5Hash.cpp` | digest state, 64-byte buffer, bit count | `update`, `finalize`, `transform` |
| Application | `Application.cpp`, `ClientUpdater.cpp` | none | dead code: commented out, empty `main` |

**Interaction.** Both processes poll `RakPeerInterface::Receive()`. Every message
is `RELIABLE_ORDERED` on channel 0, which makes one FIFO queue per direction of
a connection, files of `FileListTransfer` included. The callbacks of `FileCB`
run inside `Receive()`, on the thread that polls. `ID_SENDFILE` makes the server
start a detached thread; the threads of several clients, and the polling thread
when it sends, share `fileList` with no lock. The upload and the thread
communicate through a file on disk, named by the client's address without its
port. `ID_CLIENTFILESEND` starts one more thread, which spins on
`finishedDownloading`, and joins it at once. What a session leaves on either disk
is the input of the next one.

**Hard behaviour, and what makes each component correct.**

* Server: it must come back to `Receive()` whatever the clients do. The flag it
  joins on is set only by its own `Receive()`, so a flag that is down at the join
  is a deadlock for all clients.
* Reader threads: unsynchronised inserts; the manifest may be another client's by
  the time it is read; the list may grow while it is being sent.
* Client: it must not delete what the server lists nor its own executable, must
  not close before its set is complete, and must end.
* Set ids: the client writes its set id as a `std::string` object, the server
  reads an `unsigned short`; the transfer works because both sides end up with 0.
* Connections break and processes end between any two steps; the server has two
  connection slots.
* Hash lists: only the first token of a file is hashed; after an empty file or a
  directory the token is that of the file before; leftovers of a crash are hashed
  as files.
* MD5: buffering across calls, padding at 55/56/63/64 bytes.

### RakNet's code in headers

| Component | Source (`Raknet/`) | State | What makes it correct |
|---|---|---|---|
| buffer of two threads | `SingleProducerConsumer.h` | a ring of blocks, four pointers, a flag in each block; no lock | the consumer takes what the producer published, once, in its order |
| thread pool | `ThreadPool.h` | two queues, two counters, mutexes | no input is worked on twice, counters match the threads, stop and pause mean it |
| locked queue | `DS_ThreadsafeAllocatingQueue.h` | a queue and a memory pool, a mutex each | a structure has one owner, and leaves in its turn |
| queue, list | `DS_Queue.h`, `DS_List.h` | an array on the heap, its size, indexes | a sequence, whatever the array is doing |
| ordered list, map | `DS_OrderedList.h`, `DS_Map.h` | a sorted list | a function from keys to data |
| range list | `DS_RangeList.h` | sorted ranges of numbers | a set of numbers, handed over once |
| search trees | `DS_BinarySearchTree.h` | nodes | order, size, balance |
| linked lists | `DS_LinkedList.h` | nodes in a ring, root, position | the sequence and the cursor of the header's comment |
| B+ tree | `DS_BPlusTree.h` | pages from a pool, leaves in a chain | index and leaves agree |
| memory pool | `DS_MemoryPool.h` | pages in two rings | a block has one owner; empty pages are given back |
| graph | `DS_WeightedGraph.h` | adjacency lists, the matrix of the last search | shortest paths, a spanning tree |
| heap | `DS_Heap.h` | an array, a flag | a priority queue |
| hash table | `DS_Hash.h` | chains | a stack for each key |
| smart pointers | `RakNetSmartPtr.h` | pointers, reference counts | nothing dangles, leaks or dies twice |
| multilist | `DS_Multilist.h` | an array used as list, stack, queue or ordered list | what each type promises, also across a change of type |
| bit stream | `BitStream.h` | bits, a read offset | the reader gets what the writer put, or a failure |
| variable deltas | `VariableDeltaSerializer.h`, `VariableListDeltaTracker.h` | last values, dirty flags, messages without receipt | a lost message is made up for |
| network | `RakPeerInterface.h`, `FileListTransfer.h`, `FileList.h` | in the binary | modelled as external, from its use |
| other headers | about 120 | in the binary | declarations only: no code to translate |

`PROJECT.json` lists each component with its files and each hazard with its line
and the properties that would catch it.

## 2. Modules

| Module | Models |
|---|---|
| `HashFiles` | files, hashes, the scan, the two comparisons, the deletion, as sets |
| `UpdateSession` | one run of the server, its threads, the clients, the connections |
| `UpdateService` | what the service promises of a client's directory; `UpdateSession` instantiates it with a refinement mapping and implements it |
| `UpdateRounds` | the scan entry by entry, manifests with their text, the comparison loops; sessions one after another, kills, restarts, edits |
| `Md5Block`, `Md5Stream` | the compression function; buffering and padding |
| `SingleProducerConsumer`, `Channel` | the buffer of two threads; the channel it implements |
| `ThreadPool` | workers and the thread that uses the pool |
| `ThreadsafeAllocatingQueue` | the locked queue, composed of `SequenceQueue` and `BlockPool` |
| `Queue`, `SequenceQueue` | the array that goes round; the sequence it implements |
| `List` | the array that doubles, and the sequence it implements |
| `OrderedList`, `Map` | the halving search; the map over it, and the function from keys to data it implements |
| `RangeList` | ranges, and the serialization that takes from their front |
| `BinarySearchTree` | nodes; the rotations of `AVLBalancedBinarySearchTree` after `Add` and `Del` |
| `LinkedList`, `CursorList` | pointers; the sequence with a position that the header's comment promises |
| `BPlusTree` | pages, splits, rotations, merges |
| `MemoryPool`, `BlockPool` | pages in two rings, one of them perhaps never written; the pool of blocks they implement |
| `WeightedGraph` | adjacency lists, Dijkstra's matrix, the spanning tree |
| `Heap` | the binary heap, and the bag that gives its first weight, which it implements |
| `Hash` | chains, and the stack for each key they implement |
| `SmartPtr` | variables and members that share objects |
| `Multilist`, `OpenList` | the array in its four types; what each type promises |
| `BitStream` | the `Serialize` functions, written on one machine and read on another |
| `VariableTracker`, `VariableDelta`, `VariableIdentical` | the tracker; deltas over a network that loses; one comparison for all |
| `MCUpdateSession`, `MCTwoClients`, `MCUpdateRounds` | small clients and directories |
| `MCStructures`, `MCExchange`, `MCLiveness` | small instances of the rest, see section 4 |
| `UpdateSessionProofs`, `UpdateTurnProofs`, `UpdateDeliveryProofs` | theorems about `UpdateSession`, each module on the one before |
| `UpdateRoundsProofs` | theorems about `UpdateRounds` |
| `QueueProofs` | theorems about `Queue` |
| `AllocatingQueueProofs` | theorems about `ThreadsafeAllocatingQueue` |
| `ThreadPoolProofs` | theorems about `ThreadPool` |
| `SingleProducerConsumerProofs` | theorems about `SingleProducerConsumer` |

`UpdateSession` stands on `HashFiles`; `Map` uses
`OrderedList`, `ThreadsafeAllocatingQueue` uses what `Queue` and `MemoryPool`
promise, `VariableDelta` and `VariableIdentical` use `VariableTracker`, and a
detailed module instantiates its abstract one.

### HashFiles

In `HashFiles` a directory is a function from paths to contents. `HashFile` is MD5
of the path followed by MD5 of the data; with MD5 taken as injective a hash is
the pair `<<path, token>>`, where `FirstToken` says which token of a content
`inFile >> fileData` extracts (`FileManager.cpp:37`). The comparisons are set
differences because the lists are only searched by hash value. `ReadDeleteList`
is not the identity: the server writes each hash as a `RakString` of its own and
the client reads one `RakString` (`NetworkManager.cpp:220-225`, `:376`).

### UpdateSession

| Variable | In the code |
|---|---|
| `client[c].at` | where the client's `main` is: before it starts, connecting, in `UpdateClient`, returned, gave up, killed |
| `client[c].disk`, `.hashes`, `.structure` | its directory, the hashes in the `fileList` it uploads, whether `FileStructure.txt` exists |
| `client[c].download` | the receiver of its `FileListTransfer`: waiting for a header, for files, complete |
| `link` | the connection as RakNet sees it |
| `toServer`, `toClient` | packets sent and not yet received |
| `serverDisk`, `serverHashes` | the server's directory and `externalFileArr`, hashed once at start-up |
| `manifests` | the files `FileStructure<ip>.txt` |
| `server` | in `Receive`, inside `FileListTransfer::Send`, or at the join |
| `finishedDownloading`, `nextSet`, `serverReceiver` | the flag, the set counter, the receivers |
| `reader` | the detached thread of each client: read, add, between the store of an element and the load and store of `list_size`, idle |
| `fileList`, `fileCount` | `listArray` and `list_size` of the server's `fileList` |

One action per packet handler, each with everything the handler does. Two
handlers are cut where another thread can see the difference: `ServerFileSend`,
`ServerSendNext`, `ServerSent`, `ServerWaited` are the case `ID_CLIENTFILESEND`,
since `Send` walks a list that a thread may be changing and the join waits;
`ReaderRead`, `ReaderAdd`, `ReaderLoad`, `ReaderStore`, `ReaderReply` are the
lambda, because `listArray[list_size] = input; ++list_size;`
(`DS_List.h:293-328`) is three accesses. `Hole` is what a slot holds that was
counted and never written.

The environment: `Accept`, `Refuse`, `LinkLost`, `ClientDies`. A broken
connection loses packets in flight from the end (`Surviving`), and each side
that still runs reads `ID_CONNECTION_LOST` after what survived. `Send` to an
address that is not connected does nothing (`Sent`).

What is external, that is, modelled from its use because RakNet's network is a
binary library: the queues, the loss notification, set ids numbered from 0 in each
`FileListTransfer`, a receiver that takes a header of its set and then as many
files as announced, `SetupReceive` refusing an address that is not connected.

Abstractions: paths, contents and tokens are model values; progress callbacks
and console output are left out; the client's list is always the one file
`FileStructure.txt`, so its header and file are one packet; `ReadSetId` reads 0:
`bs.Write(std::string)` takes the generic template, which writes the bytes of
the object in network order (`BitStream.h:1091`), last ones first, and the last
ones are the high bytes of the small string's capacity. Memory errors of the
racing list beyond lost, overwritten and unwritten slots (reallocation while
another thread writes) are not modelled.

`UpdateService` has no packets, threads, sets or lists: a client's directory
changes only while the client is updated, only towards what the server publishes
or by the removal of what hashes like nothing published, and an update is over
when every announced file has been received. `Service` in `UpdateSession` maps the
phase of a client, its receiver and its connection to it.

### UpdateRounds

`UpdateSession` has the interleavings; here one client is served at a time, but
clients run as often as they like, processes are killed at any step and started
again, the operator edits the server's directory, `OnFile` truncates a file before
it writes it, a file may stand where a directory is to be created (the client
throws, `FileThrows`), and the server's `fileList` is never cleared. `session` is
the session in progress with its stage, `server.list` what the server hashed at
start-up, `touched` the files edited since.

It also has what the sets of `HashFiles` abstract from: subdirectories, empty files
and the updater's own files among the others, visited in a fixed order. `fileData`
is declared outside the loop of `CreateAllHashFiles`, so the hash of an entry that
yields no token holds the token before it; the scan is therefore a recursive
function over the entries. The manifest is read back as the pairs it was written
as, and the loops of `FindMissingFiles` and `FindFilesToDelete` are over lists
(`Filtered`).

### Md5

`Md5Stream` feeds a text in pieces of any length, keeps what does not fill a block
in `buffer`, counts bits in two words of `WordBits` and pads; the compression
function is a parameter. `Md5Block` is that function, on pairs of half words
because TLC's integers are smaller than a `uint4`. The output as hexadecimal text
is left out.

### RakNet

Each module follows one class: its members are the variable (a record) or
variables, its methods the actions, and a method called by several of them is an
operator on the members. Memory is modelled where a method could get it wrong: the
arrays that were allocated and not deleted (`Queue`, `List`), nodes and pages as
numbers that stand for addresses, slots nothing was written to. Threads take one
step for each access to what another thread writes without a lock, and one for a
section under a mutex that is released at its end.

Where this code does not do what its header says, the module has the whole method
and a CONSTANT that says whether the program makes the call that shows it; section
6 lists these constants.

* `SingleProducerConsumer`: `WriteLock` in four steps, `ReadLock` and the unlocks in
  two each. `Channel` has the published values as a sequence.
* `ThreadPool`: each worker is a cycle of steps with the mutexes the code takes;
  `Pause` keeps `workingThreadCountMutex` until `Resume`. The event on which idle
  workers sleep only shortens a wait of a second and is left out.
* `BPlusTree`: the arrays of a page have their full length, so that a slot past
  `size` is read as the code reads it.
* `LinkedList`: `Find` walks from the root, copies have nodes of their own, and the
  list that is not circular differs in `Forward` and `Back` only.
* `MemoryPool`: a page is `written` or not; what a pool does once it has followed a
  pointer of a page that is not is undefined, and the state says only that it did.
* `WeightedGraph`: `dijkstra` is the matrix kept from the last search, with the
  start node it was made for.
* `BitStream`: bytes have `ByteBits` bits, floats are fractions of a `Unit`, and the
  two machines may differ in their byte order. Each `Serialize` function is an
  action of the writer (`Put`) and one of the reader (`Take`). A variable that a
  failed read leaves unset may hold anything.
* `VariableDelta`: the network delivers in order, loses messages and may report as
  lost one that arrived; `Garbage` is what a recycled bit field holds.

## 3. Properties

Of the updater:

| Property | Says |
|---|---|
| `TypeOK` | types; with it a receiver's count of files to go never passes below zero |
| `JoinNeverBlocks` | the server never waits at the join with the flag down |
| `UploadFirst` | while no upload has completed, nothing in the system can make the server leave `Receive`: the inductive reason for `JoinNeverBlocks` |
| `SetIdsAgree` | every header and file on its way to a running client is of the set it receives |
| `FinishedAfterWholeSet` | a client closes only after each announced file has arrived, even if the list grew while it was sent (it must not shrink, see section 5) |
| `OwnManifest` | what a client must delete is computed from its own manifest (addresses differ) |
| `NeverDeletesCurrent` | no step deletes a file the server lists, or `\Client.exe` |
| `DeletesAtMostOne` | of several stale files at most one is deleted in a session |
| `Delivered` | a client told `ID_FILESFINISHED` has each file of the server |
| `ImplementsService` | packets, threads, sets and lists implement `UpdateService` |
| `ServerReturns`, `ClientTerminates`, `ConnectionEnds` | the server comes back to `Receive`, a client whose connection holds ends, a slot is freed |
| `UpToDate` | whatever earlier sessions and kills left, a client that finishes has what was current when it was sent |
| `TreeKept` | a directory that is a tree stays one: nothing is written under a file; with it the type invariant of `UpdateRounds` |
| `NothingEverDeleted` | where the first stale entry is the old `\Client.exe` or a directory, no file of the application is ever deleted |
| `Converges` (rounds) | once edits and kills have stopped, sessions bring the client to the server's files |

`DeletesAtMostOne` and `NothingEverDeleted` state what the code does, not what its
authors wanted: the stale files left over go one per later session, or never.

Of RakNet and MD5 (each a conjunction of parts that the modules state):

| Property | Parts |
|---|---|
| `TypeOK`, `ImplementsSequence` (`Queue`) | indexes inside the array and only written slots queued; each method does to the elements what `SequenceQueue` does |
| `TreesRight` | `SearchTree`, `TraversalsRight`, `CopySameShape`, `ClearFreesAll`; `Balanced`; `LeavesAgreeWithIndex`, `PagesInTree`, `ValidateTree` |
| `TreesChangeOneKey` | `OneElementChanges`, `RotationsKeepElements`, `OneKeyChanges` |
| `SequencesImplemented` | each method of `List` makes of the elements what it promises, `LinkedList` (circular or not) `CursorList`, `Multilist` (of one type or changing) `OpenList`; `InsertsInPlace` where `Insert` is called behind the root (section 6) |
| `StoresImplemented` | `Map` implements a function from keys to data, `Hash` a stack for each key, `Heap` (least or greatest first) a bag that gives its first weight, `MemoryPool` `BlockPool` as long as it uses no page that was never written (section 5) |
| `SearchesRight` | `SearchRight`, `FindsAll`, `HeapOrder`, `SizeRight`, the type invariant of `List` |
| `MemoryRight` | `OneArray` of queue and list, `OneRing`, `CopySame`, `StaysInside`, `NothingDangles`, `CountRight`, `RingsRight`, `BlocksKept`, `FewEmptyPages` |
| `GraphsRight` | `PathRight`, `SpanningTreeRight`, `Symmetric`, `RemovalDefined` |
| `RangesRight` | `Disjoint`, `NothingLost` |
| `OneOwner` | the blocks of the two-thread buffer are one ring and none is written that can be read; a structure of the locked queue has one owner |
| `OrderKept` | `SingleProducerConsumer` implements `Channel` and grows only when full; the locked queue is left in order |
| `PoolRight` | `OnePlace`, `CountsRight`, `PausedQuiet` |
| `NothingForgotten` | a variable the remote system lacks is dirty or in a message without receipt; `BitFieldRight`; `SameForAll` |
| `Current` | who was sent this tick's message has the program's variables |
| `StreamsRight` | `InStep`, `ReadsBack`, `SucceedsIfThere` |
| `DigestRight` | `DigestOfText`, `BufferHoldsTail`, the digests of RFC 1321's texts |
| `StopsAll`, `InputTaken`, `StopReturns` | no thread is left after `StopThreads`; every input is taken; `StopThreads` returns |
| `Converges` (deltas) | when changes and losses end, the remote system has every variable |

## 4. Runs

| Run | Instance | Shows |
|---|---|---|
| `one_client` | 1 client; 8 server and 18 client directories over 4 paths, 2 contents | `Delivered`, `NeverDeletesCurrent`, `DeletesAtMostOne`, `ImplementsService` for each pair of directories |
| `two_clients` | 2 clients that both lack files, 2 slots; two cases: 2 addresses, 1 address | `TypeOK`, `JoinNeverBlocks`, `UploadFirst`, `SetIdsAgree`, `FinishedAfterWholeSet`; `ImplementsService`, with overwritten manifests too |
| `one_lacks` | three cases, fair: 2 clients, one of them current; a thread pool of 2 workers and 2 jobs; deltas of 2 variables with 1 change and 2 losses | `Delivered` under every interleaving in which only one thread inserts, `OwnManifest`, `ServerReturns`, `ClientTerminates`; `StopsAll`, `InputTaken`, `StopReturns`; `Converges` |
| `server_full` | 2 clients and 1 slot; fair | `ConnectionEnds` |
| `rounds` | five cases, see below; edits <= 1, kills <= 2, at most 3 files in the server's list; fair | `UpToDate`, `TreeKept`, `NothingEverDeleted`, `Converges` |
| `structures` | one data structure of RakNet in each of 23 cases | the first nine rows of the table above |
| `exchange` | one of the buffers, queues, messages, streams and digests in each of 12 cases | the next seven |
| `race`, `shared_ip_delivery`, `first_token`, `stale_token`, `page_fails` | expected violations | section 5 |

**How a suite works.** `MCStructures`, `MCExchange`, `MCLiveness` and `MCTwoClients` instantiate
several modules side by side. The variable `case` is chosen in the initial state
and never changes; the object it names moves, the variables of the others stay as
their constructors leave them. The states of a suite are the disjoint union of the
states of its instances, so nothing is multiplied, and a property of a suite says
for which case it holds which of the modules' properties. The fairness of each
case is required while it is the case.

**Cases of `rounds`.** *two clients*: updates between sessions of different clients.
*one kill* and *two kills*: one client with nothing, stale files, or a file where
the server has a directory; the server's directory may have an empty subdirectory;
a process is killed at any step once or twice. *old executable*: the directory is
visited with `\Client.exe` first and that file differs. *stale directory*: the
client has a subdirectory the server has not.

**Bounds and why they are enough.** Two clients are enough for the races, which are
between two threads or between a thread and the polling loop; a third adds only
more of the same pairs, and the slot limit is 2 in the code (1 in `server_full`, so
that the limit is met). Four paths cover an ordinary file, a second one, and the two
executables the code treats apart; two contents tell current from stale. In
`UpdateSession` nothing is capped: queues and `fileList` are finite because each
client runs once. In `rounds` a second kill meets what the first left, and with 3
files in the server's list those of an earlier session are sent again.

The structures are bounded by their number of elements, chosen so that each branch
of the code is taken: the queue and the list grow twice from a first array of 2
(16 in the code) and shrink again; trees have 6 to 8 keys, so that both rotations
happen below the root too; the B+ tree of order 2 reaches three levels, whose
index pages split and merge; the memory pool has more pages than it keeps empty;
graphs have 4 nodes, the heap 5 and 6 weights of 4 values, the hash table 3 keys
in 2 chains; the multilist has 2 keys, reaches its allocations of 2 and 3 and
wraps in both. `BitStream` has bytes of 2 bits, so that every width is met in a
few bits, values at both ends and the middle of each range, and every pair of
calls behind none or one bit, so that nothing is aligned by chance. `Md5Stream`
takes a text of 200 bytes in pieces of 0 to 135 with counters of 10 bits, which
overflow within it, and the texts of RFC 1321 in pieces of 1 and 60. `TLC` reaches
every state of each instance. Deadlock checking is off because every instance
really stops: sessions end when each client has run, the structures at their
bounds.

**Fairness.** Each is what the code's scheduling gives.

* `UpdateSession`: weak fairness of the server's loop, of each reader thread, of the
  client's loop and of the end of its connection attempt (connected or five
  timeouts). The loops poll without blocking, the threads are runnable whenever
  their action is enabled and wait for nobody. Nothing is assumed of the network,
  of clients starting, or of processes being killed.
* `UpdateRounds`: a server that is down is started again, a session that can go on
  does, one whose connection is gone is ended by the user (weak); each client is
  run again and again (strong, because another client's session disables it).
  Nothing is assumed of edits and kills.
* `ThreadPool`: workers run (weak); a mutex that is released again and again is
  obtained (strong, for `UnlockInput` and for the fetch of some worker, one
  condition for all of them, which compete for the input queue); a method that was
  begun goes on (weak); the user calls nothing in particular.
* `VariableDelta`: the program goes on serializing, the network goes on delivering,
  and each receipt comes back one way or the other. Changes and losses are finite,
  as `Converges` supposes.

## 5. Findings

Five runs are expected to end in a violation of what the headers say.

The header says the service will "Send missing files from server to client"
(`NetworkManager.h:47`) and hash "the path and content" of each file
(`FileManager.h:17`). Three runs show `Delivered` violated:

* `race`: two threads insert at once; one entry overwrites the other.
* `shared_ip_delivery`: the manifest is named by address without port, so of two
  clients behind one address the first may be compared with the list of the
  second.
* `first_token`: two contents with the same first token have the same hash.

`stale_token` shows `UpToDate` violated: a killed client leaves a truncated file,
which is hashed with the token of the file before it; where the two files begin
alike its hash is the server's and the file stays empty for ever.

`page_fails` shows `BlocksOfPages` violated: `Allocate` counts a page as available
before `InitPage` has the memory for its blocks (`DS_MemoryPool.h:144`). When that
fails the page stays, with a stack, a stack size and links that nobody wrote, and
the next `Allocate` returns an address it finds there. In `MemoryPool` the caller
then gets any address at all, and `Release` of a block of a full page and `Clear`
follow unwritten pointers too; each makes the pool `wild`, which ends the model.
`ImplementsBlockPool` holds until then.

`one_client`, `one_lacks` and `rounds` show the same properties where none of
these applies, and `DeliveredHolds` proves `Delivered` for every instance from
three hypotheses, one for each of the first three runs.

The attempt to prove `FinishedAfterWholeSet` and `ImplementsService` for any
number of clients showed that they are false in general. `++list_size` is a load
and a store (`DS_List.h:293-328`): one thread may load `list_size`, wait until
another has added two or more files and finished, and store a size smaller than
the one `Send` has announced. The walk ends early, the client is told that the
files are finished and closes the connection with files still to come. `Send` is
given the list while it may change (`NetworkManager.cpp:247`). In `two_clients`
each thread adds one file, so that the size cannot fall below what
was announced, and the properties hold; with a client that lacks one file and
another that lacks two (`StaleBoth` for `StaleB` in `BothLack`) TLC finds the
violation. The theorems name the hypothesis, `NeverShrinks`.

## 6. Calls that the passing runs leave out

Writing the modules showed more places where the code does not do what its header
or its own comments say. They are of no consequence to the updater, which does not
call them. Each is the whole method in its module, and a CONSTANT says whether the
program makes the call that shows it. The instances for which a run checks the
property in question leave the call out; with the other value TLC prints the
behaviour.

| Module, constant | What happens | Line |
|---|---|---|
| `SingleProducerConsumer`, `ClearUnread` | `Clear` leaves `readyToRead` set in unread blocks: the ring is never reused and grows with each write (`GrowsWhenFull`) | `SingleProducerConsumer.h:216` |
| `ThreadPool` | `IsWorking` asks its three questions one after another and may answer no with output waiting | `ThreadPool.h:580` |
| `ThreadPool` | `Pause` holds the mutex a working thread needs to count itself out: with a thread at work both wait for ever (`StopReturns`, `InputTaken` are about a user who is not in `Pause`) | `ThreadPool.h:616` |
| `ThreadPool`, `ClearStopped` | `Clear` of a stopped pool returns with `runThreadsMutex` locked; the next `StopThreads` hangs | `ThreadPool.h:496` |
| `ThreadPool`, `CreateMayFail` | `StartThreads` that fails half-way stops threads that have not counted themselves yet, and returns before they run (`StopsAll`) | `ThreadPool.h:366` |
| `ThreadsafeAllocatingQueue`, `ClearsAlone` | `Clear` empties the queue without its mutex, and the pool in two sections: a structure allocated in between is given out twice | `DS_ThreadsafeAllocatingQueue.h:127` |
| `BinarySearchTree`, `LastAbsent` | `Del` of an element that is not there clears a tree of one | `DS_BinarySearchTree.h:551` |
| `BinarySearchTree`, `Key` | the double rotation is taken where the single one is right: nine elements and one `Del` leave the tree out of balance; `Balanced` is checked with additions and deletions of seven and additions of eight | `DS_BinarySearchTree.h:185` |
| `LinkedList`, `EmptyConcat` | `Concatenate` on an empty list appends twice | `DS_LinkedList.h:1001` |
| `LinkedList`, `InsertsInside` | behind the root `Insert` leaves the position on the item that was there; the comment and its example (lines 46, 87), and so `CursorList`, make the new item current (`ImplementsCursorList`; with the call `InsertsInPlace` is checked) | `DS_LinkedList.h:688` |
| `BPlusTree`, `Again` | a key in a full leaf is not noticed and is inserted again | `DS_BPlusTree.h:741` |
| `Queue`, `Assigns` | `operator=` loses an array of up to 32 elements (`OneArray`) | `DS_Queue.h:301` |
| `Queue`, `ForcesAfterClear` | `ClearAndForceAllocation` deletes again the array `Clear` deleted (`OneArray`) | `DS_Queue.h:390` |
| `List`, `Copies` | a copy of an empty list has an unwritten pointer, which the first `Insert` deletes | `DS_List.h:157` |
| `List` | `Compress` allocates as much as before | `DS_List.h:473` |
| `MemoryPool`, `MayFail` | after a failed `InitPage` a page that was never written is the first available one, and `Allocate`, `Release` and `Clear` follow what it holds (`page_fails`); `RingsRight` and `BlocksKept` are checked without, the others with it | `DS_MemoryPool.h:144` |
| `RangeList`, `Repeats` | a number inside a range that begins before it is inserted again | `DS_RangeList.h:182` |
| `RangeList` | the room for a range is computed with one bit for a flag that takes a byte: up to 7 bits more than `maxBits` are written | `DS_RangeList.h:76` |
| `WeightedGraph`, `AddsWhileValid` | `AddNode` and `AddConnection` keep the matrix of the last search | `DS_WeightedGraph.h:181` |
| `WeightedGraph`, `TwoNodes` | in a graph of two nodes there is always a path | `DS_WeightedGraph.h:258` |
| `WeightedGraph`, `MayUnlinkMany` | a node without connections is queued for removal in each round again | `DS_WeightedGraph.h:163` |
| `Heap`, `PopsAnywhere` | below the top the last element is only moved down and may come before its new parent | `DS_Heap.h:173` |
| `SmartPtr`, `AssignsMember` | `p = p->next` deletes the object before it reads its member | `RakNetSmartPtr.h:170` |
| `VariableIdentical`, `JoinsLate` | what a new system was sent is not recorded: it may keep a value that changed back | `VariableDeltaSerializer.h:166` |
| `Multilist`, `Cases` | nine calls, named in the module: `Pop` and `RemoveAtIndex` at the wrap, appending, inserting and sorting that leave `sortState`, realigning and filling a queue, `PopOpposite` with a reallocation | `DS_Multilist.h:319`, `:412`, `:474`, `:500`, `:546`, `:615`, `:851`, `:1045` |
| `BitStream`, `Kinds` | `firstbool`: no `WriteDelta` for a first bool but a `ReadDelta`; `doubleend`: the double 1 has no place in 32 bits; `normvectorcut`: a read that fails reports success; `vectordouble`: writer and reader decide by numbers of different precision; `halfturn`: signs are lost | `BitStream.h:1265`, `:1349`, `:1916`, `:1803`, `:1858` |
| `BitStream` | a failed read of a `uint24_t` leaves the offset behind the end | `BitStream.h:1526` |
| `UpdateRounds` | a client is sent files that earlier clients lacked and it has: `fileList` is never cleared | `NetworkManager.cpp:211` |

## 7. Proofs

### UpdateSessionProofs

Proves, for every number of clients, directories, addresses and slots, from
`HashFilesAssumption` and `UpdateSessionAssumption` (types of the constants;
nothing about how the code behaves):

* `TypeCorrect`: `Spec => []TypeOK`. `TypeOK` is inductive; one lemma for each
  group of actions.
* `UploadFirstHolds`: `Spec => []UploadFirst`.
* `JoinNeverBlocksHolds`: `Spec => []JoinNeverBlocks`, by
  `UploadFirst => JoinNeverBlocks`.
* `NeverDeletesCurrentHolds`: `Spec => NeverDeletesCurrent`, an action property.

`JoinNeverBlocks` alone is not inductive: a state with the flag down and an
`ID_CLIENTFILESEND` in a queue satisfies it and the next step does not.
`UploadFirst` excludes such a state. For each client it says (`Unserved`) that
while the flag is down no thread exists, no `ID_CLIENTFILESEND` or
`ID_CLIENTCANFILESBESENT` is in flight, each `ID_SENDFILE` on its way to the
server has a manifest before it, and each manifest is of the set the server
receives from that client, so that reading one raises the flag. The last part
needs that the receiver of a client is never replaced under a manifest in
flight, hence `Opening`: a connection is announced once, first, before anything
was started for the client, and its end comes last. `Opening` holds always,
`Unserved` until the flag is up, and the flag is never lowered. The proof takes
the steps of one client (`OpeningStep`, `UnservedStep`), shows that they leave
the others alone (`OtherClients`), and treats the server's own steps apart
(`UploadFirstServerSends`), which happen only with the flag up.

`NeverDeletesCurrent` follows from an invariant about lists of hashes,
`DeleteListsStale`: neither a thread nor an `ID_CLIENTCANFILESBESENT` in flight
holds a hash of the server's list. It is kept whichever manifest a thread reads,
since `FindFilesToDelete` filters any list against the server's, so the property
needs no assumption on addresses. What remains is that the only handler that
removes files, `ClientCanFilesBeSent`, removes files with a hash it read
(`DeletesStaleOnly`), and that `OnFile` never removes one (`DiskKeptByOthers`).

### UpdateTurnProofs

The messages of a session and the states of the threads take turns. `Turns` is the
inductive invariant that says so. For each client it has these parts:

* `Ends`: how the state of the connection and of the client's process go together,
  and that the end of a connection is the last packet that is read.
* `OneTurn`: of the packets that ask somebody to act (`TurnPacket`), the thread of
  the client (`Busy`) and the server's `Send` (`Serving`) there is at most one.
* `Started(c) => Later(c)`: once a client was told what to delete, nothing of what
  comes before can happen again: no early packet is in flight and no thread runs.
* `SetsZero`: headers and files in flight are of set 0, and so is the receiver of
  a client that may read one.
* `Unique`, `OneDeleted`: a client's list has one hash for each path, and at most
  one of its files is gone.

`TurnsHold` is `Spec => []Turns`; one lemma for each part and each group of actions.
The lemmas of the first section say what each action does at its own client, and
`KeptElsewhere` that it does nothing at another, so that no later proof opens an
action again. From `Turns` follow

* `SetIdsAgreeHolds`: `Spec => []SetIdsAgree`,
* `DeletesAtMostOneHolds`: `Spec => []DeletesAtMostOne`,
* `OwnManifestHolds`: `Spec => []OwnManifest` if no two clients share an address
  (`OwnAddresses`). Its invariant is `Own`: a list in flight is the client's own and
  precedes `ID_SENDFILE`, and from the time that packet can be read until the
  thread has read the manifest, the file holds the client's list. The run
  `shared_ip_delivery` shows why the hypothesis is needed.

### UpdateDeliveryProofs

What a client has when it is told that the files are finished.

* `FinishedAfterWholeSetHolds`: `Spec /\ NeverShrinks => []FinishedAfterWholeSet`,
  where `NeverShrinks` is `[][fileCount' >= fileCount]_vars`. The invariant
  `Delivery` counts: the files a client was promised and has not read (`Owed`) are
  no more than those on their way (`FilesIn`) and those `Send` will still send
  (`ToSend`). It needs the order of the packets of a transfer (`InOrder`) and
  `Turns`, so that a header never meets what an earlier transfer left.
* `AloneNeverShrinks`: `Spec /\ []Alone => NeverShrinks`, where `Alone` says that no
  two threads are between the store of an element and the store of `list_size`. By
  `CountsTrue` the size such a thread has loaded is the size of the list.
* `OneClientFinishes`: with one client `FinishedAfterWholeSet` needs no hypothesis.
* `ImplementsServiceHolds`: `Spec /\ NeverShrinks => ImplementsService`, the
  refinement. `ServiceInit` maps the initial states. `ServiceAt` says what a step
  is at one client: nothing that `UpdateService` can see, or one of its six
  actions. Since a step is one of one client (`KeptElsewhere`), `ServiceNext`
  follows: a step of the sessions is a step of `UpdateService` or a stutter. It
  uses `Delivery` (a client does not finish while files are awaited, and none
  arrives that is not), `DeleteListsStale` (what is removed hashes like nothing
  published), and `Real`, `ListReal`, `Published` (what is in flight and in the
  list is the server's).
* `DeliveredHolds`: `Spec /\ []Alone => []Delivered` if no two clients share an
  address (`OwnAddresses`) and different contents have different first tokens
  (`DifferentTokens`). `Coverage` follows each file a client lacks through the
  session: its hash is not in the client's list (`Known`); the thread has it to
  do, has stored it or the list has it (`Queued`); it is in the list when the
  client is told that files can be sent (`AllListed`); while a transfer lasts, it
  is among the files still to be read or sent, and early enough to be counted by
  the receiver (`Arrives`); and when the client closes the connection nothing is
  lacking (`AllArrive`). `LackingShrinks`, taken from the refinement, says that a
  client loses nothing that it has like the server.
* `OneClientDelivered`: with one client `DifferentTokens` is enough.

`NeverShrinks` and `Alone` are hypotheses about behaviours, not about constants, and
many behaviours meet them: all those of a server with one client, and those in
which sessions follow each other.

### UpdateRoundsProofs

The life of the directories, for any clients, directories, order of the entries,
edits and bounds, from `UpdateRoundsAssumption`: a directory is visited before its
entries, the clients' directories are trees at first, the updater's files are in
the root and the operator leaves them alone.

* `TypeCorrect`: `Spec => []TypeOK`. The invariant `Typed` is stronger: it says where
  what is at a path can have come from (`OnServer`, `OnClient`): an initial
  directory, an edit, the same path of the server, or the updater itself, under its
  own names.
* `TreeKeptHolds`: `Spec => []TreeKept`. `Rooted` adds that a file is open only where
  it was made: the write goes to an empty file of a tree.
* `UpToDateHolds`: `HashesTell => (Spec => []UpToDate)`.
* `DeletesNothingHolds`: `Behind => (Spec => [][DeletesNothing]_vars)`: what the run
  `rounds` shows of one old executable, for every directory in which it comes first.

`HashesTell` adds three hypotheses about contents. `TokensTell`: each file of the
application has a token on the server, and neither another version of it nor a file
that may be visited before it begins with the same one. The code hashes only the
first token of a file and, where there is none, the one before, so it needs this
and states it nowhere: the run `stale_token` is a directory in which `TokensTell`
fails, and with it `UpToDate`. `FilesStayFiles`: what is a file of the application on
the server is a directory nowhere, since `OnFile` cannot open a directory and skips
it without a word. `FormatsDiffer`: no content is taken for a `FileStructure` file,
nor its first line for the first token of a file. `MCUpdateRounds` evaluates the
first two for the cases it checks: `OldExecutable` does not meet them (there the
property holds since a running executable is never replaced by the one that could
deceive).

`Kept` is the invariant. It follows a file of the server through a session:
`Listed` (the server's list has its hash from the start, until it is edited), `Told`
(the manifest has that hash only if the client has that file), `Chosen` (after the
comparison the client has the file or `fileList` does), `Spared` (what is to be
deleted is nothing the server lists, so `ClientDelete` does not undo `Chosen`),
`Waiting` (whatever earlier sessions have left in `fileList`, under the path of an
unedited file there is only that file, so an old copy cannot overwrite a new one),
`Arriving` (what was promised is there or on its way, and nothing else will replace
it). `NoDirectories` keeps `FileOpen` from skipping it. `Told` is the heart: by `Tells`
the hash of a file of the server is found only where that file is, which needs the
scan round by round (`ScanIs`: each hash holds the token of its file, or of one
visited before), trees (a directory above the file has no token to pass on) and
`TokensTell`. The recursive functions `scan`, `Filtered` and `Ancestors` are
resolved by `SetInduction`; `LoopRuns` and `AncestorsClimb` show that they exist.

`Behind` is `FormatsDiffer` and `ExecutableFirst`: `\Client.exe` is visited first, and
what a client has there begins unlike what the server may have, so the client's hash
of it is stale in every session. The invariant `Shielded` says that it is first in
every list that comes from a client and in none of the server's, so it is first of
what is to be deleted; one hash is read of that message, and `ClientDelete` spares
the executable. The case `OldExecutable` of the run `rounds` meets `ExecutableFirst`
(`OldExecutableAssumption`).

### QueueProofs

Proves, for every kind of element, every first size of the array and every bound,
from `QueueAssumption` and `AddressesAssumption`:

* `TypeCorrect`: `Spec => []TypeOK`: head and tail stay inside the array and every
  slot between them was written.
* `QueueImplementsSequence`: `Spec => ImplementsSequence`: every method does to the
  elements, taken in order from head round to tail, what `SequenceQueue` says, and
  `Compress` and `PopDeref` do no more.

The inductive invariant `Sound` is `TypeOK` with the bound on the size. The
argument goes by operators: `SlotOfPosition` and `PositionOfSlot` say that slots
of the array and positions in the queue determine each other, `SizeInRange` that
the array is never full between calls, which is what the code relies on to tell an
empty queue from a full one. Then there is one lemma for each thing a method makes
of the members (`PushedRight`, `PushedAtHeadRight`, `PoppedRight`,
`PoppedDerefRight`, `PoppedTailRight`, `RemovedRight`, `ClearedRight`,
`CompressedRight`, `ForcedRight`, `CopyRight`): the result is `Valid`, and its
elements are those of the abstract operation. `MovedRight` is the one about
growing, where the elements are unrolled from the head into the new array.
`DoubledAbove` says of the recursive function behind `Compress` that its loop
ends at a size with room. The induction is over a set of numbers (`SetInduction`,
from the pigeonhole principle of `FiniteSetTheorems`: a set that holds 0 and the
successor of each number in it, up to a bound, is everything below the bound).

### AllocatingQueueProofs

The locked queue, for any producers, consumers and structures:

* `OneOwnerHolds`: `Spec => []OneOwner`: each structure is with one thread, once in
  the queue, or in the pool, and it is allocated exactly while it is with a thread
  or in the queue.
* `LeaveInOrderHolds`: `Spec => [][LeaveInOrder]_vars` if there are no seekers, for
  any number of consumers that pop.

Both stand under `Ordinary`, which adds to the types of the constants two rules for
the threads that use the queue; the code needs both and states neither. `QuietClear`:
`Clear` is called while nobody else has a structure or is in a method, or never. It
empties the queue without the queue's mutex and the pool in a later section, and a
structure allocated in between is given out twice (section 6). `LoneSeeker`: a
consumer that looks with `operator[]` and then takes by the index it saw is the only
consumer, since the mutex is free between its two calls and the index goes stale
when another one pops. The instances of the run `exchange` meet both rules.

`OneOwner` holds while a thread is in `Clear` because it says nothing then, so it is
not inductive. The invariant `Owned` adds what holds meanwhile (`Quiet`: the others
are idle and hold nothing, and the queue is empty when the pool is about to be
cleared) and, while nobody is in `Clear`, `Placed`, which is ownership without
counting, and `Sighted`: what a seeker saw is still at the place where it saw it.
`Sighted` is what `RemoveAtIndex` needs to take the structure that was looked at;
it survives a `Push`, which goes to the end, and not a `Pop` by somebody else.
`OwnedIsOneOwner` goes from `Placed` to the cardinalities of `OneOwner`.

### ThreadPoolProofs

The thread pool, for any workers and inputs, from `ThreadPoolAssumption`, with
failing starts and with `Clear` of a stopped pool:

* `OnePlaceHolds`: `Spec => []OnePlace`.
* `CountsRightHolds`: `Spec => []CountsRight`.
* `PausedQuietHolds`: `Spec => []PausedQuiet`.
* `StopsAllHolds`: `Spec => []StopsAll` if no thread fails to start
  (`~CreateMayFail`). With failures it is false: a `StartThreads` that fails waits for
  the threads that have counted themselves and returns before the others run
  (section 6).

The first three follow from one invariant, `Sound`. `OnePlace` needs that a worker
has an input only in the callback (`InCallback`) and that no input is in two places
(`Placed`, in terms of places in the queues, so that taking, adding and removing in
the middle can be followed element by element). `PausedQuiet` needs the counters,
since `Pause` returns when it reads zero, and `Held`: while it waits and until
`Resume` the mutex that a worker must take to count itself is held. `StopsAll` needs
`Ended`: threads that have not counted themselves exist only while the pool is
starting. So when `StopThreads` reads zero, `CountsRight` says that none is left.

### SingleProducerConsumerProofs

The buffer of two threads, for any values, any first size and any bound on the
blocks, from `SingleProducerConsumerAssumption`; both threads take every step of
their methods in any order, and `Clear` and the two `Cancel` methods are called
where the code allows it.

* `OneRingHolds`: `Spec => []OneRing`: the `next` pointers of all blocks are one
  ring, and the block that is written is not one that can be read.
* `ImplementsChannelHolds`: `Spec => Queue!Spec`, the refinement of `Channel`:
  `WriteUnlocked` is `Publish`, a `ReadLockTest` that finds data is `Take`,
  `CancelReadLock` is `PutBack`, `ReadUnlocked` is `Release`, `Clear` is `Reset`,
  and every other step is a stutter. `ImplementsChannelStepHolds` is the same as
  the action property the run `exchange` checks.
* `GrowsWhenFullHolds`: `Spec => [][GrowsWhenFull]_vars` if `Clear` is not called
  with data unread (`~ClearUnread`). With it the statement is false, which is the
  defect of `Clear` in section 6.

The inductive invariant `Sound` has a witness: an enumeration of the blocks in the
order of the ring, from `readPointer` on, in which `readAheadPointer`, `writePointer`
and `writeAheadPointer` have places in this order (`Pointers`). `Written` says which
blocks hold data, `Flags` where `readyToRead` may be set, and `Assured` that what a
thread has found out in one step still holds in the next, when it acts on it: there
is no lock, so this is the argument for the algorithm. The other thread may move
its pointers in between, but only away. A step either leaves the ring (`Pointers` moves
along it), turns it (`Rotated`, in `ReadUnlocked`), puts a block into it (`Grown`, in
`WriteLockGrow`) or starts over (`Shrunk`, in `Clear`). `BehindIs` and `BetweenIs`
resolve the recursive functions that walk the ring into places of the enumeration,
by `SetInduction`; the lemmas about `Cut` carry the walk over to the data, from
which the refinement follows step by step.

### Only model-checked

Liveness and `ENABLED`, which the provers do not handle (`ServerReturns`,
`ClientTerminates`, `ConnectionEnds`, `Converges`, `InputTaken`, `StopReturns`). Of
`NothingEverDeleted` the case of the stale directory; that of the old executable is
proved. Modules with `RECURSIVE` operators (trees, graphs, digests, streams):
recursive functions can be reasoned about by induction over sets of numbers, as in
`QueueProofs`, `SingleProducerConsumerProofs` and `UpdateRoundsProofs`, such
operators cannot. And, for now, the properties of the other structures. The theorems
about the locked queue, the pool and the buffer of two threads are about `OneOwner`,
`LeaveInOrder`, `OnePlace`, `CountsRight`, `PausedQuiet`, `StopsAll`, `OneRing`,
`ImplementsChannel` and `GrowsWhenFull` of their own modules; the runs check these
as parts of `OneOwner`, `OrderKept`, `PoolRight` and `StopsAll` of `MCExchange` and
`MCLiveness`. In the same way the run `rounds` checks `TypeOK`, `TreeKept`,
`UpToDate` and `DeletesNothing` of `UpdateRounds` for its cases. Of the properties
of `UpdateSession` every invariant and action property is proved,
`FinishedAfterWholeSet`, `ImplementsService` and `Delivered` from the hypotheses
above.

## 8. Not modelled

* **Declarations.** Most of the 154 headers in `Raknet/` declare classes of the
  binary library: of the 33,800 lines of the implementation about 7,400 are code
  with a body, and these modules stand for nearly all of them. There is nothing to
  translate in the rest.
* **Updater.** The timer and the count of five tries in
  `StartClientConnectionToServer` (giving up is possible at any time before the
  connection is seen); hexadecimal output of MD5; memory errors of the racing
  `fileList` beyond lost, overwritten and unwritten slots; `Application`, every line
  of which is commented out.
* **Code that does not compile when used.** `LinkedList`'s own `Merge` and
  `Mergesort`, `DS_OrderedChannelHeap`, the level-order traversal and `AddChild` of
  `DS_Tree`.
* **Code nothing calls.** `FixTree` of the AVL tree, the saved search of `Map`
  (`HasSavedSearchResult` answers no), the insertions at the end of `OrderedList`.
* **Reading methods.** `Find`, `Print`, `IsIn`, `operator[]` where they change
  nothing and no property is about them.
* **Calls left out because the result is undefined from the first step.**
  `Concatenate` of a list with itself, `List::Insert` of a reference into the same
  list, a `HashIndex` kept over a removal, `GetPtr` on a queue of `Multilist`, the
  copy constructor of a `Queue` of size 0, the copy constructor of `WeightedGraph`.
* **The other side.** `RangeList::Deserialize`, reliable variable messages, messages
  out of order, more than the 448 variables of a message.
* **`BitStream`.** Strings, aligned blocks, IP version 6.
* **Threads and circles of smart pointers**, which the class does not support.

## 9. Plan

Done: the updater in full, with its abstract service and its life over many
sessions; MD5; every container, queue and serializer whose code is in the
repository; proofs of every safety property of the sessions, of their refinement, of
the directories over many sessions, of the queue, the locked queue, the thread pool
and the buffer of two threads.

To come, in this order:

1. Proofs about the structures that use no recursive operator: `MemoryPool`
   implements `BlockPool`, `List` keeps what it promises.
2. `ConnectLoop`: the timer and the five tries.
