---------------------------- MODULE MCStructures ----------------------------
(***************************************************************************)
(* Small instances of the data structures of RakNet.  A behaviour is of    *)
(* one of them: the variable case says of which, and the others stay as    *)
(* their constructors leave them.                                          *)
(*                                                                         *)
(* The queue is the module that is extended: its constants are given in    *)
(* the configuration.  The others are instances, with variables of their   *)
(* own.                                                                    *)
(***************************************************************************)
EXTENDS Queue

CONSTANTS d1, d2, k1, k2, k3, o1, o2, o3, null

VARIABLES case,
          heapQueue, heapAddress, heapLive,        \* a queue, watched on the heap
          bst, avl, avlAdds,                       \* search trees
          ring, loop, line,                        \* linked lists
          bplus, bplusTwo,                         \* B+ trees
          pool, given, poolFree, givenFree,        \* memory pools
          list, listArray, listLive,               \* a list
          mapNodeList, answer,                     \* a map
          ranges, pending,                         \* a list of ranges
          graph, dijkstra, linked, linkedPaths,    \* weighted graphs
          heap, series, fast, popped,              \* a heap with the least on top
          maxHeap, maxSeries, maxFast, maxPopped,  \* a heap with the greatest on top
          hashFunction, nodeList, size, out,       \* a hash table
          ptr, refCount, alive, deleted,           \* smart pointers
          multi, taken, overrun,                   \* a multilist of one type
          turned, turnedTaken, turnedOverrun       \* a multilist that changes its type

-----------------------------------------------------------------------------
(* The instances.                                                          *)

HeapQueue == INSTANCE Queue
    WITH Value <- {d1}, FirstAllocation <- 2, MaxSize <- 4, Addresses <- {1, 2, 3}, Assigns <- FALSE,
         queue <- heapQueue, address <- heapAddress, live <- heapLive

Bst == INSTANCE BinarySearchTree WITH Key <- 1 .. 6, LastAbsent <- FALSE, Deletes <- TRUE, tree <- bst

\* Del can leave a tree of nine keys or more out of balance.
Avl == INSTANCE BinarySearchTree WITH Key <- 1 .. 7, LastAbsent <- FALSE, Deletes <- TRUE, tree <- avl
AvlAdds == INSTANCE BinarySearchTree WITH Key <- 1 .. 8, LastAbsent <- FALSE, Deletes <- FALSE, tree <- avlAdds

\* Insert behind the root is not as documented: where it is called, only the place of
\* the new item is compared.
Ring == INSTANCE LinkedList
    WITH Item <- 1 .. 2, MaxSize <- 4, Circular <- TRUE, InsertsInside <- TRUE, EmptyConcat <- FALSE,
         list <- ring
Loop == INSTANCE LinkedList
    WITH Item <- 1 .. 2, MaxSize <- 4, Circular <- TRUE, InsertsInside <- FALSE, EmptyConcat <- FALSE,
         list <- loop
Line == INSTANCE LinkedList
    WITH Item <- 1 .. 3, MaxSize <- 3, Circular <- FALSE, InsertsInside <- FALSE, EmptyConcat <- FALSE,
         list <- line

BPlus == INSTANCE BPlusTree WITH Key <- 1 .. 8, Order <- 3, Again <- FALSE, tree <- bplus
BPlusTwo == INSTANCE BPlusTree WITH Key <- 1 .. 7, Order <- 2, Again <- FALSE, tree <- bplusTwo

Pool == INSTANCE MemoryPool
    WITH BlocksPerPage <- 3, MaxFreePages <- 2, MaxPages <- 2, MayFail <- FALSE,
         pool <- pool, allocated <- given
PoolFree == INSTANCE MemoryPool
    WITH BlocksPerPage <- 2, MaxFreePages <- 3, MaxPages <- 4, MayFail <- TRUE,
         pool <- poolFree, allocated <- givenFree

Listed == INSTANCE List
    WITH Filler <- d2, FirstAllocation <- 2, KeepUpTo <- 3, MaxSize <- 4, Addresses <- {1, 2, 3},
         Copies <- FALSE, list <- list, listArray <- listArray, live <- listLive

Mapped == INSTANCE Map WITH Key <- 1 .. 5, Data <- {d1, d2}, None <- null

Ranged == INSTANCE RangeList
    WITH TypeBits <- 4, MaxBits <- {16, 25, 41, 61}, MaxRanges <- 3, Repeats <- FALSE

Graph == INSTANCE WeightedGraph
    WITH Node <- 1 .. 4, Weight <- {1, 3}, Infinite <- 99, AllowUnlinked <- TRUE, AddsWhileValid <- FALSE,
         TwoNodes <- FALSE, MayUnlinkMany <- TRUE, adjacencyLists <- graph, dijkstra <- dijkstra
Linked == INSTANCE WeightedGraph
    WITH Node <- 1 .. 4, Weight <- {1}, Infinite <- 99, AllowUnlinked <- FALSE, AddsWhileValid <- FALSE,
         TwoNodes <- FALSE, MayUnlinkMany <- FALSE, adjacencyLists <- linked, dijkstra <- linkedPaths

MinHeap == INSTANCE Heap
    WITH Weight <- 1 .. 4, IsMaxHeap <- FALSE, MaxSize <- 6, PopsAnywhere <- FALSE,
         heap <- heap, optimizeNextSeriesPush <- fast, series <- series, popped <- popped
MaxHeap == INSTANCE Heap
    WITH Weight <- 1 .. 4, IsMaxHeap <- TRUE, MaxSize <- 5, PopsAnywhere <- FALSE,
         heap <- maxHeap, optimizeNextSeriesPush <- maxFast, series <- maxSeries, popped <- maxPopped

Hashed == INSTANCE Hash
    WITH Key <- {k1, k2, k3}, Data <- {d1, d2}, HashSize <- 2, NoArray <- null, MaxNodes <- 3, taken <- out

Smart == INSTANCE SmartPtr
    WITH Variable <- {k1, k2, k3}, Object <- {o1, o2, o3}, Null <- null, AssignsMember <- FALSE

AllTypes == {"unordered", "stack", "queue", "ordered"}
Multi == INSTANCE Multilist
    WITH Key <- 1 .. 2, Types <- AllTypes, ChangesType <- FALSE, Cases <- {}, FirstAllocation <- 3,
         SmallAllocation <- 2, DeallocatesFrom <- 6, SmallBlock <- 6, Sizes <- {}, MaxSize <- 4,
         list <- multi, taken <- taken, overrun <- overrun
Turned == INSTANCE Multilist
    WITH Key <- 1 .. 2, Types <- AllTypes, ChangesType <- TRUE, Cases <- {}, FirstAllocation <- 3,
         SmallAllocation <- 2, DeallocatesFrom <- 6, SmallBlock <- 6, Sizes <- {5}, MaxSize <- 2,
         list <- turned, taken <- turnedTaken, overrun <- turnedOverrun

ASSUME StructuresAssumption ==
    /\ Bst!BinarySearchTreeAssumption /\ Avl!BinarySearchTreeAssumption
    /\ AvlAdds!BinarySearchTreeAssumption
    /\ Ring!LinkedListAssumption /\ Loop!LinkedListAssumption /\ Line!LinkedListAssumption
    /\ BPlus!BPlusTreeAssumption /\ BPlusTwo!BPlusTreeAssumption
    /\ Pool!MemoryPoolAssumption /\ PoolFree!MemoryPoolAssumption
    /\ Listed!ListAssumption /\ Mapped!MapAssumption /\ Ranged!RangeListAssumption
    /\ Graph!WeightedGraphAssumption /\ Linked!WeightedGraphAssumption
    /\ MinHeap!HeapAssumption /\ MaxHeap!HeapAssumption /\ Hashed!HashAssumption
    /\ Smart!SmartPtrAssumption /\ Multi!MultilistAssumption /\ Turned!MultilistAssumption

-----------------------------------------------------------------------------
(* The suite.                                                              *)

Cases == {"queue", "heap queue", "bst", "avl", "avl adds", "ring", "loop", "line", "bplus", "bplus two",
          "pool", "pool free", "list", "map", "ranges", "graph", "linked", "min heap", "max heap",
          "hash", "smart", "multi", "turned"}

all == <<case, queue, address, live, heapQueue, heapAddress, heapLive, bst, avl, avlAdds, ring, loop, line,
         bplus, bplusTwo, pool, given, poolFree, givenFree, list, listArray, listLive, mapNodeList,
         answer, ranges, pending, graph, dijkstra, linked, linkedPaths, heap, series, fast, popped,
         maxHeap, maxSeries, maxFast, maxPopped, hashFunction, nodeList, size, out, ptr, refCount,
         alive, deleted, multi, taken, overrun, turned, turnedTaken, turnedOverrun>>

\* Where a constructor may leave one of several states, the idle object has one.
Start ==
    /\ case \in Cases
    /\ Init /\ HeapQueue!Init /\ Bst!Init /\ Avl!Init /\ AvlAdds!Init /\ Ring!Init /\ Loop!Init /\ Line!Init
    /\ BPlus!Init /\ BPlusTwo!Init /\ Pool!Init /\ PoolFree!Init /\ Listed!Init /\ Mapped!Init
    /\ Ranged!Init /\ Graph!Init /\ Linked!Init /\ MinHeap!Init /\ MaxHeap!Init
    /\ Hashed!Init /\ (case # "hash" => \A key \in {k1, k2, k3} : hashFunction[key] = 0)
    /\ Smart!Init /\ Turned!Init
    /\ Multi!Init /\ (case # "multi" => multi.type = "unordered")

\* The variables v of an object, if it is not its behaviour.
Idle(name, v) == IF case = name THEN TRUE ELSE UNCHANGED v

OthersIdle ==
    /\ UNCHANGED case
    /\ Idle("queue", <<queue, address, live>>) /\ Idle("heap queue", <<heapQueue, heapAddress, heapLive>>)
    /\ Idle("bst", bst) /\ Idle("avl", avl) /\ Idle("avl adds", avlAdds)
    /\ Idle("ring", ring) /\ Idle("loop", loop) /\ Idle("line", line)
    /\ Idle("bplus", bplus) /\ Idle("bplus two", bplusTwo)
    /\ Idle("pool", <<pool, given>>) /\ Idle("pool free", <<poolFree, givenFree>>)
    /\ Idle("list", <<list, listArray, listLive>>) /\ Idle("map", <<mapNodeList, answer>>)
    /\ Idle("ranges", <<ranges, pending>>)
    /\ Idle("graph", <<graph, dijkstra>>) /\ Idle("linked", <<linked, linkedPaths>>)
    /\ Idle("min heap", <<heap, series, fast, popped>>)
    /\ Idle("max heap", <<maxHeap, maxSeries, maxFast, maxPopped>>)
    /\ Idle("hash", <<hashFunction, nodeList, size, out>>)
    /\ Idle("smart", <<ptr, refCount, alive, deleted>>)
    /\ Idle("multi", <<multi, taken, overrun>>) /\ Idle("turned", <<turned, turnedTaken, turnedOverrun>>)

Step ==
    /\ \/ case = "queue" /\ Next
       \/ case = "heap queue" /\ HeapQueue!Next
       \/ case = "bst" /\ Bst!Next
       \/ case = "avl" /\ Avl!AVLNext
       \/ case = "avl adds" /\ AvlAdds!AVLNext
       \/ case = "ring" /\ Ring!Next
       \/ case = "loop" /\ Loop!Next
       \/ case = "line" /\ Line!Next
       \/ case = "bplus" /\ BPlus!Next
       \/ case = "bplus two" /\ BPlusTwo!Next
       \/ case = "pool" /\ Pool!Next
       \/ case = "pool free" /\ PoolFree!Next
       \/ case = "list" /\ Listed!Next
       \/ case = "map" /\ Mapped!Next
       \/ case = "ranges" /\ Ranged!Next
       \/ case = "graph" /\ Graph!Next
       \/ case = "linked" /\ Linked!Next
       \/ case = "min heap" /\ MinHeap!Next
       \/ case = "max heap" /\ MaxHeap!Next
       \/ case = "hash" /\ Hashed!Next
       \/ case = "smart" /\ Smart!Next
       \/ case = "multi" /\ Multi!Next
       \/ case = "turned" /\ Turned!Next
    /\ OthersIdle

Suite == Start /\ [][Step]_all

-----------------------------------------------------------------------------
(* The properties of the instances; those of Queue are its own.  Each is   *)
(* made of named parts, which the module of the structure states.          *)

\* Whatever keys come and go, in whatever order: the nodes are a search tree, the walks
\* that keep only a direction visit them as recursive ones do, a copy has the same
\* shape and Clear frees each node once; a tree that balances itself is balanced; and
\* the leaves of a B+ tree are linked in order, hold what Get finds, and agree with
\* every index page above them.
TreesRight ==
    /\ case = "bst" => /\ Bst!SearchTree
                       /\ Bst!TraversalsRight
                       /\ Bst!CopySameShape
                       /\ Bst!ClearFreesAll
    /\ case = "avl" => Avl!Balanced
    /\ case = "avl adds" => AvlAdds!Balanced
    /\ case = "bplus" => BPlus!LeavesAgreeWithIndex /\ BPlus!PagesInTree
    /\ case = "bplus two" => BPlusTwo!ValidateTree

\* Adding or deleting a key adds or removes that key and no other, whichever
\* rotations, splits and merges it takes.
TreesChangeOneKey ==
    [][ /\ case = "bst" => Bst!OneElementChanges
        /\ case = "avl" => Avl!RotationsKeepElements
        /\ case = "bplus" => BPlus!OneKeyChanges ]_all

\* Arrays, pointers and rings are the sequences they stand for: the elements of List,
\* the items and the position of the linked lists (of which Insert is called at the root
\* only, or just puts the item in its place), and what each type of a multilist
\* promises, also when it changes its type.
SequencesImplemented ==
    [][ /\ case = "list" => Listed!ImplementsList
        /\ case = "ring" => Ring!InsertsInPlace
        /\ case = "loop" => Loop!ImplementsCursorList
        /\ case = "line" => Line!ImplementsCursorList
        /\ case = "multi" => Multi!ImplementsOpenList
        /\ case = "turned" => Turned!ImplementsOpenList ]_all

\* A map is a function of its keys, a hash table a stack for each key, a heap a queue
\* that gives one of the least (or greatest) weights that were pushed, and a memory pool
\* gives each caller a block of its own, as long as it uses no page whose memory ran out
\* while it was initialised.
StoresImplemented ==
    [][ /\ case = "map" => Mapped!ImplementsStore
        /\ case = "hash" => Hashed!ImplementsStacks
        /\ case = "min heap" => MinHeap!ImplementsQueue
        /\ case = "max heap" => MaxHeap!ImplementsQueue
        /\ case = "pool free" => PoolFree!ImplementsBlockPool ]_all

\* What the searches rely on is kept by every method: the order of a map's keys, of a
\* multilist marked as sorted and of a heap, and the counts of a list and a hash table.
SearchesRight ==
    /\ case = "list" => Listed!TypeOK
    /\ case = "map" => Mapped!SearchRight
    /\ case = "multi" => Multi!FindsAll
    /\ case = "min heap" => MinHeap!HeapOrder
    /\ case = "hash" => Hashed!SizeRight

\* What is on the heap is owned once: a queue and a list have one array while they have
\* room and none otherwise, the nodes of a circular list are one ring both ways and a
\* copy has nodes of its own with the same items, a multilist writes inside its array,
\* and no smart pointer is left to a deleted object, nor an object without a pointer.
\* The pages of a memory pool are in the ring of those that have a block to give or in
\* that of those that have none, a block is with its page or with one caller, and of
\* the pages that nobody uses fewer than MaxFreePages stay.
MemoryRight ==
    /\ case = "heap queue" => HeapQueue!OneArray
    /\ case = "list" => Listed!OneArray
    /\ case = "ring" => Ring!OneRing /\ Ring!CopySame
    /\ case = "multi" => Multi!StaysInside
    /\ case = "smart" => Smart!NothingDangles /\ Smart!CountRight
    /\ case = "pool" => Pool!RingsRight /\ Pool!BlocksKept
    /\ case = "pool free" => PoolFree!FewEmptyPages

\* GetShortestPath returns a shortest path and an empty one where there is none,
\* GetSpanningTree puts a tree together, an edge is in the lists of both its nodes, and
\* a node that is left without connections is removed once.
GraphsRight ==
    /\ case = "graph" => Graph!PathRight /\ Graph!SpanningTreeRight
    /\ case = "linked" => Linked!Symmetric /\ Linked!RemovalDefined

\* A range list holds the numbers inserted and not yet handed over, and no other, in
\* ranges that ascend and have no number in common.
RangesRight == case = "ranges" => Ranged!Disjoint /\ Ranged!NothingLost
=============================================================================
