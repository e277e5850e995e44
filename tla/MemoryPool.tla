----------------------------- MODULE MemoryPool ------------------------------
(***************************************************************************)
(* The class MemoryPool of DS_MemoryPool.h.  Pages are numbers, which      *)
(* stand for their addresses; they are linked in two rings.  A block is a  *)
(* page and an index into it.  A page whose InitPage failed was never      *)
(* written: what follows its links or its stack is undefined, and the pool *)
(* is wild from then on.                                                   *)
(***************************************************************************)
EXTENDS Integers, Sequences, FiniteSets

CONSTANTS BlocksPerPage,  \* memoryPoolPageSize / sizeof(MemoryWithPage)
          MaxFreePages,   \* DS_MEMORY_POOL_MAX_FREE_PAGES
          MaxPages,       \* bound: pages at a time
          MayFail         \* may rakMalloc_Ex return 0 in InitPage

\* DS_MemoryPool.h asserts the first and demands the second.
MemoryPoolAssumption ==
    /\ BlocksPerPage \in Nat \ {0, 1}
    /\ MaxFreePages \in Nat \ {0, 1}
    /\ MaxPages \in Nat /\ MayFail \in BOOLEAN

VARIABLES pool,      \* the members, and the pages on the heap
          allocated  \* the blocks the callers have

vars == <<pool, allocated>>

Nil == 0
Nowhere == <<Nil, Nil>>  \* an address that is no block

Empty == [availablePages |-> Nil, unavailablePages |-> Nil,
          availablePagesSize |-> 0, unavailablePagesSize |-> 0, pages |-> <<>>, wild |-> FALSE]

Free(p, n) == Len(p.pages[n].availableStack)

-----------------------------------------------------------------------------
(* Rings.                                                                  *)

Alone(P, n) == [P EXCEPT ![n].next = n, ![n].prev = n]

Unlinked(P, n) ==
    LET Q == [P EXCEPT ![P[n].next].prev = P[n].prev]
    IN  [Q EXCEPT ![Q[n].prev].next = Q[n].next]

\* Mutant: the head does not learn its new predecessor.
LinkedOneWay(P, head, n) ==
    LET Q == [P EXCEPT ![n].next = head, ![n].prev = P[head].prev]
    IN  [Q EXCEPT ![Q[head].prev].next = n]

\* Before the head, which is the end of the ring.
LinkedLast(P, head, n) ==
    LET Q == [P EXCEPT ![n].next = head, ![n].prev = P[head].prev]
        R == [Q EXCEPT ![Q[head].prev].next = n]
    IN  [R EXCEPT ![head].prev = n]

MovedToUnavailable(p, n) ==
    LET P == Unlinked(p.pages, n)
        first == p.unavailablePagesSize = 0
    IN  [p EXCEPT !.availablePages = p.pages[n].next,
                  !.availablePagesSize = @ - 1,
                  !.unavailablePages = IF first THEN n ELSE @,
                  !.unavailablePagesSize = @ + 1,
                  !.pages = IF first THEN Alone(P, n) ELSE LinkedLast(P, p.unavailablePages, n)]

MovedToAvailable(p, n) ==
    LET P == Unlinked(p.pages, n)
        first == p.availablePagesSize = 0
        others == p.unavailablePagesSize - 1 > 0
    IN  [p EXCEPT !.unavailablePages = IF others /\ n = @ THEN P[n].next ELSE @,
                  !.unavailablePagesSize = @ - 1,
                  !.availablePages = IF first THEN n ELSE @,
                  !.availablePagesSize = @ + 1,
                  !.pages = IF first THEN Alone(P, n) ELSE LinkedLast(P, p.availablePages, n)]

-----------------------------------------------------------------------------
(* Methods.                                                                *)

\* The last block of a page's stack.
Top(p, n) == <<n, p.pages[n].availableStack[Free(p, n)]>>
WithoutTop(p, n) == [p EXCEPT !.pages[n].availableStack = SubSeq(@, 1, Len(@) - 1)]

\* The first available page is one that was never written; it is the only one.
FirstUnwritten ==
    pool.availablePagesSize > 0 /\ ~pool.pages[pool.availablePages].written

\* What is left of the pool once a pointer that nobody wrote was followed.
Wild == [pool EXCEPT !.wild = TRUE]

AllocateFromPage ==
    LET n == pool.availablePages
        taken == WithoutTop(pool, n)
    IN  /\ pool.availablePagesSize > 0 /\ ~FirstUnwritten
        /\ pool' = IF Free(taken, n) = 0 THEN MovedToUnavailable(taken, n) ELSE taken
        /\ allocated' = allocated \cup {Top(pool, n)}

\* A stack that is not there at an index that nobody wrote: the caller gets any
\* address, a block that somebody has or none of the pool's.
AllocateFromUnwritten ==
    /\ FirstUnwritten
    /\ pool' = Wild
    /\ \E block \in ((1 .. MaxPages) \X (1 .. BlocksPerPage)) \cup {Nowhere} :
          allocated' = allocated \cup {block}

NewPage == CHOOSE n \in 1 .. MaxPages : n \notin DOMAIN pool.pages

\* InitPage links the page to itself, the first of the available ones.
InitPage(n) ==
    [written |-> TRUE, availableStack |-> [i \in 1 .. BlocksPerPage |-> i], next |-> n, prev |-> n]

Unwritten == [written |-> FALSE, availableStack |-> <<>>, next |-> Nil, prev |-> Nil]

WithPage(n, page) ==
    [pool EXCEPT !.availablePages = n, !.availablePagesSize = 1,
                 !.pages = [k \in DOMAIN pool.pages \cup {n} |-> IF k = n THEN page ELSE pool.pages[k]]]

AllocateNewPage ==
    /\ pool.availablePagesSize = 0 /\ DOMAIN pool.pages # 1 .. MaxPages
    /\ LET n == NewPage
           p == WithPage(n, InitPage(n))
       IN  /\ pool' = WithoutTop(p, n)
           /\ allocated' = allocated \cup {Top(p, n)}

\* Allocate returns 0, and the page stays the first of the available ones.
InitPageFails ==
    /\ MayFail
    /\ pool.availablePagesSize = 0 /\ DOMAIN pool.pages # 1 .. MaxPages
    /\ pool' = WithPage(NewPage, Unwritten)
    /\ UNCHANGED allocated

\* rakMalloc_Ex gives no page.
NoPage == MayFail /\ pool.availablePagesSize = 0 /\ pool' = [pool EXCEPT !.availablePages = Nil] /\ UNCHANGED allocated

Given(block) == [pool EXCEPT !.pages[block[1]].availableStack = Append(@, block[2])]

\* Mutant: one more page may stay.
SurplusMore(p, n) ==
    Free(p, n) = BlocksPerPage /\ p.availablePagesSize > MaxFreePages

\* Mutant: the stack is looked at before it has the block.
SurplusTooEarly(p, n) ==
    Free(p, n) = BlocksPerPage - 1 /\ p.availablePagesSize >= MaxFreePages

\* After a certain point empty pages are not kept.
Surplus(p, n) ==
    Free(p, n) = BlocksPerPage /\ p.availablePagesSize >= MaxFreePages

Deallocated(p, n) ==
    LET P == Unlinked(p.pages, n)
    IN  [p EXCEPT !.availablePages = IF @ = n THEN p.pages[n].next ELSE @,
                  !.availablePagesSize = @ - 1,
                  !.pages = [k \in DOMAIN P \ {n} |-> P[k]]]

\* A page that was full is linked between the last available one and the first.
Release(block) ==
    LET n == block[1]
        given == Given(block)
    IN  /\ block \in allocated
        /\ pool' = IF Free(pool, n) = 0 /\ FirstUnwritten THEN Wild
                   ELSE IF Free(pool, n) = 0 THEN MovedToAvailable(given, n)
                   ELSE IF Surplus(given, n) THEN Deallocated(given, n)
                   ELSE given
        /\ allocated' = allocated \ {block}

\* The pages from first on along next until first comes again.
Ring(P, first) ==
    LET along[k \in 0 .. Cardinality(DOMAIN P)] ==
            IF k = 0 THEN <<first>>
            ELSE LET s == along[k - 1]
                     next == P[s[Len(s)]].next
                 IN  IF next = first THEN s ELSE Append(s, next)
    IN  along[Cardinality(DOMAIN P)]

Pages(s) == {s[i] : i \in DOMAIN s}

AvailableRing(p) == IF p.availablePagesSize > 0 THEN Ring(p.pages, p.availablePages) ELSE <<>>
UnavailableRing(p) == IF p.unavailablePagesSize > 0 THEN Ring(p.pages, p.unavailablePages) ELSE <<>>

Emptied(freed) ==
    [pool EXCEPT !.availablePagesSize = 0, !.unavailablePagesSize = 0,
                 !.pages = [n \in DOMAIN pool.pages \ freed |-> pool.pages[n]]]

\* Mutant: the full pages are forgotten.
ClearAvailable ==
    /\ pool' = IF FirstUnwritten THEN Wild ELSE Emptied(Pages(AvailableRing(pool)))
    /\ allocated' = {}

\* The pages of both rings are freed; the two pointers stay.  Of a page that was
\* never written the stack, the blocks and the next page are freed all the same.
Clear ==
    /\ pool' = IF FirstUnwritten THEN Wild
               ELSE Emptied(Pages(AvailableRing(pool)) \cup Pages(UnavailableRing(pool)))
    /\ allocated' = {}

Init == pool = Empty /\ allocated = {}

Allocate == AllocateFromPage \/ AllocateFromUnwritten \/ AllocateNewPage

\* What a wild pool does is not modelled.
Next ==
    /\ ~pool.wild
    /\ Allocate \/ InitPageFails \/ NoPage \/ Clear \/ \E block \in allocated : Release(block)

Spec == Init /\ [][Next]_vars

-----------------------------------------------------------------------------
(* Properties.                                                             *)

IsRing(P, s) ==
    \A i \in DOMAIN s : LET next == IF i = Len(s) THEN s[1] ELSE s[i + 1]
                        IN  P[s[i]].next = next /\ P[next].prev = s[i]

\* Whatever the order of allocations and releases, one ring holds the pages that
\* have a block to give, the other those that have none, and no page is lost.
RingsRight ==
    LET available == AvailableRing(pool)
        unavailable == UnavailableRing(pool)
    IN  /\ Len(available) = pool.availablePagesSize /\ Len(unavailable) = pool.unavailablePagesSize
        /\ IsRing(pool.pages, available) /\ IsRing(pool.pages, unavailable)
        /\ Pages(available) = {n \in DOMAIN pool.pages : Free(pool, n) > 0}
        /\ Pages(unavailable) = {n \in DOMAIN pool.pages : Free(pool, n) = 0}

\* A block is in the stack of its page, once, or with a caller; the page of a
\* caller's block is there.
BlocksKept ==
    /\ \A n \in DOMAIN pool.pages : LET stack == pool.pages[n].availableStack IN
          /\ \A i, j \in DOMAIN stack : stack[i] = stack[j] => i = j
          /\ \A i \in 1 .. BlocksPerPage : <<n, i>> \in allocated <=> i \notin Pages(stack)
    /\ \A block \in allocated : block[1] \in DOMAIN pool.pages

\* Pages that nobody uses are returned: fewer than MaxFreePages stay.
FewEmptyPages ==
    Cardinality({n \in DOMAIN pool.pages : Free(pool, n) = BlocksPerPage}) < MaxFreePages

Promise == INSTANCE BlockPool

\* As long as no page that InitPage left unwritten is used, the pool gives each caller
\* a block of its own, of a page that is there, and Clear leaves no page.
ImplementsBlockPool ==
    ~pool'.wild =>
        /\ Allocate => \E n \in DOMAIN pool'.pages, i \in 1 .. BlocksPerPage : Promise!Allocate(<<n, i>>)
        /\ Clear => Promise!Clear /\ pool'.pages = <<>>

\* "availablePages contains pages which have room to give the user new blocks": what a
\* caller has is a block of a page that was written.
BlocksOfPages ==
    \A block \in allocated :
        block[1] \in DOMAIN pool.pages /\ pool.pages[block[1]].written
=============================================================================
