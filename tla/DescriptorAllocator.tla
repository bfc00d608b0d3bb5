------------------------- MODULE DescriptorAllocator -------------------------
(***************************************************************************)
(* DX12Lib's DescriptorAllocator with its pages and the allocations it     *)
(* hands out (DescriptorAllocator.cpp, DescriptorAllocatorPage.cpp,        *)
(* DescriptorAllocation.cpp).  Allocate and ReleaseStaleDescriptors hold   *)
(* the allocator's mutex, so one of them is under way at a time; an        *)
(* allocation is freed by a destructor or a move assignment, on any thread *)
(* and at any time, and takes the mutex of its page only.                  *)
(*                                                                         *)
(* m_FreeListByOffset and m_FreeListBySize are two indexes on the same     *)
(* blocks (AddNewBlock enters a block into both, and whoever erases one    *)
(* entry erases the other): one set, searched in two ways.                 *)
(***************************************************************************)
EXTENDS Naturals, FiniteSets

CONSTANTS
  Requests,               \* the numbers of descriptors callers ask for
  NumDescriptorsPerHeap,  \* the allocator's constructor argument
  MaxIndex,               \* the largest uint32_t
  MaxPages                \* bound on the pages that are created

ASSUME AllocatorAssumption ==
  /\ MaxIndex \in Nat
  /\ Requests \subseteq 1..MaxIndex
  /\ NumDescriptorsPerHeap \in 1..MaxIndex
  /\ MaxPages \in Nat

Pages == 1..MaxPages

VARIABLES
  heapPool,       \* m_HeapPool.size(): pages 1..heapPool exist
  available,      \* m_AvailableHeaps
  perHeap,        \* m_NumDescriptorsPerHeap
  numDescriptors, \* numDescriptors[p]: m_NumDescriptorsInHeap
  numFree,        \* m_NumFreeHandles
  freeList,       \* m_FreeListByOffset, m_FreeListBySize
  stale,          \* m_StaleDescriptors
  live,           \* the allocations that are not null
  call            \* who holds the allocator's mutex, and how far it is

pageVars == <<numDescriptors, numFree, freeList, stale>>
vars == <<heapPool, available, perHeap, pageVars, live, call>>

Blocks      == [offset : 0..MaxIndex, size : 1..MaxIndex]
Allocations == [page : Pages, block : Blocks]

Block(o, n) == [offset |-> o, size |-> n]
End(b)      == b.offset + b.size

\* No call, a call of Allocate(n) that has visited the pages up to p, a call
\* of ReleaseStaleDescriptors that comes to page p, and one that has its lock.
Idle             == [op |-> "none", page |-> 0, n |-> 0]
Allocating(p, n) == [op |-> "allocate", page |-> p, n |-> n]
Releasing(p)     == [op |-> "release", page |-> p, n |-> 0]
Sweeping(p)      == [op |-> "sweep", page |-> p, n |-> 0]

TypeOK ==
  /\ heapPool \in 0..MaxPages
  /\ available \subseteq 1..heapPool
  /\ perHeap \in 1..MaxIndex
  /\ numDescriptors \in [Pages -> 0..MaxIndex]
  /\ numFree \in [Pages -> 0..MaxIndex]
  /\ freeList \in [Pages -> SUBSET Blocks]
  /\ stale \in [Pages -> SUBSET Blocks]
  /\ live \subseteq Allocations
  /\ call \in [op : {"none", "allocate", "release", "sweep"},
               page : 0..(MaxPages + 1), n : Requests \cup {0}]

Init ==
  /\ heapPool = 0
  /\ available = {}
  /\ perHeap = NumDescriptorsPerHeap
  /\ numDescriptors = [p \in Pages |-> 0]
  /\ numFree = [p \in Pages |-> 0]
  /\ freeList = [p \in Pages |-> {}]
  /\ stale = [p \in Pages |-> {}]
  /\ live = {}
  /\ call = Idle

-----------------------------------------------------------------------------
(* DescriptorAllocatorPage.  A definition that ends in _mutant is a slip    *)
(* one could make in the code; no specification uses it.                    *)

\* The blocks of page p with room for n descriptors, and the smallest ones:
\* which of several of one size lower_bound finds depends on their history.
Fitting(p, n) == {b \in freeList[p] : n <= numFree[p] /\ n <= b.size}
Smallest(B) == {b \in B : \A c \in B : b.size <= c.size}

\* What is left of block b when its first n descriptors are taken.
Remainder_mutant(b, n) == {Block(b.offset + n, b.size - n)}
RemainderOverlaps_mutant(b, n) ==
  IF b.size > n THEN {Block(b.offset + n - 1, b.size - n + 1)} ELSE {}
RemainderShort_mutant(b, n) ==
  IF b.size > n + 1 THEN {Block(b.offset + n, b.size - n)} ELSE {}
Remainder(b, n) ==
  IF b.size > n THEN {Block(b.offset + n, b.size - n)} ELSE {}

\* The last block at or before offset o, and the first one after it.
PrevBlock(F, o) ==
  {b \in F : b.offset <= o /\ \A c \in F : c.offset <= o => c.offset <= b.offset}
NextBlock(F, o) ==
  {b \in F : b.offset > o /\ \A c \in F : c.offset > o => b.offset <= c.offset}

\* The blocks that end where b begins, and that begin where b ends.
Behind(F, b) == {c \in PrevBlock(F, b.offset) : End(c) = b.offset}
Ahead(F, b)  == {c \in NextBlock(F, b.offset) : End(b) = c.offset}

\* What becomes of b when it is merged with them.
Merged(F, b) ==
  LET from == IF Behind(F, b) = {} THEN b.offset
              ELSE (CHOOSE c \in Behind(F, b) : TRUE).offset
      to   == IF Ahead(F, b) = {} THEN End(b)
              ELSE End(CHOOSE c \in Ahead(F, b) : TRUE)
  IN  Block(from, to - from)

FreeBlock_mutant(F, b) == F \cup {b}
FreeBlockKeepsNext_mutant(F, b) == (F \ Behind(F, b)) \cup {Merged(F, b)}
FreeBlock(F, b) == (F \ (Behind(F, b) \cup Ahead(F, b))) \cup {Merged(F, b)}

\* What FreeBlock adds to m_NumFreeHandles, before it merges.
Freed_mutant(F, b) == Merged(F, b).size
Freed(F, b) == b.size

-----------------------------------------------------------------------------
(* DescriptorAllocator::Allocate.  The pages it has visited are those up to *)
(* call.page.                                                               *)

NextPages == {p \in available : p > call.page}
Visit(p)  == p \in NextPages /\ \A q \in NextPages : p <= q

Returns(p, o, n) == live' = live \cup {[page |-> p, block |-> Block(o, n)]}

\* Bound: a call that would need more than MaxPages pages is not made.
BeginAllocate(n) ==
  /\ call = Idle
  /\ heapPool < MaxPages \/ \E p \in available : Fitting(p, n) # {}
  /\ call' = Allocating(0, n)
  /\ UNCHANGED <<heapPool, available, perHeap, pageVars, live>>

AllocateFromPage(p, b) ==
  /\ call.op = "allocate"
  /\ Visit(p)
  /\ b \in Smallest(Fitting(p, call.n))
  /\ freeList' = [freeList EXCEPT ![p] = (@ \ {b}) \cup Remainder(b, call.n)]
  /\ numFree' = [numFree EXCEPT ![p] = @ - call.n]
  /\ available' = IF numFree[p] = call.n THEN available \ {p} ELSE available
  /\ Returns(p, b.offset, call.n)
  /\ call' = Idle
  /\ UNCHANGED <<heapPool, perHeap, numDescriptors, stale>>

\* The page has no block for the request; if it is full it is dropped from
\* the available ones.
SkipPage(p) ==
  /\ call.op = "allocate"
  /\ Visit(p)
  /\ Fitting(p, call.n) = {}
  /\ available' = IF numFree[p] = 0 THEN available \ {p} ELSE available
  /\ call' = Allocating(p, call.n)
  /\ UNCHANGED <<heapPool, perHeap, pageVars, live>>

\* CreateAllocatorPage, and the allocation from the new page, which stays
\* among the available ones even if that fills it.
AllocateFromNewPage ==
  LET p    == heapPool + 1
      size == IF perHeap < call.n THEN call.n ELSE perHeap
  IN
  /\ call.op = "allocate"
  /\ NextPages = {}
  /\ heapPool < MaxPages
  /\ heapPool' = p
  /\ perHeap' = size
  /\ available' = available \cup {p}
  /\ numDescriptors' = [numDescriptors EXCEPT ![p] = size]
  /\ numFree' = [numFree EXCEPT ![p] = size - call.n]
  /\ freeList' = [freeList EXCEPT ![p] = Remainder(Block(0, size), call.n)]
  /\ Returns(p, 0, call.n)
  /\ call' = Idle
  /\ UNCHANGED stale

-----------------------------------------------------------------------------
(* DescriptorAllocation::Free.  It waits while the page's mutex is held,    *)
(* which it is for more than one step in ReleaseStaleDescriptors only.      *)

Free(a) ==
  /\ a \in live
  /\ call # Sweeping(a.page)
  /\ live' = live \ {a}
  /\ stale' = [stale EXCEPT ![a.page] = @ \cup {a.block}]
  /\ UNCHANGED <<heapPool, available, perHeap, numDescriptors, numFree, freeList, call>>

-----------------------------------------------------------------------------
(* ReleaseStaleDescriptors, of the allocator and of its pages.  The order   *)
(* in which a page frees its stale blocks is left open.                     *)

BeginRelease ==
  /\ call = Idle
  /\ call' = Releasing(1)
  /\ UNCHANGED <<heapPool, available, perHeap, pageVars, live>>

\* The loop over m_HeapPool has not come to its end.
PagesLeft_mutant == call.page < heapPool
PagesLeft == call.page <= heapPool

LockPage ==
  /\ call.op = "release"
  /\ PagesLeft
  /\ call' = Sweeping(call.page)
  /\ UNCHANGED <<heapPool, available, perHeap, pageVars, live>>

ReleaseBlock(b) ==
  LET p == call.page IN
  /\ call.op = "sweep"
  /\ b \in stale[p]
  /\ numFree' = [numFree EXCEPT ![p] = @ + Freed(freeList[p], b)]
  /\ freeList' = [freeList EXCEPT ![p] = FreeBlock(@, b)]
  /\ stale' = [stale EXCEPT ![p] = @ \ {b}]
  /\ UNCHANGED <<heapPool, available, perHeap, numDescriptors, live, call>>

\* A page with free handles is available again.
Reinsert_mutant(p) == available
Reinsert(p) == IF numFree[p] > 0 THEN available \cup {p} ELSE available

UnlockPage ==
  LET p == call.page IN
  /\ call.op = "sweep"
  /\ stale[p] = {}
  /\ available' = Reinsert(p)
  /\ call' = Releasing(p + 1)
  /\ UNCHANGED <<heapPool, perHeap, pageVars, live>>

EndRelease ==
  /\ call.op = "release"
  /\ ~PagesLeft
  /\ call' = Idle
  /\ UNCHANGED <<heapPool, available, perHeap, pageVars, live>>

-----------------------------------------------------------------------------
Allocate ==
  \/ \E p \in Pages : SkipPage(p) \/ \E b \in freeList[p] : AllocateFromPage(p, b)
  \/ AllocateFromNewPage

ReleaseStaleDescriptors ==
  \/ LockPage \/ UnlockPage \/ EndRelease
  \/ \E b \in UNION {stale[p] : p \in Pages} : ReleaseBlock(b)

Next ==
  \/ \E n \in Requests : BeginAllocate(n)
  \/ BeginRelease
  \/ Allocate
  \/ ReleaseStaleDescriptors
  \/ \E a \in live : Free(a)

Spec == Init /\ [][Next]_vars

(* A call that has the mutex goes on, and the window's thread, which calls  *)
(* ReleaseStaleDescriptors in each Present, gets the mutex in the end.      *)
Fairness ==
  /\ WF_vars(Allocate) /\ WF_vars(ReleaseStaleDescriptors)
  /\ SF_vars(BeginRelease)

FairSpec == Spec /\ Fairness

-----------------------------------------------------------------------------
(* Properties.                                                             *)

Live(p)      == {a.block : a \in {l \in live : l.page = p}}
AllBlocks(p) == freeList[p] \cup stale[p] \cup Live(p)

Apart(b, c) == End(b) <= c.offset \/ End(c) <= b.offset
Covered(B)  == UNION {b.offset..(End(b) - 1) : b \in B}

\* No descriptor is handed out twice or is free and in use: the free blocks,
\* the stale ones and the live allocations of a page do not overlap
\* (DescriptorAllocatorPage.cpp:64-97, 119-181).
NoOverlap ==
  \A p \in Pages :
    /\ \A b, c \in AllBlocks(p) : b # c => Apart(b, c)
    /\ freeList[p] \cap stale[p] = {}
    /\ freeList[p] \cap Live(p) = {}
    /\ stale[p] \cap Live(p) = {}

\* No descriptor is lost: free, stale and live blocks make up the page.
NoneLost == \A p \in Pages : Covered(AllBlocks(p)) = 0..(numDescriptors[p] - 1)

\* m_NumFreeHandles, which decides whether a page is looked at, is the number
\* of descriptors in the free list (DescriptorAllocatorPage.cpp:59, 97, 143).
FreeCount == \A p \in Pages : numFree[p] = Cardinality(Covered(freeList[p]))

\* Free blocks that touch have been merged, in whatever order they came back
\* (DescriptorAllocatorPage.cpp:145-177).
Coalesced == \A p \in Pages : \A b, c \in freeList[p] : End(b) # c.offset

\* A page is created only for a request that no block of any page satisfies
\* (DescriptorAllocator.cpp:41-44: "If there is no page to satisfy the
\* request, a new page is created"): a page that was full and was dropped is
\* found again.
NoNeedlessPage ==
  [][heapPool' # heapPool =>
       \A p \in 1..heapPool : \A b \in freeList[p] : b.size < call.n]_vars

\* A freed descriptor becomes unused in the end, although Free and
\* ReleaseStaleDescriptors run on different threads.
StaleAreReleased ==
  \A p \in Pages, b \in Blocks : b \in stale[p] ~> b \notin stale[p]

\* The allocator implements DescriptorPool.
Of(list) == UNION {{p} \X Covered(list[p]) : p \in Pages}
Pool == INSTANCE DescriptorPool WITH
  unused <- Of(freeList),
  used   <- Of([p \in Pages |-> Live(p)]),
  stale  <- Of(stale)
ImplementsPool == Pool!Spec

=============================================================================
