----------------------- MODULE DynamicDescriptorHeap -----------------------
(***************************************************************************)
(* DX12Lib's DynamicDescriptorHeap (DynamicDescriptorHeap.h and .cpp) for  *)
(* one type of heap: descriptors are staged for the tables of a root       *)
(* signature and copied to a heap the GPU sees when something is drawn.    *)
(* What the GPU is given is what a heap holds when the list is executed,   *)
(* so a range of it must not be used twice.  Inline descriptors are of     *)
(* three kinds that are treated alike; one stands for them.                *)
(*                                                                         *)
(* Heaps are numbered in the order in which they were made.                *)
(***************************************************************************)
EXTENDS Naturals, Sequences, FiniteSetsExt

CONSTANTS
  Tables,               \* Tables[s][i]: how many descriptors table i of root signature s has
  MaxDescriptorTables,  \* root indices are below it (32)
  PerHeap,              \* m_NumDescriptorsPerHeap
  MaxHeaps,             \* bound on the heaps of the pool
  NoHeap                \* a null heap

\* The descriptors of the tables in front of index i, and of all tables.
Before(sizes, i) ==
  LET currentOffset[n \in 0..MaxDescriptorTables] ==
        IF n = 0 THEN 0
        ELSE currentOffset[n - 1] + (IF n - 1 \in DOMAIN sizes THEN sizes[n - 1] ELSE 0)
  IN currentOffset[i]
Total(sizes) == Before(sizes, MaxDescriptorTables)

\* A heap has a place, and ParseRootSignature asserts that the tables fit in one.
ASSUME HeapAssumption ==
  /\ MaxDescriptorTables \in Nat /\ PerHeap \in Nat \ {0} /\ MaxHeaps \in Nat
  /\ \A s \in DOMAIN Tables :
       /\ DOMAIN Tables[s] \subseteq 0..(MaxDescriptorTables - 1)
       /\ Tables[s] \in [DOMAIN Tables[s] -> Nat]
       /\ Total(Tables[s]) <= PerHeap
  /\ NoHeap \notin Nat

VARIABLES
  cache,           \* m_DescriptorHandleCache
  tables,          \* m_DescriptorTableCache: number and base of the descriptors
  tableMask,       \* m_DescriptorTableBitMask
  staleTables,     \* m_StaleDescriptorTableBitMask
  inline,          \* m_InlineCBV
  staleInline,     \* m_StaleCBVBitMask
  heapPool,        \* m_DescriptorHeapPool: how many heaps there are
  availableHeaps,  \* m_AvailableDescriptorHeaps
  currentHeap,     \* m_CurrentDescriptorHeap
  handle,          \* m_CurrentCPUDescriptorHandle and the GPU's, as an index
  numFree,         \* m_NumFreeHandles
  heaps            \* heaps[h][n]: the descriptor that was copied to place n of heap h

stagingVars == <<cache, tables, tableMask, staleTables, inline, staleInline>>
heapVars    == <<heapPool, availableHeaps, currentHeap, handle, numFree, heaps>>

Null == 0
Empty == [n \in 0..(PerHeap - 1) |-> Null]

InitHeap ==
  /\ cache = Empty
  /\ tables = [i \in {} |-> <<>>]
  /\ tableMask = {} /\ staleTables = {}
  /\ inline = [i \in {} |-> Null] /\ staleInline = {}
  /\ heapPool = 0 /\ availableHeaps = <<>>
  /\ currentHeap = NoHeap /\ handle = 0 /\ numFree = 0
  /\ heaps = [h \in 1..MaxHeaps |-> Empty]

HeapOK ==
  /\ tableMask \subseteq DOMAIN tables /\ staleTables \subseteq tableMask
  /\ \A i \in tableMask : tables[i].base + tables[i].num <= PerHeap
  /\ currentHeap \in {NoHeap} \cup 1..heapPool
  /\ numFree \in 0..PerHeap
  /\ currentHeap # NoHeap => handle + numFree = PerHeap

-----------------------------------------------------------------------------
(* Staging.                                                                *)

\* m[x] = v, and all of n put into m, for arrays.
Put(m, x, v) == [y \in {x} \cup DOMAIN m |-> IF y = x THEN v ELSE m[y]]
PutAll(m, n) == [y \in DOMAIN n \cup DOMAIN m |-> IF y \in DOMAIN n THEN n[y] ELSE m[y]]

ParseRootSignature(s) ==
  /\ staleTables' = {}
  /\ tableMask' = DOMAIN Tables[s]
  /\ tables' = PutAll(tables, [i \in DOMAIN Tables[s] |->
                                 [num |-> Tables[s][i], base |-> Before(Tables[s], i)]])
  /\ UNCHANGED <<cache, inline, staleInline, heapVars>>

\* n descriptors from the one named d, in table i from its place o.
StageDescriptors(i, o, n, d) ==
  /\ i \in DOMAIN tables /\ o + n <= tables[i].num
  /\ cache' = [p \in DOMAIN cache |->
       LET first == tables[i].base + o IN
       IF p \in first..(first + n - 1) THEN d + (p - first) ELSE cache[p]]
  /\ staleTables' = staleTables \cup {i}
  /\ UNCHANGED <<tables, tableMask, inline, staleInline, heapVars>>

StageInline(i, address) ==
  /\ inline' = Put(inline, i, address)
  /\ staleInline' = staleInline \cup {i}
  /\ UNCHANGED <<cache, tables, tableMask, staleTables, heapVars>>

-----------------------------------------------------------------------------
(* Committing.                                                             *)

Sizes(T) == [i \in T |-> tables[i].num]
ComputeStaleDescriptorCount == Total(Sizes(staleTables))

NeedsHeap == currentHeap = NoHeap \/ numFree < ComputeStaleDescriptorCount

RequestDescriptorHeap == IF availableHeaps # <<>> THEN Head(availableHeaps) ELSE heapPool + 1

\* A new heap needs all tables, not only those that have been staged.
ToCommit_mutant == staleTables
ToCommit == IF NeedsHeap THEN tableMask ELSE staleTables

Heap == IF NeedsHeap THEN RequestDescriptorHeap ELSE currentHeap

\* Where the tables go: the list is given these for its root parameters.
First(i) == (IF NeedsHeap THEN 0 ELSE handle) + Before(Sizes(ToCommit), i)
Committed == [i \in ToCommit |-> [heap |-> Heap, start |-> First(i)]]

\* CommitDescriptorTables, when something is stale.  Bound: MaxHeaps.
CommitDescriptorTables ==
  LET count == Total(Sizes(ToCommit)) IN
  /\ staleTables # {} /\ Heap <= MaxHeaps
  /\ heapPool' = Max({heapPool, Heap})
  /\ availableHeaps' =
       IF NeedsHeap /\ availableHeaps # <<>> THEN Tail(availableHeaps) ELSE availableHeaps
  /\ currentHeap' = Heap
  /\ handle' = count + (IF NeedsHeap THEN 0 ELSE handle)
  /\ numFree' = (IF NeedsHeap THEN PerHeap ELSE numFree) - count
  /\ heaps' = [heaps EXCEPT ![Heap] = [p \in DOMAIN @ |->
       IF \E i \in ToCommit : p \in First(i)..(First(i) + tables[i].num - 1)
       THEN LET i == CHOOSE i \in ToCommit : p \in First(i)..(First(i) + tables[i].num - 1)
            IN cache[tables[i].base + (p - First(i))]
       ELSE @[p]]]
  /\ staleTables' = {}

CommitStagedDescriptors ==
  /\ IF staleTables # {} THEN CommitDescriptorTables ELSE UNCHANGED <<heapVars, staleTables>>
  /\ staleInline' = {}
  /\ UNCHANGED <<cache, tables, tableMask, inline>>

-----------------------------------------------------------------------------
(* CopyDescriptor: one descriptor, for a command that takes its place in    *)
(* the heap.  If that is in a new heap all tables are stale.                *)

CopyNeedsHeap == currentHeap = NoHeap \/ numFree < 1
CopyHeap == IF CopyNeedsHeap THEN RequestDescriptorHeap ELSE currentHeap
CopyPlace == IF CopyNeedsHeap THEN 0 ELSE handle

AfterCopy == IF CopyNeedsHeap THEN tableMask ELSE staleTables

CopyDescriptor(d) ==
  /\ CopyHeap <= MaxHeaps
  /\ heapPool' = Max({heapPool, CopyHeap})
  /\ availableHeaps' =
       IF CopyNeedsHeap /\ availableHeaps # <<>> THEN Tail(availableHeaps) ELSE availableHeaps
  /\ currentHeap' = CopyHeap
  /\ handle' = CopyPlace + 1
  /\ numFree' = (IF CopyNeedsHeap THEN PerHeap ELSE numFree) - 1
  /\ heaps' = [heaps EXCEPT ![CopyHeap][CopyPlace] = d]
  /\ staleTables' = AfterCopy
  /\ UNCHANGED <<cache, tables, tableMask, inline, staleInline>>

-----------------------------------------------------------------------------
\* Reset.  What is left in the cache and the heaps is not looked at again.
ResetHeap ==
  /\ availableHeaps' = [h \in 1..heapPool |-> h]
  /\ currentHeap' = NoHeap /\ handle' = 0 /\ numFree' = 0
  /\ tables' = [i \in {} |-> <<>>]
  /\ tableMask' = {} /\ staleTables' = {}
  /\ inline' = [i \in {} |-> Null] /\ staleInline' = {}
  /\ cache' = Empty /\ heaps' = [h \in 1..MaxHeaps |-> Empty]
  /\ UNCHANGED heapPool

=============================================================================
