---------------------------- MODULE UploadBuffer ----------------------------
(***************************************************************************)
(* DX12Lib's UploadBuffer (UploadBuffer.h and .cpp): the memory a command  *)
(* list hands to the GPU, cut from pages one after the other and reused    *)
(* when the list is reset.  Pages are numbered in the order in which they  *)
(* were made.  A specification that uses the module says who allocates.    *)
(***************************************************************************)
EXTENDS Naturals, Sequences, FiniteSetsExt

CONSTANTS
  PageSize,  \* m_PageSize
  MaxPages,  \* bound on the pages of the pool
  Nothing    \* no page, no data

ASSUME UploadAssumption ==
  PageSize \in Nat \ {0} /\ MaxPages \in Nat \ {0} /\ Nothing \notin Nat

VARIABLES
  pagePool,        \* m_PagePool: how many pages there are
  availablePages,  \* m_AvailablePages
  currentPage,     \* m_CurrentPage
  offset,          \* offset[p]: m_Offset of page p
  memory           \* memory[p][n]: what is in byte n of page p

uploadVars == <<pagePool, availablePages, currentPage, offset, memory>>

Bytes == 0..(PageSize - 1)
Unused == [p \in 1..MaxPages |-> [n \in Bytes |-> Nothing]]

InitUpload ==
  /\ pagePool = 0
  /\ availablePages = <<>>
  /\ currentPage = Nothing
  /\ offset = [p \in 1..MaxPages |-> 0]
  /\ memory = Unused

-----------------------------------------------------------------------------
(* Sizes.  AlignUp clears the bits of a mask, which rounds up to a multiple *)
(* of the alignment only if that is a power of two; what it returns for     *)
(* another one (the size of a vertex) is not less than its argument.        *)

\* x & ~m, from the last bit on.
LastBit(x, m) == IF x % 2 = 1 /\ m % 2 = 0 THEN 1 ELSE 0
AndNot[x \in Nat] ==
  [m \in Nat |-> IF x = 0 THEN 0 ELSE 2 * AndNot[x \div 2][m \div 2] + LastBit(x, m)]

AlignUpWithMask(n, mask) == AndNot[n + mask][mask]
AlignUp(n, alignment) == AlignUpWithMask(n, alignment - 1)

HasSpace_mutant(p, size, alignment) == offset[p] + AlignUp(size, alignment) <= PageSize
HasSpace(p, size, alignment) ==
  AlignUp(offset[p], alignment) + AlignUp(size, alignment) <= PageSize

-----------------------------------------------------------------------------
(* Allocate.                                                               *)

NeedsPage(size, alignment) == currentPage = Nothing \/ ~HasSpace(currentPage, size, alignment)

\* RequestPage takes the page that has been available for longest, or makes one.
RequestPage == IF availablePages # <<>> THEN Head(availablePages) ELSE pagePool + 1

PageFor(size, alignment) == IF NeedsPage(size, alignment) THEN RequestPage ELSE currentPage

Location(size, alignment) ==
  LET p == PageFor(size, alignment) IN [page |-> p, start |-> AlignUp(offset[p], alignment)]

Advanced(size, alignment) == Location(size, alignment).start + AlignUp(size, alignment)

\* What does not fit in a page is refused with bad_alloc, which nobody catches.
\* Bound: MaxPages.
CanAllocate(size, alignment) ==
  /\ size <= PageSize
  /\ PageFor(size, alignment) <= MaxPages
  /\ HasSpace(PageFor(size, alignment), size, alignment)

\* Allocate, and what its caller copies there.
Allocate(size, alignment, data) ==
  LET at == Location(size, alignment) IN
  /\ CanAllocate(size, alignment)
  /\ currentPage' = at.page
  /\ pagePool' = Max({pagePool, at.page})
  /\ availablePages' =
       IF NeedsPage(size, alignment) /\ availablePages # <<>>
       THEN Tail(availablePages) ELSE availablePages
  /\ offset' = [offset EXCEPT ![at.page] = Advanced(size, alignment)]
  /\ memory' = [memory EXCEPT ![at.page] =
       [n \in Bytes |-> IF n \in at.start..(at.start + size - 1) THEN data ELSE @[n]]]

-----------------------------------------------------------------------------
\* Reset: the pages of the pool are available again, with nothing in them used;
\* what is left in them is nobody's.
ResetUpload ==
  /\ currentPage' = Nothing
  /\ availablePages' = [p \in 1..pagePool |-> p]
  /\ offset' = [p \in 1..MaxPages |-> 0]
  /\ memory' = Unused
  /\ UNCHANGED pagePool

=============================================================================
