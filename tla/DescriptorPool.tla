--------------------------- MODULE DescriptorPool ---------------------------
(***************************************************************************)
(* What a DescriptorAllocator promises (DescriptorAllocator.h, Device.h):  *)
(* a descriptor is unused, used or stale.  Whoever allocates gets          *)
(* contiguous unused descriptors of one page; freed descriptors are stale  *)
(* until they are released, and only then unused again.                    *)
(*                                                                         *)
(* A descriptor is a pair of a page and an index.                          *)
(***************************************************************************)
EXTENDS Naturals

CONSTANTS
  Pages,      \* identities of pages
  MaxIndex    \* the largest number of descriptors in a page

VARIABLES unused, used, stale

vars == <<unused, used, stale>>

Descriptors(p, o, n) == {p} \X (o..(o + n - 1))

Init == unused = {} /\ used = {} /\ stale = {}

Allocate(p, o, n) ==
  /\ n > 0
  /\ Descriptors(p, o, n) \subseteq unused
  /\ unused' = unused \ Descriptors(p, o, n)
  /\ used' = used \cup Descriptors(p, o, n)
  /\ UNCHANGED stale

\* A new page of the given size, and the first n descriptors of it.
AllocateFromNewPage(p, size, n) ==
  /\ 0 < n /\ n <= size
  /\ Descriptors(p, 0, size) \cap (unused \cup used \cup stale) = {}
  /\ unused' = unused \cup Descriptors(p, n, size - n)
  /\ used' = used \cup Descriptors(p, 0, n)
  /\ UNCHANGED stale

Free(p, o, n) ==
  /\ Descriptors(p, o, n) \subseteq used
  /\ used' = used \ Descriptors(p, o, n)
  /\ stale' = stale \cup Descriptors(p, o, n)
  /\ UNCHANGED unused

Release(p, o, n) ==
  /\ Descriptors(p, o, n) \subseteq stale
  /\ stale' = stale \ Descriptors(p, o, n)
  /\ unused' = unused \cup Descriptors(p, o, n)
  /\ UNCHANGED used

Next ==
  \E p \in Pages, o, n \in 0..MaxIndex :
    \/ Allocate(p, o, n) \/ Free(p, o, n) \/ Release(p, o, n)
    \/ AllocateFromNewPage(p, o, n)

Spec == Init /\ [][Next]_vars

=============================================================================
