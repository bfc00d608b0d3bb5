--------------------- MODULE DescriptorAllocator_proofs ---------------------
(***************************************************************************)
(* Proofs about DescriptorAllocator, for any number of pages and any sizes *)
(* of pages and requests.                                                  *)
(***************************************************************************)
EXTENDS DescriptorAllocator, FiniteSetTheorems, TLAPS

-----------------------------------------------------------------------------
(* Blocks.                                                                 *)

Distinct(F) == \A b, c \in F : b # c => Apart(b, c)

LEMMA BlockFields ==
  ASSUME AllocatorAssumption, NEW b \in Blocks
  PROVE  /\ b.offset \in Nat /\ b.size \in Nat /\ b.size > 0
         /\ End(b) \in Nat /\ End(b) = b.offset + b.size
BY DEF AllocatorAssumption, Blocks, End

LEMMA MakeBlock ==
  ASSUME AllocatorAssumption, NEW o \in Nat, NEW n \in Nat, n > 0, o + n <= MaxIndex
  PROVE  /\ Block(o, n) \in Blocks
         /\ Block(o, n).offset = o /\ Block(o, n).size = n /\ End(Block(o, n)) = o + n
BY DEF AllocatorAssumption, Blocks, Block, End

\* Behind and Ahead find the neighbours of a block that does not overlap any.
LEMMA Neighbours ==
  ASSUME AllocatorAssumption,
         NEW F \in SUBSET Blocks, Distinct(F),
         NEW b \in Blocks, \A c \in F : Apart(b, c)
  PROVE  /\ Behind(F, b) = {c \in F : End(c) = b.offset}
         /\ Ahead(F, b) = {c \in F : c.offset = End(b)}
         /\ \A c, d \in Behind(F, b) : c = d
         /\ \A c, d \in Ahead(F, b) : c = d
<1>1. /\ \A c \in F : /\ c \in Blocks /\ c.offset \in Nat /\ c.size \in Nat /\ c.size > 0
                      /\ End(c) = c.offset + c.size
      /\ b.offset \in Nat /\ b.size \in Nat /\ b.size > 0 /\ End(b) = b.offset + b.size
  BY BlockFields
<1>2. ASSUME NEW c \in F, End(c) = b.offset, NEW d \in F, d.offset <= b.offset
      PROVE  d.offset <= c.offset
  <2>1. CASE c = d
    BY <2>1, <1>1
  <2>2. CASE c # d
    <3>1. Apart(c, d) /\ Apart(b, d)
      BY <2>2 DEF Distinct
    <3>  QED BY <3>1, <1>1, <1>2 DEF Apart
  <2>  QED BY <2>1, <2>2
<1>3. ASSUME NEW c \in F, c.offset = End(b), NEW d \in F, d.offset > b.offset
      PROVE  c.offset <= d.offset
  <2>1. Apart(b, d)
    OBVIOUS
  <2>  QED BY <2>1, <1>1, <1>3 DEF Apart
<1>4. Behind(F, b) = {c \in F : End(c) = b.offset}
  <2>1. ASSUME NEW c \in F, End(c) = b.offset PROVE c.offset <= b.offset
    BY <2>1, <1>1
  <2>  QED BY <1>2, <2>1 DEF Behind, PrevBlock
<1>5. Ahead(F, b) = {c \in F : c.offset = End(b)}
  <2>1. ASSUME NEW c \in F, c.offset = End(b) PROVE c.offset > b.offset
    BY <2>1, <1>1
  <2>  QED BY <1>3, <2>1 DEF Ahead, NextBlock
<1>6. ASSUME NEW c \in F, NEW d \in F, End(c) = End(d) PROVE c = d
  <2> SUFFICES ASSUME c # d PROVE FALSE
    OBVIOUS
  <2>1. Apart(c, d)
    BY DEF Distinct
  <2>  QED BY <2>1, <1>1, <1>6 DEF Apart
<1>7. ASSUME NEW c \in F, NEW d \in F, c.offset = d.offset PROVE c = d
  <2> SUFFICES ASSUME c # d PROVE FALSE
    OBVIOUS
  <2>1. Apart(c, d)
    BY DEF Distinct
  <2>  QED BY <2>1, <1>1, <1>7 DEF Apart
<1>  QED BY <1>4, <1>5, <1>6, <1>7

Coalescing(F) == \A b, c \in F : End(b) # c.offset

\* The block that FreeBlock adds covers b and the neighbours it takes away.
LEMMA MergedBlock ==
  ASSUME AllocatorAssumption,
         NEW F \in SUBSET Blocks, Distinct(F),
         NEW b \in Blocks, \A c \in F : Apart(b, c),
         NEW size \in 0..MaxIndex, \A c \in F \cup {b} : End(c) <= size
  PROVE  LET m == Merged(F, b)
             N == Behind(F, b) \cup Ahead(F, b)
         IN  /\ m \in Blocks
             /\ End(m) <= size
             /\ m.offset = b.offset \/ \E c \in Behind(F, b) : c.offset = m.offset
             /\ End(m) = End(b) \/ \E c \in Ahead(F, b) : End(c) = End(m)
             /\ \A c \in N \cup {b} : m.offset <= c.offset /\ End(c) <= End(m)
             /\ \A i \in Nat : i \in m.offset..(End(m) - 1) =>
                  \E c \in N \cup {b} : i \in c.offset..(End(c) - 1)
<1> DEFINE m == Merged(F, b)
           N == Behind(F, b) \cup Ahead(F, b)
           from == IF Behind(F, b) = {} THEN b.offset
                   ELSE (CHOOSE c \in Behind(F, b) : TRUE).offset
           to == IF Ahead(F, b) = {} THEN End(b)
                 ELSE End(CHOOSE c \in Ahead(F, b) : TRUE)
<1>1. /\ \A c \in F : /\ c \in Blocks /\ c.offset \in Nat /\ c.size \in Nat /\ c.size > 0
                      /\ End(c) \in Nat /\ End(c) = c.offset + c.size
      /\ b.offset \in Nat /\ b.size \in Nat /\ b.size > 0
      /\ End(b) \in Nat /\ End(b) = b.offset + b.size
  BY BlockFields
<1>2. /\ Behind(F, b) = {c \in F : End(c) = b.offset}
      /\ Ahead(F, b) = {c \in F : c.offset = End(b)}
      /\ \A c, d \in Behind(F, b) : c = d
      /\ \A c, d \in Ahead(F, b) : c = d
  BY Neighbours
<1>3. \/ Behind(F, b) = {} /\ from = b.offset
      \/ \E c \in Behind(F, b) : Behind(F, b) = {c} /\ from = c.offset
  <2>1. ASSUME NEW c \in Behind(F, b)
        PROVE  Behind(F, b) = {c} /\ (CHOOSE d \in Behind(F, b) : TRUE) = c
    BY <1>2
  <2>  QED BY <2>1
<1>4. \/ Ahead(F, b) = {} /\ to = End(b)
      \/ \E c \in Ahead(F, b) : Ahead(F, b) = {c} /\ to = End(c)
  <2>1. ASSUME NEW c \in Ahead(F, b)
        PROVE  Ahead(F, b) = {c} /\ (CHOOSE d \in Ahead(F, b) : TRUE) = c
    BY <1>2
  <2>  QED BY <2>1
<1>5. m = Block(from, to - from)
  BY DEF Merged
<1> HIDE DEF from, to, m
<1>6. /\ from \in Nat /\ from <= b.offset
      /\ to \in Nat /\ End(b) <= to /\ to <= size
  <2>0. size \in Nat /\ End(b) <= size /\ b.offset <= b.offset /\ End(b) <= End(b)
    BY <1>1 DEF AllocatorAssumption
  <2>1. from \in Nat /\ from <= b.offset
    <3>1. CASE from = b.offset
      BY <3>1, <1>1
    <3>2. ASSUME NEW c \in Behind(F, b), from = c.offset PROVE from \in Nat /\ from <= b.offset
      <4>1. c \in F /\ End(c) = b.offset
        BY <1>2
      <4>  QED BY <4>1, <3>2, <1>1
    <3>  QED BY <3>1, <3>2, <1>3
  <2>2. to \in Nat /\ End(b) <= to /\ to <= size
    <3>1. CASE to = End(b)
      BY <3>1, <1>1, <2>0
    <3>2. ASSUME NEW c \in Ahead(F, b), to = End(c) PROVE to \in Nat /\ End(b) <= to /\ to <= size
      <4>1. c \in F /\ c.offset = End(b) /\ End(c) <= size
        BY <1>2
      <4>  QED BY <4>1, <3>2, <1>1
    <3>  QED BY <3>1, <3>2, <1>4
  <2>  QED BY <2>1, <2>2
<1>7. m \in Blocks /\ m.offset = from /\ End(m) = to
  <2>1. /\ to - from \in Nat /\ to - from > 0 /\ from + (to - from) = to /\ to <= MaxIndex
    <3>1. size \in Nat /\ MaxIndex \in Nat /\ size <= MaxIndex
      BY DEF AllocatorAssumption
    <3>2. from < to
      BY <1>1, <1>6
    <3>  QED BY <3>1, <3>2, <1>6
  <2>  QED BY <1>5, <1>6, <2>1, MakeBlock
<1>8. m.offset = b.offset \/ \E c \in Behind(F, b) : c.offset = m.offset
  BY <1>3, <1>7
<1>9. End(m) = End(b) \/ \E c \in Ahead(F, b) : End(c) = End(m)
  BY <1>4, <1>7
<1>10. ASSUME NEW c \in N \cup {b} PROVE m.offset <= c.offset /\ End(c) <= End(m)
  <2>1. CASE c = b
    BY <2>1, <1>6, <1>7
  <2>2. CASE c \in Behind(F, b)
    BY <2>2, <1>1, <1>2, <1>3, <1>6, <1>7
  <2>3. CASE c \in Ahead(F, b)
    BY <2>3, <1>1, <1>2, <1>4, <1>6, <1>7
  <2>  QED BY <2>1, <2>2, <2>3
<1>11. ASSUME NEW i \in Nat, i \in m.offset..(End(m) - 1)
       PROVE  \E c \in N \cup {b} : i \in c.offset..(End(c) - 1)
  <2>1. from <= i /\ i < to
    BY <1>6, <1>7, <1>11
  <2>2. CASE i < b.offset
    <3>1. PICK c \in Behind(F, b) : from = c.offset
      BY <2>1, <2>2, <1>1, <1>3, <1>6
    <3>2. i \in c.offset..(End(c) - 1)
      BY <3>1, <2>1, <2>2, <1>1, <1>2
    <3>  QED BY <3>2
  <2>3. CASE End(b) <= i
    <3>1. PICK c \in Ahead(F, b) : to = End(c)
      BY <2>1, <2>3, <1>1, <1>4, <1>6
    <3>2. i \in c.offset..(End(c) - 1)
      BY <3>1, <2>1, <2>3, <1>1, <1>2
    <3>  QED BY <3>2
  <2>4. CASE b.offset <= i /\ i < End(b)
    <3>1. i \in b.offset..(End(b) - 1)
      BY <2>4, <1>1
    <3>  QED BY <3>1
  <2>5. i < b.offset \/ End(b) <= i \/ (b.offset <= i /\ i < End(b))
    BY <1>1
  <2>  QED BY <2>2, <2>3, <2>4, <2>5
<1>  QED BY <1>6, <1>7, <1>8, <1>9, <1>10, <1>11 DEF m

\* What FreeBlock makes of a free list.
LEMMA FreeBlockResult ==
  ASSUME AllocatorAssumption,
         NEW F \in SUBSET Blocks, Distinct(F), Coalescing(F),
         NEW b \in Blocks, \A c \in F : Apart(b, c),
         NEW size \in 0..MaxIndex, \A c \in F \cup {b} : End(c) <= size
  PROVE  LET R == FreeBlock(F, b)
         IN  /\ R \subseteq Blocks
             /\ \A c \in R : End(c) <= size
             /\ Distinct(R)
             /\ Coalescing(R)
             /\ Covered(R) = Covered(F) \cup Covered({b})
             /\ \A x \in Blocks : (\A c \in F \cup {b} : Apart(x, c)) => \A c \in R : Apart(x, c)
<1> DEFINE m == Merged(F, b)
           N == Behind(F, b) \cup Ahead(F, b)
           R == FreeBlock(F, b)
<1>1. /\ m \in Blocks
      /\ End(m) <= size
      /\ m.offset = b.offset \/ \E c \in Behind(F, b) : c.offset = m.offset
      /\ End(m) = End(b) \/ \E c \in Ahead(F, b) : End(c) = End(m)
      /\ \A c \in N \cup {b} : m.offset <= c.offset /\ End(c) <= End(m)
      /\ \A i \in Nat : i \in m.offset..(End(m) - 1) =>
           \E c \in N \cup {b} : i \in c.offset..(End(c) - 1)
  BY MergedBlock
<1>2. R = (F \ N) \cup {m}
  BY DEF FreeBlock
<1> HIDE DEF m, R
<1>3. /\ Behind(F, b) = {c \in F : End(c) = b.offset}
      /\ Ahead(F, b) = {c \in F : c.offset = End(b)}
  BY Neighbours
<1>4. \A c \in Blocks : /\ c.offset \in Nat /\ c.size \in Nat /\ c.size > 0
                        /\ End(c) \in Nat /\ End(c) = c.offset + c.size
  BY BlockFields
<1>5. ASSUME NEW x \in Blocks, \A c \in N \cup {b} : Apart(x, c)
      PROVE  Apart(x, m)
  <2>1. CASE End(x) <= b.offset
    <3>1. CASE m.offset = b.offset
      BY <2>1, <3>1 DEF Apart
    <3>2. ASSUME NEW c \in Behind(F, b), c.offset = m.offset PROVE Apart(x, m)
      <4>1. Apart(x, c) /\ End(c) = b.offset /\ c \in Blocks
        BY <1>3, <1>5
      <4>  QED BY <4>1, <3>2, <2>1, <1>1, <1>4 DEF Apart
    <3>  QED BY <3>1, <3>2, <1>1
  <2>2. CASE End(b) <= x.offset
    <3>1. CASE End(m) = End(b)
      BY <2>2, <3>1 DEF Apart
    <3>2. ASSUME NEW c \in Ahead(F, b), End(c) = End(m) PROVE Apart(x, m)
      <4>1. Apart(x, c) /\ c.offset = End(b) /\ c \in Blocks
        BY <1>3, <1>5
      <4>  QED BY <4>1, <3>2, <2>2, <1>1, <1>4 DEF Apart
    <3>  QED BY <3>1, <3>2, <1>1
  <2>  QED BY <1>5, <2>1, <2>2 DEF Apart
<1>6. R \subseteq Blocks /\ \A c \in R : End(c) <= size
  BY <1>1, <1>2
<1>7. \A c \in F \ N : Apart(c, m) /\ Apart(m, c)
  <2> SUFFICES ASSUME NEW c \in F \ N PROVE Apart(c, m) /\ Apart(m, c)
    OBVIOUS
  <2>1. \A d \in N : c # d /\ d \in F
    BY <1>3
  <2>2. \A d \in N \cup {b} : Apart(c, d)
    BY <2>1 DEF Distinct, Apart
  <2>3. Apart(c, m)
    BY <2>2, <1>5
  <2>  QED BY <2>3 DEF Apart
<1>8. Distinct(R)
  BY <1>2, <1>7 DEF Distinct
<1>9. Coalescing(R)
  <2>1. ASSUME NEW c \in F \ N PROVE End(c) # m.offset
    <3>1. End(c) # b.offset
      BY <1>3
    <3>2. \A d \in Behind(F, b) : End(c) # d.offset
      BY <1>3 DEF Coalescing
    <3>  QED BY <3>1, <3>2, <1>1
  <2>2. ASSUME NEW c \in F \ N PROVE End(m) # c.offset
    <3>1. End(b) # c.offset
      BY <1>3
    <3>2. \A d \in Ahead(F, b) : End(d) # c.offset
      BY <1>3 DEF Coalescing
    <3>  QED BY <3>1, <3>2, <1>1
  <2>3. End(m) # m.offset
    BY <1>1, <1>4
  <2>  QED BY <1>2, <2>1, <2>2, <2>3 DEF Coalescing
<1>10. Covered(R) = Covered(F) \cup Covered({b})
  <2>1. ASSUME NEW c \in R, NEW i \in c.offset..(End(c) - 1)
        PROVE  \E d \in F \cup {b} : i \in d.offset..(End(d) - 1)
    <3>1. CASE c \in F
      BY <3>1
    <3>2. CASE c = m
      <4>1. i \in Nat
        BY <3>2, <1>1, <1>4
      <4>2. \E d \in N \cup {b} : i \in d.offset..(End(d) - 1)
        BY <4>1, <3>2, <1>1
      <4>  QED BY <4>2, <1>3
    <3>  QED BY <3>1, <3>2, <1>2
  <2>2. ASSUME NEW c \in F \cup {b}, NEW i \in c.offset..(End(c) - 1)
        PROVE  \E d \in R : i \in d.offset..(End(d) - 1)
    <3>1. CASE c \in N \cup {b}
      <4>1. m.offset <= c.offset /\ End(c) <= End(m) /\ c \in Blocks
        BY <3>1, <1>1, <1>3
      <4>2. i \in m.offset..(End(m) - 1)
        BY <4>1, <1>1, <1>4
      <4>  QED BY <4>2, <1>2
    <3>2. CASE c \in F \ N
      BY <3>2, <1>2
    <3>  QED BY <3>1, <3>2
  <2>  QED BY <2>1, <2>2 DEF Covered
<1>11. ASSUME NEW x \in Blocks, \A c \in F \cup {b} : Apart(x, c)
       PROVE  \A c \in R : Apart(x, c)
  <2>1. \A c \in N \cup {b} : Apart(x, c)
    BY <1>3, <1>11
  <2>  QED BY <2>1, <1>2, <1>5, <1>11
<1>  QED BY <1>6, <1>8, <1>9, <1>10, <1>11 DEF R

\* What a free list becomes when n descriptors are taken from one of its blocks.
LEMMA TakeResult ==
  ASSUME AllocatorAssumption,
         NEW F \in SUBSET Blocks, Distinct(F), Coalescing(F),
         NEW size \in 0..MaxIndex, \A c \in F : End(c) <= size,
         NEW b \in F, NEW n \in Nat, 0 < n, n <= b.size
  PROVE  LET R == (F \ {b}) \cup Remainder(b, n)
             t == Block(b.offset, n)
         IN  /\ t \in Blocks
             /\ R \subseteq Blocks
             /\ Distinct(R)
             /\ \A c \in R : Apart(t, c) /\ Apart(c, t)
             /\ Coalescing(R)
             /\ Covered(F) = Covered(R) \cup Covered({t})
             /\ \A x \in Blocks : (\A c \in F : Apart(x, c)) => \A c \in R \cup {t} : Apart(x, c)
<1> DEFINE r == Block(b.offset + n, b.size - n)
           t == Block(b.offset, n)
           R == (F \ {b}) \cup Remainder(b, n)
<1>1. \A c \in Blocks : /\ c.offset \in Nat /\ c.size \in Nat /\ c.size > 0
                        /\ End(c) \in Nat /\ End(c) = c.offset + c.size
  BY BlockFields
<1>2. /\ b \in Blocks /\ End(b) <= size /\ size <= MaxIndex /\ size \in Nat /\ MaxIndex \in Nat
      /\ b.offset \in Nat /\ b.size \in Nat /\ End(b) = b.offset + b.size
  BY <1>1 DEF AllocatorAssumption
<1>3. t \in Blocks /\ t.offset = b.offset /\ End(t) = b.offset + n
  <2>1. b.offset + n <= MaxIndex
    BY <1>2
  <2>  QED BY <1>2, <2>1, MakeBlock
<1>4. ASSUME n < b.size
      PROVE  r \in Blocks /\ r.offset = b.offset + n /\ End(r) = End(b)
  <2>1. /\ b.offset + n \in Nat /\ b.size - n \in Nat /\ b.size - n > 0
        /\ (b.offset + n) + (b.size - n) = End(b) /\ End(b) <= MaxIndex
    BY <1>2, <1>4
  <2>  QED BY <2>1, MakeBlock
<1>5. \/ n = b.size /\ R = F \ {b}
      \/ n < b.size /\ R = (F \ {b}) \cup {r}
  BY <1>2 DEF Remainder
<1> HIDE DEF r, t, R
<1>6. R \subseteq Blocks
  BY <1>4, <1>5
<1>7. ASSUME NEW x \in Blocks, Apart(x, b)
      PROVE  Apart(x, t) /\ (n < b.size => Apart(x, r))
  BY <1>1, <1>2, <1>3, <1>4, <1>7 DEF Apart
<1>8. ASSUME n < b.size PROVE Apart(t, r) /\ Apart(r, t)
  BY <1>2, <1>3, <1>4, <1>8 DEF Apart
<1>9. \A c \in F \ {b} : Apart(c, b)
  BY DEF Distinct
<1>10. \A c \in R : Apart(t, c) /\ Apart(c, t)
  BY <1>5, <1>7, <1>8, <1>9 DEF Apart
<1>11. Distinct(R)
  <2>1. \A c \in F \ {b} : n < b.size => Apart(c, r) /\ Apart(r, c)
    BY <1>7, <1>9 DEF Apart
  <2>  QED BY <2>1, <1>5 DEF Distinct
<1>12. Coalescing(R)
  <2>1. ASSUME n < b.size, NEW c \in F \ {b} PROVE End(c) # r.offset /\ End(r) # c.offset
    <3>1. Apart(c, b) /\ End(b) # c.offset
      BY <1>9 DEF Coalescing
    <3>  QED BY <3>1, <2>1, <1>1, <1>2, <1>4 DEF Apart
  <2>2. ASSUME n < b.size PROVE End(r) # r.offset
    BY <2>2, <1>2, <1>4
  <2>  QED BY <2>1, <2>2, <1>5 DEF Coalescing
<1>13. Covered(F) = Covered(R) \cup Covered({t})
  <2>1. \A i : i \in b.offset..(End(b) - 1) <=>
                 \/ i \in t.offset..(End(t) - 1)
                 \/ n < b.size /\ i \in r.offset..(End(r) - 1)
    BY <1>2, <1>3, <1>4
  <2>  QED BY <2>1, <1>5 DEF Covered
<1>14. ASSUME NEW x \in Blocks, \A c \in F : Apart(x, c)
       PROVE  \A c \in R \cup {t} : Apart(x, c)
  BY <1>5, <1>7, <1>14
<1>  QED BY <1>3, <1>6, <1>10, <1>11, <1>12, <1>13, <1>14 DEF R, t

-----------------------------------------------------------------------------
(* A page, and what the three things that happen to its blocks leave of it. *)

\* The free, stale and live blocks of a page, its size and its free handles.
PageInv(F, S, L, size, free) ==
  /\ F \subseteq Blocks /\ S \subseteq Blocks /\ L \subseteq Blocks
  /\ size \in 0..MaxIndex
  /\ Distinct(F \cup S \cup L)
  /\ F \cap S = {} /\ F \cap L = {} /\ S \cap L = {}
  /\ Covered(F \cup S \cup L) = 0..(size - 1)
  /\ free = Cardinality(Covered(F))
  /\ Coalescing(F)

LEMMA CoveredUnion ==
  ASSUME NEW A, NEW B
  PROVE  Covered(A \cup B) = Covered(A) \cup Covered(B)
BY DEF Covered

\* Blocks lie within their page, and apart blocks have no index in common.
LEMMA Inside ==
  ASSUME AllocatorAssumption, NEW F, NEW S, NEW L, NEW size, NEW free,
         PageInv(F, S, L, size, free)
  PROVE  /\ \A b \in F \cup S \cup L : End(b) <= size
         /\ IsFiniteSet(Covered(F)) /\ free \in 0..size
<1>1. \A c \in Blocks : /\ c.offset \in Nat /\ c.size \in Nat /\ c.size > 0
                        /\ End(c) \in Nat /\ End(c) = c.offset + c.size
  BY BlockFields
<1>2. size \in Nat
  BY DEF AllocatorAssumption, PageInv
<1>3. ASSUME NEW b \in F \cup S \cup L PROVE End(b) <= size
  <2>1. b \in Blocks
    BY DEF PageInv
  <2>2. End(b) - 1 \in b.offset..(End(b) - 1)
    BY <2>1, <1>1
  <2>3. End(b) - 1 \in 0..(size - 1)
    BY <2>2 DEF Covered, PageInv
  <2>  QED BY <2>1, <2>3, <1>1, <1>2
<1>4. Covered(F) \in SUBSET (0..(size - 1))
  BY CoveredUnion DEF PageInv
<1>5. IsFiniteSet(0..(size - 1)) /\ Cardinality(0..(size - 1)) = size
  <2>1. 0 \in Int /\ size - 1 \in Int
    BY <1>2
  <2>2. /\ IsFiniteSet(0..(size - 1))
        /\ Cardinality(0..(size - 1)) = IF 0 > size - 1 THEN 0 ELSE size - 1 - 0 + 1
    BY <2>1, FS_Interval
  <2>  QED BY <2>2, <1>2
<1>6. IsFiniteSet(Covered(F)) /\ Cardinality(Covered(F)) <= size
  BY <1>4, <1>5, FS_Subset
<1>7. Cardinality(Covered(F)) \in Nat
  BY <1>6, FS_CardinalityType
<1>  QED BY <1>2, <1>3, <1>6, <1>7 DEF PageInv

LEMMA ApartCovered ==
  ASSUME AllocatorAssumption, NEW F \in SUBSET Blocks, NEW b \in Blocks,
         \A c \in F : Apart(b, c)
  PROVE  Covered(F) \cap Covered({b}) = {}
<1> SUFFICES ASSUME NEW c \in F, NEW i \in c.offset..(End(c) - 1), i \in b.offset..(End(b) - 1)
             PROVE  FALSE
    BY DEF Covered
<1>1. Apart(b, c)
  OBVIOUS
<1>2. /\ c.offset \in Nat /\ c.size \in Nat /\ End(c) \in Nat
      /\ b.offset \in Nat /\ b.size \in Nat /\ End(b) \in Nat
  BY BlockFields
<1>  QED BY <1>1, <1>2 DEF Apart

\* The number of indices of a block.
LEMMA CoveredSize ==
  ASSUME AllocatorAssumption, NEW b \in Blocks
  PROVE  IsFiniteSet(Covered({b})) /\ Cardinality(Covered({b})) = b.size
<1>1. b.offset \in Nat /\ b.size \in Nat /\ b.size > 0 /\ End(b) = b.offset + b.size
  BY BlockFields
<1>2. Covered({b}) = b.offset..(End(b) - 1)
  BY DEF Covered
<1>3. b.offset \in Int /\ End(b) - 1 \in Int
  BY <1>1
<1>4. /\ IsFiniteSet(b.offset..(End(b) - 1))
      /\ Cardinality(b.offset..(End(b) - 1)) =
           IF b.offset > End(b) - 1 THEN 0 ELSE End(b) - 1 - b.offset + 1
  BY <1>3, FS_Interval
<1>  QED BY <1>1, <1>2, <1>4

\* Allocation takes the first n descriptors of a free block.
LEMMA PageAllocate ==
  ASSUME AllocatorAssumption, NEW F, NEW S, NEW L, NEW size, NEW free,
         PageInv(F, S, L, size, free),
         NEW b \in F, NEW n \in Nat, 0 < n, n <= b.size
  PROVE  PageInv((F \ {b}) \cup Remainder(b, n), S, L \cup {Block(b.offset, n)}, size, free - n)
<1> DEFINE R == (F \ {b}) \cup Remainder(b, n)
           t == Block(b.offset, n)
           O == S \cup L
<1>1. /\ F \in SUBSET Blocks /\ O \in SUBSET Blocks /\ size \in 0..MaxIndex
      /\ Distinct(F \cup O) /\ Distinct(F) /\ Coalescing(F) /\ F \cap O = {}
      /\ Covered(F \cup O) = 0..(size - 1)
  <2>1. F \cup S \cup L = F \cup O
    OBVIOUS
  <2>2. Distinct(F)
    BY DEF PageInv, Distinct
  <2>  QED BY <2>1, <2>2 DEF PageInv
<1>2. \A c \in F : End(c) <= size
  BY Inside
<1>3. /\ t \in Blocks
      /\ R \subseteq Blocks
      /\ Distinct(R)
      /\ \A c \in R : Apart(t, c) /\ Apart(c, t)
      /\ Coalescing(R)
      /\ Covered(F) = Covered(R) \cup Covered({t})
      /\ \A x \in Blocks : (\A c \in F : Apart(x, c)) => \A c \in R \cup {t} : Apart(x, c)
  BY <1>1, <1>2, TakeResult
<1> HIDE DEF R, t
<1>4. \A x \in O : \A c \in R \cup {t} : Apart(x, c) /\ Apart(c, x)
  <2>1. \A x \in O : \A c \in F : Apart(x, c)
    BY <1>1 DEF Distinct
  <2>  QED BY <2>1, <1>1, <1>3 DEF Apart
<1>5. \A x \in Blocks : ~Apart(x, x)
  BY BlockFields DEF Apart
<1>6. R \cap S = {} /\ R \cap (L \cup {t}) = {} /\ S \cap (L \cup {t}) = {}
  <2>1. R \cap O = {} /\ t \notin O /\ t \notin R
    BY <1>1, <1>3, <1>4, <1>5
  <2>2. S \cap L = {}
    BY DEF PageInv
  <2>  QED BY <2>1, <2>2
<1>7. Distinct(R \cup S \cup (L \cup {t}))
  <2>1. R \cup S \cup (L \cup {t}) = R \cup {t} \cup O
    OBVIOUS
  <2>2. Distinct(O)
    BY <1>1 DEF Distinct
  <2>3. Distinct(R \cup {t})
    BY <1>3 DEF Distinct
  <2>4. Distinct(R \cup {t} \cup O)
    BY <2>2, <2>3, <1>4 DEF Distinct
  <2>  QED BY <2>1, <2>4
<1>8. Covered(R \cup S \cup (L \cup {t})) = 0..(size - 1)
  <2>1. R \cup S \cup (L \cup {t}) = R \cup {t} \cup O
    OBVIOUS
  <2>2. Covered((R \cup {t}) \cup O) = Covered(R \cup {t}) \cup Covered(O)
    BY CoveredUnion
  <2>3. Covered(R \cup {t}) = Covered(R) \cup Covered({t})
    BY CoveredUnion
  <2>4. Covered(F \cup O) = Covered(F) \cup Covered(O)
    BY CoveredUnion
  <2>  QED BY <2>1, <2>2, <2>3, <2>4, <1>1, <1>3
<1>9. free - n = Cardinality(Covered(R))
  <2>1. IsFiniteSet(Covered(F))
    BY Inside
  <2>2. IsFiniteSet(Covered(R))
    BY <2>1, <1>3, FS_Subset
  <2>3. Covered(R) \cap Covered({t}) = {}
    BY <1>3, ApartCovered
  <2>4. IsFiniteSet(Covered({t})) /\ Cardinality(Covered({t})) = n
    BY <1>3, CoveredSize DEF t, Block
  <2>5. /\ Cardinality(Covered(R) \cup Covered({t})) =
             Cardinality(Covered(R)) + Cardinality(Covered({t}))
               - Cardinality(Covered(R) \cap Covered({t}))
    BY <2>2, <2>4, FS_Union
  <2>6. Cardinality(Covered(R) \cap Covered({t})) = 0
    BY <2>3, FS_EmptySet
  <2>7. Cardinality(Covered(R)) \in Nat /\ Cardinality(Covered(F)) \in Nat
    BY <2>1, <2>2, FS_CardinalityType
  <2>8. free = Cardinality(Covered(F)) /\ Covered(F) = Covered(R) \cup Covered({t})
    BY <1>3 DEF PageInv
  <2>  QED BY <2>4, <2>5, <2>6, <2>7, <2>8
<1>10. S \subseteq Blocks /\ L \cup {t} \subseteq Blocks
  BY <1>3 DEF PageInv
<1>  QED BY <1>1, <1>3, <1>6, <1>7, <1>8, <1>9, <1>10 DEF PageInv, R, t

\* A freed allocation becomes stale.
LEMMA PageFree ==
  ASSUME NEW F, NEW S, NEW L, NEW size, NEW free, PageInv(F, S, L, size, free), NEW b \in L
  PROVE  PageInv(F, S \cup {b}, L \ {b}, size, free)
<1>1. F \cup (S \cup {b}) \cup (L \ {b}) = F \cup S \cup L
  OBVIOUS
<1>  QED BY <1>1 DEF PageInv

\* A stale block is put back into the free list.
LEMMA PageRelease ==
  ASSUME AllocatorAssumption, NEW F, NEW S, NEW L, NEW size, NEW free,
         PageInv(F, S, L, size, free), NEW b \in S
  PROVE  PageInv(FreeBlock(F, b), S \ {b}, L, size, free + b.size)
<1> DEFINE R == FreeBlock(F, b)
           O == (S \ {b}) \cup L
<1>1. /\ F \in SUBSET Blocks /\ O \in SUBSET Blocks /\ size \in 0..MaxIndex
      /\ b \in Blocks /\ b \notin F /\ b \notin O
      /\ F \cap O = {} /\ (S \ {b}) \cap L = {}
      /\ Coalescing(F)
  BY DEF PageInv
<1>2. F \cup S \cup L = F \cup {b} \cup O
  OBVIOUS
<1>3. Distinct(F \cup {b} \cup O) /\ Covered(F \cup {b} \cup O) = 0..(size - 1)
  BY <1>2 DEF PageInv
<1>4. /\ Distinct(F) /\ Distinct(O)
      /\ \A c \in F : Apart(b, c)
      /\ \A x \in O : \A c \in F \cup {b} : Apart(x, c)
  BY <1>1, <1>3 DEF Distinct
<1>5. \A c \in F \cup {b} : End(c) <= size
  BY Inside
<1>6. /\ R \subseteq Blocks
      /\ Distinct(R)
      /\ Coalescing(R)
      /\ Covered(R) = Covered(F) \cup Covered({b})
      /\ \A x \in Blocks : (\A c \in F \cup {b} : Apart(x, c)) => \A c \in R : Apart(x, c)
  BY <1>1, <1>4, <1>5, FreeBlockResult
<1> HIDE DEF R
<1>7. \A x \in O : \A c \in R : Apart(x, c) /\ Apart(c, x)
  BY <1>1, <1>4, <1>6 DEF Apart
<1>8. \A x \in Blocks : ~Apart(x, x)
  BY BlockFields DEF Apart
<1>9. R \cap O = {}
  BY <1>1, <1>6, <1>7, <1>8
<1>10. R \cup (S \ {b}) \cup L = R \cup O
  OBVIOUS
<1>11. Distinct(R \cup O)
  BY <1>4, <1>6, <1>7 DEF Distinct
<1>12. Covered(R \cup O) = 0..(size - 1)
  <2>1. Covered(R \cup O) = Covered(R) \cup Covered(O)
    BY CoveredUnion
  <2>2. Covered((F \cup {b}) \cup O) = Covered(F \cup {b}) \cup Covered(O)
    BY CoveredUnion
  <2>3. Covered(F \cup {b}) = Covered(F) \cup Covered({b})
    BY CoveredUnion
  <2>  QED BY <2>1, <2>2, <2>3, <1>3, <1>6
<1>13. free + b.size = Cardinality(Covered(R))
  <2>1. IsFiniteSet(Covered(F))
    BY Inside
  <2>2. IsFiniteSet(Covered({b})) /\ Cardinality(Covered({b})) = b.size
    BY <1>1, CoveredSize
  <2>3. Covered(F) \cap Covered({b}) = {}
    BY <1>1, <1>4, ApartCovered
  <2>4. Cardinality(Covered(F) \cup Covered({b})) =
          Cardinality(Covered(F)) + Cardinality(Covered({b}))
            - Cardinality(Covered(F) \cap Covered({b}))
    BY <2>1, <2>2, FS_Union
  <2>5. Cardinality(Covered(F) \cap Covered({b})) = 0
    BY <2>3, FS_EmptySet
  <2>6. Cardinality(Covered(F)) \in Nat /\ b.size \in Nat
    BY <2>1, <1>1, FS_CardinalityType, BlockFields
  <2>7. free = Cardinality(Covered(F))
    BY DEF PageInv
  <2>  QED BY <2>2, <2>4, <2>5, <2>6, <2>7, <1>6
<1>  QED BY <1>1, <1>6, <1>9, <1>10, <1>11, <1>12, <1>13 DEF PageInv, R

\* A page that does not exist yet has nothing, a new one is one free block.
LEMMA PageCreate ==
  ASSUME AllocatorAssumption, NEW size \in 1..MaxIndex
  PROVE  PageInv({Block(0, size)}, {}, {}, size, size)
<1> DEFINE b == Block(0, size)
<1>1. size \in Nat /\ size > 0 /\ size <= MaxIndex /\ size \in 0..MaxIndex
  BY DEF AllocatorAssumption
<1>2. b \in Blocks /\ b.offset = 0 /\ b.size = size /\ End(b) = size
  BY <1>1, MakeBlock
<1> HIDE DEF b
<1>3. Covered({b}) = 0..(size - 1) /\ Cardinality(Covered({b})) = size
  BY <1>2, CoveredSize DEF Covered
<1>4. Coalescing({b})
  BY <1>1, <1>2 DEF Coalescing
<1>5. Distinct({b})
  BY DEF Distinct
<1>6. {b} \cup {} \cup {} = {b}
  OBVIOUS
<1>7. PageInv({b}, {}, {}, size, size)
  BY <1>1, <1>2, <1>3, <1>4, <1>5, <1>6 DEF PageInv
<1>  QED BY <1>7 DEF b

LEMMA PageAbsent ==
  ASSUME AllocatorAssumption, NEW free
  PROVE  /\ free = 0 => PageInv({}, {}, {}, 0, free)
         /\ \A F, S, L : PageInv(F, S, L, 0, free) =>
              F = {} /\ S = {} /\ L = {} /\ free = 0
<1>1. Covered({}) = {} /\ 0..(0 - 1) = {} /\ Cardinality({}) = 0
  BY FS_EmptySet DEF Covered
<1>2. ASSUME free = 0 PROVE PageInv({}, {}, {}, 0, free)
  BY <1>1, <1>2 DEF PageInv, Distinct, Coalescing, AllocatorAssumption
<1>3. ASSUME NEW F, NEW S, NEW L, PageInv(F, S, L, 0, free)
      PROVE  F = {} /\ S = {} /\ L = {} /\ free = 0
  <2>1. ASSUME NEW b \in F \cup S \cup L PROVE FALSE
    <3>1. b \in Blocks
      BY <1>3 DEF PageInv
    <3>2. End(b) <= 0
      BY <1>3, Inside
    <3>  QED BY <3>1, <3>2, BlockFields
  <2>2. F = {} /\ S = {} /\ L = {}
    BY <2>1
  <2>  QED BY <2>2, <1>1, <1>3 DEF PageInv
<1>  QED BY <1>2, <1>3

\* A free block has no more descriptors than the page has free handles.
LEMMA PageRoom ==
  ASSUME AllocatorAssumption, NEW F, NEW S, NEW L, NEW size, NEW free,
         PageInv(F, S, L, size, free), NEW b \in F
  PROVE  b.size <= free /\ 0 < free
<1>1. b \in Blocks
  BY DEF PageInv
<1>2. b.size \in Nat /\ b.size > 0
  BY <1>1, BlockFields
<1>3. IsFiniteSet(Covered(F)) /\ free \in Nat
  <2>1. size \in Nat
    BY DEF PageInv, AllocatorAssumption
  <2>  QED BY <2>1, Inside
<1>4. Covered({b}) \in SUBSET Covered(F)
  BY DEF Covered
<1>5. Cardinality(Covered({b})) <= Cardinality(Covered(F))
  BY <1>3, <1>4, FS_Subset
<1>6. Cardinality(Covered({b})) = b.size
  BY <1>1, CoveredSize
<1>7. free = Cardinality(Covered(F))
  BY DEF PageInv
<1>  QED BY <1>2, <1>3, <1>5, <1>6, <1>7

-----------------------------------------------------------------------------
(* The inductive invariant.                                                *)

PageOK(p) == PageInv(freeList[p], stale[p], Live(p), numDescriptors[p], numFree[p])
PagesOK == \A p \in Pages : PageOK(p)

Absent == \A p \in Pages : p > heapPool => numDescriptors[p] = 0

CallOK ==
  /\ call.op = "allocate" => call.n \in Requests /\ call.page \in 0..heapPool
  /\ call.op = "release" => call.page \in 1..(heapPool + 1)
  /\ call.op = "sweep" => call.page \in 1..heapPool /\ call = Sweeping(call.page)

\* A page with free handles is available, or will be when it has been swept.
RoomIsFound ==
  \A p \in 1..heapPool : numFree[p] > 0 => p \in available \/ call = Sweeping(p)

\* The pages that Allocate has visited have no room for the request.
Visited ==
  call.op = "allocate" =>
    \A p \in 1..heapPool : p <= call.page => \A b \in freeList[p] : b.size < call.n

IInv == TypeOK /\ PagesOK /\ Absent /\ CallOK /\ RoomIsFound /\ Visited

LEMMA Calls ==
  /\ Idle.op = "none"
  /\ \A p, n : /\ Allocating(p, n).op = "allocate"
               /\ Allocating(p, n).page = p /\ Allocating(p, n).n = n
  /\ \A p : Releasing(p).op = "release" /\ Releasing(p).page = p
  /\ \A p : Sweeping(p).op = "sweep" /\ Sweeping(p).page = p
BY DEF Idle, Allocating, Releasing, Sweeping

LEMMA CallTypes ==
  ASSUME AllocatorAssumption
  PROVE  LET C == [op : {"none", "allocate", "release", "sweep"},
                   page : 0..(MaxPages + 1), n : Requests \cup {0}]
         IN  /\ Idle \in C
             /\ \A p \in 0..(MaxPages + 1), n \in Requests : Allocating(p, n) \in C
             /\ \A p \in 0..(MaxPages + 1) : Releasing(p) \in C /\ Sweeping(p) \in C
BY DEF AllocatorAssumption, Idle, Allocating, Releasing, Sweeping

LEMMA InitInv == AllocatorAssumption /\ Init => IInv
<1> SUFFICES ASSUME AllocatorAssumption, Init PROVE IInv
  OBVIOUS
<1>1. MaxPages \in Nat /\ MaxIndex \in Nat /\ NumDescriptorsPerHeap \in 1..MaxIndex
  BY DEF AllocatorAssumption
<1>2. TypeOK
  <2>1. call \in [op : {"none", "allocate", "release", "sweep"},
                  page : 0..(MaxPages + 1), n : Requests \cup {0}]
    BY CallTypes DEF Init
  <2>  QED BY <1>1, <2>1 DEF Init, TypeOK
<1>3. PagesOK
  <2> SUFFICES ASSUME NEW p \in Pages PROVE PageOK(p)
    BY DEF PagesOK
  <2>1. /\ freeList[p] = {} /\ stale[p] = {} /\ Live(p) = {}
        /\ numDescriptors[p] = 0 /\ numFree[p] = 0
    BY DEF Init, Live
  <2>  QED BY <2>1, PageAbsent DEF PageOK
<1>4. Absent
  BY DEF Init, Absent
<1>5. CallOK /\ Visited
  BY Calls DEF Init, CallOK, Visited
<1>6. RoomIsFound
  BY DEF Init, RoomIsFound
<1>  QED BY <1>2, <1>3, <1>4, <1>5, <1>6 DEF IInv

-----------------------------------------------------------------------------
(* Steps that leave the pages alone, and steps that change one of them.    *)

LEMMA PagesFrame ==
  ASSUME PagesOK, UNCHANGED <<numDescriptors, numFree, freeList, stale, live>>
  PROVE  PagesOK'
BY DEF PagesOK, PageOK, Live

LEMMA PageStep ==
  ASSUME PagesOK, NEW p \in Pages, PageOK(p)',
         \A q \in Pages \ {p} :
           /\ freeList'[q] = freeList[q] /\ stale'[q] = stale[q] /\ Live(q)' = Live(q)
           /\ numDescriptors'[q] = numDescriptors[q] /\ numFree'[q] = numFree[q]
  PROVE  PagesOK'
<1> SUFFICES ASSUME NEW q \in Pages PROVE PageOK(q)'
  BY DEF PagesOK
<1>1. CASE q = p
  BY <1>1
<1>2. CASE q # p
  BY <1>2 DEF PagesOK, PageOK
<1>  QED BY <1>1, <1>2

LEMMA LiveReturns ==
  ASSUME NEW p, NEW o, NEW n, Returns(p, o, n)
  PROVE  /\ Live(p)' = Live(p) \cup {Block(o, n)}
         /\ \A q : q # p => Live(q)' = Live(q)
<1> DEFINE a == [page |-> p, block |-> Block(o, n)]
<1>1. a.page = p /\ a.block = Block(o, n) /\ live' = live \cup {a}
  BY DEF Returns
<1> HIDE DEF a
<1>2. Live(p)' = Live(p) \cup {Block(o, n)}
  BY <1>1 DEF Live
<1>3. \A q : q # p => Live(q)' = Live(q)
  BY <1>1 DEF Live
<1>  QED BY <1>2, <1>3

LEMMA LiveFreed ==
  ASSUME live \subseteq Allocations, NEW a \in live, live' = live \ {a}
  PROVE  /\ a.block \in Live(a.page)
         /\ Live(a.page)' = Live(a.page) \ {a.block}
         /\ \A q : q # a.page => Live(q)' = Live(q)
<1>1. \A l \in live : l.page = a.page /\ l.block = a.block => l = a
  BY DEF Allocations
<1>  QED BY <1>1 DEF Live

\* Steps that change no more than call, and perhaps available.
LEMMA ControlStep ==
  ASSUME AllocatorAssumption, IInv,
         UNCHANGED <<heapPool, perHeap, numDescriptors, numFree, freeList, stale, live>>,
         available' \subseteq 1..heapPool, CallOK', RoomIsFound', Visited',
         call' \in [op : {"none", "allocate", "release", "sweep"},
                    page : 0..(MaxPages + 1), n : Requests \cup {0}]
  PROVE  IInv'
<1>1. TypeOK'
  BY DEF IInv, TypeOK
<1>2. PagesOK'
  BY PagesFrame DEF IInv
<1>3. Absent'
  BY DEF IInv, Absent
<1>  QED BY <1>1, <1>2, <1>3 DEF IInv

LEMMA Bounds ==
  ASSUME AllocatorAssumption, IInv
  PROVE  /\ heapPool \in Nat /\ heapPool <= MaxPages /\ MaxPages \in Nat /\ MaxIndex \in Nat
         /\ \A n \in Requests : n \in Nat /\ 0 < n /\ n <= MaxIndex
         /\ available \subseteq 1..heapPool
         /\ 1..heapPool \subseteq Pages
BY DEF AllocatorAssumption, IInv, TypeOK, Pages

LEMMA BeginAllocateInv ==
  ASSUME AllocatorAssumption, IInv, NEW n \in Requests, BeginAllocate(n)
  PROVE  IInv'
<1>1. call = Idle /\ call' = Allocating(0, n)
      /\ UNCHANGED <<heapPool, available, perHeap, numDescriptors, numFree, freeList, stale, live>>
  BY DEF BeginAllocate, pageVars
<1>2. CallOK'
  BY <1>1, Calls, Bounds DEF CallOK
<1>3. RoomIsFound'
  BY <1>1, Calls DEF IInv, RoomIsFound
<1>4. Visited'
  BY <1>1, Calls, Bounds DEF Visited
<1>5. available' \subseteq 1..heapPool
  BY <1>1, Bounds
<1>6. 0 \in 0..(MaxPages + 1)
  BY Bounds
<1>7. call' \in [op : {"none", "allocate", "release", "sweep"},
                 page : 0..(MaxPages + 1), n : Requests \cup {0}]
  BY <1>1, <1>6, CallTypes
<1>  QED BY <1>1, <1>2, <1>3, <1>4, <1>5, <1>7, ControlStep

LEMMA BeginReleaseInv ==
  ASSUME AllocatorAssumption, IInv, BeginRelease
  PROVE  IInv'
<1>1. call = Idle /\ call' = Releasing(1)
      /\ UNCHANGED <<heapPool, available, perHeap, numDescriptors, numFree, freeList, stale, live>>
  BY DEF BeginRelease, pageVars
<1>2. CallOK' /\ Visited'
  BY <1>1, Calls, Bounds DEF CallOK, Visited
<1>3. RoomIsFound'
  BY <1>1, Calls DEF IInv, RoomIsFound
<1>4. available' \subseteq 1..heapPool
  BY <1>1, Bounds
<1>5. 1 \in 0..(MaxPages + 1)
  BY Bounds
<1>6. call' \in [op : {"none", "allocate", "release", "sweep"},
                 page : 0..(MaxPages + 1), n : Requests \cup {0}]
  BY <1>1, <1>5, CallTypes
<1>  QED BY <1>1, <1>2, <1>3, <1>4, <1>6, ControlStep

LEMMA LockPageInv ==
  ASSUME AllocatorAssumption, IInv, LockPage
  PROVE  IInv'
<1>1. /\ call.op = "release" /\ call.page <= heapPool /\ call' = Sweeping(call.page)
      /\ UNCHANGED <<heapPool, available, perHeap, numDescriptors, numFree, freeList, stale, live>>
  BY DEF LockPage, PagesLeft, pageVars
<1>2. call.page \in 1..heapPool /\ call.page \in 0..(MaxPages + 1)
  BY <1>1, Bounds DEF IInv, CallOK
<1>3. CallOK' /\ Visited'
  BY <1>1, <1>2, Calls DEF CallOK, Visited
<1>4. \A p : call # Sweeping(p)
  BY <1>1, Calls
<1>5. RoomIsFound'
  BY <1>1, <1>4 DEF IInv, RoomIsFound
<1>6. available' \subseteq 1..heapPool
  BY <1>1, Bounds
<1>7. call' \in [op : {"none", "allocate", "release", "sweep"},
                 page : 0..(MaxPages + 1), n : Requests \cup {0}]
  BY <1>1, <1>2, CallTypes
<1>  QED BY <1>1, <1>3, <1>5, <1>6, <1>7, ControlStep

LEMMA UnlockPageInv ==
  ASSUME AllocatorAssumption, IInv, UnlockPage
  PROVE  IInv'
<1>1. /\ call.op = "sweep" /\ call' = Releasing(call.page + 1)
      /\ available' = IF numFree[call.page] > 0 THEN available \cup {call.page} ELSE available
      /\ UNCHANGED <<heapPool, perHeap, numDescriptors, numFree, freeList, stale, live>>
  BY DEF UnlockPage, Reinsert, pageVars
<1>2. /\ call.page \in 1..heapPool /\ call.page + 1 \in 0..(MaxPages + 1)
      /\ call.page + 1 \in 1..(heapPool + 1) /\ call = Sweeping(call.page)
  BY <1>1, Bounds DEF IInv, CallOK
<1>3. CallOK' /\ Visited'
  BY <1>1, <1>2, Calls DEF CallOK, Visited
<1>4. \A p : call = Sweeping(p) => p = call.page
  BY Calls
<1>5. RoomIsFound'
  BY <1>1, <1>4 DEF IInv, RoomIsFound
<1>6. available' \subseteq 1..heapPool
  BY <1>1, <1>2, Bounds
<1>7. call' \in [op : {"none", "allocate", "release", "sweep"},
                 page : 0..(MaxPages + 1), n : Requests \cup {0}]
  BY <1>1, <1>2, CallTypes
<1>  QED BY <1>1, <1>3, <1>5, <1>6, <1>7, ControlStep

LEMMA EndReleaseInv ==
  ASSUME AllocatorAssumption, IInv, EndRelease
  PROVE  IInv'
<1>1. call.op = "release" /\ call' = Idle
      /\ UNCHANGED <<heapPool, available, perHeap, numDescriptors, numFree, freeList, stale, live>>
  BY DEF EndRelease, pageVars
<1>2. CallOK' /\ Visited'
  BY <1>1, Calls DEF CallOK, Visited
<1>3. \A p : call # Sweeping(p)
  BY <1>1, Calls
<1>4. RoomIsFound'
  BY <1>1, <1>3 DEF IInv, RoomIsFound
<1>5. available' \subseteq 1..heapPool
  BY <1>1, Bounds
<1>6. call' \in [op : {"none", "allocate", "release", "sweep"},
                 page : 0..(MaxPages + 1), n : Requests \cup {0}]
  BY <1>1, CallTypes
<1>  QED BY <1>1, <1>2, <1>4, <1>5, <1>6, ControlStep

\* A page without room for n is full, or all its free blocks are smaller.
LEMMA NoRoom ==
  ASSUME AllocatorAssumption, IInv, NEW p \in 1..heapPool, NEW n \in Requests,
         Fitting(p, n) = {} \/ numFree[p] = 0
  PROVE  \A b \in freeList[p] : b.size < n
<1> SUFFICES ASSUME NEW b \in freeList[p] PROVE b.size < n
  OBVIOUS
<1>1. p \in Pages /\ n \in Nat
  BY Bounds
<1>2. PageInv(freeList[p], stale[p], Live(p), numDescriptors[p], numFree[p])
  BY <1>1 DEF IInv, PagesOK, PageOK
<1>3. b.size <= numFree[p] /\ 0 < numFree[p]
  BY <1>2, PageRoom
<1>4. b.size \in Nat /\ numFree[p] \in Nat
  <2>1. b \in Blocks
    BY <1>2 DEF PageInv
  <2>2. numFree[p] \in 0..MaxIndex
    BY <1>1 DEF IInv, TypeOK
  <2>  QED BY <2>1, <2>2, BlockFields, Bounds
<1>5. Fitting(p, n) = {}
  BY <1>3, <1>4
<1>6. ~(n <= numFree[p] /\ n <= b.size)
  BY <1>5 DEF Fitting
<1>  QED BY <1>1, <1>3, <1>4, <1>6

\* A page that is not available has no room either, while Allocate looks.
LEMMA FullPages ==
  ASSUME AllocatorAssumption, IInv, call.op = "allocate",
         NEW p \in 1..heapPool, p \notin available
  PROVE  \A b \in freeList[p] : b.size < call.n
<1>1. call # Sweeping(p) /\ call.n \in Requests
  BY Calls DEF IInv, CallOK
<1>2. ~(numFree[p] > 0)
  BY <1>1 DEF IInv, RoomIsFound
<1>3. numFree[p] \in Nat
  BY Bounds DEF IInv, TypeOK
<1>4. numFree[p] = 0
  BY <1>2, <1>3
<1>  QED BY <1>1, <1>4, NoRoom

LEMMA SkipPageInv ==
  ASSUME AllocatorAssumption, IInv, NEW p \in Pages, SkipPage(p)
  PROVE  IInv'
<1>1. /\ call.op = "allocate" /\ p \in available /\ p > call.page
      /\ \A q \in available : q > call.page => p <= q
      /\ Fitting(p, call.n) = {}
      /\ available' = IF numFree[p] = 0 THEN available \ {p} ELSE available
      /\ call' = Allocating(p, call.n)
      /\ UNCHANGED <<heapPool, perHeap, numDescriptors, numFree, freeList, stale, live>>
  BY DEF SkipPage, Visit, NextPages, pageVars
<1>2. /\ p \in 1..heapPool /\ p \in 0..(MaxPages + 1) /\ p \in 0..heapPool
      /\ call.n \in Requests /\ call.page \in 0..heapPool
  BY <1>1, Bounds DEF IInv, CallOK
<1>3. CallOK'
  BY <1>1, <1>2, Calls DEF CallOK
<1>4. \A q : call # Sweeping(q)
  BY <1>1, Calls
<1>5. RoomIsFound'
  BY <1>1, <1>4 DEF IInv, RoomIsFound
<1>6. \A q \in 1..heapPool : q <= p => \A b \in freeList[q] : b.size < call.n
  <2> SUFFICES ASSUME NEW q \in 1..heapPool, q <= p
               PROVE  \A b \in freeList[q] : b.size < call.n
    OBVIOUS
  <2>1. CASE q <= call.page
    BY <2>1, <1>1 DEF IInv, Visited
  <2>2. CASE q = p
    BY <2>2, <1>1, <1>2, NoRoom
  <2>3. CASE q > call.page /\ q # p
    <3>1. ~(p <= q)
      BY <2>3, <1>2
    <3>2. q \notin available
      BY <3>1, <2>3, <1>1
    <3>  QED BY <3>2, <1>1, FullPages
  <2>  QED BY <2>1, <2>2, <2>3, <1>2
<1>7. Visited'
  BY <1>1, <1>6, Calls DEF Visited
<1>8. available' \subseteq 1..heapPool
  BY <1>1, Bounds
<1>9. call' \in [op : {"none", "allocate", "release", "sweep"},
                 page : 0..(MaxPages + 1), n : Requests \cup {0}]
  BY <1>1, <1>2, CallTypes
<1>  QED BY <1>1, <1>3, <1>5, <1>7, <1>8, <1>9, ControlStep

\* What PageInv adds to the types of the functions.
LEMMA TypesOf ==
  ASSUME AllocatorAssumption, NEW F, NEW S, NEW L, NEW size, NEW free,
         PageInv(F, S, L, size, free)
  PROVE  /\ F \in SUBSET Blocks /\ S \in SUBSET Blocks /\ L \in SUBSET Blocks
         /\ size \in 0..MaxIndex /\ free \in 0..MaxIndex
<1>1. size \in 0..MaxIndex /\ MaxIndex \in Nat
  BY DEF PageInv, AllocatorAssumption
<1>2. free \in 0..size
  BY Inside
<1>3. free \in 0..MaxIndex
  BY <1>1, <1>2
<1>  QED BY <1>1, <1>3 DEF PageInv

\* The block of AllocateFromPage, and what the step does to its page.
LEMMA FromPage ==
  ASSUME AllocatorAssumption, IInv, NEW p \in Pages, NEW b \in freeList[p],
         AllocateFromPage(p, b)
  PROVE  /\ call.op = "allocate" /\ p \in available /\ p \in 1..heapPool
         /\ call.n \in Requests /\ call.n <= b.size /\ call.n <= numFree[p]
         /\ b \in Blocks
         /\ freeList'[p] = (freeList[p] \ {b}) \cup Remainder(b, call.n)
         /\ stale'[p] = stale[p]
         /\ Live(p)' = Live(p) \cup {Block(b.offset, call.n)}
         /\ numDescriptors'[p] = numDescriptors[p] /\ numFree'[p] = numFree[p] - call.n
         /\ PageInv(freeList[p], stale[p], Live(p), numDescriptors[p], numFree[p])
         /\ \A q \in Pages \ {p} :
              /\ freeList'[q] = freeList[q] /\ stale'[q] = stale[q] /\ Live(q)' = Live(q)
              /\ numDescriptors'[q] = numDescriptors[q] /\ numFree'[q] = numFree[q]
<1>1. call.op = "allocate" /\ p \in available /\ b \in Fitting(p, call.n)
  BY DEF AllocateFromPage, Visit, NextPages, Smallest
<1>2. call.n <= b.size /\ call.n <= numFree[p]
  BY <1>1 DEF Fitting
<1>3. p \in 1..heapPool /\ call.n \in Requests
  BY <1>1, Bounds DEF IInv, CallOK
<1>4. PageInv(freeList[p], stale[p], Live(p), numDescriptors[p], numFree[p])
  BY DEF IInv, PagesOK, PageOK
<1>5. b \in Blocks
  BY <1>4 DEF PageInv
<1>6. Returns(p, b.offset, call.n)
  BY DEF AllocateFromPage
<1>7. /\ Live(p)' = Live(p) \cup {Block(b.offset, call.n)}
      /\ \A q : q # p => Live(q)' = Live(q)
  BY <1>6, LiveReturns
<1>8. /\ freeList'[p] = (freeList[p] \ {b}) \cup Remainder(b, call.n)
      /\ numFree'[p] = numFree[p] - call.n
      /\ \A q \in Pages \ {p} : freeList'[q] = freeList[q] /\ numFree'[q] = numFree[q]
  BY DEF AllocateFromPage, IInv, TypeOK
<1>9. stale' = stale /\ numDescriptors' = numDescriptors
  BY DEF AllocateFromPage
<1>  QED BY <1>1, <1>2, <1>3, <1>4, <1>5, <1>7, <1>8, <1>9

LEMMA AllocateFromPageInv ==
  ASSUME AllocatorAssumption, IInv, NEW p \in Pages, NEW b \in freeList[p],
         AllocateFromPage(p, b)
  PROVE  IInv'
<1>1. /\ call.op = "allocate" /\ p \in available /\ p \in 1..heapPool
      /\ call.n \in Requests /\ call.n <= b.size /\ call.n <= numFree[p]
      /\ b \in Blocks
      /\ freeList'[p] = (freeList[p] \ {b}) \cup Remainder(b, call.n)
      /\ stale'[p] = stale[p]
      /\ Live(p)' = Live(p) \cup {Block(b.offset, call.n)}
      /\ numDescriptors'[p] = numDescriptors[p] /\ numFree'[p] = numFree[p] - call.n
      /\ PageInv(freeList[p], stale[p], Live(p), numDescriptors[p], numFree[p])
      /\ \A q \in Pages \ {p} :
           /\ freeList'[q] = freeList[q] /\ stale'[q] = stale[q] /\ Live(q)' = Live(q)
           /\ numDescriptors'[q] = numDescriptors[q] /\ numFree'[q] = numFree[q]
  BY FromPage
<1>2. /\ call' = Idle /\ UNCHANGED <<heapPool, perHeap, numDescriptors, stale>>
      /\ available' = IF numFree[p] = call.n THEN available \ {p} ELSE available
  BY DEF AllocateFromPage
<1>3. PageOK(p)'
  <2>1. call.n \in Nat /\ 0 < call.n
    BY <1>1, Bounds
  <2>2. PageInv((freeList[p] \ {b}) \cup Remainder(b, call.n), stale[p],
                Live(p) \cup {Block(b.offset, call.n)}, numDescriptors[p], numFree[p] - call.n)
    BY <1>1, <2>1, PageAllocate
  <2>  QED BY <1>1, <2>2 DEF PageOK
<1>4. PagesOK'
  <2>1. PagesOK
    BY DEF IInv
  <2>  QED BY <2>1, <1>1, <1>3, PageStep
<1>5. freeList' \in [Pages -> SUBSET Blocks] /\ numFree' \in [Pages -> 0..MaxIndex]
  <2>1. /\ freeList' = [freeList EXCEPT ![p] = (@ \ {b}) \cup Remainder(b, call.n)]
        /\ numFree' = [numFree EXCEPT ![p] = @ - call.n]
    BY DEF AllocateFromPage
  <2>2. freeList'[p] \in SUBSET Blocks /\ numFree'[p] \in 0..MaxIndex
    BY <1>3, TypesOf DEF PageOK
  <2>  QED BY <2>1, <2>2, <1>1 DEF IInv, TypeOK
<1>6. live' \subseteq Allocations
  <2>1. Block(b.offset, call.n) \in Blocks
    BY <1>1, <1>3 DEF PageOK, PageInv
  <2>  QED BY <2>1 DEF IInv, TypeOK, AllocateFromPage, Returns, Allocations
<1>7. TypeOK'
  BY <1>2, <1>5, <1>6, CallTypes DEF IInv, TypeOK
<1>8. Absent'
  BY <1>2 DEF IInv, Absent
<1>9. CallOK' /\ Visited'
  BY <1>2, Calls DEF CallOK, Visited
<1>10. RoomIsFound'
  <2> SUFFICES ASSUME NEW q \in 1..heapPool, numFree'[q] > 0 PROVE q \in available'
    BY <1>2 DEF RoomIsFound
  <2>1. CASE q = p
    <3>0. call.n \in Nat /\ numFree[p] - call.n > 0
      BY <2>1, <1>1, Bounds
    <3>1. numFree[p] # call.n
      BY <3>0
    <3>  QED BY <2>1, <3>1, <1>1, <1>2
  <2>2. CASE q # p
    <3>1. numFree[q] > 0 /\ call # Sweeping(q)
      BY <2>2, <1>1, Bounds, Calls
    <3>  QED BY <2>2, <3>1, <1>2 DEF IInv, RoomIsFound
  <2>  QED BY <2>1, <2>2
<1>  QED BY <1>4, <1>7, <1>8, <1>9, <1>10 DEF IInv

\* The step that creates page p, of the given size.
LEMMA FromNewPage ==
  ASSUME AllocatorAssumption, IInv, AllocateFromNewPage
  PROVE  \E p \in Pages, size \in 1..MaxIndex :
           /\ p = heapPool + 1 /\ perHeap' = size /\ p \in 1..heapPool'
           /\ call.op = "allocate" /\ call.n \in Requests /\ call.n <= size
           /\ numDescriptors' = [numDescriptors EXCEPT ![p] = size]
           /\ numFree' = [numFree EXCEPT ![p] = size - call.n]
           /\ freeList' = [freeList EXCEPT ![p] = Remainder(Block(0, size), call.n)]
           /\ available' = available \cup {p}
           /\ Returns(p, 0, call.n)
           /\ freeList[p] = {} /\ stale[p] = {} /\ Live(p) = {}
<1> DEFINE p == heapPool + 1
           size == IF perHeap < call.n THEN call.n ELSE perHeap
<1>1. /\ call.op = "allocate" /\ heapPool < MaxPages /\ heapPool' = p /\ perHeap' = size
      /\ available' = available \cup {p}
      /\ numDescriptors' = [numDescriptors EXCEPT ![p] = size]
      /\ numFree' = [numFree EXCEPT ![p] = size - call.n]
      /\ freeList' = [freeList EXCEPT ![p] = Remainder(Block(0, size), call.n)]
      /\ Returns(p, 0, call.n)
  BY DEF AllocateFromNewPage
<1>2. call.n \in Requests /\ perHeap \in 1..MaxIndex
  BY <1>1 DEF IInv, CallOK, TypeOK
<1>3. size \in 1..MaxIndex /\ call.n <= size
  <2>1. call.n \in Nat /\ 0 < call.n /\ call.n <= MaxIndex /\ MaxIndex \in Nat
    BY <1>2, Bounds
  <2>2. perHeap \in Nat /\ 0 < perHeap /\ perHeap <= MaxIndex
    BY <1>2, <2>1
  <2>  QED BY <2>1, <2>2
<1>4. p \in Pages /\ p \in 1..heapPool' /\ p > heapPool
  BY <1>1, Bounds DEF Pages
<1> HIDE DEF size, p
<1>5. freeList[p] = {} /\ stale[p] = {} /\ Live(p) = {}
  <2>1. numDescriptors[p] = 0
    BY <1>4 DEF IInv, Absent
  <2>2. PageInv(freeList[p], stale[p], Live(p), numDescriptors[p], numFree[p])
    BY <1>4 DEF IInv, PagesOK, PageOK
  <2>  QED BY <2>1, <2>2, PageAbsent
<1>6. p = heapPool + 1
  BY DEF p
<1>  QED BY <1>1, <1>2, <1>3, <1>4, <1>5, <1>6

LEMMA NewPage ==
  ASSUME AllocatorAssumption, NEW size \in 1..MaxIndex, NEW n \in Requests, n <= size
  PROVE  PageInv(Remainder(Block(0, size), n), {}, {Block(0, n)}, size, size - n)
<1> DEFINE b == Block(0, size)
<1>1. n \in Nat /\ 0 < n /\ b.size = size /\ b.offset = 0
  BY DEF AllocatorAssumption, Block
<1>2. PageInv({b}, {}, {}, size, size)
  BY PageCreate
<1> HIDE DEF b
<1>3. b \in {b} /\ n <= b.size
  BY <1>1
<1>4. PageInv(({b} \ {b}) \cup Remainder(b, n), {}, {} \cup {Block(b.offset, n)}, size, size - n)
  BY <1>1, <1>2, <1>3, PageAllocate
<1>5. ({b} \ {b}) \cup Remainder(b, n) = Remainder(b, n) /\ {} \cup {Block(b.offset, n)} = {Block(0, n)}
  BY <1>1
<1>  QED BY <1>4, <1>5 DEF b

LEMMA AllocateFromNewPageInv ==
  ASSUME AllocatorAssumption, IInv, AllocateFromNewPage
  PROVE  IInv'
<1>1. PICK p \in Pages, size \in 1..MaxIndex :
           /\ p = heapPool + 1 /\ perHeap' = size /\ p \in 1..heapPool'
           /\ call.op = "allocate" /\ call.n \in Requests /\ call.n <= size
           /\ numDescriptors' = [numDescriptors EXCEPT ![p] = size]
           /\ numFree' = [numFree EXCEPT ![p] = size - call.n]
           /\ freeList' = [freeList EXCEPT ![p] = Remainder(Block(0, size), call.n)]
           /\ available' = available \cup {p}
           /\ Returns(p, 0, call.n)
           /\ freeList[p] = {} /\ stale[p] = {} /\ Live(p) = {}
  BY FromNewPage
<1>2. heapPool' = p /\ call' = Idle /\ stale' = stale /\ heapPool < MaxPages
  BY <1>1 DEF AllocateFromNewPage
<1>3. /\ Live(p)' = Live(p) \cup {Block(0, call.n)}
      /\ \A q : q # p => Live(q)' = Live(q)
  BY <1>1, LiveReturns
<1>4. /\ freeList'[p] = Remainder(Block(0, size), call.n) /\ numFree'[p] = size - call.n
      /\ numDescriptors'[p] = size /\ stale'[p] = {} /\ Live(p)' = {Block(0, call.n)}
      /\ \A q \in Pages \ {p} :
           /\ freeList'[q] = freeList[q] /\ stale'[q] = stale[q] /\ Live(q)' = Live(q)
           /\ numDescriptors'[q] = numDescriptors[q] /\ numFree'[q] = numFree[q]
  <2>1. freeList'[p] = Remainder(Block(0, size), call.n) /\ numFree'[p] = size - call.n
        /\ numDescriptors'[p] = size
    BY <1>1 DEF IInv, TypeOK
  <2>2. \A q \in Pages \ {p} : /\ freeList'[q] = freeList[q] /\ numFree'[q] = numFree[q]
                               /\ numDescriptors'[q] = numDescriptors[q]
    BY <1>1 DEF IInv, TypeOK
  <2>  QED BY <2>1, <2>2, <1>1, <1>2, <1>3
<1>5. PageOK(p)'
  BY <1>1, <1>4, NewPage DEF PageOK
<1>6. PagesOK'
  <2>1. PagesOK
    BY DEF IInv
  <2>  QED BY <2>1, <1>4, <1>5, PageStep
<1>7. /\ freeList' \in [Pages -> SUBSET Blocks] /\ numFree' \in [Pages -> 0..MaxIndex]
      /\ numDescriptors' \in [Pages -> 0..MaxIndex]
  <2>1. /\ freeList'[p] \in SUBSET Blocks /\ numFree'[p] \in 0..MaxIndex
        /\ numDescriptors'[p] \in 0..MaxIndex
    BY <1>5, TypesOf DEF PageOK
  <2>2. /\ freeList \in [Pages -> SUBSET Blocks] /\ numFree \in [Pages -> 0..MaxIndex]
        /\ numDescriptors \in [Pages -> 0..MaxIndex]
    BY DEF IInv, TypeOK
  <2>  QED BY <2>1, <2>2, <1>1, <1>4
<1>8. live' \subseteq Allocations
  <2>1. Block(0, call.n) \in Blocks
    BY <1>4, <1>5 DEF PageOK, PageInv
  <2>  QED BY <2>1, <1>1 DEF IInv, TypeOK, Returns, Allocations
<1>9. heapPool' \in 0..MaxPages /\ available' \subseteq 1..heapPool'
  BY <1>1, <1>2, Bounds
<1>10. TypeOK'
  <2>1. perHeap' \in 1..MaxIndex /\ stale' \in [Pages -> SUBSET Blocks]
    BY <1>1, <1>2 DEF IInv, TypeOK
  <2>  QED BY <2>1, <1>2, <1>7, <1>8, <1>9, CallTypes DEF TypeOK
<1>11. Absent'
  <2> SUFFICES ASSUME NEW q \in Pages, q > heapPool' PROVE numDescriptors'[q] = 0
    BY DEF Absent
  <2>1. q # p /\ q > heapPool
    BY <1>1, <1>2, Bounds DEF Pages
  <2>  QED BY <2>1, <1>4 DEF IInv, Absent
<1>12. CallOK' /\ Visited'
  BY <1>2, Calls DEF CallOK, Visited
<1>13. RoomIsFound'
  <2> SUFFICES ASSUME NEW q \in 1..heapPool', numFree'[q] > 0 PROVE q \in available'
    BY DEF RoomIsFound
  <2>1. CASE q = p
    BY <2>1, <1>1
  <2>2. CASE q # p
    <3>1. q \in 1..heapPool /\ q \in Pages
      BY <2>2, <1>1, <1>2, Bounds DEF Pages
    <3>2. numFree[q] > 0 /\ call # Sweeping(q)
      BY <2>2, <3>1, <1>1, <1>4, Calls
    <3>  QED BY <3>1, <3>2, <1>1 DEF IInv, RoomIsFound
  <2>  QED BY <2>1, <2>2
<1>  QED BY <1>6, <1>10, <1>11, <1>12, <1>13 DEF IInv

LEMMA FreeInv ==
  ASSUME AllocatorAssumption, IInv, NEW a \in live, Free(a)
  PROVE  IInv'
<1>1. a.page \in Pages /\ a.block \in Blocks /\ live \subseteq Allocations
  BY DEF IInv, TypeOK, Allocations
<1>2. PICK p \in Pages : p = a.page
  BY <1>1
<1>3. /\ live' = live \ {a} /\ stale' = [stale EXCEPT ![p] = @ \cup {a.block}]
      /\ UNCHANGED <<heapPool, available, perHeap, numDescriptors, numFree, freeList, call>>
  BY <1>2 DEF Free
<1>4. /\ a.block \in Live(p) /\ Live(p)' = Live(p) \ {a.block}
      /\ \A q : q # p => Live(q)' = Live(q)
  BY <1>1, <1>2, <1>3, LiveFreed
<1>5. /\ stale'[p] = stale[p] \cup {a.block}
      /\ \A q \in Pages \ {p} : stale'[q] = stale[q]
      /\ stale' \in [Pages -> SUBSET Blocks]
  BY <1>1, <1>3 DEF IInv, TypeOK
<1>6. PageOK(p)'
  <2>1. PageInv(freeList[p], stale[p], Live(p), numDescriptors[p], numFree[p])
    BY DEF IInv, PagesOK, PageOK
  <2>2. PageInv(freeList[p], stale[p] \cup {a.block}, Live(p) \ {a.block},
                numDescriptors[p], numFree[p])
    BY <2>1, <1>4, PageFree
  <2>  QED BY <2>2, <1>3, <1>4, <1>5 DEF PageOK
<1>7. PagesOK'
  <2>1. PagesOK
    BY DEF IInv
  <2>2. \A q \in Pages \ {p} :
          /\ freeList'[q] = freeList[q] /\ stale'[q] = stale[q] /\ Live(q)' = Live(q)
          /\ numDescriptors'[q] = numDescriptors[q] /\ numFree'[q] = numFree[q]
    BY <1>3, <1>4, <1>5
  <2>  QED BY <2>1, <2>2, <1>6, PageStep
<1>8. TypeOK'
  BY <1>1, <1>3, <1>5 DEF IInv, TypeOK
<1>9. Absent' /\ CallOK' /\ RoomIsFound' /\ Visited'
  BY <1>3 DEF IInv, Absent, CallOK, RoomIsFound, Visited, Sweeping
<1>  QED BY <1>7, <1>8, <1>9 DEF IInv

LEMMA ReleaseBlockInv ==
  ASSUME AllocatorAssumption, IInv, NEW b, ReleaseBlock(b)
  PROVE  IInv'
<1>1. call.op = "sweep" /\ call.page \in 1..heapPool /\ call = Sweeping(call.page)
  BY DEF ReleaseBlock, IInv, CallOK
<1>2. PICK p \in Pages : p = call.page
  BY <1>1, Bounds
<1>3. /\ b \in stale[p]
      /\ numFree' = [numFree EXCEPT ![p] = @ + b.size]
      /\ freeList' = [freeList EXCEPT ![p] = FreeBlock(@, b)]
      /\ stale' = [stale EXCEPT ![p] = @ \ {b}]
      /\ UNCHANGED <<heapPool, available, perHeap, numDescriptors, live, call>>
  BY <1>2 DEF ReleaseBlock, Freed
<1>4. /\ freeList'[p] = FreeBlock(freeList[p], b) /\ numFree'[p] = numFree[p] + b.size
      /\ stale'[p] = stale[p] \ {b}
      /\ \A q \in Pages \ {p} : /\ freeList'[q] = freeList[q] /\ numFree'[q] = numFree[q]
                                /\ stale'[q] = stale[q]
  BY <1>3 DEF IInv, TypeOK
<1>5. numDescriptors' = numDescriptors /\ \A q : Live(q)' = Live(q)
  BY <1>3 DEF Live
<1>6. PageOK(p)'
  <2>1. PageInv(freeList[p], stale[p], Live(p), numDescriptors[p], numFree[p])
    BY DEF IInv, PagesOK, PageOK
  <2>2. PageInv(FreeBlock(freeList[p], b), stale[p] \ {b}, Live(p),
                numDescriptors[p], numFree[p] + b.size)
    BY <2>1, <1>3, PageRelease
  <2>  QED BY <2>2, <1>4, <1>5 DEF PageOK
<1>7. PagesOK'
  <2>1. PagesOK
    BY DEF IInv
  <2>  QED BY <2>1, <1>4, <1>5, <1>6, PageStep
<1>8. /\ freeList' \in [Pages -> SUBSET Blocks] /\ numFree' \in [Pages -> 0..MaxIndex]
      /\ stale' \in [Pages -> SUBSET Blocks]
  <2>1. freeList'[p] \in SUBSET Blocks /\ numFree'[p] \in 0..MaxIndex
        /\ stale'[p] \in SUBSET Blocks
    BY <1>6, TypesOf DEF PageOK
  <2>2. /\ freeList \in [Pages -> SUBSET Blocks] /\ numFree \in [Pages -> 0..MaxIndex]
        /\ stale \in [Pages -> SUBSET Blocks]
    BY DEF IInv, TypeOK
  <2>  QED BY <2>1, <2>2, <1>3, <1>4
<1>9. TypeOK'
  BY <1>3, <1>8 DEF IInv, TypeOK
<1>10. Absent' /\ CallOK'
  BY <1>3 DEF IInv, Absent, CallOK, Sweeping
<1>11. Visited'
  BY <1>1, <1>3 DEF Visited
<1>12. RoomIsFound'
  <2> SUFFICES ASSUME NEW q \in 1..heapPool, numFree'[q] > 0
               PROVE  q \in available \/ call = Sweeping(q)
    BY <1>3 DEF RoomIsFound, Sweeping
  <2>1. CASE q = p
    BY <2>1, <1>1, <1>2
  <2>2. CASE q # p
    <3>1. numFree[q] > 0
      BY <2>2, <1>4, Bounds
    <3>  QED BY <3>1 DEF IInv, RoomIsFound
  <2>  QED BY <2>1, <2>2
<1>  QED BY <1>7, <1>9, <1>10, <1>11, <1>12 DEF IInv

-----------------------------------------------------------------------------
(* The theorems.                                                           *)

LEMMA StutterInv == IInv /\ UNCHANGED vars => IInv'
<1> SUFFICES ASSUME IInv, UNCHANGED vars PROVE IInv'
  OBVIOUS
<1>1. /\ UNCHANGED <<heapPool, available, perHeap, call>>
      /\ UNCHANGED <<numDescriptors, numFree, freeList, stale, live>>
  BY DEF vars, pageVars
<1>2. PagesOK'
  BY <1>1, PagesFrame DEF IInv
<1>3. TypeOK'
  BY <1>1 DEF IInv, TypeOK
<1>4. Absent' /\ CallOK' /\ RoomIsFound' /\ Visited'
  BY <1>1 DEF IInv, Absent, CallOK, RoomIsFound, Visited, Sweeping
<1>  QED BY <1>2, <1>3, <1>4 DEF IInv

LEMMA NextInv == AllocatorAssumption /\ IInv /\ [Next]_vars => IInv'
<1> SUFFICES ASSUME AllocatorAssumption, IInv, [Next]_vars PROVE IInv'
  OBVIOUS
<1>1. ASSUME NEW n \in Requests, BeginAllocate(n) PROVE IInv'
  BY <1>1, BeginAllocateInv
<1>2. CASE BeginRelease
  BY <1>2, BeginReleaseInv
<1>3. ASSUME NEW p \in Pages, SkipPage(p) PROVE IInv'
  BY <1>3, SkipPageInv
<1>4. ASSUME NEW p \in Pages, NEW b \in freeList[p], AllocateFromPage(p, b) PROVE IInv'
  BY <1>4, AllocateFromPageInv
<1>5. CASE AllocateFromNewPage
  BY <1>5, AllocateFromNewPageInv
<1>6. CASE LockPage
  BY <1>6, LockPageInv
<1>7. CASE UnlockPage
  BY <1>7, UnlockPageInv
<1>8. CASE EndRelease
  BY <1>8, EndReleaseInv
<1>9. ASSUME NEW b, ReleaseBlock(b) PROVE IInv'
  BY <1>9, ReleaseBlockInv
<1>10. ASSUME NEW a \in live, Free(a) PROVE IInv'
  BY <1>10, FreeInv
<1>11. CASE UNCHANGED vars
  BY <1>11, StutterInv
<1>  QED BY <1>1, <1>2, <1>3, <1>4, <1>5, <1>6, <1>7, <1>8, <1>9, <1>10, <1>11
         DEF Next, Allocate, ReleaseStaleDescriptors

\* The invariant, which the theorems below rest on.
THEOREM Invariance == Spec => []IInv
<1>1. Init => IInv
  BY AllocatorAssumption, InitInv
<1>2. IInv /\ [Next]_vars => IInv'
  BY AllocatorAssumption, NextInv
<1>  QED BY <1>1, <1>2, PTL DEF Spec

\* The types of the variables; no uint32_t of the allocator wraps around.
THEOREM TypeCorrect == Spec => []TypeOK
<1>1. IInv => TypeOK
  BY DEF IInv
<1>  QED BY <1>1, Invariance, PTL

\* Free, stale and live blocks of a page never overlap.
THEOREM NoOverlapAlways == Spec => []NoOverlap
<1>1. IInv => NoOverlap
  BY DEF IInv, PagesOK, PageOK, PageInv, NoOverlap, Distinct, AllBlocks
<1>  QED BY <1>1, Invariance, PTL

\* Free, stale and live blocks always make up the whole page.
THEOREM NoneLostEver == Spec => []NoneLost
<1>1. IInv => NoneLost
  BY DEF IInv, PagesOK, PageOK, PageInv, NoneLost, AllBlocks
<1>  QED BY <1>1, Invariance, PTL

\* m_NumFreeHandles is the number of descriptors in the free list.
THEOREM FreeCountExact == Spec => []FreeCount
<1>1. IInv => FreeCount
  BY DEF IInv, PagesOK, PageOK, PageInv, FreeCount
<1>  QED BY <1>1, Invariance, PTL

\* Two free blocks never touch.
THEOREM AlwaysCoalesced == Spec => []Coalesced
<1>1. IInv => Coalesced
  BY DEF IInv, PagesOK, PageOK, PageInv, Coalesced, Coalescing
<1>  QED BY <1>1, Invariance, PTL

\* A page is only created when no free block of any page is large enough.
THEOREM PagesAreNeeded == Spec => NoNeedlessPage
<1>1. IInv /\ [Next]_vars =>
        [heapPool' # heapPool =>
           \A p \in 1..heapPool : \A b \in freeList[p] : b.size < call.n]_vars
  <2> SUFFICES ASSUME AllocatorAssumption, IInv, [Next]_vars, heapPool' # heapPool
               PROVE  \A p \in 1..heapPool : \A b \in freeList[p] : b.size < call.n
    BY AllocatorAssumption
  <2>1. AllocateFromNewPage
    <3>1. ASSUME NEW n \in Requests, BeginAllocate(n) PROVE heapPool' = heapPool
      BY <3>1 DEF BeginAllocate
    <3>2. ASSUME NEW p \in Pages, SkipPage(p) PROVE heapPool' = heapPool
      BY <3>2 DEF SkipPage
    <3>3. ASSUME NEW p \in Pages, NEW b \in freeList[p], AllocateFromPage(p, b)
          PROVE  heapPool' = heapPool
      BY <3>3 DEF AllocateFromPage
    <3>4. BeginRelease \/ LockPage \/ UnlockPage \/ EndRelease => heapPool' = heapPool
      BY DEF BeginRelease, LockPage, UnlockPage, EndRelease
    <3>5. ASSUME NEW b, ReleaseBlock(b) PROVE heapPool' = heapPool
      BY <3>5 DEF ReleaseBlock
    <3>6. ASSUME NEW a \in live, Free(a) PROVE heapPool' = heapPool
      BY <3>6 DEF Free
    <3>7. UNCHANGED vars => heapPool' = heapPool
      BY DEF vars
    <3>  QED BY <3>1, <3>2, <3>3, <3>4, <3>5, <3>6, <3>7
             DEF Next, Allocate, ReleaseStaleDescriptors
  <2>2. call.op = "allocate" /\ NextPages = {}
    BY <2>1 DEF AllocateFromNewPage
  <2>3. call.page \in 0..heapPool
    BY <2>2 DEF IInv, CallOK
  <2> SUFFICES ASSUME NEW p \in 1..heapPool PROVE \A b \in freeList[p] : b.size < call.n
    OBVIOUS
  <2>4. CASE p <= call.page
    BY <2>2, <2>4 DEF IInv, Visited
  <2>5. CASE p > call.page
    <3>1. p \notin available
      BY <2>2, <2>5 DEF NextPages
    <3>  QED BY <3>1, <2>2, FullPages
  <2>  QED BY <2>3, <2>4, <2>5, Bounds
<1>  QED BY <1>1, Invariance, PTL DEF Spec, NoNeedlessPage

-----------------------------------------------------------------------------
(* The allocator implements DescriptorPool.                                *)

\* The descriptors of page p with the indices in C.
In(p, C) == {p} \X C

\* Lists g have what lists f have and block b in page p.
Adds(f, g, p, b) ==
  /\ Covered(g[p]) = Covered(f[p]) \cup Covered({b})
  /\ \A q \in Pages \ {p} : g[q] = f[q]

LEMMA OfPlus ==
  ASSUME NEW f, NEW g, NEW p \in Pages, NEW b \in Blocks, Adds(f, g, p, b)
  PROVE  Of(g) = Of(f) \cup In(p, Covered({b}))
BY DEF Of, In, Adds

LEMMA OfMinus ==
  ASSUME NEW f, NEW g, NEW p \in Pages, NEW b \in Blocks, Adds(g, f, p, b),
         Covered(g[p]) \cap Covered({b}) = {}
  PROVE  Of(g) = Of(f) \ In(p, Covered({b})) /\ In(p, Covered({b})) \subseteq Of(f)
BY DEF Of, In, Adds

\* Blocks in the lists are apart, so taking one out takes its indices out.
LEMMA CoveredWithout ==
  ASSUME AllocatorAssumption, NEW B \in SUBSET Blocks, Distinct(B), NEW b \in B
  PROVE  Covered(B) = Covered(B \ {b}) \cup Covered({b}) /\ Covered(B \ {b}) \cap Covered({b}) = {}
<1>1. \A c \in B \ {b} : Apart(b, c)
  BY DEF Distinct
<1>2. Covered(B \ {b}) \cap Covered({b}) = {}
  BY <1>1, ApartCovered
<1>3. Covered((B \ {b}) \cup {b}) = Covered(B \ {b}) \cup Covered({b})
  BY CoveredUnion
<1>4. (B \ {b}) \cup {b} = B
  OBVIOUS
<1>  QED BY <1>2, <1>3, <1>4

LEMMA BlockDescriptors ==
  ASSUME AllocatorAssumption, NEW b \in Blocks
  PROVE  /\ Covered({b}) = b.offset..(b.offset + b.size - 1)
         /\ b.offset \in 0..MaxIndex /\ b.size \in 0..MaxIndex
         /\ \A p : Pool!Descriptors(p, b.offset, b.size) = In(p, Covered({b}))
<1>1. Covered({b}) = b.offset..(b.offset + b.size - 1)
  <2>1. Covered({b}) = b.offset..(End(b) - 1)
    BY DEF Covered
  <2>2. End(b) - 1 = b.offset + b.size - 1
    BY BlockFields
  <2>  QED BY <2>1, <2>2
<1>2. b.offset \in 0..MaxIndex /\ b.size \in 0..MaxIndex
  BY DEF Blocks, AllocatorAssumption
<1>3. \A p : Pool!Descriptors(p, b.offset, b.size) = In(p, Covered({b}))
  BY <1>1 DEF Pool!Descriptors, In
<1>  QED BY <1>1, <1>2, <1>3

LEMMA InitPool == Init => Pool!Init
<1> SUFFICES ASSUME Init PROVE Pool!Init
  OBVIOUS
<1>1. Covered({}) = {}
  BY DEF Covered
<1>2. \A q \in Pages : freeList[q] = {} /\ stale[q] = {} /\ Live(q) = {}
  BY DEF Init, Live
<1>3. Of(freeList) = {} /\ Of(stale) = {}
  BY <1>1, <1>2 DEF Of
<1>4. Of([p \in Pages |-> Live(p)]) = {}
  BY <1>1, <1>2 DEF Of
<1>  QED BY <1>3, <1>4 DEF Pool!Init

\* The steps of the lists of page p, and what the pool sees of them.
LEMMA SeenBefore ==
  /\ Of(freeList)' = Of(freeList') /\ Of(stale)' = Of(stale')
  /\ Of([p \in Pages |-> Live(p)])' = Of([p \in Pages |-> Live(p)'])
BY DEF Of

LEMMA FreePool ==
  ASSUME AllocatorAssumption, IInv, NEW a \in live, Free(a)
  PROVE  Pool!Next
<1>1. a.page \in Pages /\ a.block \in Blocks /\ live \subseteq Allocations
  BY DEF IInv, TypeOK, Allocations
<1>2. PICK p \in Pages, b \in Blocks : p = a.page /\ b = a.block
  BY <1>1
<1>3. /\ live' = live \ {a} /\ stale' = [stale EXCEPT ![p] = @ \cup {b}]
      /\ freeList' = freeList
  BY <1>2 DEF Free
<1>4. /\ b \in Live(p) /\ Live(p)' = Live(p) \ {b}
      /\ \A q : q # p => Live(q)' = Live(q)
  BY <1>1, <1>2, <1>3, LiveFreed
<1>5. Live(p) \in SUBSET Blocks /\ Distinct(Live(p))
  BY DEF IInv, PagesOK, PageOK, PageInv, Distinct
<1>6. /\ Covered(Live(p)) = Covered(Live(p)') \cup Covered({b})
      /\ Covered(Live(p)') \cap Covered({b}) = {}
  BY <1>4, <1>5, CoveredWithout
<1>7. /\ stale'[p] = stale[p] \cup {b} /\ \A q \in Pages \ {p} : stale'[q] = stale[q]
      /\ Covered(stale'[p]) = Covered(stale[p]) \cup Covered({b})
  BY <1>3, CoveredUnion DEF IInv, TypeOK
<1>8. Of(stale') = Of(stale) \cup In(p, Covered({b}))
  <2>1. \A q \in Pages \ {p} : stale'[q] = stale[q]
    BY <1>7
  <2>2. Covered(stale'[p]) = Covered(stale[p]) \cup Covered({b})
    BY <1>7
  <2>3. Adds(stale, stale', p, b)
    BY <2>1, <2>2 DEF Adds
  <2>  QED BY <2>3, OfPlus
<1> DEFINE before == [q \in Pages |-> Live(q)]
           after == [q \in Pages |-> Live(q)']
<1>9. /\ before[p] = Live(p) /\ after[p] = Live(p)'
      /\ \A q \in Pages \ {p} : after[q] = before[q]
  BY <1>4
<1> HIDE DEF before, after
<1>10. /\ Of(after) = Of(before) \ In(p, Covered({b}))
       /\ In(p, Covered({b})) \subseteq Of(before)
  <2>1. /\ Covered(before[p]) = Covered(after[p]) \cup Covered({b})
        /\ Covered(after[p]) \cap Covered({b}) = {}
    BY <1>6, <1>9
  <2>2. \A q \in Pages \ {p} : after[q] = before[q]
    BY <1>9
  <2>3. Adds(after, before, p, b)
    BY <2>1, <2>2 DEF Adds
  <2>  QED BY <2>1, <2>3, OfMinus
<1>11. Pool!Free(p, b.offset, b.size)
  BY <1>3, <1>8, <1>10, SeenBefore, BlockDescriptors DEF Pool!Free, before, after
<1>  QED BY <1>11, BlockDescriptors DEF Pool!Next

LEMMA ReleaseBlockPool ==
  ASSUME AllocatorAssumption, IInv, NEW b, ReleaseBlock(b)
  PROVE  Pool!Next
<1>1. call.op = "sweep" /\ call.page \in 1..heapPool
  BY DEF ReleaseBlock, IInv, CallOK
<1>2. PICK p \in Pages : p = call.page
  BY <1>1, Bounds
<1>3. /\ b \in stale[p] /\ live' = live
      /\ freeList' = [freeList EXCEPT ![p] = FreeBlock(@, b)]
      /\ stale' = [stale EXCEPT ![p] = @ \ {b}]
  BY <1>2 DEF ReleaseBlock
<1>4. /\ freeList'[p] = FreeBlock(freeList[p], b) /\ stale'[p] = stale[p] \ {b}
      /\ \A q \in Pages \ {p} : freeList'[q] = freeList[q] /\ stale'[q] = stale[q]
  BY <1>3 DEF IInv, TypeOK
<1>5. PageInv(freeList[p], stale[p], Live(p), numDescriptors[p], numFree[p])
  BY DEF IInv, PagesOK, PageOK
<1>6. b \in Blocks /\ stale[p] \in SUBSET Blocks /\ Distinct(stale[p])
  BY <1>3, <1>5 DEF PageInv, Distinct
<1>7. Covered(FreeBlock(freeList[p], b)) = Covered(freeList[p]) \cup Covered({b})
  <2>1. /\ freeList[p] \in SUBSET Blocks /\ Distinct(freeList[p]) /\ Coalescing(freeList[p])
        /\ numDescriptors[p] \in 0..MaxIndex
    BY <1>5 DEF PageInv, Distinct
  <2>2. \A c \in freeList[p] : Apart(b, c)
    BY <1>3, <1>5 DEF PageInv, Distinct
  <2>3. \A c \in freeList[p] \cup {b} : End(c) <= numDescriptors[p]
    BY <1>3, <1>5, Inside
  <2>  QED BY <2>1, <2>2, <2>3, <1>6, FreeBlockResult
<1>8. Of(freeList') = Of(freeList) \cup In(p, Covered({b}))
  <2>1. \A q \in Pages \ {p} : freeList'[q] = freeList[q]
    BY <1>4
  <2>2. Covered(freeList'[p]) = Covered(freeList[p]) \cup Covered({b})
    BY <1>4, <1>7
  <2>3. Adds(freeList, freeList', p, b)
    BY <2>1, <2>2 DEF Adds
  <2>  QED BY <2>3, <1>6, OfPlus
<1>9. /\ Covered(stale[p]) = Covered(stale'[p]) \cup Covered({b})
      /\ Covered(stale'[p]) \cap Covered({b}) = {}
  BY <1>3, <1>4, <1>6, CoveredWithout
<1>10. /\ Of(stale') = Of(stale) \ In(p, Covered({b}))
       /\ In(p, Covered({b})) \subseteq Of(stale)
  <2>1. \A q \in Pages \ {p} : stale'[q] = stale[q]
    BY <1>4
  <2>2. Adds(stale', stale, p, b)
    BY <1>9, <2>1 DEF Adds
  <2>  QED BY <1>6, <1>9, <2>2, OfMinus
<1>11. Of([q \in Pages |-> Live(q)])' = Of([q \in Pages |-> Live(q)])
  BY <1>3 DEF Of, Live
<1>12. Pool!Release(p, b.offset, b.size)
  BY <1>6, <1>8, <1>10, <1>11, SeenBefore, BlockDescriptors DEF Pool!Release
<1>  QED BY <1>6, <1>12, BlockDescriptors DEF Pool!Next

LEMMA AllocateFromPagePool ==
  ASSUME AllocatorAssumption, IInv, NEW p \in Pages, NEW b \in freeList[p],
         AllocateFromPage(p, b)
  PROVE  Pool!Next
<1> DEFINE R == (freeList[p] \ {b}) \cup Remainder(b, call.n)
           before == [q \in Pages |-> Live(q)]
           after == [q \in Pages |-> Live(q)']
<1>1. /\ call.n \in Requests /\ call.n <= b.size /\ b \in Blocks
      /\ freeList'[p] = R
      /\ Live(p)' = Live(p) \cup {Block(b.offset, call.n)}
      /\ PageInv(freeList[p], stale[p], Live(p), numDescriptors[p], numFree[p])
      /\ \A q \in Pages \ {p} : freeList'[q] = freeList[q] /\ Live(q)' = Live(q)
  BY FromPage
<1>2. stale' = stale
  BY DEF AllocateFromPage
<1>3. PICK t : t = Block(b.offset, call.n)
  OBVIOUS
<1>4. /\ t \in Blocks /\ t.offset = b.offset /\ t.size = call.n /\ call.n > 0
      /\ R \in SUBSET Blocks
      /\ \A c \in R : Apart(t, c)
      /\ Covered(freeList[p]) = Covered(R) \cup Covered({t})
  <2>1. call.n \in Nat /\ 0 < call.n
    BY <1>1, Bounds
  <2>2. /\ freeList[p] \in SUBSET Blocks /\ Distinct(freeList[p]) /\ Coalescing(freeList[p])
        /\ numDescriptors[p] \in 0..MaxIndex
    BY <1>1 DEF PageInv, Distinct
  <2>3. \A c \in freeList[p] : End(c) <= numDescriptors[p]
    BY <1>1, Inside
  <2>4. call.n <= b.size
    BY <1>1
  <2>5. /\ Block(b.offset, call.n) \in Blocks /\ R \subseteq Blocks
        /\ \A c \in R : Apart(Block(b.offset, call.n), c)
        /\ Covered(freeList[p]) = Covered(R) \cup Covered({Block(b.offset, call.n)})
    BY <2>1, <2>2, <2>3, <2>4, TakeResult
  <2>  QED BY <2>1, <2>5, <1>3 DEF Block
<1> HIDE DEF R
<1>5. Covered(R) \cap Covered({t}) = {}
  BY <1>4, ApartCovered
<1>6. /\ Of(freeList') = Of(freeList) \ In(p, Covered({t}))
      /\ In(p, Covered({t})) \subseteq Of(freeList)
  <2>1. /\ Covered(freeList[p]) = Covered(freeList'[p]) \cup Covered({t})
        /\ Covered(freeList'[p]) \cap Covered({t}) = {}
    BY <1>1, <1>4, <1>5
  <2>2. \A q \in Pages \ {p} : freeList'[q] = freeList[q]
    BY <1>1
  <2>3. Adds(freeList', freeList, p, t)
    BY <2>1, <2>2 DEF Adds
  <2>  QED BY <2>1, <2>3, <1>4, OfMinus
<1>7. /\ before[p] = Live(p) /\ after[p] = Live(p) \cup {t}
      /\ \A q \in Pages \ {p} : after[q] = before[q]
  BY <1>1, <1>3
<1> HIDE DEF before, after
<1>8. Of(after) = Of(before) \cup In(p, Covered({t}))
  <2>1. Covered(after[p]) = Covered(before[p]) \cup Covered({t})
    BY <1>7, CoveredUnion
  <2>2. Adds(before, after, p, t)
    BY <2>1, <1>7 DEF Adds
  <2>  QED BY <2>2, <1>4, OfPlus
<1>9. /\ Pool!Descriptors(p, t.offset, t.size) = In(p, Covered({t}))
      /\ t.offset \in 0..MaxIndex /\ t.size \in 0..MaxIndex
  BY <1>4, BlockDescriptors
<1>10. Pool!Allocate(p, t.offset, t.size)
  BY <1>2, <1>4, <1>6, <1>8, <1>9, SeenBefore DEF Pool!Allocate, before, after
<1>  QED BY <1>9, <1>10 DEF Pool!Next

\* The blocks of a new page: what is allocated, and what remains.
LEMMA NewPageCovered ==
  ASSUME AllocatorAssumption, NEW size \in 1..MaxIndex, NEW n \in Requests, n <= size
  PROVE  /\ Covered(Remainder(Block(0, size), n)) = n..(n + (size - n) - 1)
         /\ Covered({Block(0, n)}) = 0..(0 + n - 1)
<1>1. /\ n \in Nat /\ 0 < n /\ size \in Nat /\ n + (size - n) - 1 = size - 1
      /\ 0 + n - 1 = n - 1
  BY DEF AllocatorAssumption
<1>2. Covered({Block(0, n)}) = 0..(n - 1)
  <2>1. Block(0, n).offset = 0 /\ End(Block(0, n)) = n
    BY <1>1 DEF Block, End
  <2>  QED BY <2>1 DEF Covered
<1>3. Covered(Remainder(Block(0, size), n)) = n..(size - 1)
  <2>1. Block(0, size).offset = 0 /\ Block(0, size).size = size
    BY DEF Block
  <2>2. CASE n = size
    <3>1. Remainder(Block(0, size), n) = {}
      BY <2>1, <2>2, <1>1 DEF Remainder
    <3>2. n..(size - 1) = {}
      BY <2>2, <1>1
    <3>  QED BY <3>1, <3>2 DEF Covered
  <2>3. CASE n < size
    <3>1. Remainder(Block(0, size), n) = {Block(n, size - n)}
      BY <2>1, <2>3, <1>1 DEF Remainder
    <3>2. Block(n, size - n).offset = n /\ End(Block(n, size - n)) = size
      BY <1>1 DEF Block, End
    <3>  QED BY <3>1, <3>2 DEF Covered
  <2>  QED BY <2>2, <2>3, <1>1
<1>  QED BY <1>1, <1>2, <1>3

\* A page without blocks has no descriptors in the pool.
LEMMA NoneOf ==
  ASSUME NEW f, NEW p, Covered(f[p]) = {}, NEW C
  PROVE  In(p, C) \cap Of(f) = {}
BY DEF In, Of

\* Lists g are lists f, but for page p, of which f had nothing.
Fills(f, g, p) == Covered(f[p]) = {} /\ \A q \in Pages \ {p} : g[q] = f[q]

LEMMA OfNew ==
  ASSUME NEW f, NEW g, NEW p \in Pages, Fills(f, g, p)
  PROVE  Of(g) = Of(f) \cup In(p, Covered(g[p]))
BY DEF Of, In, Fills

LEMMA AllocateFromNewPagePool ==
  ASSUME AllocatorAssumption, IInv, AllocateFromNewPage
  PROVE  Pool!Next
<1>1. PICK p \in Pages, size \in 1..MaxIndex :
           /\ p = heapPool + 1 /\ perHeap' = size /\ p \in 1..heapPool'
           /\ call.op = "allocate" /\ call.n \in Requests /\ call.n <= size
           /\ numDescriptors' = [numDescriptors EXCEPT ![p] = size]
           /\ numFree' = [numFree EXCEPT ![p] = size - call.n]
           /\ freeList' = [freeList EXCEPT ![p] = Remainder(Block(0, size), call.n)]
           /\ available' = available \cup {p}
           /\ Returns(p, 0, call.n)
           /\ freeList[p] = {} /\ stale[p] = {} /\ Live(p) = {}
  BY FromNewPage
<1>2. PICK n \in Requests : n = call.n
  BY <1>1
<1> DEFINE before == [q \in Pages |-> Live(q)]
           after == [q \in Pages |-> Live(q)']
<1>3. stale' = stale
  BY DEF AllocateFromNewPage
<1>4. /\ Live(p)' = Live(p) \cup {Block(0, n)}
      /\ \A q : q # p => Live(q)' = Live(q)
  BY <1>1, <1>2, LiveReturns
<1>5. /\ freeList'[p] = Remainder(Block(0, size), n)
      /\ \A q \in Pages \ {p} : freeList'[q] = freeList[q]
  BY <1>1, <1>2 DEF IInv, TypeOK
<1>6. /\ before[p] = {} /\ after[p] = {Block(0, n)}
      /\ \A q \in Pages \ {p} : after[q] = before[q]
  BY <1>1, <1>4
<1> HIDE DEF before, after
<1>7. Covered({}) = {}
  BY DEF Covered
<1>8. /\ Pool!Descriptors(p, n, size - n) = In(p, Covered(freeList'[p]))
      /\ Pool!Descriptors(p, 0, n) = In(p, Covered(after[p]))
  <2>1. /\ Covered(freeList'[p]) = n..(n + (size - n) - 1)
        /\ Covered(after[p]) = 0..(0 + n - 1)
    <3>1. n <= size
      BY <1>1, <1>2
    <3>2. /\ Covered(Remainder(Block(0, size), n)) = n..(n + (size - n) - 1)
          /\ Covered({Block(0, n)}) = 0..(0 + n - 1)
      BY <3>1, NewPageCovered
    <3>  QED BY <3>2, <1>5, <1>6
  <2>2. /\ Pool!Descriptors(p, n, size - n) = {p} \X (n..(n + (size - n) - 1))
        /\ Pool!Descriptors(p, 0, n) = {p} \X (0..(0 + n - 1))
    BY DEF Pool!Descriptors
  <2>  QED BY <2>1, <2>2 DEF In
<1>9. Of(freeList') = Of(freeList) \cup In(p, Covered(freeList'[p]))
  <2>1. Fills(freeList, freeList', p)
    BY <1>1, <1>5, <1>7 DEF Fills
  <2>  QED BY <2>1, OfNew
<1>10. Of(after) = Of(before) \cup In(p, Covered(after[p]))
  <2>1. Fills(before, after, p)
    BY <1>6, <1>7 DEF Fills
  <2>  QED BY <2>1, OfNew
<1>11. \A C : In(p, C) \cap (Of(freeList) \cup Of(before) \cup Of(stale)) = {}
  BY <1>1, <1>6, <1>7, NoneOf
<1>12. Pool!Descriptors(p, 0, size) \cap (Of(freeList) \cup Of(before) \cup Of(stale)) = {}
  BY <1>11 DEF Pool!Descriptors, In
<1>13. Pool!AllocateFromNewPage(p, size, n)
  <2>1. 0 < n /\ n <= size
    BY <1>1, <1>2, Bounds
  <2>  QED BY <2>1, <1>3, <1>8, <1>9, <1>10, <1>12, SeenBefore
           DEF Pool!AllocateFromNewPage, before, after
<1>14. size \in 0..MaxIndex /\ n \in 0..MaxIndex
  BY Bounds
<1>  QED BY <1>13, <1>14 DEF Pool!Next

LEMMA StutterPool ==
  ASSUME UNCHANGED <<freeList, stale, live>>
  PROVE  UNCHANGED Pool!vars
<1>1. Of(freeList') = Of(freeList) /\ Of(stale') = Of(stale)
  OBVIOUS
<1>2. Of([q \in Pages |-> Live(q)])' = Of([q \in Pages |-> Live(q)])
  BY DEF Of, Live
<1>  QED BY <1>1, <1>2, SeenBefore DEF Pool!vars

LEMMA NextPool ==
  ASSUME AllocatorAssumption, IInv, [Next]_vars
  PROVE  [Pool!Next]_(Pool!vars)
<1>1. ASSUME NEW n \in Requests, BeginAllocate(n) PROVE UNCHANGED <<freeList, stale, live>>
  BY <1>1 DEF BeginAllocate, pageVars
<1>2. ASSUME NEW p \in Pages, SkipPage(p) PROVE UNCHANGED <<freeList, stale, live>>
  BY <1>2 DEF SkipPage, pageVars
<1>3. BeginRelease \/ LockPage \/ UnlockPage \/ EndRelease
        => UNCHANGED <<freeList, stale, live>>
  BY DEF BeginRelease, LockPage, UnlockPage, EndRelease, pageVars
<1>4. UNCHANGED vars => UNCHANGED <<freeList, stale, live>>
  BY DEF vars, pageVars
<1>5. ASSUME NEW p \in Pages, NEW b \in freeList[p], AllocateFromPage(p, b) PROVE Pool!Next
  BY <1>5, AllocateFromPagePool
<1>6. CASE AllocateFromNewPage
  BY <1>6, AllocateFromNewPagePool
<1>7. ASSUME NEW b, ReleaseBlock(b) PROVE Pool!Next
  BY <1>7, ReleaseBlockPool
<1>8. ASSUME NEW a \in live, Free(a) PROVE Pool!Next
  BY <1>8, FreePool
<1>9. CASE UNCHANGED <<freeList, stale, live>>
  BY <1>9, StutterPool
<1>  QED BY <1>1, <1>2, <1>3, <1>4, <1>5, <1>6, <1>7, <1>8, <1>9
         DEF Next, Allocate, ReleaseStaleDescriptors

\* Each descriptor is unused, used or stale, and moves between the three as
\* callers allocate, free and release it.
THEOREM Implements == Spec => ImplementsPool
<1>1. Init => Pool!Init
  BY InitPool
<1>2. IInv /\ [Next]_vars => [Pool!Next]_(Pool!vars)
  BY AllocatorAssumption, NextPool
<1>  QED BY <1>1, <1>2, Invariance, PTL DEF Spec, ImplementsPool, Pool!Spec

=============================================================================
