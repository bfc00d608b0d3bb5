------------------------- MODULE CommandList_proofs -------------------------
(***************************************************************************)
(* Proofs about CommandList: until a list is reset, every place where a    *)
(* draw of it will look holds what was given for that draw.  And about the *)
(* loop of GenerateMips: each pass writes as many levels as are exact.     *)
(***************************************************************************)
EXTENDS CommandList, GenerateMips, Integers, TLAPS, SequenceTheorems, WellFoundedInduction

-----------------------------------------------------------------------------
(* Recursive functions.  The loops over bits and tables are recursive       *)
(* functions on numbers; what they compute is proved by induction on sets.  *)

\* A set that has 0, and with each number the next one, has all of them.
LEMMA SetInduction ==
  ASSUME NEW S, 0 \in S, \A n \in Nat : n \in S => n + 1 \in S
  PROVE  Nat \subseteq S
<1> SUFFICES ASSUME Nat \ S # {} PROVE FALSE
    OBVIOUS
<1> DEFINE R == OpToRel(<, Nat)
<1>1. IsWellFoundedOn(R, Nat)
  BY NatLessThanWellFounded
<1>2. PICK x \in Nat \ S : \A y \in Nat \ S : ~(<<y, x>> \in R)
  <2> HIDE DEF R
  <2>  QED BY <1>1, WFMin
<1>3. \A y \in Nat \ S : ~(y < x)
  BY <1>2 DEF OpToRel
<1>4. x - 1 \in Nat
  OBVIOUS
<1>  QED BY <1>3, <1>4

UpTo(k) == {x \in Nat : x <= k}

\* g computes AndNot for the numbers of D.
Computes(g, D) ==
  /\ g \in [D -> [Nat -> Nat]]
  /\ \A x \in D, m \in Nat :
       g[x][m] = IF x = 0 THEN 0 ELSE 2 * g[x \div 2][m \div 2] + LastBit(x, m)

LEMMA LastBitFacts == \A x, m \in Nat : LastBit(x, m) \in {0, 1}
BY DEF LastBit

LEMMA HalfFacts == \A x \in Nat \ {0} : x \div 2 \in Nat /\ x \div 2 < x
OBVIOUS

LEMMA HalvesFacts ==
  ASSUME NEW x \in Nat
  PROVE  x \div 2 \in Nat /\ x = 2 * (x \div 2) + (x % 2) /\ x % 2 \in {0, 1}
<1>1. x = 2 * (x \div 2) + (x % 2)
  OBVIOUS
<1>2. x % 2 \in {0, 1}
  OBVIOUS
<1>3. x \div 2 \in Nat
  OBVIOUS
<1>  QED BY <1>1, <1>2, <1>3

LEMMA AndNotUpTo == \A k \in Nat : \E g : Computes(g, UpTo(k))
<1> DEFINE S == {k \in Nat : \E g : Computes(g, UpTo(k))}
<1>1. 0 \in S
  <2> DEFINE g == [x \in UpTo(0) |-> [m \in Nat |-> 0]]
  <2>1. g \in [UpTo(0) -> [Nat -> Nat]]
    OBVIOUS
  <2>2. \A x \in UpTo(0), m \in Nat : x = 0 /\ g[x][m] = 0
    BY DEF UpTo
  <2> HIDE DEF g
  <2>  QED BY <2>1, <2>2 DEF Computes
<1>2. ASSUME NEW k \in Nat, k \in S PROVE k + 1 \in S
  <2>1. PICK g : Computes(g, UpTo(k))
    BY <1>2
  <2> DEFINE v(m) == 2 * g[(k + 1) \div 2][m \div 2] + LastBit(k + 1, m)
             h == [x \in UpTo(k + 1) |-> IF x = k + 1 THEN [m \in Nat |-> v(m)] ELSE g[x]]
  <2>2. (k + 1) \div 2 \in UpTo(k)
    BY HalfFacts DEF UpTo
  <2>3. ASSUME NEW m \in Nat PROVE v(m) \in Nat /\ m \div 2 \in Nat
    <3>1. m \div 2 \in Nat
      BY HalvesFacts
    <3>2. g[(k + 1) \div 2][m \div 2] \in Nat
      BY <2>1, <2>2, <3>1 DEF Computes
    <3>  QED BY <3>1, <3>2, LastBitFacts
  <2>4. \A x \in UpTo(k + 1) : x = k + 1 \/ x \in UpTo(k)
    BY DEF UpTo
  <2>5. \A x \in UpTo(k) : x \in Nat /\ x \in UpTo(k + 1) /\ x # k + 1 /\ (x # 0 => x \div 2 \in UpTo(k))
    BY HalfFacts DEF UpTo
  <2>6. \A x \in UpTo(k) : h[x] = g[x] /\ g[x] \in [Nat -> Nat]
    BY <2>1, <2>5 DEF Computes
  <2>7. h[k + 1] = [m \in Nat |-> v(m)] /\ h[k + 1] \in [Nat -> Nat]
    BY <2>3 DEF UpTo
  <2>8. h \in [UpTo(k + 1) -> [Nat -> Nat]]
    BY <2>4, <2>6, <2>7
  <2>9. \A m \in Nat : h[k + 1][m] = v(m)
    <3> HIDE DEF h, v
    <3>  QED BY ONLY <2>7
  <2> HIDE DEF h
  <2>10. ASSUME NEW x \in UpTo(k + 1), NEW m \in Nat
        PROVE  h[x][m] = IF x = 0 THEN 0 ELSE 2 * h[x \div 2][m \div 2] + LastBit(x, m)
    <3>1. CASE x = k + 1
      <4>1. h[x][m] = 2 * g[(k + 1) \div 2][m \div 2] + LastBit(k + 1, m)
        BY <2>9, <3>1
      <4>2. h[(k + 1) \div 2] = g[(k + 1) \div 2]
        BY <2>2, <2>6
      <4>  QED BY <3>1, <4>1, <4>2
    <3>2. CASE x \in UpTo(k)
      <4>1. g[x][m] = IF x = 0 THEN 0 ELSE 2 * g[x \div 2][m \div 2] + LastBit(x, m)
        BY <2>1, <3>2 DEF Computes
      <4>  QED BY <2>3, <2>5, <2>6, <3>2, <4>1
    <3>  QED BY <2>4, <3>1, <3>2
  <2>11. Computes(h, UpTo(k + 1))
    BY <2>8, <2>10 DEF Computes
  <2>  QED BY <2>11
<1> HIDE DEF S
<1>3. Nat \subseteq S
  BY <1>1, <1>2, SetInduction
<1>  QED BY <1>3 DEF S

\* There is one way to do it.
LEMMA AndNotUnique ==
  ASSUME NEW g, NEW h, NEW k \in Nat, NEW l \in Nat, Computes(g, UpTo(k)), Computes(h, UpTo(l))
  PROVE  \A x \in Nat : x <= k /\ x <= l => g[x] = h[x]
<1> DEFINE S == {n \in Nat : \A x \in UpTo(n) : x <= k /\ x <= l => \A m \in Nat : g[x][m] = h[x][m]}
<1>1. 0 \in S
  BY DEF Computes, UpTo
<1>2. ASSUME NEW n \in Nat, n \in S PROVE n + 1 \in S
  <2> SUFFICES ASSUME n + 1 <= k, n + 1 <= l, NEW m \in Nat PROVE g[n + 1][m] = h[n + 1][m]
    BY <1>2 DEF UpTo
  <2> DEFINE q == (n + 1) \div 2
             r == m \div 2
  <2>1. q \in Nat /\ q <= n /\ r \in Nat
    BY HalfFacts
  <2> HIDE DEF q, r
  <2>2. g[q][r] = h[q][r]
    BY <1>2, <2>1 DEF UpTo
  <2>3. n + 1 \in UpTo(k) /\ n + 1 \in UpTo(l) /\ n + 1 # 0
    BY DEF UpTo
  <2>4. /\ g[n + 1][m] = 2 * g[q][r] + LastBit(n + 1, m)
        /\ h[n + 1][m] = 2 * h[q][r] + LastBit(n + 1, m)
    BY <2>3 DEF Computes, q, r
  <2>  QED BY <2>2, <2>4
<1> HIDE DEF S
<1>3. Nat \subseteq S
  BY <1>1, <1>2, SetInduction
<1>4. ASSUME NEW x \in Nat, x <= k, x <= l PROVE g[x] = h[x]
  <2>1. \A m \in Nat : g[x][m] = h[x][m]
    BY <1>3, <1>4 DEF S, UpTo
  <2>2. g[x] \in [Nat -> Nat] /\ h[x] \in [Nat -> Nat]
    BY <1>4 DEF Computes, UpTo
  <2>  QED BY <2>1, <2>2
<1>  QED BY <1>4

LEMMA AndNotExists == \E f : Computes(f, Nat)
<1> DEFINE G(k) == CHOOSE g : Computes(g, UpTo(k))
           f == [x \in Nat |-> G(x)[x]]
<1>1. \A k \in Nat : Computes(G(k), UpTo(k))
  BY AndNotUpTo
<1> HIDE DEF G
<1>2. f \in [Nat -> [Nat -> Nat]] /\ \A x \in Nat : f[x] = G(x)[x]
  <2>1. ASSUME NEW x \in Nat PROVE G(x)[x] \in [Nat -> Nat]
    <3>1. G(x) \in [UpTo(x) -> [Nat -> Nat]]
      BY <1>1 DEF Computes
    <3>2. x \in UpTo(x)
      BY DEF UpTo
    <3>  QED BY <3>1, <3>2
  <2>  QED BY <2>1
<1> HIDE DEF f
<1>3. ASSUME NEW x \in Nat, NEW m \in Nat
      PROVE  f[x][m] = IF x = 0 THEN 0 ELSE 2 * f[x \div 2][m \div 2] + LastBit(x, m)
  <2>1. G(x)[x][m] = IF x = 0 THEN 0 ELSE 2 * G(x)[x \div 2][m \div 2] + LastBit(x, m)
    <3>1. \A y \in UpTo(x) : G(x)[y][m] = IF y = 0 THEN 0 ELSE 2 * G(x)[y \div 2][m \div 2] + LastBit(y, m)
      BY <1>1 DEF Computes
    <3>2. x \in UpTo(x)
      BY DEF UpTo
    <3>  QED BY <3>1, <3>2
  <2>2. CASE x # 0
    <3> DEFINE y == x \div 2
    <3>1. y \in Nat /\ y <= x
      BY <2>2, HalfFacts
    <3> HIDE DEF y
    <3>2. G(x)[y] = G(y)[y]
      BY <1>1, <3>1, AndNotUnique
    <3>  QED BY <1>2, <2>1, <2>2, <3>1, <3>2 DEF y
  <2>  QED BY <1>2, <2>1, <2>2
<1>  QED BY <1>2, <1>3 DEF Computes

\* What the definition says.
LEMMA AndNotFacts ==
  /\ AndNot \in [Nat -> [Nat -> Nat]]
  /\ \A x \in Nat, m \in Nat :
       AndNot[x][m] = IF x = 0 THEN 0 ELSE 2 * AndNot[x \div 2][m \div 2] + LastBit(x, m)
<1> DEFINE F(f) == [x \in Nat |-> [m \in Nat |->
                      IF x = 0 THEN 0 ELSE 2 * f[x \div 2][m \div 2] + LastBit(x, m)]]
<1>1. PICK f : Computes(f, Nat)
  BY AndNotExists
<1>2. f = F(f)
  <2>1. f = [x \in Nat |-> f[x]] /\ \A x \in Nat : f[x] = [m \in Nat |-> f[x][m]]
    BY <1>1 DEF Computes
  <2>  QED BY <1>1, <2>1 DEF Computes
<1>3. AndNot = CHOOSE g : g = F(g)
  BY DEF AndNot
<1>4. AndNot = F(AndNot)
  <2> HIDE DEF F
  <2>  QED BY <1>2, <1>3
<1>5. \A x \in Nat, m \in Nat :
        AndNot[x][m] = IF x = 0 THEN 0 ELSE 2 * AndNot[x \div 2][m \div 2] + LastBit(x, m)
  BY <1>4
<1>6. AndNot \in [Nat -> [Nat -> Nat]]
  <2> DEFINE S == {n \in Nat : \A x \in UpTo(n), m \in Nat : AndNot[x][m] \in Nat}
  <2>1. 0 \in S
    BY <1>5 DEF UpTo
  <2>2. ASSUME NEW n \in Nat, n \in S PROVE n + 1 \in S
    <3> SUFFICES ASSUME NEW m \in Nat PROVE AndNot[n + 1][m] \in Nat
      BY <2>2 DEF UpTo
    <3> DEFINE q == (n + 1) \div 2
               r == m \div 2
    <3>1. q \in UpTo(n) /\ r \in Nat
      BY HalfFacts DEF UpTo
    <3>2. AndNot[n + 1][m] = 2 * AndNot[q][r] + LastBit(n + 1, m)
      BY <1>5
    <3> HIDE DEF q, r
    <3>3. AndNot[q][r] \in Nat
      BY <2>2, <3>1
    <3>  QED BY <3>2, <3>3, LastBitFacts
  <2> HIDE DEF S
  <2>3. Nat \subseteq S
    BY <2>1, <2>2, SetInduction
  <2>4. ASSUME NEW x \in Nat, NEW m \in Nat PROVE AndNot[x][m] \in Nat
    <3>1. x \in S
      BY <2>3
    <3>2. x \in UpTo(x)
      BY DEF UpTo
    <3>  QED BY <3>1, <3>2 DEF S
  <2>  QED BY <1>4, <2>4
<1>  QED BY <1>5, <1>6

\* Clearing the bits of a mask takes away no more than the mask.
LEMMA AndNotBounds == \A x, m \in Nat : AndNot[x][m] <= x /\ x <= AndNot[x][m] + m
<1> DEFINE S == {n \in Nat : \A x \in UpTo(n), m \in Nat : AndNot[x][m] <= x /\ x <= AndNot[x][m] + m}
<1>1. 0 \in S
  <2>1. \A m \in Nat : AndNot[0][m] = 0
    BY AndNotFacts
  <2>  QED BY <2>1 DEF UpTo
<1>2. ASSUME NEW n \in Nat, n \in S PROVE n + 1 \in S
  <2> SUFFICES ASSUME NEW m \in Nat
               PROVE  AndNot[n + 1][m] <= n + 1 /\ n + 1 <= AndNot[n + 1][m] + m
    BY <1>2 DEF UpTo
  <2> DEFINE q == (n + 1) \div 2
             r == m \div 2
             a == AndNot[q][r]
             b == AndNot[n + 1][m]
             c == (n + 1) % 2
             d == m % 2
             e == LastBit(n + 1, m)
  <2>1. q \in UpTo(n) /\ q \in Nat /\ r \in Nat
    BY HalfFacts DEF UpTo
  <2>2. b = 2 * a + e /\ a \in Nat
    <3>1. n + 1 \in Nat /\ n + 1 # 0
      OBVIOUS
    <3>2. b = IF n + 1 = 0 THEN 0 ELSE 2 * a + e
      BY ONLY <3>1, m \in Nat, AndNotFacts
    <3>3. a \in Nat
      BY <2>1, AndNotFacts
    <3>  QED BY <3>1, <3>2, <3>3
  <2>3. a <= q /\ q <= a + r
    BY <1>2, <2>1
  <2>4. n + 1 = 2 * q + c /\ m = 2 * r + d /\ c \in {0, 1} /\ d \in {0, 1}
    BY HalvesFacts
  <2>5. e = IF c = 1 /\ d = 0 THEN 1 ELSE 0
    BY DEF LastBit
  <2> HIDE DEF q, r, a, b, c, d, e
  <2>6. b <= n + 1 /\ n + 1 <= b + m
    BY <2>1, <2>2, <2>3, <2>4, <2>5
  <2>  QED BY <2>6 DEF b
<1> HIDE DEF S
<1>3. Nat \subseteq S
  BY <1>1, <1>2, SetInduction
<1>  QED BY <1>3 DEF S, UpTo

-----------------------------------------------------------------------------
(* Where the tables of a root signature are.                                *)

\* g[n] is the sum of the first n numbers of w, up to k.
Sums(g, w, k) ==
  /\ g \in [0..k -> Nat]
  /\ g[0] = 0 /\ \A n \in 1..k : g[n] = g[n - 1] + w[n - 1]

LEMMA OffsetsUpTo ==
  ASSUME NEW w \in [Nat -> Nat]
  PROVE  \A k \in Nat : \E g : Sums(g, w, k)
<1> DEFINE S == {k \in Nat : \E g : Sums(g, w, k)}
<1>1. 0 \in S
  <2> DEFINE g == [n \in 0..0 |-> 0]
  <2>1. Sums(g, w, 0)
    BY DEF Sums
  <2> HIDE DEF g
  <2>  QED BY <2>1
<1>2. ASSUME NEW k \in Nat, k \in S PROVE k + 1 \in S
  <2>1. PICK g : Sums(g, w, k)
    BY <1>2
  <2> DEFINE h == [n \in 0..(k + 1) |-> IF n = k + 1 THEN g[k] + w[k] ELSE g[n]]
  <2>2. /\ h \in [0..(k + 1) -> Nat] /\ h[k + 1] = g[k] + w[k]
        /\ \A n \in 0..k : h[n] = g[n]
    <3>1. k \in 0..k /\ k + 1 \in 0..(k + 1) /\ g[k] + w[k] \in Nat
      BY <2>1 DEF Sums
    <3>2. \A n \in 0..(k + 1) : n # k + 1 => n \in 0..k
      OBVIOUS
    <3>3. \A n \in 0..k : n \in 0..(k + 1) /\ n # k + 1
      OBVIOUS
    <3>4. \A n \in 0..(k + 1) : h[n] \in Nat
      BY <2>1, <3>1, <3>2 DEF Sums
    <3>5. h \in [0..(k + 1) -> Nat]
      BY <3>4
    <3>6. h[k + 1] = g[k] + w[k]
      BY <3>1
    <3>7. \A n \in 0..k : h[n] = g[n]
      BY <3>3
    <3>  QED BY <3>5, <3>6, <3>7
  <2> HIDE DEF h
  <2>3. h[0] = 0
    BY <2>1, <2>2 DEF Sums
  <2>4. ASSUME NEW n \in 1..(k + 1) PROVE h[n] = h[n - 1] + w[n - 1]
    <3>1. n - 1 \in 0..k /\ h[n - 1] = g[n - 1]
      BY <2>2
    <3>2. CASE n = k + 1
      BY <2>2, <3>1, <3>2
    <3>3. CASE n # k + 1
      <4>1. n \in 1..k /\ n \in 0..k
        BY <3>3
      <4>  QED BY <2>1, <2>2, <3>1, <4>1 DEF Sums
    <3>  QED BY <3>2, <3>3
  <2>5. Sums(h, w, k + 1)
    BY <2>2, <2>3, <2>4 DEF Sums
  <2>  QED BY <2>5
<1> HIDE DEF S
<1>3. Nat \subseteq S
  BY <1>1, <1>2, SetInduction
<1>  QED BY <1>3 DEF S

LEMMA BeforeFacts ==
  ASSUME MaxDescriptorTables \in Nat,
         NEW D, NEW sizes \in [D -> Nat], D \subseteq 0..(MaxDescriptorTables - 1)
  PROVE  /\ \A i \in 0..MaxDescriptorTables : Before(sizes, i) \in Nat
         /\ \A i \in D : Before(sizes, i + 1) = Before(sizes, i) + sizes[i]
         /\ \A i, j \in 0..MaxDescriptorTables : i <= j => Before(sizes, i) <= Before(sizes, j)
<1> DEFINE M == MaxDescriptorTables
           w == [n \in Nat |-> IF n \in DOMAIN sizes THEN sizes[n] ELSE 0]
           F(f) == [n \in 0..M |->
                      IF n = 0 THEN 0
                      ELSE f[n - 1] + (IF n - 1 \in DOMAIN sizes THEN sizes[n - 1] ELSE 0)]
           at == CHOOSE f : f = F(f)
<1>1. w \in [Nat -> Nat]
  OBVIOUS
<1>2. PICK g : Sums(g, w, M)
  <2> HIDE DEF w
  <2>  QED BY <1>1, OffsetsUpTo
<1>3. g = F(g)
  <2>1. ASSUME NEW n \in 0..M PROVE g[n] = F(g)[n]
    <3>1. CASE n = 0
      BY <1>2, <3>1 DEF Sums
    <3>2. CASE n # 0
      <4>1. n \in 1..M /\ n - 1 \in Nat
        BY <3>2
      <4>2. w[n - 1] = IF n - 1 \in DOMAIN sizes THEN sizes[n - 1] ELSE 0
        BY <4>1
      <4>  QED BY <1>2, <3>2, <4>1, <4>2 DEF Sums
    <3>  QED BY <3>1, <3>2
  <2>2. g = [n \in 0..M |-> g[n]] /\ F(g) = [n \in 0..M |-> F(g)[n]]
    <3>1. g \in [0..M -> Nat]
      BY <1>2 DEF Sums
    <3> HIDE DEF w, M
    <3>  QED BY <3>1
  <2> HIDE DEF F
  <2>  QED BY <2>1, <2>2
<1>4. at = F(at)
  <2> HIDE DEF F
  <2>  QED BY <1>3
<1>5. \A i \in 0..M : Before(sizes, i) = at[i]
  BY DEF Before
<1> HIDE DEF at
<1>6. at[0] = 0 /\ \A n \in 0..(M - 1) : at[n + 1] = at[n] + w[n]
  <2>1. at[0] = 0
    BY <1>4
  <2>2. ASSUME NEW n \in 0..(M - 1) PROVE at[n + 1] = at[n] + w[n]
    <3>1. n + 1 \in 0..M /\ n + 1 # 0 /\ (n + 1) - 1 = n
      <4> HIDE DEF F, w
      <4>1. M \in Nat /\ n \in 0..(M - 1)
        OBVIOUS
      <4> HIDE DEF M
      <4>  QED BY ONLY <4>1
    <3>2. F(at)[n + 1] = at[n] + (IF n \in DOMAIN sizes THEN sizes[n] ELSE 0)
      BY <3>1
    <3> HIDE DEF F
    <3>  QED BY <1>4, <3>2
  <2>  QED BY <2>1, <2>2
<1> HIDE DEF F
<1>7. \A i \in D : i \in 0..(M - 1) /\ w[i] = sizes[i]
  OBVIOUS
<1> HIDE DEF w
<1> DEFINE S == {j \in Nat : j <= M => \A i \in 0..j : at[i] \in Nat /\ at[i] <= at[j]}
<1>8. 0 \in S
  BY <1>6
<1>9. ASSUME NEW j \in Nat, j \in S PROVE j + 1 \in S
  <2> SUFFICES ASSUME j + 1 <= M, NEW i \in 0..(j + 1) PROVE at[i] \in Nat /\ at[i] <= at[j + 1]
    OBVIOUS
  <2>1. \A n \in 0..j : at[n] \in Nat /\ at[n] <= at[j]
    BY <1>9
  <2>2. at[j] \in Nat /\ at[j + 1] = at[j] + w[j] /\ w[j] \in Nat
    BY <1>1, <1>6, <2>1
  <2>3. CASE i = j + 1
    BY <2>2, <2>3
  <2>4. CASE i \in 0..j
    BY <2>1, <2>2, <2>4
  <2>  QED BY <2>3, <2>4
<1>10. Nat \subseteq S
  <2> HIDE DEF S
  <2>  QED BY <1>8, <1>9, SetInduction
<1>11. ASSUME NEW j \in 0..M PROVE at[j] \in Nat /\ \A i \in 0..j : at[i] <= at[j]
  <2>1. j \in S
    BY <1>10
  <2>2. \A i \in 0..j : at[i] \in Nat /\ at[i] <= at[j]
    BY <2>1
  <2>  QED BY <2>2
<1>12. ASSUME NEW i \in D PROVE at[i + 1] = at[i] + sizes[i] /\ i \in 0..M /\ i + 1 \in 0..M
  <2>1. i \in 0..(M - 1) /\ w[i] = sizes[i]
    BY <1>7
  <2>2. at[i + 1] = at[i] + w[i]
    BY <1>6, <2>1
  <2>3. i \in 0..M /\ i + 1 \in 0..M
    BY <2>1
  <2>  QED BY <2>1, <2>2, <2>3
<1>13. \A i, j \in 0..M : i <= j => i \in 0..j
  OBVIOUS
<1>  QED BY <1>5, <1>11, <1>12, <1>13

LEMMA TablesFacts ==
  ASSUME NEW s \in Signatures
  PROVE  /\ DOMAIN Tables[s] \subseteq 0..(MaxDescriptorTables - 1)
         /\ \A i \in DOMAIN Tables[s] :
              /\ Tables[s][i] \in Nat
              /\ Before(Tables[s], i) \in Nat
              /\ Before(Tables[s], i) + Tables[s][i] <= PerHeap
<1> DEFINE D == DOMAIN Tables[s]
           M == MaxDescriptorTables
<1>1. /\ M \in Nat /\ PerHeap \in Nat /\ D \subseteq 0..(M - 1)
      /\ Tables[s] \in [D -> Nat] /\ Before(Tables[s], M) <= PerHeap
  BY HeapAssumption DEF Signatures, Total
<1>2. Tables[s] \in [D -> Nat]
  BY <1>1
<1>3. /\ \A i \in 0..M : Before(Tables[s], i) \in Nat
      /\ \A i \in D : Before(Tables[s], i + 1) = Before(Tables[s], i) + Tables[s][i]
      /\ \A i, j \in 0..M : i <= j => Before(Tables[s], i) <= Before(Tables[s], j)
  <2> HIDE DEF D
  <2>  QED BY <1>1, <1>2, BeforeFacts DEF M
<1>4. ASSUME NEW i \in D
      PROVE  /\ Tables[s][i] \in Nat /\ Before(Tables[s], i) \in Nat
             /\ Before(Tables[s], i) + Tables[s][i] <= PerHeap
  <2>1. i \in 0..M /\ i + 1 \in 0..M /\ M \in 0..M /\ i + 1 <= M
    <3> HIDE DEF D, M
    <3>  QED BY <1>1
  <2>2. Tables[s][i] \in Nat
    BY <1>1
  <2>3. Before(Tables[s], i) \in Nat /\ Before(Tables[s], i + 1) = Before(Tables[s], i) + Tables[s][i]
    BY <1>3, <2>1
  <2>4. Before(Tables[s], i + 1) <= Before(Tables[s], M)
    BY <1>3, <2>1
  <2>5. Before(Tables[s], M) \in Nat
    BY <1>3, <2>1
  <2> HIDE DEF D, M
  <2>6. ASSUME NEW a, NEW b \in Nat, NEW c \in Nat, NEW d \in Nat, a = b + c, a <= d, d <= PerHeap
        PROVE  b + c <= PerHeap
    BY <1>1, <2>6
  <2>7. Before(Tables[s], i) + Tables[s][i] <= PerHeap
    BY <1>1, <2>2, <2>3, <2>4, <2>5, <2>6
  <2>  QED BY <2>2, <2>3, <2>7
<1>  QED BY <1>1, <1>4

\* The ranges of two tables have no place in common.
LEMMA BeforeApart ==
  ASSUME MaxDescriptorTables \in Nat,
         NEW D, NEW sizes \in [D -> Nat], D \subseteq 0..(MaxDescriptorTables - 1),
         NEW i \in D, NEW j \in D, i # j
  PROVE  \/ Before(sizes, i) + sizes[i] <= Before(sizes, j)
         \/ Before(sizes, j) + sizes[j] <= Before(sizes, i)
<1>1. i \in Nat /\ j \in Nat /\ i + 1 \in 0..MaxDescriptorTables /\ j + 1 \in 0..MaxDescriptorTables
      /\ i \in 0..MaxDescriptorTables /\ j \in 0..MaxDescriptorTables
  OBVIOUS
<1>2. i + 1 <= j \/ j + 1 <= i
  BY <1>1
<1>3. /\ Before(sizes, i + 1) = Before(sizes, i) + sizes[i]
      /\ Before(sizes, j + 1) = Before(sizes, j) + sizes[j]
      /\ \A a, b \in 0..MaxDescriptorTables : a <= b => Before(sizes, a) <= Before(sizes, b)
  BY BeforeFacts
<1>4. i + 1 <= j => Before(sizes, i + 1) <= Before(sizes, j)
  BY ONLY <1>1, <1>3
<1>5. j + 1 <= i => Before(sizes, j + 1) <= Before(sizes, i)
  BY ONLY <1>1, <1>3
<1>  QED BY ONLY <1>2, <1>3, <1>4, <1>5

-----------------------------------------------------------------------------
(* The operators.                                                           *)

LEMMA PutFacts ==
  ASSUME NEW m, NEW x, NEW v
  PROVE  /\ DOMAIN Put(m, x, v) = {x} \cup DOMAIN m
         /\ Put(m, x, v)[x] = v
         /\ \A y \in DOMAIN m \ {x} : Put(m, x, v)[y] = m[y]
BY DEF Put

LEMMA PutAllFacts ==
  ASSUME NEW m, NEW n
  PROVE  /\ DOMAIN PutAll(m, n) = DOMAIN n \cup DOMAIN m
         /\ \A y \in DOMAIN n : PutAll(m, n)[y] = n[y]
         /\ \A y \in DOMAIN m \ DOMAIN n : PutAll(m, n)[y] = m[y]
BY DEF PutAll

LEMMA MaxFacts ==
  ASSUME NEW a \in Nat, NEW b \in Nat
  PROVE  Max({a, b}) = IF a <= b THEN b ELSE a
<1>1. \A S : Max(S) = CHOOSE x \in S : \A y \in S : x >= y
  BY DEF Max
<1>2. \E x \in {a, b} : \A y \in {a, b} : x >= y
  OBVIOUS
<1>3. Max({a, b}) \in {a, b} /\ Max({a, b}) >= a /\ Max({a, b}) >= b
  BY <1>1, <1>2
<1>  QED BY <1>3

LEMMA AlignUpFacts ==
  ASSUME NEW n \in Nat, NEW alignment \in Nat \ {0}
  PROVE  AlignUp(n, alignment) \in Nat /\ n <= AlignUp(n, alignment)
<1> DEFINE m == alignment - 1
           x == n + m
           a == AndNot[x][m]
<1>1. m \in Nat /\ x \in Nat
  OBVIOUS
<1>2. AlignUp(n, alignment) = a
  BY DEF AlignUp, AlignUpWithMask
<1>3. a \in Nat /\ x <= a + m
  <2> HIDE DEF m, x
  <2>1. AndNot \in [Nat -> [Nat -> Nat]]
    BY AndNotFacts
  <2>2. a \in Nat
    BY ONLY <1>1, <2>1
  <2>3. x <= a + m
    BY ONLY <1>1, AndNotBounds
  <2>  QED BY <2>2, <2>3
<1> HIDE DEF a
<1>4. n <= a
  BY <1>1, <1>3
<1>  QED BY <1>2, <1>3, <1>4

-----------------------------------------------------------------------------
(* The invariant.  A place that a draw was told is below what has been used *)
(* of its page or of the list's heap, or in a heap that has been given up   *)
(* and is not available; nothing is written there before the list is reset. *)
(* What is given and not stale is where the list is told to look for it.    *)

Places == 0..(PerHeap - 1)

\* What the root signature that is set says, if one is.
TablesSet  == IF rootSignature = NoSignature THEN {} ELSE DOMAIN Tables[rootSignature]
InlineSet  == IF rootSignature = NoSignature THEN {} ELSE Inline[rootSignature]
DynamicSet == (IF rootSignature = NoSignature THEN {} ELSE Dynamic[rootSignature]) \cup {Vertices}

PagesInv ==
  /\ pagePool \in 0..MaxPages
  /\ availablePages \in Seq(1..pagePool)
  /\ currentPage \in {Nothing} \cup 1..pagePool
  /\ offset \in [1..MaxPages -> 0..PageSize]
  /\ memory \in [1..MaxPages -> [Bytes -> Nat \cup {Nothing}]]

Available == {availableHeaps[a] : a \in 1..Len(availableHeaps)}

HeapsInv ==
  /\ heapPool \in 0..MaxHeaps
  /\ availableHeaps \in Seq(1..heapPool)
  /\ \A a, b \in 1..Len(availableHeaps) : availableHeaps[a] = availableHeaps[b] => a = b
  /\ currentHeap \in {NoHeap} \cup 1..heapPool
  /\ currentHeap \notin Available
  /\ handle \in 0..PerHeap /\ numFree \in 0..PerHeap
  /\ currentHeap # NoHeap => handle + numFree = PerHeap
  /\ heaps \in [1..MaxHeaps -> [Places -> Nat]]

TablesInv ==
  /\ rootSignature \in Signatures \cup {NoSignature}
  /\ tableMask = TablesSet /\ tableMask \subseteq DOMAIN tables
  /\ \A i \in tableMask :
       tables[i] = [num |-> Tables[rootSignature][i], base |-> Before(Tables[rootSignature], i)]
  /\ staleTables \subseteq tableMask
  /\ cache \in [Places -> Nat]
  /\ staleInline \subseteq DOMAIN inline \cap InlineSet
  /\ descriptorHeap = currentHeap

HeapRead(r) ==
  LET h == r.from.number
      p == r.from.place
  IN /\ r.from.in = "heap" /\ h \in 1..heapPool /\ h \notin Available
     /\ p \in Places /\ (h = currentHeap => p < handle)
     /\ heaps[h][p] = r.value

PageRead(r) ==
  LET p == r.from.number
      n == r.from.place
  IN /\ r.from.in = "page" /\ p \in 1..pagePool
     /\ n \in Nat /\ n < offset[p]
     /\ memory[p][n] = r.value

ListRead(r) == r.from.in = "list" /\ r.from.place = r.value

ReadsInv == \A r \in reads : HeapRead(r) \/ PageRead(r) \/ ListRead(r)

InTable(i, o) ==
  /\ cache[tables[i].base + o] = staged[<<i, o>>]
  /\ i \notin staleTables =>
       /\ currentHeap # NoHeap
       /\ i \in DOMAIN bound /\ bound[i].heap = currentHeap
       /\ bound[i].start \in Nat /\ bound[i].start + o < handle
       /\ heaps[currentHeap][bound[i].start + o] = staged[<<i, o>>]

GivenTables ==
  \A i \in tableMask : \A o \in 0..(tables[i].num - 1) : <<i, o>> \in DOMAIN staged => InTable(i, o)

GivenInline ==
  \A i \in InlineSet : <<i, 0>> \in DOMAIN staged =>
    IF i \in staleInline THEN inline[i] = staged[<<i, 0>>]
    ELSE i \in DOMAIN bound /\ bound[i] = staged[<<i, 0>>]

InPage(i) ==
  LET p == bound[i].at.page
      start == bound[i].at.start
      size == bound[i].size
  IN /\ i \in DOMAIN bound
     /\ p \in 1..pagePool /\ start \in Nat /\ size \in Nat /\ start + size <= offset[p]
     /\ \A n \in start..(start + size - 1) : memory[p][n] = staged[<<i, 0>>]

GivenPages == \A i \in DynamicSet : <<i, 0>> \in DOMAIN staged => InPage(i)

Inv ==
  /\ calls \in Nat
  /\ PagesInv /\ HeapsInv /\ TablesInv /\ ReadsInv /\ GivenTables /\ GivenInline /\ GivenPages

-----------------------------------------------------------------------------
(* Heaps.                                                                   *)

\* The list has heap h from now on, a requested one if it needs one.
TakesHeap(need, h) ==
  /\ h = IF need THEN RequestDescriptorHeap ELSE currentHeap
  /\ h <= MaxHeaps
  /\ heapPool' = Max({heapPool, h})
  /\ availableHeaps' = IF need /\ availableHeaps # <<>> THEN Tail(availableHeaps) ELSE availableHeaps
  /\ currentHeap' = h

LEMMA ConstantFacts ==
  /\ MaxDescriptorTables \in Nat /\ PerHeap \in Nat \ {0} /\ MaxHeaps \in Nat /\ NoHeap \notin Nat
  /\ PageSize \in Nat \ {0} /\ MaxPages \in Nat \ {0} /\ Nothing \notin Nat
  /\ Constant \in Nat \ {0} /\ Vertex \in Nat \ {0}
BY HeapAssumption, UploadAssumption, ListAssumption

\* A heap that is requested is none that was used since the list was reset.
LEMMA HeapTaken ==
  ASSUME HeapsInv, NEW need \in BOOLEAN, currentHeap = NoHeap => need, NEW h, TakesHeap(need, h)
  PROVE  /\ h \in 1..MaxHeaps /\ h \in 1..heapPool' /\ h # NoHeap
         /\ heapPool' \in 0..MaxHeaps /\ heapPool <= heapPool'
         /\ availableHeaps' \in Seq(1..heapPool')
         /\ \A a, b \in 1..Len(availableHeaps') : availableHeaps'[a] = availableHeaps'[b] => a = b
         /\ h \notin Available' /\ Available' \subseteq Available
         /\ need => \A n \in 1..heapPool : n \notin Available => n # h
         /\ ~need => h = currentHeap
<1>1. /\ heapPool \in Nat /\ heapPool <= MaxHeaps /\ MaxHeaps \in Nat /\ NoHeap \notin Nat
      /\ availableHeaps \in Seq(1..heapPool)
      /\ currentHeap \in {NoHeap} \cup 1..heapPool /\ currentHeap \notin Available
      /\ \A a, b \in 1..Len(availableHeaps) : availableHeaps[a] = availableHeaps[b] => a = b
  BY ConstantFacts DEF HeapsInv
<1>2. /\ h = IF need THEN RequestDescriptorHeap ELSE currentHeap
      /\ h <= MaxHeaps /\ heapPool' = Max({heapPool, h})
      /\ availableHeaps' = IF need /\ availableHeaps # <<>> THEN Tail(availableHeaps) ELSE availableHeaps
  BY DEF TakesHeap
<1>3. CASE need /\ availableHeaps # <<>>
  <2>1. h = availableHeaps[1] /\ availableHeaps' = Tail(availableHeaps)
    BY <1>1, <1>2, <1>3 DEF RequestDescriptorHeap
  <2>2. Len(availableHeaps) \in Nat /\ Len(availableHeaps) # 0
    BY <1>1, <1>3, EmptySeq, LenProperties
  <2>3. h \in 1..heapPool
    BY <1>1, <2>1, <2>2, ElementOfSeq
  <2>4. heapPool' = heapPool
    <3>1. h \in Nat /\ h <= heapPool
      BY ONLY <1>1, <2>3
    <3>2. Max({heapPool, h}) = heapPool
      BY <1>1, <3>1, MaxFacts
    <3>  QED BY ONLY <1>2, <3>2
  <2>5. /\ availableHeaps' \in Seq(1..heapPool) /\ Len(availableHeaps') = Len(availableHeaps) - 1
        /\ \A a \in 1..Len(availableHeaps') : availableHeaps'[a] = availableHeaps[a + 1]
    BY <1>1, <1>3, <2>1, HeadTailProperties
  <2>6. \A a, b \in 1..Len(availableHeaps') : availableHeaps'[a] = availableHeaps'[b] => a = b
    <3> SUFFICES ASSUME NEW a \in 1..Len(availableHeaps'), NEW b \in 1..Len(availableHeaps'),
                        availableHeaps'[a] = availableHeaps'[b]
                 PROVE  a = b
      OBVIOUS
    <3>1. a + 1 \in 1..Len(availableHeaps) /\ b + 1 \in 1..Len(availableHeaps)
      BY <2>2, <2>5
    <3>2. a + 1 = b + 1
      BY <1>1, <2>5, <3>1
    <3>  QED BY <3>2
  <2>7. ASSUME NEW a \in 1..Len(availableHeaps')
        PROVE  availableHeaps'[a] \in Available /\ availableHeaps'[a] # h
    <3>1. a + 1 \in 1..Len(availableHeaps) /\ 1 \in 1..Len(availableHeaps) /\ a + 1 # 1
      BY <2>2, <2>5
    <3>  QED BY <1>1, <2>1, <2>5, <3>1 DEF Available
  <2>8. h \notin Available' /\ Available' \subseteq Available
    BY <2>7 DEF Available
  <2>9. h \in Available
    BY <2>1, <2>2 DEF Available
  <2>10. h \in 1..MaxHeaps /\ h \in 1..heapPool' /\ h # NoHeap
    BY <1>1, <2>3, <2>4
  <2>  QED BY <1>1, <1>3, <2>4, <2>5, <2>6, <2>8, <2>9, <2>10
<1>4. CASE need /\ availableHeaps = <<>>
  <2>1. h = heapPool + 1 /\ availableHeaps' = availableHeaps
    BY <1>2, <1>4 DEF RequestDescriptorHeap
  <2>2. heapPool' = h
    BY <1>1, <1>2, <2>1, MaxFacts
  <2>3. Len(availableHeaps) = 0
    BY <1>4
  <2>4. availableHeaps' \in Seq(1..heapPool')
    BY <1>4, <2>1
  <2>5. Available' = {} /\ 1..Len(availableHeaps') = {}
    BY <2>1, <2>3 DEF Available
  <2>6. h \in 1..MaxHeaps /\ h \in 1..heapPool' /\ h # NoHeap /\ heapPool' \in 0..MaxHeaps /\ heapPool <= heapPool'
    <3>1. h \in Nat /\ 1 <= h /\ h <= MaxHeaps /\ heapPool <= h
      BY ONLY <1>1, <1>2, <2>1
    <3>2. h # NoHeap
      BY ONLY <1>1, <3>1
    <3>  QED BY ONLY <1>1, <2>2, <3>1, <3>2
  <2>7. \A n \in 1..heapPool : n # h
    BY <1>1, <2>1
  <2>  QED BY <1>4, <2>4, <2>5, <2>6, <2>7
<1>5. CASE ~need
  <2>1. h = currentHeap /\ availableHeaps' = availableHeaps /\ h \in 1..heapPool
    BY <1>1, <1>2, <1>5
  <2>2. heapPool' = heapPool
    BY <1>1, <1>2, <2>1, MaxFacts
  <2>3. Available' = Available
    BY <2>1 DEF Available
  <2>4. h \in 1..MaxHeaps /\ h \in 1..heapPool' /\ h # NoHeap /\ heapPool' \in 0..MaxHeaps /\ heapPool <= heapPool'
    BY <1>1, <2>1, <2>2
  <2>5. \A a, b \in 1..Len(availableHeaps') : availableHeaps'[a] = availableHeaps'[b] => a = b
    BY <1>1, <2>1
  <2>  QED BY <1>1, <1>5, <2>1, <2>2, <2>3, <2>4, <2>5
<1>  QED BY <1>3, <1>4, <1>5

\* What was read stays if nothing is written to what has been used.
LEMMA HeapReadStays ==
  ASSUME HeapsInv, NEW need \in BOOLEAN, currentHeap = NoHeap => need, NEW h, TakesHeap(need, h),
         \A n \in (1..MaxHeaps) \ {h} : heaps'[n] = heaps[n],
         handle' \in Nat,
         ~need => handle <= handle' /\ \A p \in Places : p < handle => heaps'[h][p] = heaps[h][p],
         NEW r, HeapRead(r)
  PROVE  HeapRead(r)'
<1> DEFINE n == r.from.number
           p == r.from.place
<1>1. /\ r.from.in = "heap" /\ n \in 1..heapPool /\ n \notin Available
      /\ p \in Places /\ (n = currentHeap => p < handle) /\ heaps[n][p] = r.value
  BY DEF HeapRead
<1>2. /\ heapPool' \in 0..MaxHeaps /\ heapPool <= heapPool' /\ Available' \subseteq Available
      /\ need => n # h
      /\ ~need => h = currentHeap
  <2> HIDE DEF n
  <2>  QED BY <1>1, HeapTaken
<1>3. currentHeap' = h /\ heapPool \in Nat /\ heapPool <= MaxHeaps /\ MaxHeaps \in Nat /\ handle \in Nat
  BY ConstantFacts DEF TakesHeap, HeapsInv
<1> HIDE DEF n, p
<1>4. n \in 1..heapPool' /\ n \in 1..MaxHeaps /\ n \notin Available'
  BY <1>1, <1>2, <1>3
<1>5. (n = currentHeap' => p < handle') /\ heaps'[n][p] = r.value
  <2>1. CASE n = h
    <3>1. p < handle /\ handle <= handle' /\ heaps'[h][p] = heaps[h][p]
      BY <1>1, <1>2, <2>1
    <3>2. p \in Nat
      BY <1>1, ConstantFacts DEF Places
    <3>  QED BY <1>1, <1>3, <2>1, <3>1, <3>2
  <2>2. CASE n # h
    BY <1>1, <1>3, <1>4, <2>2
  <2>  QED BY <2>1, <2>2
<1>  QED BY <1>1, <1>4, <1>5 DEF HeapRead, n, p

\* What the tables of a commit need, and where they go.
LEMMA SizesFacts ==
  ASSUME TablesInv, rootSignature \in Signatures, NEW T, T \subseteq tableMask
  PROVE  /\ T \subseteq 0..(MaxDescriptorTables - 1)
         /\ Sizes(T) \in [T -> Nat]
         /\ \A i \in T : Sizes(T)[i] = tables[i].num
         /\ T = tableMask => Sizes(T) = Tables[rootSignature]
<1>1. tableMask = DOMAIN Tables[rootSignature]
  BY ListAssumption DEF TablesInv, TablesSet
<1>2. ASSUME NEW i \in T PROVE tables[i].num = Tables[rootSignature][i]
  <2>1. tables[i] = [num |-> Tables[rootSignature][i], base |-> Before(Tables[rootSignature], i)]
    BY DEF TablesInv
  <2>  QED BY ONLY <2>1
<1>3. \A i \in T : Tables[rootSignature][i] \in Nat
  BY <1>1, TablesFacts
<1>4. T \subseteq 0..(MaxDescriptorTables - 1)
  BY <1>1, TablesFacts
<1>5. Sizes(T) \in [T -> Nat] /\ \A i \in T : Sizes(T)[i] = tables[i].num
  <2>1. \A i \in T : tables[i].num \in Nat
    BY <1>2, <1>3
  <2>  QED BY ONLY <2>1 DEF Sizes
<1>6. T = tableMask => Sizes(T) = Tables[rootSignature]
  <2>1. Tables[rootSignature] \in [DOMAIN Tables[rootSignature] -> Nat]
    BY HeapAssumption DEF Signatures
  <2>  QED BY <1>1, <1>2, <2>1 DEF Sizes
<1>  QED BY <1>4, <1>5, <1>6

LEMMA OffsetsFacts ==
  ASSUME TablesInv, rootSignature \in Signatures, NEW T, T \subseteq tableMask
  PROVE  /\ Total(Sizes(T)) \in Nat
         /\ \A i \in T : /\ tables[i].num \in Nat
                         /\ Before(Sizes(T), i) \in Nat
                         /\ Before(Sizes(T), i) + tables[i].num <= Total(Sizes(T))
         /\ \A i, j \in T : i # j => \/ Before(Sizes(T), i) + tables[i].num <= Before(Sizes(T), j)
                                     \/ Before(Sizes(T), j) + tables[j].num <= Before(Sizes(T), i)
         /\ T = tableMask => Total(Sizes(T)) <= PerHeap
<1> DEFINE M == MaxDescriptorTables
           sizes == Sizes(T)
<1>1. /\ M \in Nat /\ T \subseteq 0..(M - 1) /\ sizes \in [T -> Nat]
      /\ \A i \in T : sizes[i] = tables[i].num
  BY SizesFacts, ConstantFacts
<1> HIDE DEF sizes
<1>2. /\ \A i \in 0..M : Before(sizes, i) \in Nat
      /\ \A i \in T : Before(sizes, i + 1) = Before(sizes, i) + sizes[i]
      /\ \A i, j \in 0..M : i <= j => Before(sizes, i) <= Before(sizes, j)
  BY <1>1, BeforeFacts DEF M
<1> HIDE DEF M
<1>3. Before(sizes, M) \in Nat
  BY <1>1, <1>2
<1>4. ASSUME NEW i \in T
      PROVE  /\ sizes[i] \in Nat /\ Before(sizes, i) \in Nat
             /\ Before(sizes, i) + sizes[i] <= Before(sizes, M)
  <2>1. i \in 0..M /\ i + 1 \in 0..M /\ M \in 0..M /\ i + 1 <= M
    BY ONLY <1>1, i \in T
  <2>2. Before(sizes, i) \in Nat /\ Before(sizes, i + 1) = Before(sizes, i) + sizes[i]
    BY ONLY <1>2, <2>1, i \in T
  <2>3. Before(sizes, i + 1) <= Before(sizes, M)
    BY ONLY <1>2, <2>1
  <2>4. sizes[i] \in Nat
    BY ONLY <1>1, i \in T
  <2>  QED BY ONLY <2>2, <2>3, <2>4
<1>5. ASSUME NEW i \in T, NEW j \in T, i # j
      PROVE  \/ Before(sizes, i) + sizes[i] <= Before(sizes, j)
             \/ Before(sizes, j) + sizes[j] <= Before(sizes, i)
  BY <1>1, <1>5, BeforeApart DEF M
<1>6. T = tableMask => Before(sizes, M) <= PerHeap
  <2>1. Total(Tables[rootSignature]) <= PerHeap
    BY HeapAssumption DEF Signatures
  <2>  QED BY <2>1, SizesFacts DEF Total, M, sizes
<1>7. Total(Sizes(T)) = Before(sizes, M)
  BY DEF Total, M, sizes
<1>  QED BY <1>1, <1>3, <1>4, <1>5, <1>6, <1>7 DEF sizes

LEMMA TableFacts ==
  ASSUME TablesInv, NEW i \in tableMask
  PROVE  /\ rootSignature \in Signatures
         /\ tables[i].num \in Nat /\ tables[i].base \in Nat
         /\ tables[i].base + tables[i].num <= PerHeap
<1>1. /\ rootSignature \in Signatures \cup {NoSignature} /\ tableMask = TablesSet
      /\ tables[i] = [num |-> Tables[rootSignature][i], base |-> Before(Tables[rootSignature], i)]
  BY DEF TablesInv
<1>2. rootSignature \in Signatures
  BY <1>1 DEF TablesSet
<1>3. i \in DOMAIN Tables[rootSignature]
  BY <1>1, <1>2, ListAssumption DEF TablesSet
<1>4. /\ tables[i].num = Tables[rootSignature][i]
      /\ tables[i].base = Before(Tables[rootSignature], i)
  BY ONLY <1>1
<1>  QED BY <1>2, <1>3, <1>4, TablesFacts

\* Where a commit starts.
From == IF NeedsHeap THEN 0 ELSE handle

LEMMA CommitFacts ==
  ASSUME HeapsInv, TablesInv, CommitDescriptorTables
  PROVE  /\ rootSignature \in Signatures
         /\ NeedsHeap \in BOOLEAN /\ (currentHeap = NoHeap => NeedsHeap) /\ TakesHeap(NeedsHeap, Heap)
         /\ ToCommit \subseteq tableMask /\ staleTables \subseteq ToCommit
         /\ (NeedsHeap => ToCommit = tableMask) /\ (~NeedsHeap => ToCommit = staleTables)
         /\ From \in 0..PerHeap
         /\ handle' = From + Total(Sizes(ToCommit)) /\ From <= handle'
         /\ handle' \in 0..PerHeap /\ numFree' \in 0..PerHeap /\ handle' + numFree' = PerHeap
<1>1. /\ handle \in 0..PerHeap /\ numFree \in 0..PerHeap /\ PerHeap \in Nat
      /\ currentHeap # NoHeap => handle + numFree = PerHeap
  BY ConstantFacts DEF HeapsInv
<1>2. staleTables \subseteq tableMask /\ staleTables # {}
  BY DEF TablesInv, CommitDescriptorTables
<1>3. rootSignature \in Signatures
  BY <1>2, TableFacts
<1>4. /\ NeedsHeap \in BOOLEAN /\ (currentHeap = NoHeap => NeedsHeap)
      /\ ~NeedsHeap => currentHeap # NoHeap /\ ~(numFree < ComputeStaleDescriptorCount)
  BY DEF NeedsHeap
<1>5. TakesHeap(NeedsHeap, Heap)
  BY DEF CommitDescriptorTables, TakesHeap, Heap
<1>6. /\ ToCommit \subseteq tableMask /\ staleTables \subseteq ToCommit
      /\ (NeedsHeap => ToCommit = tableMask) /\ (~NeedsHeap => ToCommit = staleTables)
  BY <1>2 DEF ToCommit
<1> DEFINE count == Total(Sizes(ToCommit))
<1>7. count \in Nat /\ (ToCommit = tableMask => count <= PerHeap)
  BY <1>3, <1>6, OffsetsFacts
<1>8. ~NeedsHeap => count <= numFree
  <2>1. ToCommit = staleTables => count = ComputeStaleDescriptorCount
    BY DEF ComputeStaleDescriptorCount
  <2> HIDE DEF count
  <2>  QED BY <1>1, <1>4, <1>6, <1>7, <2>1
<1>9. handle' = count + From /\ numFree' = (IF NeedsHeap THEN PerHeap ELSE numFree) - count
  BY DEF CommitDescriptorTables, From
<1>10. handle' = From + count
  <2> HIDE DEF count
  <2>1. From \in Nat
    BY <1>1 DEF From
  <2>  QED BY <1>7, <1>9, <2>1
<1> HIDE DEF count
<1>11. From \in 0..PerHeap /\ From <= handle' /\ handle' \in 0..PerHeap /\ numFree' \in 0..PerHeap
       /\ handle' + numFree' = PerHeap
  <2>1. CASE NeedsHeap
    <3>1. From = 0 /\ count <= PerHeap /\ numFree' = PerHeap - count
      BY <1>6, <1>7, <1>9, <2>1 DEF From
    <3>  QED BY ONLY <1>1, <1>7, <1>10, <3>1
  <2>2. CASE ~NeedsHeap
    <3>1. From = handle /\ count <= numFree /\ numFree' = numFree - count /\ handle + numFree = PerHeap
      BY <1>1, <1>4, <1>8, <1>9, <2>2 DEF From
    <3>  QED BY ONLY <1>1, <1>7, <1>10, <3>1
  <2>  QED BY <2>1, <2>2
<1>  QED BY <1>3, <1>4, <1>5, <1>6, <1>10, <1>11 DEF count

\* The tables are copied to the places behind what has been used, each to its own.
LEMMA CommitCopies ==
  ASSUME HeapsInv, TablesInv, CommitDescriptorTables
  PROVE  /\ \A i \in ToCommit :
              /\ First(i) \in Nat /\ From <= First(i)
              /\ tables[i].num \in Nat /\ First(i) + tables[i].num <= handle'
              /\ \A o \in 0..(tables[i].num - 1) :
                   heaps'[Heap][First(i) + o] = cache[tables[i].base + o]
         /\ \A n \in (1..MaxHeaps) \ {Heap} : heaps'[n] = heaps[n]
         /\ \A p \in Places : p < From => heaps'[Heap][p] = heaps[Heap][p]
         /\ heaps' \in [1..MaxHeaps -> [Places -> Nat]]
<1> DEFINE base == From
           in(p, i) == p \in First(i)..(First(i) + tables[i].num - 1)
           some(p) == \E i \in ToCommit : in(p, i)
           which(p) == CHOOSE i \in ToCommit : in(p, i)
           value(p) == cache[tables[which(p)].base + (p - First(which(p)))]
<1>1. /\ rootSignature \in Signatures /\ ToCommit \subseteq tableMask
      /\ From \in Nat /\ handle' \in Nat /\ handle' <= PerHeap /\ PerHeap \in Nat
      /\ handle' = From + Total(Sizes(ToCommit))
      /\ Heap \in 1..MaxHeaps
  <2>1. Heap \in 1..MaxHeaps
    BY CommitFacts, HeapTaken
  <2>  QED BY <2>1, CommitFacts, ConstantFacts
<1>2. heaps \in [1..MaxHeaps -> [Places -> Nat]] /\ cache \in [Places -> Nat]
  BY DEF HeapsInv, TablesInv
<1>3. ASSUME NEW i \in ToCommit
      PROVE  /\ First(i) \in Nat /\ From <= First(i)
             /\ tables[i].num \in Nat /\ First(i) + tables[i].num <= handle'
  <2>1. First(i) = From + Before(Sizes(ToCommit), i)
    BY DEF First, From
  <2>2. /\ tables[i].num \in Nat /\ Before(Sizes(ToCommit), i) \in Nat
        /\ Before(Sizes(ToCommit), i) + tables[i].num <= Total(Sizes(ToCommit))
        /\ Total(Sizes(ToCommit)) \in Nat
    BY <1>1, OffsetsFacts
  <2>  QED BY ONLY <1>1, <2>1, <2>2
<1>4. ASSUME NEW i \in ToCommit, NEW j \in ToCommit, i # j
      PROVE  First(i) + tables[i].num <= First(j) \/ First(j) + tables[j].num <= First(i)
  <2>1. First(i) = From + Before(Sizes(ToCommit), i) /\ First(j) = From + Before(Sizes(ToCommit), j)
    BY DEF First, From
  <2>2. \/ Before(Sizes(ToCommit), i) + tables[i].num <= Before(Sizes(ToCommit), j)
        \/ Before(Sizes(ToCommit), j) + tables[j].num <= Before(Sizes(ToCommit), i)
    BY <1>1, <1>4, OffsetsFacts
  <2>3. /\ tables[i].num \in Nat /\ Before(Sizes(ToCommit), i) \in Nat
        /\ tables[j].num \in Nat /\ Before(Sizes(ToCommit), j) \in Nat
    BY <1>1, OffsetsFacts
  <2>  QED BY ONLY <1>1, <2>1, <2>2, <2>3
<1>5. \A i, j \in ToCommit, p \in Nat : in(p, i) /\ in(p, j) => i = j
  <2> SUFFICES ASSUME NEW i \in ToCommit, NEW j \in ToCommit, NEW p \in Nat, in(p, i), in(p, j), i # j
               PROVE  FALSE
    OBVIOUS
  <2>1. First(i) \in Nat /\ First(j) \in Nat /\ tables[i].num \in Nat /\ tables[j].num \in Nat
    BY <1>3
  <2>2. First(i) + tables[i].num <= First(j) \/ First(j) + tables[j].num <= First(i)
    BY <1>4
  <2>  QED BY ONLY <2>1, <2>2, in(p, i), in(p, j)
<1>6. heaps' = [heaps EXCEPT ![Heap] =
                  [p \in DOMAIN heaps[Heap] |-> IF some(p) THEN value(p) ELSE heaps[Heap][p]]]
  BY DEF CommitDescriptorTables
<1> HIDE DEF in
<1>7. \A i \in ToCommit, p \in Nat : in(p, i) => which(p) = i
  BY <1>5
<1> HIDE DEF which
<1>8. DOMAIN heaps[Heap] = Places
  BY <1>1, <1>2
<1>9. heaps'[Heap] = [p \in Places |-> IF some(p) THEN value(p) ELSE heaps[Heap][p]]
  <2> HIDE DEF some, value
  <2>  QED BY <1>1, <1>2, <1>6, <1>8
<1>10. ASSUME NEW i \in ToCommit, NEW o \in 0..(tables[i].num - 1)
       PROVE  /\ First(i) + o \in Places /\ in(First(i) + o, i) /\ First(i) + o \in Nat
              /\ value(First(i) + o) = cache[tables[i].base + o]
              /\ tables[i].base + o \in Places
  <2>1. First(i) \in Nat /\ tables[i].num \in Nat /\ First(i) + tables[i].num <= handle'
    BY <1>3
  <2>2. First(i) + o \in Places /\ in(First(i) + o, i) /\ First(i) + o \in Nat /\ (First(i) + o) - First(i) = o
    BY ONLY <1>1, <2>1, o \in 0..(tables[i].num - 1) DEF in, Places
  <2>3. which(First(i) + o) = i
    BY <1>7, <2>2
  <2>4. tables[i].base \in Nat /\ tables[i].base + tables[i].num <= PerHeap
    BY <1>1, TableFacts
  <2>5. tables[i].base + o \in Places
    BY ONLY <1>1, <2>1, <2>4, o \in 0..(tables[i].num - 1) DEF Places
  <2>  QED BY <2>2, <2>3, <2>5
<1>11. ASSUME NEW p \in Places, some(p) PROVE value(p) \in Nat /\ ~(p < From)
  <2>1. PICK i \in ToCommit : in(p, i)
    BY <1>11
  <2>2. First(i) \in Nat /\ From <= First(i) /\ tables[i].num \in Nat
    BY <1>3
  <2>3. p \in Nat
    BY <1>1 DEF Places
  <2>4. p - First(i) \in 0..(tables[i].num - 1) /\ p = First(i) + (p - First(i)) /\ ~(p < From)
    BY ONLY <1>1, <2>1, <2>2, <2>3 DEF in
  <2>5. value(p) = cache[tables[i].base + (p - First(i))] /\ tables[i].base + (p - First(i)) \in Places
    BY <1>7, <1>10, <2>1, <2>3, <2>4
  <2>  QED BY <1>2, <2>4, <2>5
<1> HIDE DEF value
<1>12. ASSUME NEW i \in ToCommit, NEW o \in 0..(tables[i].num - 1)
       PROVE  heaps'[Heap][First(i) + o] = cache[tables[i].base + o]
  BY <1>9, <1>10
<1>13. \A p \in Places : p < From => heaps'[Heap][p] = heaps[Heap][p]
  <2> HIDE DEF some
  <2>  QED BY <1>9, <1>11
<1>14. heaps'[Heap] \in [Places -> Nat]
  <2>1. \A p \in Places : heaps[Heap][p] \in Nat
    BY <1>1, <1>2
  <2> HIDE DEF some
  <2>  QED BY <1>9, <1>11, <2>1
<1>15. heaps' \in [1..MaxHeaps -> [Places -> Nat]] /\ \A n \in (1..MaxHeaps) \ {Heap} : heaps'[n] = heaps[n]
  <2>1. heaps' = [heaps EXCEPT ![Heap] = heaps'[Heap]]
    BY <1>1, <1>2, <1>6
  <2>  QED BY <1>1, <1>2, <1>14, <2>1
<1>  QED BY <1>3, <1>12, <1>13, <1>15

-----------------------------------------------------------------------------
(* What does not change.                                                    *)

\* A root parameter is of one kind.
LEMMA KindsFacts ==
  ASSUME TablesInv
  PROVE  /\ tableMask \cap InlineSet = {} /\ tableMask \cap DynamicSet = {}
         /\ InlineSet \cap DynamicSet = {} /\ Vertices \in DynamicSet
<1>1. rootSignature \in Signatures \cup {NoSignature} /\ tableMask = TablesSet
  BY DEF TablesInv
<1>2. Vertices \in DynamicSet
  BY DEF DynamicSet
<1>3. CASE rootSignature = NoSignature
  BY <1>1, <1>2, <1>3 DEF TablesSet, InlineSet, DynamicSet
<1>4. CASE rootSignature # NoSignature
  <2> DEFINE s == rootSignature
  <2>1. s \in Signatures
    BY <1>1, <1>4
  <2>2. /\ DOMAIN Tables[s] \cap (Inline[s] \cup Dynamic[s]) = {} /\ Inline[s] \cap Dynamic[s] = {}
        /\ Vertices \notin DOMAIN Tables[s] \cup Inline[s] \cup Dynamic[s]
    BY <2>1, ListAssumption
  <2>3. tableMask = DOMAIN Tables[s] /\ InlineSet = Inline[s] /\ DynamicSet = Dynamic[s] \cup {Vertices}
    BY <1>1, <1>4 DEF TablesSet, InlineSet, DynamicSet
  <2>  QED BY ONLY <2>2, <2>3
<1>  QED BY <1>3, <1>4

\* The same is given for parameter i, and the list looks for it where it did.
Kept(i, o) ==
  <<i, o>> \in DOMAIN staged' =>
    /\ <<i, o>> \in DOMAIN staged /\ staged'[<<i, o>>] = staged[<<i, o>>]
    /\ i \in DOMAIN bound => i \in DOMAIN bound' /\ bound'[i] = bound[i]

LEMMA TablesKept ==
  ASSUME GivenTables, UNCHANGED <<cache, tables, tableMask, staleTables, heapVars>>,
         \A i \in tableMask : \A o \in 0..(tables[i].num - 1) : Kept(i, o)
  PROVE  GivenTables'
<1> SUFFICES ASSUME NEW i \in tableMask, NEW o \in 0..(tables[i].num - 1), <<i, o>> \in DOMAIN staged'
             PROVE  InTable(i, o)'
  BY DEF GivenTables
<1>1. /\ <<i, o>> \in DOMAIN staged /\ staged'[<<i, o>>] = staged[<<i, o>>]
      /\ i \in DOMAIN bound => i \in DOMAIN bound' /\ bound'[i] = bound[i]
  BY DEF Kept
<1>2. InTable(i, o)
  BY <1>1 DEF GivenTables
<1>3. UNCHANGED <<currentHeap, handle, heaps>>
  BY DEF heapVars
<1>  QED BY <1>1, <1>2, <1>3 DEF InTable

LEMMA InlineKept ==
  ASSUME GivenInline, UNCHANGED <<rootSignature, inline, staleInline>>, \A i \in InlineSet : Kept(i, 0)
  PROVE  GivenInline'
<1>1. InlineSet' = InlineSet
  BY DEF InlineSet
<1> SUFFICES ASSUME NEW i \in InlineSet, <<i, 0>> \in DOMAIN staged'
             PROVE  IF i \in staleInline THEN inline[i] = staged'[<<i, 0>>]
                    ELSE i \in DOMAIN bound' /\ bound'[i] = staged'[<<i, 0>>]
  BY <1>1 DEF GivenInline
<1>  QED BY DEF GivenInline, Kept

LEMMA PagesKept ==
  ASSUME GivenPages, UNCHANGED <<rootSignature, uploadVars>>, \A i \in DynamicSet : Kept(i, 0)
  PROVE  GivenPages'
<1>1. DynamicSet' = DynamicSet
  BY DEF DynamicSet
<1> SUFFICES ASSUME NEW i \in DynamicSet, <<i, 0>> \in DOMAIN staged' PROVE InPage(i)'
  BY <1>1 DEF GivenPages
<1>2. /\ <<i, 0>> \in DOMAIN staged /\ staged'[<<i, 0>>] = staged[<<i, 0>>]
      /\ i \in DOMAIN bound => i \in DOMAIN bound' /\ bound'[i] = bound[i]
  BY DEF Kept
<1>3. InPage(i)
  BY <1>2 DEF GivenPages
<1>4. UNCHANGED <<pagePool, offset, memory>>
  BY DEF uploadVars
<1>  QED BY <1>2, <1>3, <1>4 DEF InPage

LEMMA HeapsUnchanged ==
  ASSUME HeapsInv, UNCHANGED heapVars
  PROVE  HeapsInv' /\ \A r : HeapRead(r) => HeapRead(r)'
<1>1. UNCHANGED <<heapPool, availableHeaps, currentHeap, handle, numFree, heaps>>
  BY DEF heapVars
<1>2. Available' = Available
  BY <1>1 DEF Available
<1>3. HeapsInv'
  BY <1>1, <1>2 DEF HeapsInv
<1>4. \A r : HeapRead(r) => HeapRead(r)'
  BY <1>1, <1>2 DEF HeapRead
<1>  QED BY <1>3, <1>4

LEMMA PagesUnchanged ==
  ASSUME PagesInv, UNCHANGED uploadVars
  PROVE  PagesInv' /\ \A r : PageRead(r) => PageRead(r)'
<1>1. UNCHANGED <<pagePool, availablePages, currentPage, offset, memory>>
  BY DEF uploadVars
<1>2. PagesInv'
  BY <1>1 DEF PagesInv
<1>3. \A r : PageRead(r) => PageRead(r)'
  BY <1>1 DEF PageRead
<1>  QED BY <1>2, <1>3

LEMMA ReadsUnchanged ==
  ASSUME ReadsInv, reads' = reads,
         \A r : HeapRead(r) => HeapRead(r)', \A r : PageRead(r) => PageRead(r)'
  PROVE  ReadsInv'
<1>1. \A r : ListRead(r) => ListRead(r)'
  BY DEF ListRead
<1>  QED BY <1>1 DEF ReadsInv

LEMMA FreshFacts == ASSUME calls \in Nat PROVE Fresh \in Nat
BY DEF Fresh

LEMMA RecordFacts == ASSUME calls \in Nat, Record PROVE calls' \in Nat
BY DEF Record

-----------------------------------------------------------------------------
(* Steps.                                                                   *)

LEMMA InitInv == Init => Inv
<1> SUFFICES ASSUME Init PROVE Inv
    OBVIOUS
<1> USE DEF Init, InitUpload, InitHeap
<1>1. PagesInv
  <2>1. offset \in [1..MaxPages -> 0..PageSize] /\ pagePool \in 0..MaxPages
    BY ConstantFacts
  <2>2. memory \in [1..MaxPages -> [Bytes -> Nat \cup {Nothing}]]
    BY DEF Unused
  <2>  QED BY <2>1, <2>2 DEF PagesInv
<1>2. HeapsInv
  <2>1. heaps \in [1..MaxHeaps -> [Places -> Nat]]
    BY DEF Empty, Places, Null
  <2>2. Available = {} /\ 1..Len(availableHeaps) = {}
    BY DEF Available
  <2>  QED BY <2>1, <2>2, ConstantFacts DEF HeapsInv
<1>3. TablesInv
  BY DEF TablesInv, TablesSet, Empty, Places, Null
<1>4. GivenTables /\ GivenInline /\ GivenPages /\ ReadsInv
  BY DEF GivenTables, GivenInline, GivenPages, ReadsInv, None
<1>  QED BY <1>1, <1>2, <1>3, <1>4 DEF Inv

LEMMA SetRootSignatureStep ==
  ASSUME Inv, NEW s \in Signatures, SetRootSignature(s)
  PROVE  Inv'
<1>1. /\ calls \in Nat /\ PagesInv /\ HeapsInv /\ TablesInv /\ ReadsInv
      /\ GivenTables /\ GivenInline /\ GivenPages
  BY DEF Inv
<1>2. /\ Record /\ ParseRootSignature(s) /\ rootSignature' = s /\ staleInline = {}
      /\ bound' = [i \in DOMAIN bound \cap {Vertices} |-> bound[i]]
      /\ staged' = [k \in DOMAIN staged \cap {<<Vertices, 0>>} |-> staged[k]]
      /\ UNCHANGED <<uploadVars, descriptorHeap, reads>>
  BY DEF SetRootSignature
<1>3. /\ staleTables' = {} /\ tableMask' = DOMAIN Tables[s]
      /\ tables' = PutAll(tables, [i \in DOMAIN Tables[s] |->
                                     [num |-> Tables[s][i], base |-> Before(Tables[s], i)]])
      /\ UNCHANGED <<cache, inline, staleInline, heapVars>>
  BY <1>2 DEF ParseRootSignature
<1>4. s # NoSignature /\ Vertices \notin DOMAIN Tables[s] \cup Inline[s] \cup Dynamic[s]
  BY ListAssumption
<1>5. TablesSet' = DOMAIN Tables[s] /\ InlineSet' = Inline[s] /\ DynamicSet' = Dynamic[s] \cup {Vertices}
  BY <1>2, <1>4 DEF TablesSet, InlineSet, DynamicSet
<1>6. calls' \in Nat
  BY <1>1, <1>2, RecordFacts
<1>7. PagesInv' /\ HeapsInv' /\ ReadsInv'
  BY <1>1, <1>2, <1>3, HeapsUnchanged, PagesUnchanged, ReadsUnchanged
<1>8. TablesInv'
  <2>1. /\ DOMAIN tables' = DOMAIN Tables[s] \cup DOMAIN tables
        /\ \A i \in DOMAIN Tables[s] :
             tables'[i] = [num |-> Tables[s][i], base |-> Before(Tables[s], i)]
    <3> DEFINE n == [i \in DOMAIN Tables[s] |->
                       [num |-> Tables[s][i], base |-> Before(Tables[s], i)]]
    <3>1. /\ DOMAIN n = DOMAIN Tables[s]
          /\ \A i \in DOMAIN Tables[s] :
               n[i] = [num |-> Tables[s][i], base |-> Before(Tables[s], i)]
      OBVIOUS
    <3>2. tables' = PutAll(tables, n)
      BY <1>3
    <3> HIDE DEF n
    <3>3. DOMAIN tables' = DOMAIN n \cup DOMAIN tables /\ \A i \in DOMAIN n : tables'[i] = n[i]
      BY <3>2, PutAllFacts
    <3>  QED BY ONLY <3>1, <3>3
  <2>2. cache' \in [Places -> Nat]
    BY <1>1, <1>3 DEF TablesInv
  <2>3. descriptorHeap' = currentHeap'
    BY <1>1, <1>2, <1>3 DEF TablesInv, heapVars
  <2>  QED BY <1>2, <1>3, <1>5, <2>1, <2>2, <2>3 DEF TablesInv
<1>9. \A i, o : <<i, o>> \in DOMAIN staged' => i = Vertices /\ o = 0
  BY <1>2
<1>10. GivenTables' /\ GivenInline'
  BY <1>3, <1>4, <1>5, <1>9 DEF GivenTables, GivenInline
<1>11. GivenPages'
  <2> SUFFICES ASSUME <<Vertices, 0>> \in DOMAIN staged' PROVE InPage(Vertices)'
    BY <1>5, <1>9 DEF GivenPages
  <2>1. <<Vertices, 0>> \in DOMAIN staged /\ staged'[<<Vertices, 0>>] = staged[<<Vertices, 0>>]
    BY <1>2
  <2>2. InPage(Vertices)
    BY <1>1, <2>1 DEF GivenPages, DynamicSet
  <2>3. Vertices \in DOMAIN bound' /\ bound'[Vertices] = bound[Vertices]
    BY <1>2, <2>2 DEF InPage
  <2>4. UNCHANGED <<pagePool, offset, memory>>
    BY <1>2 DEF uploadVars
  <2>  QED BY <2>1, <2>2, <2>3, <2>4 DEF InPage
<1>  QED BY <1>6, <1>7, <1>8, <1>10, <1>11 DEF Inv

\* The places that two tables have in the cache are different.
LEMMA TablesApart ==
  ASSUME TablesInv, NEW i \in tableMask, NEW j \in tableMask, i # j
  PROVE  \/ tables[i].base + tables[i].num <= tables[j].base
         \/ tables[j].base + tables[j].num <= tables[i].base
<1> DEFINE s == rootSignature
           D == DOMAIN Tables[s]
<1>1. s \in Signatures
  BY TableFacts
<1>2. tableMask = D
  BY <1>1, ListAssumption DEF TablesInv, TablesSet
<1>3. /\ MaxDescriptorTables \in Nat /\ D \subseteq 0..(MaxDescriptorTables - 1)
      /\ Tables[s] \in [D -> Nat]
  BY <1>1, HeapAssumption DEF Signatures
<1>4. /\ tables[i] = [num |-> Tables[s][i], base |-> Before(Tables[s], i)]
      /\ tables[j] = [num |-> Tables[s][j], base |-> Before(Tables[s], j)]
  BY DEF TablesInv
<1>5. /\ tables[i].num = Tables[s][i] /\ tables[i].base = Before(Tables[s], i)
      /\ tables[j].num = Tables[s][j] /\ tables[j].base = Before(Tables[s], j)
  BY ONLY <1>4
<1> HIDE DEF D, s
<1>6. \/ Before(Tables[s], i) + Tables[s][i] <= Before(Tables[s], j)
      \/ Before(Tables[s], j) + Tables[s][j] <= Before(Tables[s], i)
  BY <1>2, <1>3, BeforeApart
<1>  QED BY ONLY <1>5, <1>6

LEMMA SetViewStep ==
  ASSUME Inv, NEW i \in tableMask, NEW o \in 0..(tables[i].num - 1), NEW n \in 1..(tables[i].num - o),
         NEW d \in Nat, SetView(i, o, n, d)
  PROVE  Inv'
<1>1. /\ calls \in Nat /\ PagesInv /\ HeapsInv /\ TablesInv /\ ReadsInv
      /\ GivenTables /\ GivenInline /\ GivenPages
  BY DEF Inv
<1> DEFINE first == tables[i].base + o
           new == [k \in {i} \X (o..(o + n - 1)) |-> d + (k[2] - o)]
<1>2. /\ Record /\ StageDescriptors(i, o, n, d) /\ staged' = PutAll(staged, new)
      /\ UNCHANGED <<uploadVars, rootSignature, descriptorHeap, bound, reads>>
  BY DEF SetView
<1>3. /\ cache' = [p \in DOMAIN cache |-> IF p \in first..(first + n - 1) THEN d + (p - first) ELSE cache[p]]
      /\ staleTables' = staleTables \cup {i}
      /\ UNCHANGED <<tables, tableMask, inline, staleInline, heapVars>>
  BY <1>2 DEF StageDescriptors
<1>4. /\ tables[i].num \in Nat /\ tables[i].base \in Nat
      /\ tables[i].base + tables[i].num <= PerHeap /\ PerHeap \in Nat
  BY <1>1, TableFacts, ConstantFacts
<1>5. first \in Nat /\ n \in Nat /\ o \in Nat /\ first + n <= tables[i].base + tables[i].num
  <2> DEFINE b == tables[i].base
             m == tables[i].num
  <2>1. b \in Nat /\ m \in Nat /\ o \in 0..(m - 1) /\ n \in 1..(m - o)
    BY <1>4
  <2> HIDE DEF b, m
  <2>2. b + o \in Nat /\ n \in Nat /\ o \in Nat /\ b + o + n <= b + m
    BY ONLY <2>1
  <2>  QED BY <2>2 DEF b, m
<1>6. cache \in [Places -> Nat]
  BY <1>1 DEF TablesInv
<1>7. cache' \in [Places -> Nat]
  <2>1. \A p \in Places : p \in Nat
    BY <1>4 DEF Places
  <2>2. \A p \in Places : p \in first..(first + n - 1) => d + (p - first) \in Nat
    <3> HIDE DEF first
    <3>  QED BY ONLY <1>5, <2>1, d \in Nat
  <2> HIDE DEF first
  <2>  QED BY <1>3, <1>6, <2>2
<1>8. \A k \in {i} \X (o..(o + n - 1)) : new[k] = d + (k[2] - o)
  OBVIOUS
<1>9. /\ DOMAIN staged' = ({i} \X (o..(o + n - 1))) \cup DOMAIN staged
      /\ \A k \in {i} \X (o..(o + n - 1)) : staged'[k] = new[k]
      /\ \A k \in DOMAIN staged \ ({i} \X (o..(o + n - 1))) : staged'[k] = staged[k]
  <2>1. DOMAIN new = {i} \X (o..(o + n - 1))
    OBVIOUS
  <2> HIDE DEF new
  <2>2. /\ DOMAIN staged' = DOMAIN new \cup DOMAIN staged
        /\ \A k \in DOMAIN new : staged'[k] = new[k]
        /\ \A k \in DOMAIN staged \ DOMAIN new : staged'[k] = staged[k]
    <3>1. staged' = PutAll(staged, new)
      BY <1>2
    <3>  QED BY ONLY <3>1 DEF PutAll
  <2>  QED BY ONLY <2>1, <2>2
<1> HIDE DEF new
<1>10. \A j, q : j # i => Kept(j, q)
  <2> SUFFICES ASSUME NEW j, NEW q, j # i, <<j, q>> \in DOMAIN staged'
               PROVE  <<j, q>> \in DOMAIN staged /\ staged'[<<j, q>>] = staged[<<j, q>>]
    BY <1>2 DEF Kept
  <2>1. <<j, q>> \notin {i} \X (o..(o + n - 1))
    OBVIOUS
  <2>  QED BY <1>9, <2>1
<1>11. GivenTables'
  <2> SUFFICES ASSUME NEW j \in tableMask, NEW q \in 0..(tables[j].num - 1), <<j, q>> \in DOMAIN staged'
               PROVE  InTable(j, q)'
    BY <1>3 DEF GivenTables
  <2> DEFINE at == tables[j].base + q
  <2>1. tables[j].num \in Nat /\ tables[j].base \in Nat /\ tables[j].base + tables[j].num <= PerHeap
    BY <1>1, TableFacts
  <2>2. at \in Nat /\ at < tables[j].base + tables[j].num /\ tables[j].base <= at /\ q \in Nat
    BY <2>1
  <2>3. at \in Places
    BY ONLY <1>4, <2>1, <2>2 DEF Places
  <2>4. cache'[at] = IF at \in first..(first + n - 1) THEN d + (at - first) ELSE cache[at]
    <3> HIDE DEF at, first
    <3>  QED BY <1>3, <1>6, <2>3
  <2>5. CASE j = i
    <3>1. cache'[at] = staged'[<<i, q>>]
      <4>1. CASE q \in o..(o + n - 1)
        <5>1. <<i, q>> \in {i} \X (o..(o + n - 1)) /\ <<i, q>>[2] = q
          BY <4>1
        <5>2. staged'[<<i, q>>] = d + (q - o)
          BY <1>8, <1>9, <5>1
        <5>3. at \in first..(first + n - 1) /\ at - first = q - o
          BY ONLY <1>4, <1>5, <2>2, <2>5, <4>1
        <5>  QED BY ONLY <2>4, <5>2, <5>3
      <4>2. CASE q \notin o..(o + n - 1)
        <5>1. <<i, q>> \notin {i} \X (o..(o + n - 1))
          BY <4>2
        <5>2. <<i, q>> \in DOMAIN staged /\ staged'[<<i, q>>] = staged[<<i, q>>]
          BY <1>9, <2>5, <5>1
        <5>3. at \notin first..(first + n - 1)
          BY ONLY <1>4, <1>5, <2>2, <2>5, <4>2
        <5>4. cache[at] = staged[<<i, q>>]
          BY <1>1, <2>5, <5>2 DEF GivenTables, InTable
        <5>  QED BY ONLY <2>4, <5>2, <5>3, <5>4
      <4>  QED BY <4>1, <4>2
    <3>  QED BY <1>3, <2>5, <3>1 DEF InTable
  <2>6. CASE j # i
    <3>1. <<j, q>> \in DOMAIN staged /\ staged'[<<j, q>>] = staged[<<j, q>>]
      BY <1>10, <2>6 DEF Kept
    <3>2. InTable(j, q)
      BY <1>1, <3>1 DEF GivenTables
    <3>3. at \notin first..(first + n - 1)
      <4>1. \/ tables[i].base + tables[i].num <= tables[j].base
            \/ tables[j].base + tables[j].num <= tables[i].base
        BY <1>1, <2>6, TablesApart
      <4>2. tables[i].base <= first
        BY ONLY <1>4, <1>5
      <4> HIDE DEF at, first
      <4>  QED BY ONLY <1>4, <1>5, <2>1, <2>2, <4>1, <4>2
    <3>4. cache'[at] = cache[at]
      BY ONLY <2>4, <3>3
    <3>5. (j \in staleTables' <=> j \in staleTables) /\ UNCHANGED <<currentHeap, handle, heaps, bound, tables>>
      BY <1>2, <1>3, <2>6 DEF heapVars
    <3>  QED BY <3>1, <3>2, <3>4, <3>5 DEF InTable
  <2>  QED BY <2>5, <2>6
<1>12. i \notin InlineSet /\ i \notin DynamicSet
  BY <1>1, KindsFacts
<1>13. GivenInline' /\ GivenPages'
  BY <1>1, <1>2, <1>3, <1>10, <1>12, InlineKept, PagesKept
<1>14. TablesInv'
  <2>1. UNCHANGED <<TablesSet, InlineSet>> /\ currentHeap' = currentHeap
    BY <1>2, <1>3 DEF TablesSet, InlineSet, heapVars
  <2>  QED BY <1>1, <1>2, <1>3, <1>7, <2>1 DEF TablesInv
<1>15. PagesInv' /\ HeapsInv' /\ ReadsInv' /\ calls' \in Nat
  BY <1>1, <1>2, <1>3, HeapsUnchanged, PagesUnchanged, ReadsUnchanged, RecordFacts
<1>  QED BY <1>11, <1>13, <1>14, <1>15 DEF Inv

LEMMA SetBufferStep ==
  ASSUME Inv, rootSignature \in Signatures, NEW i \in Inline[rootSignature], NEW address,
         SetBuffer(i, address)
  PROVE  Inv'
<1>1. /\ calls \in Nat /\ PagesInv /\ HeapsInv /\ TablesInv /\ ReadsInv
      /\ GivenTables /\ GivenInline /\ GivenPages
  BY DEF Inv
<1>2. /\ Record /\ StageInline(i, address) /\ staged' = Put(staged, <<i, 0>>, address)
      /\ UNCHANGED <<uploadVars, rootSignature, descriptorHeap, bound, reads>>
  BY DEF SetBuffer
<1>3. /\ inline' = Put(inline, i, address) /\ staleInline' = staleInline \cup {i}
      /\ UNCHANGED <<cache, tables, tableMask, staleTables, heapVars>>
  BY <1>2 DEF StageInline
<1>4. InlineSet = Inline[rootSignature] /\ i \in InlineSet
  BY ListAssumption DEF InlineSet
<1>5. i \notin tableMask /\ i \notin DynamicSet
  BY <1>1, <1>4, KindsFacts
<1>6. /\ DOMAIN staged' = {<<i, 0>>} \cup DOMAIN staged /\ staged'[<<i, 0>>] = address
      /\ \A k \in DOMAIN staged \ {<<i, 0>>} : staged'[k] = staged[k]
  <2> DEFINE k == <<i, 0>>
  <2>1. staged' = Put(staged, k, address)
    BY <1>2
  <2> HIDE DEF k
  <2>2. /\ DOMAIN staged' = {k} \cup DOMAIN staged /\ staged'[k] = address
        /\ \A l \in DOMAIN staged \ {k} : staged'[l] = staged[l]
    BY ONLY <2>1 DEF Put
  <2>  QED BY <2>2 DEF k
<1>7. /\ DOMAIN inline' = {i} \cup DOMAIN inline /\ inline'[i] = address
      /\ \A j \in DOMAIN inline \ {i} : inline'[j] = inline[j]
  <2>1. inline' = Put(inline, i, address)
    BY <1>3
  <2>  QED BY ONLY <2>1 DEF Put
<1>8. \A j, q : j # i => Kept(j, q)
  BY <1>2, <1>6 DEF Kept
<1>9. GivenTables' /\ GivenPages'
  BY <1>1, <1>2, <1>3, <1>5, <1>8, TablesKept, PagesKept
<1>10. GivenInline'
  <2>1. InlineSet' = InlineSet
    BY <1>2 DEF InlineSet
  <2> SUFFICES ASSUME NEW j \in InlineSet, <<j, 0>> \in DOMAIN staged'
               PROVE  IF j \in staleInline' THEN inline'[j] = staged'[<<j, 0>>]
                      ELSE j \in DOMAIN bound' /\ bound'[j] = staged'[<<j, 0>>]
    BY <2>1 DEF GivenInline
  <2>2. CASE j = i
    BY <1>3, <1>6, <1>7, <2>2
  <2>3. CASE j # i
    <3>1. <<j, 0>> \in DOMAIN staged /\ staged'[<<j, 0>>] = staged[<<j, 0>>]
      BY <1>8, <2>3 DEF Kept
    <3>2. j \in staleInline => j \in DOMAIN inline /\ inline'[j] = inline[j]
      BY <1>1, <1>7, <2>3 DEF TablesInv
    <3>3. j \in staleInline' <=> j \in staleInline
      BY <1>3, <2>3
    <3>  QED BY <1>1, <1>2, <3>1, <3>2, <3>3 DEF GivenInline
  <2>  QED BY <2>2, <2>3
<1>11. TablesInv'
  <2>1. UNCHANGED <<TablesSet, InlineSet>> /\ currentHeap' = currentHeap
    BY <1>2, <1>3 DEF TablesSet, InlineSet, heapVars
  <2>2. staleInline' \subseteq DOMAIN inline' \cap InlineSet'
    BY <1>1, <1>3, <1>4, <1>7, <2>1 DEF TablesInv
  <2>  QED BY <1>1, <1>2, <1>3, <2>1, <2>2 DEF TablesInv
<1>12. PagesInv' /\ HeapsInv' /\ ReadsInv' /\ calls' \in Nat
  BY <1>1, <1>2, <1>3, HeapsUnchanged, PagesUnchanged, ReadsUnchanged, RecordFacts
<1>  QED BY <1>9, <1>10, <1>11, <1>12 DEF Inv

LEMMA SeqWider ==
  ASSUME NEW S, NEW T, S \subseteq T, NEW s \in Seq(S)
  PROVE  s \in Seq(T)
<1>1. Len(s) \in Nat /\ s = [n \in 1..Len(s) |-> s[n]]
  BY LenProperties
<1>2. \A n \in 1..Len(s) : s[n] \in T
  BY ElementOfSeq
<1>3. [n \in 1..Len(s) |-> s[n]] \in Seq(T)
  BY <1>1, <1>2, SeqDef
<1>  QED BY <1>1, <1>3

\* Memory that is allocated is behind what has been used of its page.
LEMMA AllocateFacts ==
  ASSUME PagesInv, NEW size \in Nat, NEW alignment \in Nat \ {0}, NEW data \in Nat,
         Allocate(size, alignment, data)
  PROVE  LET at == Location(size, alignment) IN
         /\ PagesInv' /\ pagePool <= pagePool'
         /\ at.page \in 1..pagePool' /\ at.start \in Nat
         /\ at.start + size <= offset'[at.page]
         /\ \A n \in at.start..(at.start + size - 1) : memory'[at.page][n] = data
         /\ \A p \in 1..pagePool, n \in Nat :
              n < offset[p] => n < offset'[p] /\ memory'[p][n] = memory[p][n]
<1> DEFINE at == Location(size, alignment)
           p == at.page
           start == at.start
           advanced == Advanced(size, alignment)
           stored == [n \in Bytes |-> IF n \in start..(start + size - 1) THEN data ELSE memory[p][n]]
<1>1. /\ pagePool \in Nat /\ pagePool <= MaxPages /\ MaxPages \in Nat /\ PageSize \in Nat
      /\ availablePages \in Seq(1..pagePool) /\ currentPage \in {Nothing} \cup 1..pagePool
      /\ offset \in [1..MaxPages -> 0..PageSize]
      /\ memory \in [1..MaxPages -> [Bytes -> Nat \cup {Nothing}]]
  BY ConstantFacts DEF PagesInv
<1>2. /\ p = PageFor(size, alignment) /\ start = AlignUp(offset[p], alignment)
      /\ advanced = start + AlignUp(size, alignment)
  BY DEF Location, Advanced
<1>3. p <= MaxPages /\ AlignUp(offset[p], alignment) + AlignUp(size, alignment) <= PageSize
  BY <1>2 DEF Allocate, CanAllocate, HasSpace
<1>4. /\ currentPage' = p /\ pagePool' = Max({pagePool, p})
      /\ availablePages' = IF NeedsPage(size, alignment) /\ availablePages # <<>>
                           THEN Tail(availablePages) ELSE availablePages
      /\ offset' = [offset EXCEPT ![p] = advanced]
      /\ memory' = [memory EXCEPT ![p] = stored]
  BY DEF Allocate
<1> HIDE DEF at, p, start, advanced, stored
<1>5. availablePages # <<>> => /\ Head(availablePages) \in 1..pagePool
                               /\ Tail(availablePages) \in Seq(1..pagePool)
  BY <1>1, HeadTailProperties
<1>6. p \in 1..pagePool \/ p = pagePool + 1
  BY <1>1, <1>2, <1>5 DEF PageFor, NeedsPage, RequestPage
<1>7. p \in Nat /\ p \in 1..MaxPages
  BY ONLY <1>1, <1>3, <1>6
<1>8. pagePool' = IF pagePool <= p THEN p ELSE pagePool
  BY <1>1, <1>4, <1>7, MaxFacts
<1>9. pagePool' \in 0..MaxPages /\ pagePool <= pagePool' /\ p \in 1..pagePool'
  BY ONLY <1>1, <1>7, <1>8
<1>10. offset[p] \in Nat /\ offset[p] <= PageSize /\ memory[p] \in [Bytes -> Nat \cup {Nothing}]
  BY ONLY <1>1, <1>7
<1>11. start \in Nat /\ offset[p] <= start /\ AlignUp(size, alignment) \in Nat /\ size <= AlignUp(size, alignment)
  BY <1>2, <1>10, AlignUpFacts
<1>12. advanced \in 0..PageSize /\ start + size <= advanced /\ offset[p] <= advanced
  <2> DEFINE a == AlignUp(size, alignment)
             b == AlignUp(offset[p], alignment)
  <2>1. b + a <= PageSize /\ advanced = start + a /\ start = b
    BY <1>2, <1>3
  <2>2. a \in Nat /\ size <= a
    BY <1>11
  <2> HIDE DEF a, b
  <2>  QED BY ONLY <1>1, <1>10, <1>11, <2>1, <2>2, size \in Nat
<1>13. offset' \in [1..MaxPages -> 0..PageSize] /\ offset'[p] = advanced
       /\ \A q \in (1..MaxPages) \ {p} : offset'[q] = offset[q]
  BY ONLY <1>1, <1>4, <1>7, <1>12
<1>14. stored \in [Bytes -> Nat \cup {Nothing}]
  BY <1>10 DEF stored
<1>15. /\ memory' \in [1..MaxPages -> [Bytes -> Nat \cup {Nothing}]] /\ memory'[p] = stored
       /\ \A q \in (1..MaxPages) \ {p} : memory'[q] = memory[q]
  BY ONLY <1>1, <1>4, <1>7, <1>14
<1>16. ASSUME NEW n \in start..(start + size - 1) PROVE memory'[p][n] = data
  <2>1. n \in Bytes
    BY ONLY <1>1, <1>11, <1>12, n \in start..(start + size - 1), size \in Nat DEF Bytes
  <2>  QED BY <1>15, <2>1 DEF stored
<1>17. ASSUME NEW q \in 1..pagePool, NEW n \in Nat, n < offset[q]
       PROVE  n < offset'[q] /\ memory'[q][n] = memory[q][n]
  <2>1. q \in 1..MaxPages
    BY ONLY <1>1, q \in 1..pagePool
  <2>2. CASE q # p
    BY <1>13, <1>15, <1>17, <2>1, <2>2
  <2>3. CASE q = p
    <3>1. n \in Bytes /\ n \notin start..(start + size - 1) /\ n < advanced
      BY ONLY <1>1, <1>10, <1>11, <1>12, <1>17, <2>3 DEF Bytes
    <3>2. stored[n] = memory[p][n]
      BY <3>1 DEF stored
    <3>  QED BY <1>13, <1>15, <2>3, <3>1, <3>2
  <2>  QED BY <2>2, <2>3
<1>18. availablePages' \in Seq(1..pagePool')
  <2>1. availablePages' \in Seq(1..pagePool)
    BY <1>1, <1>4, <1>5
  <2>2. 1..pagePool \subseteq 1..pagePool'
    BY ONLY <1>1, <1>9
  <2>  QED BY ONLY <2>1, <2>2, SeqWider
<1>19. PagesInv'
  BY <1>4, <1>9, <1>13, <1>15, <1>18 DEF PagesInv
<1>  QED BY <1>9, <1>11, <1>12, <1>13, <1>16, <1>17, <1>19 DEF p, start, at

LEMMA UploadStep ==
  ASSUME Inv, NEW i \in DynamicSet, NEW size \in Nat, NEW alignment \in Nat \ {0}, NEW data \in Nat,
         Upload(i, size, alignment, data)
  PROVE  Inv'
<1>1. /\ calls \in Nat /\ PagesInv /\ HeapsInv /\ TablesInv /\ ReadsInv
      /\ GivenTables /\ GivenInline /\ GivenPages
  BY DEF Inv
<1> DEFINE at == Location(size, alignment)
           place == [size |-> size, at |-> at]
<1>2. /\ Record /\ Allocate(size, alignment, data)
      /\ bound' = Put(bound, i, place) /\ staged' = Put(staged, <<i, 0>>, data)
      /\ UNCHANGED <<stagingVars, heapVars, rootSignature, descriptorHeap, reads>>
  BY DEF Upload
<1>3. UNCHANGED <<cache, tables, tableMask, staleTables, inline, staleInline>>
  BY <1>2 DEF stagingVars
<1>4. i \notin tableMask /\ i \notin InlineSet
  BY <1>1, KindsFacts
<1>5. /\ DOMAIN staged' = {<<i, 0>>} \cup DOMAIN staged /\ staged'[<<i, 0>>] = data
      /\ \A k \in DOMAIN staged \ {<<i, 0>>} : staged'[k] = staged[k]
  <2> DEFINE k == <<i, 0>>
  <2>1. staged' = Put(staged, k, data)
    BY <1>2
  <2> HIDE DEF k
  <2>2. /\ DOMAIN staged' = {k} \cup DOMAIN staged /\ staged'[k] = data
        /\ \A l \in DOMAIN staged \ {k} : staged'[l] = staged[l]
    BY ONLY <2>1 DEF Put
  <2>  QED BY <2>2 DEF k
<1>6. /\ DOMAIN bound' = {i} \cup DOMAIN bound /\ bound'[i] = place
      /\ \A j \in DOMAIN bound \ {i} : bound'[j] = bound[j]
  <2> HIDE DEF place
  <2>1. bound' = Put(bound, i, place)
    BY <1>2
  <2>  QED BY ONLY <2>1 DEF Put
<1>7. \A j, q : j # i => Kept(j, q)
  BY <1>5, <1>6 DEF Kept
<1>8. GivenTables' /\ GivenInline'
  BY <1>1, <1>2, <1>3, <1>4, <1>7, TablesKept, InlineKept
<1>9. /\ PagesInv' /\ pagePool <= pagePool'
      /\ at.page \in 1..pagePool' /\ at.start \in Nat
      /\ at.start + size <= offset'[at.page]
      /\ \A n \in at.start..(at.start + size - 1) : memory'[at.page][n] = data
      /\ \A p \in 1..pagePool, n \in Nat :
           n < offset[p] => n < offset'[p] /\ memory'[p][n] = memory[p][n]
  BY <1>1, <1>2, AllocateFacts
<1>10. place.size = size /\ place.at = at
  OBVIOUS
<1> HIDE DEF at, place
<1>11. pagePool \in Nat /\ pagePool' \in Nat /\ 1..pagePool \subseteq 1..pagePool'
  BY <1>1, <1>9, ConstantFacts DEF PagesInv
<1>12. /\ offset \in [1..MaxPages -> 0..PageSize] /\ offset' \in [1..MaxPages -> 0..PageSize]
       /\ 1..pagePool \subseteq 1..MaxPages
  <2>1. /\ offset \in [1..MaxPages -> 0..PageSize] /\ offset' \in [1..MaxPages -> 0..PageSize]
        /\ pagePool \in 0..MaxPages
    BY <1>1, <1>9 DEF PagesInv
  <2>  QED BY ONLY <2>1, ConstantFacts
<1>13. GivenPages'
  <2>1. DynamicSet' = DynamicSet
    BY <1>2 DEF DynamicSet
  <2> SUFFICES ASSUME NEW j \in DynamicSet, <<j, 0>> \in DOMAIN staged' PROVE InPage(j)'
    BY <2>1 DEF GivenPages
  <2>2. CASE j = i
    BY <1>5, <1>6, <1>9, <1>10, <2>2 DEF InPage
  <2>3. CASE j # i
    <3> DEFINE p == bound[j].at.page
               s == bound[j].at.start
               n == bound[j].size
    <3>1. /\ <<j, 0>> \in DOMAIN staged /\ staged'[<<j, 0>>] = staged[<<j, 0>>]
          /\ j \in DOMAIN bound => j \in DOMAIN bound' /\ bound'[j] = bound[j]
      BY <1>7, <2>3 DEF Kept
    <3>2. InPage(j)
      BY <1>1, <3>1 DEF GivenPages
    <3>3. /\ j \in DOMAIN bound /\ p \in 1..pagePool /\ s \in Nat /\ n \in Nat /\ s + n <= offset[p]
          /\ \A b \in s..(s + n - 1) : memory[p][b] = staged[<<j, 0>>]
      BY <3>2 DEF InPage
    <3> HIDE DEF p, s, n
    <3>4. offset[p] \in Nat /\ offset'[p] \in Nat
      <4>1. p \in 1..MaxPages
        BY ONLY <1>12, <3>3
      <4>2. offset[p] \in 0..PageSize /\ offset'[p] \in 0..PageSize
        BY ONLY <1>12, <4>1
      <4>  QED BY ONLY <4>2, ConstantFacts
    <3>5. ASSUME NEW b \in s..(s + n - 1) PROVE memory'[p][b] = staged[<<j, 0>>]
      <4>1. b \in Nat /\ b < offset[p]
        BY ONLY <3>3, <3>4, b \in s..(s + n - 1)
      <4>  QED BY <1>9, <3>3, <4>1
    <3>6. s + n <= offset'[p]
      <4>1. CASE s + n = 0
        BY ONLY <3>4, <4>1
      <4>2. CASE s + n # 0
        <5> DEFINE b == s + n - 1
        <5>1. b \in Nat /\ b < offset[p] /\ s + n = b + 1
          BY ONLY <3>3, <3>4, <4>2
        <5> HIDE DEF b
        <5>2. b < offset'[p]
          BY <1>9, <3>3, <5>1
        <5>  QED BY ONLY <3>4, <5>1, <5>2
      <4>  QED BY <4>1, <4>2
    <3>7. p \in 1..pagePool'
      BY <1>11, <3>3
    <3>  QED BY <3>1, <3>3, <3>5, <3>6, <3>7 DEF InPage, p, s, n
  <2>  QED BY <2>2, <2>3
<1>14. ReadsInv'
  <2>1. ASSUME NEW r, PageRead(r) PROVE PageRead(r)'
    BY <1>9, <1>11, <2>1 DEF PageRead
  <2>  QED BY <1>1, <1>2, <2>1, HeapsUnchanged, ReadsUnchanged
<1>15. TablesInv'
  <2>1. UNCHANGED <<TablesSet, InlineSet>> /\ currentHeap' = currentHeap
    BY <1>2, <1>3 DEF TablesSet, InlineSet, heapVars
  <2>  QED BY <1>1, <1>2, <1>3, <2>1 DEF TablesInv
<1>16. HeapsInv' /\ calls' \in Nat
  BY <1>1, <1>2, HeapsUnchanged, RecordFacts
<1>  QED BY <1>8, <1>9, <1>13, <1>14, <1>15, <1>16 DEF Inv

\* A draw may request a heap; what was read is where it was.
LEMMA CommitKeeps ==
  ASSUME HeapsInv, TablesInv, CommitStagedDescriptors
  PROVE  /\ HeapsInv' /\ \A r : HeapRead(r) => HeapRead(r)'
         /\ staleTables' = {} /\ staleInline' = {}
         /\ UNCHANGED <<cache, tables, tableMask, inline>>
         /\ staleTables # {} => CommitDescriptorTables
         /\ staleTables = {} => UNCHANGED heapVars
<1>1. /\ staleInline' = {} /\ UNCHANGED <<cache, tables, tableMask, inline>>
      /\ staleTables # {} => CommitDescriptorTables
      /\ staleTables = {} => UNCHANGED heapVars /\ staleTables' = {}
  BY DEF CommitStagedDescriptors
<1>2. CASE staleTables = {}
  BY <1>1, <1>2, HeapsUnchanged
<1>3. CASE staleTables # {}
  <2>1. CommitDescriptorTables
    BY <1>1, <1>3
  <2>2. /\ NeedsHeap \in BOOLEAN /\ (currentHeap = NoHeap => NeedsHeap) /\ TakesHeap(NeedsHeap, Heap)
        /\ From \in 0..PerHeap /\ From <= handle'
        /\ handle' \in 0..PerHeap /\ numFree' \in 0..PerHeap /\ handle' + numFree' = PerHeap
    BY <2>1, CommitFacts
  <2>3. /\ \A n \in (1..MaxHeaps) \ {Heap} : heaps'[n] = heaps[n]
        /\ \A p \in Places : p < From => heaps'[Heap][p] = heaps[Heap][p]
        /\ heaps' \in [1..MaxHeaps -> [Places -> Nat]]
    BY <2>1, CommitCopies
  <2>4. /\ Heap \in 1..heapPool' /\ heapPool' \in 0..MaxHeaps
        /\ availableHeaps' \in Seq(1..heapPool')
        /\ \A a, b \in 1..Len(availableHeaps') : availableHeaps'[a] = availableHeaps'[b] => a = b
        /\ Heap \notin Available'
    BY <2>2, HeapTaken
  <2>5. currentHeap' = Heap
    BY <2>2 DEF TakesHeap
  <2>6. HeapsInv'
    BY <2>2, <2>3, <2>4, <2>5 DEF HeapsInv
  <2>7. handle' \in Nat
    BY ONLY <2>2, ConstantFacts
  <2>8. ~NeedsHeap => handle <= handle' /\ \A p \in Places : p < handle => heaps'[Heap][p] = heaps[Heap][p]
    BY <2>2, <2>3 DEF From
  <2>9. ASSUME NEW r, HeapRead(r) PROVE HeapRead(r)'
    BY <2>2, <2>3, <2>7, <2>8, <2>9, HeapReadStays
  <2>10. staleTables' = {}
    BY <2>1 DEF CommitDescriptorTables
  <2>  QED BY <1>1, <1>3, <2>6, <2>9, <2>10
<1>  QED BY <1>2, <1>3

LEMMA BindFacts ==
  /\ \A i \in staleInline : i \in DOMAIN Bind /\ Bind[i] = inline[i]
  /\ \A i \in ToCommit \ staleInline :
       staleTables # {} => i \in DOMAIN Bind /\ Bind[i] = [heap |-> Heap, start |-> First(i)]
  /\ \A i \in DOMAIN bound \ staleInline :
       staleTables = {} \/ i \notin ToCommit => i \in DOMAIN Bind /\ Bind[i] = bound[i]
<1> DEFINE set == [i \in staleInline |-> inline[i]]
           B == IF staleTables # {} THEN PutAll(bound, Committed) ELSE bound
<1>1. Bind = PutAll(B, set)
  BY DEF Bind
<1>2. DOMAIN set = staleInline /\ \A i \in staleInline : set[i] = inline[i]
  OBVIOUS
<1>3. /\ \A i \in ToCommit :
           staleTables # {} => i \in DOMAIN B /\ B[i] = [heap |-> Heap, start |-> First(i)]
      /\ \A i \in DOMAIN bound :
           staleTables = {} \/ i \notin ToCommit => i \in DOMAIN B /\ B[i] = bound[i]
  <2>1. /\ DOMAIN Committed = ToCommit
        /\ \A i \in ToCommit : Committed[i] = [heap |-> Heap, start |-> First(i)]
    BY DEF Committed
  <2>2. CASE staleTables = {}
    BY <2>2
  <2>3. CASE staleTables # {}
    <3>1. B = PutAll(bound, Committed)
      BY <2>3
    <3> HIDE DEF B
    <3>2. /\ DOMAIN B = DOMAIN Committed \cup DOMAIN bound
          /\ \A i \in DOMAIN Committed : B[i] = Committed[i]
          /\ \A i \in DOMAIN bound : i \notin DOMAIN Committed => B[i] = bound[i]
      BY ONLY <3>1 DEF PutAll
    <3>  QED BY ONLY <2>1, <2>3, <3>2
  <2>  QED BY <2>2, <2>3
<1> HIDE DEF set, B
<1>4. /\ DOMAIN Bind = DOMAIN set \cup DOMAIN B
      /\ \A i \in DOMAIN set : Bind[i] = set[i]
      /\ \A i \in DOMAIN B : i \notin DOMAIN set => Bind[i] = B[i]
  BY ONLY <1>1 DEF PutAll
<1>  QED BY ONLY <1>2, <1>3, <1>4

\* After a draw is recorded everything that was given is where it will look.
LEMMA DrawGiven ==
  ASSUME Inv, Draw
  PROVE  GivenTables' /\ GivenInline' /\ GivenPages'
<1>1. HeapsInv /\ TablesInv /\ GivenTables /\ GivenInline /\ GivenPages
  BY DEF Inv
<1>2. /\ CommitStagedDescriptors /\ bound' = Bind
      /\ UNCHANGED <<uploadVars, rootSignature, staged>>
  BY DEF Draw
<1>3. /\ staleTables' = {} /\ staleInline' = {} /\ UNCHANGED <<cache, tables, tableMask, inline>>
      /\ staleTables # {} => CommitDescriptorTables
      /\ staleTables = {} => UNCHANGED heapVars
  BY <1>1, <1>2, CommitKeeps
<1>4. staleInline \subseteq InlineSet /\ staleTables \subseteq tableMask
  BY <1>1 DEF TablesInv
<1>5. tableMask \cap InlineSet = {} /\ tableMask \cap DynamicSet = {} /\ InlineSet \cap DynamicSet = {}
  BY <1>1, KindsFacts
<1>6. \A i : staleTables # {} /\ i \in ToCommit => i \in tableMask
  BY <1>4 DEF ToCommit
<1>7. /\ \A i \in staleInline : i \in DOMAIN bound' /\ bound'[i] = inline[i]
      /\ \A i \in ToCommit \ staleInline :
           staleTables # {} => i \in DOMAIN bound' /\ bound'[i] = [heap |-> Heap, start |-> First(i)]
      /\ \A i \in DOMAIN bound \ staleInline :
           staleTables = {} \/ i \notin ToCommit => i \in DOMAIN bound' /\ bound'[i] = bound[i]
  BY <1>2, BindFacts
<1>8. GivenInline'
  <2>1. InlineSet' = InlineSet
    BY <1>2 DEF InlineSet
  <2> SUFFICES ASSUME NEW i \in InlineSet, <<i, 0>> \in DOMAIN staged
               PROVE  i \in DOMAIN bound' /\ bound'[i] = staged[<<i, 0>>]
    BY <1>2, <1>3, <2>1 DEF GivenInline
  <2>2. IF i \in staleInline THEN inline[i] = staged[<<i, 0>>]
        ELSE i \in DOMAIN bound /\ bound[i] = staged[<<i, 0>>]
    BY <1>1 DEF GivenInline
  <2>3. staleTables = {} \/ i \notin ToCommit
    BY <1>5, <1>6
  <2>  QED BY <1>7, <2>2, <2>3
<1>9. GivenPages'
  <2>1. ASSUME NEW i \in DynamicSet PROVE Kept(i, 0)
    <3>1. i \notin staleInline /\ (staleTables = {} \/ i \notin ToCommit)
      BY <1>4, <1>5, <1>6
    <3>2. i \in DOMAIN bound => i \in DOMAIN bound' /\ bound'[i] = bound[i]
      BY <1>7, <3>1
    <3>  QED BY <1>2, <3>2 DEF Kept
  <2>  QED BY <1>1, <1>2, <2>1, PagesKept
<1>10. GivenTables'
  <2> SUFFICES ASSUME NEW i \in tableMask, NEW o \in 0..(tables[i].num - 1), <<i, o>> \in DOMAIN staged
               PROVE  /\ cache[tables[i].base + o] = staged[<<i, o>>]
                      /\ currentHeap' # NoHeap
                      /\ i \in DOMAIN bound' /\ bound'[i].heap = currentHeap'
                      /\ bound'[i].start \in Nat /\ bound'[i].start + o < handle'
                      /\ heaps'[currentHeap'][bound'[i].start + o] = staged[<<i, o>>]
    BY <1>2, <1>3 DEF GivenTables, InTable
  <2>1. InTable(i, o)
    BY <1>1 DEF GivenTables
  <2>2. cache[tables[i].base + o] = staged[<<i, o>>]
    BY <2>1 DEF InTable
  <2>3. i \notin staleInline
    BY <1>4, <1>5
  <2>4. CASE staleTables = {}
    <3>1. UNCHANGED <<currentHeap, handle, heaps>>
      BY <1>3, <2>4 DEF heapVars
    <3>2. /\ currentHeap # NoHeap
          /\ i \in DOMAIN bound /\ bound[i].heap = currentHeap
          /\ bound[i].start \in Nat /\ bound[i].start + o < handle
          /\ heaps[currentHeap][bound[i].start + o] = staged[<<i, o>>]
      BY <2>1, <2>4 DEF InTable
    <3>3. i \in DOMAIN bound' /\ bound'[i] = bound[i]
      BY <1>7, <2>3, <2>4, <3>2
    <3>  QED BY <2>2, <3>1, <3>2, <3>3
  <2>5. CASE staleTables # {}
    <3>1. CommitDescriptorTables
      BY <1>3, <2>5
    <3>2. /\ NeedsHeap \in BOOLEAN /\ (currentHeap = NoHeap => NeedsHeap) /\ TakesHeap(NeedsHeap, Heap)
          /\ (NeedsHeap => ToCommit = tableMask) /\ (~NeedsHeap => ToCommit = staleTables)
          /\ From \in 0..PerHeap /\ From <= handle' /\ handle' \in 0..PerHeap
      BY <1>1, <3>1, CommitFacts
    <3>3. Heap # NoHeap /\ currentHeap' = Heap /\ (~NeedsHeap => Heap = currentHeap)
      <4>1. Heap # NoHeap /\ (~NeedsHeap => Heap = currentHeap)
        BY <1>1, <3>2, HeapTaken
      <4>2. currentHeap' = Heap
        BY <3>2 DEF TakesHeap
      <4>  QED BY <4>1, <4>2
    <3>4. CASE i \in ToCommit
      <4>1. /\ First(i) \in Nat
            /\ tables[i].num \in Nat /\ First(i) + tables[i].num <= handle'
            /\ heaps'[Heap][First(i) + o] = cache[tables[i].base + o]
        BY <1>1, <3>1, <3>4, CommitCopies
      <4>2. i \in DOMAIN bound' /\ bound'[i] = [heap |-> Heap, start |-> First(i)]
        BY <1>7, <2>3, <2>5, <3>4
      <4>3. bound'[i].heap = Heap /\ bound'[i].start = First(i)
        BY ONLY <4>2
      <4>4. First(i) + o < handle'
        <5>1. handle' \in Nat
          BY ONLY <3>2, ConstantFacts
        <5>  QED BY ONLY <4>1, <5>1, o \in 0..(tables[i].num - 1)
      <4>  QED BY <2>2, <3>3, <4>1, <4>2, <4>3, <4>4
    <3>5. CASE i \notin ToCommit
      <4>1. ~NeedsHeap /\ i \notin staleTables /\ Heap = currentHeap /\ From = handle
        BY <3>2, <3>3, <3>5 DEF From
      <4>2. /\ i \in DOMAIN bound /\ bound[i].heap = currentHeap
            /\ bound[i].start \in Nat /\ bound[i].start + o < handle
            /\ heaps[currentHeap][bound[i].start + o] = staged[<<i, o>>]
        BY <2>1, <4>1 DEF InTable
      <4>3. i \in DOMAIN bound' /\ bound'[i] = bound[i]
        BY <1>7, <2>3, <3>5, <4>2
      <4>4. /\ bound[i].start + o \in Places /\ bound[i].start + o < From
            /\ bound[i].start + o < handle'
        <5>1. o \in Nat
          OBVIOUS
        <5>  QED BY ONLY <3>2, <4>1, <4>2, <5>1, ConstantFacts DEF Places
      <4>5. heaps'[Heap][bound[i].start + o] = heaps[Heap][bound[i].start + o]
        BY <1>1, <3>1, <4>4, CommitCopies
      <4>  QED BY <2>2, <3>3, <4>1, <4>2, <4>3, <4>4, <4>5
    <3>  QED BY <3>4, <3>5
  <2>  QED BY <2>4, <2>5
<1>  QED BY <1>8, <1>9, <1>10

LEMMA DrawStep == ASSUME Inv, Draw PROVE Inv'
<1>1. /\ calls \in Nat /\ PagesInv /\ HeapsInv /\ TablesInv /\ ReadsInv
  BY DEF Inv
<1>2. /\ rootSignature \in Signatures /\ Parameters \subseteq DOMAIN staged
      /\ Record /\ CommitStagedDescriptors
      /\ descriptorHeap' = currentHeap'
      /\ reads' = reads \cup UNION {
           {[from |-> at, value |-> staged[k]] : at \in Looks(bound', currentHeap', k)} : k \in Seen}
      /\ UNCHANGED <<uploadVars, rootSignature, staged>>
  BY DEF Draw
<1>3. /\ HeapsInv' /\ \A r : HeapRead(r) => HeapRead(r)'
      /\ staleTables' = {} /\ staleInline' = {} /\ UNCHANGED <<cache, tables, tableMask, inline>>
  BY <1>1, <1>2, CommitKeeps
<1>4. PagesInv' /\ \A r : PageRead(r) => PageRead(r)'
  BY <1>1, <1>2, PagesUnchanged
<1>5. GivenTables' /\ GivenInline' /\ GivenPages'
  BY DrawGiven
<1>6. TablesInv'
  <2>1. UNCHANGED <<TablesSet, InlineSet>>
    BY <1>2 DEF TablesSet, InlineSet
  <2>  QED BY <1>1, <1>2, <1>3, <2>1 DEF TablesInv
<1>7. InlineSet = Inline[rootSignature] /\ DynamicSet = Dynamic[rootSignature] \cup {Vertices}
  BY <1>2, ListAssumption DEF InlineSet, DynamicSet
<1>8. /\ tableMask \cap InlineSet = {} /\ tableMask \cap DynamicSet = {} /\ InlineSet \cap DynamicSet = {}
  BY <1>1, KindsFacts
<1>9. ASSUME NEW k \in Seen, NEW at \in Looks(bound', currentHeap', k), NEW r,
             r = [from |-> at, value |-> staged[k]]
      PROVE  HeapRead(r)' \/ PageRead(r)' \/ ListRead(r)'
  <2>1. r.from = at /\ r.value = staged[k]
    BY <1>9
  <2>2. k \in DOMAIN staged
    BY <1>2 DEF Seen
  <2>3. \/ \E i \in tableMask : \E o \in 0..(tables[i].num - 1) : k = <<i, o>>
        \/ \E i \in InlineSet : k = <<i, 0>>
        \/ \E i \in DynamicSet : k = <<i, 0>>
    <3>1. CASE k = <<Vertices, 0>>
      BY <1>7, <3>1
    <3>2. CASE k \in (Inline[rootSignature] \cup Dynamic[rootSignature]) \X {0}
      <4>1. PICK i \in Inline[rootSignature] \cup Dynamic[rootSignature] : k = <<i, 0>>
        BY <3>2
      <4>  QED BY <1>7, <4>1
    <3>3. CASE k \in UNION {{i} \X (0..(tables[i].num - 1)) : i \in tableMask}
      <4>1. PICK i \in tableMask : k \in {i} \X (0..(tables[i].num - 1))
        BY <3>3
      <4>2. PICK o \in 0..(tables[i].num - 1) : k = <<i, o>>
        BY <4>1
      <4>  QED BY <4>2
    <3>4. k \in Parameters \/ k = <<Vertices, 0>>
      BY DEF Seen
    <3> DEFINE A == UNION {{i} \X (0..(tables[i].num - 1)) : i \in tableMask}
               B == (Inline[rootSignature] \cup Dynamic[rootSignature]) \X {0}
    <3>5. Parameters = A \cup B
      BY DEF Parameters
    <3>6. k \in A \/ k \in B \/ k = <<Vertices, 0>>
      <4> HIDE DEF A, B
      <4>  QED BY ONLY <3>4, <3>5
    <3>  QED BY <3>1, <3>2, <3>3, <3>6
  <2>4. ASSUME NEW i \in tableMask, NEW o \in 0..(tables[i].num - 1), k = <<i, o>> PROVE HeapRead(r)'
    <3>1. k[1] = i /\ k[2] = o
      BY <2>4
    <3>2. /\ currentHeap' # NoHeap /\ bound'[i].heap = currentHeap'
          /\ bound'[i].start \in Nat /\ bound'[i].start + o < handle'
          /\ heaps'[currentHeap'][bound'[i].start + o] = staged[k]
      BY <1>2, <1>3, <1>5, <2>2, <2>4 DEF GivenTables, InTable
    <3>3. at = [in |-> "heap", number |-> currentHeap', place |-> bound'[i].start + o]
      BY <3>1, <3>2 DEF Looks
    <3>4. at.in = "heap" /\ at.number = currentHeap' /\ at.place = bound'[i].start + o
      BY ONLY <3>3
    <3>5. currentHeap' \in 1..heapPool' /\ currentHeap' \notin Available' /\ handle' \in 0..PerHeap
      BY <1>3, <3>2 DEF HeapsInv
    <3>6. bound'[i].start + o \in Places
      BY ONLY <3>2, <3>5, ConstantFacts, o \in 0..(tables[i].num - 1) DEF Places
    <3>  QED BY <2>1, <3>2, <3>4, <3>5, <3>6 DEF HeapRead
  <2>5. ASSUME NEW i \in InlineSet, k = <<i, 0>> PROVE ListRead(r)'
    <3>1. k[1] = i /\ i \notin tableMask /\ i \in Inline[rootSignature]
      BY <1>7, <1>8, <2>5
    <3>2. bound'[i] = staged[k]
      <4>1. InlineSet' = InlineSet
        BY <1>2 DEF InlineSet
      <4>  QED BY <1>2, <1>3, <1>5, <2>2, <2>5, <4>1 DEF GivenInline
    <3>3. at = [in |-> "list", number |-> i, place |-> bound'[i]]
      BY <3>1 DEF Looks
    <3>4. at.in = "list" /\ at.place = bound'[i]
      BY ONLY <3>3
    <3>  QED BY <2>1, <3>2, <3>4 DEF ListRead
  <2>6. ASSUME NEW i \in DynamicSet, k = <<i, 0>> PROVE PageRead(r)'
    <3> DEFINE p == bound'[i].at.page
               s == bound'[i].at.start
               n == bound'[i].size
    <3>1. k[1] = i /\ i \notin tableMask /\ i \notin Inline[rootSignature]
      BY <1>7, <1>8, <2>6
    <3>2. /\ p \in 1..pagePool' /\ s \in Nat /\ n \in Nat /\ s + n <= offset'[p]
          /\ \A b \in s..(s + n - 1) : memory'[p][b] = staged[k]
      <4>1. DynamicSet' = DynamicSet
        BY <1>2 DEF DynamicSet
      <4>2. InPage(i)'
        BY <1>2, <1>5, <2>2, <2>6, <4>1 DEF GivenPages
      <4>  QED BY <1>2, <2>6, <4>2 DEF InPage
    <3>3. PICK b \in s..(s + n - 1) : at = [in |-> "page", number |-> p, place |-> b]
      BY <3>1 DEF Looks
    <3> HIDE DEF p, s, n
    <3>4. at.in = "page" /\ at.number = p /\ at.place = b
      BY ONLY <3>3
    <3>5. offset'[p] \in Nat
      <4>1. offset' \in [1..MaxPages -> 0..PageSize] /\ pagePool' \in 0..MaxPages
        BY <1>4 DEF PagesInv
      <4>  QED BY ONLY <3>2, <4>1, ConstantFacts
    <3>6. b \in Nat /\ b < offset'[p]
      BY ONLY <3>2, <3>5, b \in s..(s + n - 1)
    <3>  QED BY <2>1, <3>2, <3>4, <3>6 DEF PageRead
  <2>  QED BY <2>3, <2>4, <2>5, <2>6
<1>10. ReadsInv'
  <2> SUFFICES ASSUME NEW r \in reads' PROVE HeapRead(r)' \/ PageRead(r)' \/ ListRead(r)'
    BY DEF ReadsInv
  <2>1. CASE r \in reads
    <3>1. ListRead(r) => ListRead(r)'
      BY DEF ListRead
    <3>  QED BY <1>1, <1>3, <1>4, <2>1, <3>1 DEF ReadsInv
  <2>2. CASE r \notin reads
    <3>1. PICK k \in Seen : \E at \in Looks(bound', currentHeap', k) : r = [from |-> at, value |-> staged[k]]
      BY <1>2, <2>2
    <3>  QED BY <1>9, <3>1
  <2>  QED BY <2>1, <2>2
<1>11. calls' \in Nat
  BY <1>1, <1>2, RecordFacts
<1>  QED BY <1>3, <1>4, <1>5, <1>6, <1>10, <1>11 DEF Inv

LEMMA UseDescriptorStep == ASSUME Inv, NEW d \in Nat, UseDescriptor(d) PROVE Inv'
<1>1. /\ calls \in Nat /\ PagesInv /\ HeapsInv /\ TablesInv /\ ReadsInv
      /\ GivenTables /\ GivenInline /\ GivenPages
  BY DEF Inv
<1> DEFINE new == [from |-> [in |-> "heap", number |-> CopyHeap, place |-> CopyPlace], value |-> d]
<1>2. /\ Record /\ CopyDescriptor(d) /\ descriptorHeap' = currentHeap'
      /\ reads' = reads \cup {new}
      /\ UNCHANGED <<uploadVars, rootSignature, bound, staged>>
  BY DEF UseDescriptor
<1>3. /\ handle' = CopyPlace + 1
      /\ numFree' = (IF CopyNeedsHeap THEN PerHeap ELSE numFree) - 1
      /\ heaps' = [heaps EXCEPT ![CopyHeap][CopyPlace] = d]
      /\ staleTables' = AfterCopy
      /\ UNCHANGED <<cache, tables, tableMask, inline, staleInline>>
      /\ TakesHeap(CopyNeedsHeap, CopyHeap)
  BY <1>2 DEF CopyDescriptor, TakesHeap, CopyHeap
<1>4. CopyNeedsHeap \in BOOLEAN /\ (currentHeap = NoHeap => CopyNeedsHeap)
  BY DEF CopyNeedsHeap
<1>5. /\ CopyHeap \in 1..MaxHeaps /\ CopyHeap \in 1..heapPool' /\ CopyHeap # NoHeap
      /\ heapPool' \in 0..MaxHeaps
      /\ availableHeaps' \in Seq(1..heapPool')
      /\ \A a, b \in 1..Len(availableHeaps') : availableHeaps'[a] = availableHeaps'[b] => a = b
      /\ CopyHeap \notin Available'
      /\ ~CopyNeedsHeap => CopyHeap = currentHeap
  BY <1>1, <1>3, <1>4, HeapTaken
<1>6. currentHeap' = CopyHeap
  BY <1>3 DEF TakesHeap
<1>7. /\ handle \in 0..PerHeap /\ numFree \in 0..PerHeap /\ PerHeap \in Nat \ {0}
      /\ currentHeap # NoHeap => handle + numFree = PerHeap
      /\ heaps \in [1..MaxHeaps -> [Places -> Nat]]
  BY <1>1, ConstantFacts DEF HeapsInv
<1>8. /\ CopyPlace \in Nat /\ CopyPlace < PerHeap
      /\ handle' \in 0..PerHeap /\ numFree' \in 0..PerHeap /\ handle' + numFree' = PerHeap
  <2>1. CASE CopyNeedsHeap
    <3>1. CopyPlace = 0 /\ numFree' = PerHeap - 1
      BY <1>3, <2>1 DEF CopyPlace
    <3>  QED BY ONLY <1>3, <1>7, <3>1
  <2>2. CASE ~CopyNeedsHeap
    <3>1. CopyPlace = handle /\ numFree' = numFree - 1 /\ ~(numFree < 1) /\ handle + numFree = PerHeap
      BY <1>3, <1>7, <2>2 DEF CopyPlace, CopyNeedsHeap
    <3>  QED BY ONLY <1>3, <1>7, <3>1
  <2>  QED BY <2>1, <2>2
<1>9. CopyPlace \in Places
  BY ONLY <1>7, <1>8 DEF Places
<1>10. /\ heaps' \in [1..MaxHeaps -> [Places -> Nat]]
       /\ \A n \in (1..MaxHeaps) \ {CopyHeap} : heaps'[n] = heaps[n]
       /\ heaps'[CopyHeap][CopyPlace] = d
       /\ \A p \in Places \ {CopyPlace} : heaps'[CopyHeap][p] = heaps[CopyHeap][p]
  BY ONLY <1>3, <1>5, <1>7, <1>9, d \in Nat
<1>11. HeapsInv'
  BY <1>5, <1>6, <1>8, <1>10 DEF HeapsInv
<1>12. ~CopyNeedsHeap => handle <= handle' /\ \A p \in Places : p < handle => heaps'[CopyHeap][p] = heaps[CopyHeap][p]
  <2> SUFFICES ASSUME ~CopyNeedsHeap
               PROVE  handle <= handle' /\ \A p \in Places : p < handle => heaps'[CopyHeap][p] = heaps[CopyHeap][p]
    OBVIOUS
  <2>1. CopyPlace = handle
    BY DEF CopyPlace
  <2>2. handle <= handle'
    BY ONLY <1>3, <1>7, <2>1
  <2>3. \A p \in Places : p < handle => p # CopyPlace
    BY ONLY <1>7, <2>1 DEF Places
  <2>  QED BY <1>10, <2>2, <2>3
<1>13. ASSUME NEW r, HeapRead(r) PROVE HeapRead(r)'
  <2>1. handle' \in Nat
    BY ONLY <1>7, <1>8
  <2>  QED BY <1>1, <1>3, <1>4, <1>10, <1>12, <1>13, <2>1, HeapReadStays
<1>14. PagesInv' /\ \A r : PageRead(r) => PageRead(r)'
  BY <1>1, <1>2, PagesUnchanged
<1>15. ASSUME NEW r, r = new PROVE HeapRead(r)'
  <2>1. /\ r.from.in = "heap" /\ r.from.number = CopyHeap /\ r.from.place = CopyPlace
        /\ r.value = d
    BY <1>15
  <2>2. CopyPlace < handle'
    BY ONLY <1>3, <1>8
  <2> HIDE DEF new
  <2>  QED BY <1>5, <1>9, <1>10, <2>1, <2>2 DEF HeapRead
<1>16. ReadsInv'
  <2> SUFFICES ASSUME NEW r \in reads' PROVE HeapRead(r)' \/ PageRead(r)' \/ ListRead(r)'
    BY DEF ReadsInv
  <2> HIDE DEF new
  <2>1. ListRead(r) => ListRead(r)'
    BY DEF ListRead
  <2>  QED BY <1>1, <1>2, <1>13, <1>14, <1>15, <2>1 DEF ReadsInv
<1>17. TablesInv'
  <2>1. UNCHANGED <<TablesSet, InlineSet>>
    BY <1>2 DEF TablesSet, InlineSet
  <2>2. staleTables' \subseteq tableMask
    BY <1>1, <1>3 DEF AfterCopy, TablesInv
  <2>  QED BY <1>1, <1>2, <1>3, <2>1, <2>2 DEF TablesInv
<1>18. GivenInline' /\ GivenPages'
  <2>1. \A i, o : Kept(i, o)
    BY <1>2 DEF Kept
  <2>  QED BY <1>1, <1>2, <1>3, <2>1, InlineKept, PagesKept
<1>19. GivenTables'
  <2> SUFFICES ASSUME NEW i \in tableMask, NEW o \in 0..(tables[i].num - 1), <<i, o>> \in DOMAIN staged
               PROVE  InTable(i, o)'
    BY <1>2, <1>3 DEF GivenTables
  <2>1. InTable(i, o)
    BY <1>1 DEF GivenTables
  <2>2. CASE CopyNeedsHeap
    <3>1. i \in staleTables'
      BY <1>3, <2>2 DEF AfterCopy
    <3>  QED BY <1>2, <1>3, <2>1, <3>1 DEF InTable
  <2>3. CASE ~CopyNeedsHeap
    <3>1. staleTables' = staleTables /\ CopyHeap = currentHeap
      BY <1>3, <1>5, <2>3 DEF AfterCopy
    <3> SUFFICES ASSUME i \notin staleTables
                 PROVE  /\ currentHeap' # NoHeap
                        /\ i \in DOMAIN bound /\ bound[i].heap = currentHeap'
                        /\ bound[i].start \in Nat /\ bound[i].start + o < handle'
                        /\ heaps'[currentHeap'][bound[i].start + o] = staged[<<i, o>>]
      BY <1>2, <1>3, <2>1, <3>1 DEF InTable
    <3>2. /\ currentHeap # NoHeap
          /\ i \in DOMAIN bound /\ bound[i].heap = currentHeap
          /\ bound[i].start \in Nat /\ bound[i].start + o < handle
          /\ heaps[currentHeap][bound[i].start + o] = staged[<<i, o>>]
      BY <2>1 DEF InTable
    <3>3. handle <= handle' /\ \A p \in Places : p < handle => heaps'[CopyHeap][p] = heaps[CopyHeap][p]
      BY <1>12, <2>3
    <3> DEFINE p == bound[i].start + o
    <3>4. p \in Places /\ p < handle'
      BY ONLY <1>7, <1>8, <3>2, <3>3, o \in 0..(tables[i].num - 1) DEF Places
    <3>5. heaps'[CopyHeap][p] = heaps[CopyHeap][p]
      BY <3>2, <3>3, <3>4
    <3> HIDE DEF p
    <3>  QED BY <1>6, <3>1, <3>2, <3>4, <3>5 DEF p
  <2>  QED BY <2>2, <2>3
<1>20. calls' \in Nat
  BY <1>1, <1>2, RecordFacts
<1>  QED BY <1>11, <1>14, <1>16, <1>17, <1>18, <1>19, <1>20 DEF Inv

LEMMA CountingSeq ==
  ASSUME NEW n \in Nat
  PROVE  /\ [h \in 1..n |-> h] \in Seq(1..n) /\ Len([h \in 1..n |-> h]) = n
         /\ \A a \in 1..n : [h \in 1..n |-> h][a] = a
<1>1. [h \in 1..n |-> h] \in [1..n -> 1..n]
  OBVIOUS
<1>2. [h \in 1..n |-> h] \in Seq(1..n)
  BY <1>1, SeqDef
<1>  QED BY <1>2

LEMMA ResetStep == ASSUME Inv, Reset PROVE Inv'
<1>1. pagePool \in 0..MaxPages /\ heapPool \in 0..MaxHeaps /\ pagePool \in Nat /\ heapPool \in Nat
  BY ConstantFacts DEF Inv, PagesInv, HeapsInv
<1>2. /\ calls' = 0 /\ ResetUpload /\ ResetHeap
      /\ rootSignature' = NoSignature /\ descriptorHeap' = NoHeap
      /\ bound' = None /\ staged' = None /\ reads' = {}
  BY DEF Reset
<1>3. PagesInv'
  <2>1. /\ currentPage' = Nothing /\ availablePages' = [p \in 1..pagePool |-> p]
        /\ offset' = [p \in 1..MaxPages |-> 0] /\ memory' = Unused /\ pagePool' = pagePool
    BY <1>2 DEF ResetUpload
  <2>2. availablePages' \in Seq(1..pagePool)
    BY <1>1, <2>1, CountingSeq
  <2>3. offset' \in [1..MaxPages -> 0..PageSize]
    BY <2>1, ConstantFacts
  <2>4. memory' \in [1..MaxPages -> [Bytes -> Nat \cup {Nothing}]]
    BY <2>1 DEF Unused
  <2>  QED BY <1>1, <2>1, <2>2, <2>3, <2>4 DEF PagesInv
<1>4. /\ availableHeaps' = [h \in 1..heapPool |-> h]
      /\ currentHeap' = NoHeap /\ handle' = 0 /\ numFree' = 0
      /\ tables' = [i \in {} |-> <<>>] /\ tableMask' = {} /\ staleTables' = {}
      /\ staleInline' = {} /\ cache' = Empty /\ heaps' = [h \in 1..MaxHeaps |-> Empty]
      /\ heapPool' = heapPool
  BY <1>2 DEF ResetHeap
<1>5. HeapsInv'
  <2>1. /\ availableHeaps' \in Seq(1..heapPool) /\ Len(availableHeaps') = heapPool
        /\ \A a \in 1..heapPool : availableHeaps'[a] = a
    BY <1>1, <1>4, CountingSeq
  <2>2. currentHeap' \notin Available'
    BY <1>1, <1>4, <2>1, ConstantFacts DEF Available
  <2>3. heaps' \in [1..MaxHeaps -> [Places -> Nat]]
    BY <1>4 DEF Empty, Places, Null
  <2>4. handle' \in 0..PerHeap /\ numFree' \in 0..PerHeap
    BY <1>4, ConstantFacts
  <2>  QED BY <1>1, <1>4, <2>1, <2>2, <2>3, <2>4 DEF HeapsInv
<1>6. TablesInv'
  BY <1>2, <1>4 DEF TablesInv, TablesSet, Empty, Places, Null
<1>7. GivenTables' /\ GivenInline' /\ GivenPages' /\ ReadsInv'
  BY <1>2 DEF GivenTables, GivenInline, GivenPages, ReadsInv, None
<1>  QED BY <1>2, <1>3, <1>5, <1>6, <1>7 DEF Inv

LEMMA NextInv == Inv /\ [Next]_vars => Inv'
<1> SUFFICES ASSUME Inv, [Next]_vars PROVE Inv'
    OBVIOUS
<1>1. /\ calls \in Nat /\ PagesInv /\ HeapsInv /\ TablesInv /\ ReadsInv
      /\ GivenTables /\ GivenInline /\ GivenPages
  BY DEF Inv
<1>2. Fresh \in Nat
  BY <1>1, FreshFacts
<1>3. ASSUME NEW s \in Signatures, SetRootSignature(s) PROVE Inv'
  BY <1>3, SetRootSignatureStep
<1>4. ASSUME NEW i \in tableMask, NEW o \in 0..(tables[i].num - 1), NEW n \in 1..(tables[i].num - o),
             SetView(i, o, n, Fresh)
      PROVE  Inv'
  <2> HIDE DEF Fresh
  <2>  QED BY <1>2, <1>4, SetViewStep
<1>5. ASSUME NEW s \in {rootSignature} \cap Signatures, NEW i \in Inline[s], SetBuffer(i, Fresh)
      PROVE  Inv'
  BY <1>5, SetBufferStep
<1>6. ASSUME NEW s \in {rootSignature} \cap Signatures, NEW i \in Dynamic[s], NEW n \in Buffers,
             SetGraphicsDynamicConstantBuffer(i, n, Fresh)
      PROVE  Inv'
  <2>1. i \in DynamicSet
    BY ListAssumption DEF DynamicSet
  <2>2. n \in Nat /\ Constant \in Nat \ {0}
    BY ListAssumption
  <2>3. Upload(i, n, Constant, Fresh)
    BY <1>6 DEF SetGraphicsDynamicConstantBuffer
  <2>  QED BY <1>2, <2>1, <2>2, <2>3, UploadStep
<1>7. ASSUME NEW n \in Counts, SetDynamicVertexBuffer(n, Fresh) PROVE Inv'
  <2>1. Vertices \in DynamicSet
    BY DEF DynamicSet
  <2>2. n * Vertex \in Nat /\ Vertex \in Nat \ {0}
    BY ListAssumption
  <2>3. Upload(Vertices, n * Vertex, Vertex, Fresh)
    BY <1>7 DEF SetDynamicVertexBuffer
  <2>  QED BY <1>2, <2>1, <2>2, <2>3, UploadStep
<1>8. CASE Draw
  BY <1>8, DrawStep
<1>9. CASE UseDescriptor(Fresh)
  BY <1>2, <1>9, UseDescriptorStep
<1>10. CASE Reset
  BY <1>10, ResetStep
<1>11. CASE UNCHANGED vars
  <2>1. /\ UNCHANGED uploadVars /\ UNCHANGED heapVars
        /\ UNCHANGED <<cache, tables, tableMask, staleTables, inline, staleInline>>
        /\ UNCHANGED <<rootSignature, descriptorHeap, bound, staged, reads, calls>>
    BY <1>11 DEF vars, stagingVars, listVars
  <2>2. \A i, o : Kept(i, o)
    BY <2>1 DEF Kept
  <2>3. GivenTables' /\ GivenInline' /\ GivenPages'
    BY <1>1, <2>1, <2>2, TablesKept, InlineKept, PagesKept
  <2>4. UNCHANGED <<TablesSet, InlineSet, currentHeap>>
    BY <2>1 DEF TablesSet, InlineSet, heapVars
  <2>5. TablesInv'
    BY <1>1, <2>1, <2>4 DEF TablesInv
  <2>6. PagesInv' /\ HeapsInv' /\ ReadsInv'
    BY <1>1, <2>1, HeapsUnchanged, PagesUnchanged, ReadsUnchanged
  <2>  QED BY <1>1, <2>1, <2>3, <2>5, <2>6 DEF Inv
<1>  QED BY <1>3, <1>4, <1>5, <1>6, <1>7, <1>8, <1>9, <1>10, <1>11 DEF Next

-----------------------------------------------------------------------------
(* Theorems.                                                                *)

LEMMA Invariance == Spec => []Inv
BY InitInv, NextInv, PTL DEF Spec

\* What the list, its upload memory and its descriptor heap keep is what they
\* can be, whatever root signatures, sizes and alignments there are: the tables
\* fit in the cache, the heap has no more free places than it has, and the D3D12
\* list is set to the heap that descriptors are copied to.
THEOREM TypeCorrect == Spec => []TypeOK
<1>1. Inv => TypeOK
  <2> SUFFICES ASSUME Inv PROVE TypeOK
    OBVIOUS
  <2>1. PagesInv /\ HeapsInv /\ TablesInv
    BY DEF Inv
  <2>2. \A i \in tableMask : tables[i].base + tables[i].num <= PerHeap
    BY <2>1, TableFacts
  <2>3. HeapOK
    BY <2>1, <2>2 DEF HeapOK, HeapsInv, TablesInv
  <2>  QED BY <2>1, <2>3 DEF TypeOK, PagesInv, TablesInv
<1>  QED BY <1>1, Invariance, PTL

\* Whatever is staged, uploaded, drawn and copied after a draw is recorded, until
\* the list is reset every place where the draw will look holds what it was given:
\* a table is never written over or left in a heap the list is not set to, and
\* upload memory is never handed out twice, for any sizes and any alignment.
THEOREM DrawsAlwaysSeeTheirParameters == Spec => []DrawsSeeTheirParameters
<1>1. Inv => DrawsSeeTheirParameters
  <2> SUFFICES ASSUME Inv, NEW r \in reads PROVE Content(r.from) = r.value
    BY DEF DrawsSeeTheirParameters
  <2>1. HeapRead(r) \/ PageRead(r) \/ ListRead(r)
    BY DEF Inv, ReadsInv
  <2>2. CASE HeapRead(r)
    <3>1. r.from.in = "heap" /\ r.from.number # NoHeap /\ heaps[r.from.number][r.from.place] = r.value
      <4>1. /\ r.from.in = "heap" /\ r.from.number \in 1..heapPool
            /\ heaps[r.from.number][r.from.place] = r.value
        BY <2>2 DEF HeapRead
      <4>2. r.from.number \in Nat
        BY ONLY <4>1
      <4>  QED BY <4>1, <4>2, ConstantFacts
    <3>  QED BY ONLY <3>1 DEF Content
  <2>3. CASE PageRead(r)
    <3>1. r.from.in = "page" /\ memory[r.from.number][r.from.place] = r.value
      BY <2>3 DEF PageRead
    <3>  QED BY ONLY <3>1 DEF Content
  <2>4. CASE ListRead(r)
    <3>1. r.from.in = "list" /\ r.from.place = r.value
      BY <2>4 DEF ListRead
    <3>  QED BY ONLY <3>1 DEF Content
  <2>  QED BY <2>1, <2>2, <2>3, <2>4
<1>  QED BY <1>1, Invariance, PTL

-----------------------------------------------------------------------------
(* The passes of GenerateMips.                                              *)

\* A set of natural numbers has a least one, and a bounded one a greatest.
LEMMA LeastFacts ==
  ASSUME NEW S, S \subseteq Nat, S # {}
  PROVE  Min(S) \in S /\ \A x \in S : Min(S) <= x
<1> DEFINE T == {k \in Nat : \A x \in S : k <= x}
<1>1. 0 \in T
  OBVIOUS
<1>2. \E k \in Nat : k \in T /\ k + 1 \notin T
  <2> SUFFICES ASSUME \A k \in Nat : k \in T => k + 1 \in T PROVE FALSE
      OBVIOUS
  <2>1. Nat \subseteq T
    <3> HIDE DEF T
    <3>  QED BY <1>1, SetInduction
  <2>2. PICK x \in S : TRUE
    OBVIOUS
  <2>3. x \in Nat /\ x + 1 \in T
    BY <2>1
  <2>4. x + 1 <= x
    BY <2>3
  <2>  QED BY <2>3, <2>4
<1>3. PICK k \in Nat : k \in T /\ k + 1 \notin T
  BY <1>2
<1>4. PICK y \in S : ~(k + 1 <= y)
  BY <1>3
<1>5. y \in Nat /\ k <= y
  BY <1>3
<1>6. y = k
  BY <1>4, <1>5
<1>7. \A x \in S : y <= x
  BY <1>3, <1>6
<1>8. \E x \in S : \A z \in S : x <= z
  BY <1>7
<1>  QED BY ONLY <1>8 DEF Min

LEMMA GreatestFacts ==
  ASSUME NEW S, NEW k \in Nat, S \subseteq 0..k, S # {}
  PROVE  Max(S) \in S /\ \A x \in S : Max(S) >= x
<1> DEFINE T == {k - x : x \in S}
<1>1. T \subseteq Nat /\ T # {}
  OBVIOUS
<1>2. Min(T) \in T /\ \A x \in T : Min(T) <= x
  <2> HIDE DEF T
  <2>  QED BY <1>1, LeastFacts
<1>3. PICK y \in S : Min(T) = k - y
  BY <1>2
<1>4. \A x \in S : k - y <= k - x
  BY <1>2, <1>3
<1>5. \A x \in S : y >= x
  BY <1>4
<1>6. \E x \in S : \A z \in S : x >= z
  BY <1>5
<1>  QED BY ONLY <1>6 DEF Max

\* g[l] is n halved l times, up to k.
Halved(g, n, k) ==
  g \in [0..k -> Nat] /\ g[0] = n /\ \A l \in 1..k : g[l] = g[l - 1] \div 2

LEMMA HalvedExists ==
  ASSUME NEW n \in Nat
  PROVE  \A k \in Nat : \E g : Halved(g, n, k)
<1> DEFINE S == {k \in Nat : \E g : Halved(g, n, k)}
<1>1. 0 \in S
  <2> DEFINE g == [l \in 0..0 |-> n]
  <2>1. Halved(g, n, 0)
    BY DEF Halved
  <2> HIDE DEF g
  <2>  QED BY <2>1
<1>2. ASSUME NEW k \in Nat, k \in S PROVE k + 1 \in S
  <2>1. PICK g : Halved(g, n, k)
    BY <1>2
  <2> DEFINE h == [l \in 0..(k + 1) |-> IF l = k + 1 THEN g[k] \div 2 ELSE g[l]]
  <2>2. \A l \in 0..(k + 1) : l = k + 1 \/ l \in 0..k
    OBVIOUS
  <2>3. k \in 0..k /\ 0 \in 0..k /\ k + 1 \in 0..(k + 1) /\ \A l \in 0..k : l \in 0..(k + 1) /\ l # k + 1
    OBVIOUS
  <2>4. g[k] \div 2 \in Nat
    BY <2>1, <2>3, HalvesFacts DEF Halved
  <2>5. h \in [0..(k + 1) -> Nat] /\ h[k + 1] = g[k] \div 2 /\ \A l \in 0..k : h[l] = g[l]
    BY <2>1, <2>2, <2>3, <2>4 DEF Halved
  <2> HIDE DEF h
  <2>6. ASSUME NEW l \in 1..(k + 1) PROVE h[l] = h[l - 1] \div 2
    <3>1. l - 1 \in 0..k /\ h[l - 1] = g[l - 1]
      BY <2>5
    <3>2. CASE l = k + 1
      BY <2>5, <3>1, <3>2
    <3>3. CASE l # k + 1
      <4>1. l \in 1..k /\ l \in 0..k
        BY <3>3
      <4>  QED BY <2>1, <2>5, <3>1, <4>1 DEF Halved
    <3>  QED BY <3>2, <3>3
  <2>7. Halved(h, n, k + 1)
    BY <2>1, <2>3, <2>5, <2>6 DEF Halved
  <2>  QED BY <2>7
<1> HIDE DEF S
<1>3. Nat \subseteq S
  BY <1>1, <1>2, SetInduction
<1>  QED BY <1>3 DEF S

\* There is one way to do it.
LEMMA HalvedUnique ==
  ASSUME NEW n, NEW g, NEW h, NEW k \in Nat, NEW m \in Nat, Halved(g, n, k), Halved(h, n, m)
  PROVE  \A l \in Nat : l <= k /\ l <= m => g[l] = h[l]
<1> DEFINE S == {l \in Nat : l <= k /\ l <= m => g[l] = h[l]}
<1>1. 0 \in S
  BY DEF Halved
<1>2. ASSUME NEW l \in Nat, l \in S PROVE l + 1 \in S
  <2> SUFFICES ASSUME l + 1 <= k, l + 1 <= m PROVE g[l + 1] = h[l + 1]
    OBVIOUS
  <2>1. l + 1 \in 1..k /\ l + 1 \in 1..m /\ (l + 1) - 1 = l
    OBVIOUS
  <2>2. g[l] = h[l]
    BY <1>2
  <2>  QED BY <2>1, <2>2 DEF Halved
<1> HIDE DEF S
<1>3. Nat \subseteq S
  BY <1>1, <1>2, SetInduction
<1>  QED BY <1>3 DEF S

LEMMA ShiftedIsHalved ==
  ASSUME NEW n \in Nat, NEW k \in Nat
  PROVE  \E g : Halved(g, n, k) /\ Shifted(n, k) = g[k]
<1> DEFINE F(f) == [l \in 0..k |-> IF l = 0 THEN n ELSE f[l - 1] \div 2]
           f == CHOOSE g : g = F(g)
<1>1. PICK h : Halved(h, n, k)
  BY HalvedExists
<1>2. h = F(h)
  <2>1. h = [l \in 0..k |-> h[l]]
    BY <1>1 DEF Halved
  <2>2. ASSUME NEW l \in 0..k PROVE h[l] = IF l = 0 THEN n ELSE h[l - 1] \div 2
    <3>1. l = 0 \/ l \in 1..k
      OBVIOUS
    <3>  QED BY <1>1, <3>1 DEF Halved
  <2>  QED BY <2>1, <2>2
<1>3. f = F(f)
  <2> HIDE DEF F
  <2>  QED BY <1>2
<1>4. Shifted(n, k) = f[k]
  BY DEF Shifted
<1> HIDE DEF f
<1>5. f = h
  <2>1. DOMAIN f = 0..k /\ f[0] = n /\ \A l \in 1..k : f[l] = f[l - 1] \div 2
    <3>1. \A l \in 0..k : f[l] = IF l = 0 THEN n ELSE f[l - 1] \div 2
      BY <1>3
    <3>  QED BY <1>3, <3>1
  <2> DEFINE S == {l \in Nat : l <= k => f[l] = h[l]}
  <2>2. 0 \in S
    BY <1>1, <2>1 DEF Halved
  <2>3. ASSUME NEW l \in Nat, l \in S PROVE l + 1 \in S
    <3> SUFFICES ASSUME l + 1 <= k PROVE f[l + 1] = h[l + 1]
      OBVIOUS
    <3>1. l + 1 \in 1..k /\ (l + 1) - 1 = l /\ f[l] = h[l]
      BY <2>3
    <3>  QED BY <1>1, <2>1, <3>1 DEF Halved
  <2> HIDE DEF S
  <2>4. Nat \subseteq S
    BY <2>2, <2>3, SetInduction
  <2>5. \A l \in 0..k : f[l] = h[l]
    BY <2>4 DEF S
  <2>6. f = [l \in 0..k |-> f[l]] /\ h = [l \in 0..k |-> h[l]]
    BY <1>1, <1>3, <2>1 DEF Halved
  <2>  QED BY <2>5, <2>6
<1>  QED BY <1>1, <1>4, <1>5

\* What the definition says.
LEMMA ShiftedFacts ==
  ASSUME NEW n \in Nat
  PROVE  /\ Shifted(n, 0) = n
         /\ \A l \in Nat : Shifted(n, l) \in Nat /\ Shifted(n, l + 1) = Shifted(n, l) \div 2
<1>1. Shifted(n, 0) = n
  BY ShiftedIsHalved DEF Halved
<1>2. ASSUME NEW l \in Nat PROVE Shifted(n, l) \in Nat /\ Shifted(n, l + 1) = Shifted(n, l) \div 2
  <2>1. PICK g : Halved(g, n, l) /\ Shifted(n, l) = g[l]
    BY ShiftedIsHalved
  <2>2. PICK h : Halved(h, n, l + 1) /\ Shifted(n, l + 1) = h[l + 1]
    BY ShiftedIsHalved
  <2>3. l + 1 \in Nat /\ l <= l /\ l <= l + 1 /\ l \in 0..l /\ l + 1 \in 1..(l + 1) /\ (l + 1) - 1 = l
    OBVIOUS
  <2>4. g[l] = h[l]
    BY <2>1, <2>2, <2>3, HalvedUnique
  <2>5. h[l + 1] = h[l] \div 2
    BY <2>2, <2>3 DEF Halved
  <2>6. g[l] \in Nat
    BY <2>1, <2>3 DEF Halved
  <2>  QED BY <2>1, <2>2, <2>4, <2>5, <2>6
<1>  QED BY <1>1, <1>2

\* To shift twice is to shift by the sum.
LEMMA ShiftedTwice ==
  ASSUME NEW n \in Nat, NEW a \in Nat
  PROVE  \A b \in Nat : Shifted(Shifted(n, a), b) = Shifted(n, a + b)
<1> DEFINE s == Shifted(n, a)
           S == {b \in Nat : Shifted(s, b) = Shifted(n, a + b)}
<1>1. s \in Nat
  BY ShiftedFacts
<1>2. 0 \in S
  <2>1. Shifted(s, 0) = s
    BY <1>1, ShiftedFacts
  <2>2. a + 0 = a
    OBVIOUS
  <2>  QED BY <2>1, <2>2
<1>3. ASSUME NEW b \in Nat, b \in S PROVE b + 1 \in S
  <2>1. Shifted(s, b + 1) = Shifted(s, b) \div 2
    <3> HIDE DEF s
    <3>  QED BY <1>1, ShiftedFacts
  <2>2. a + b \in Nat /\ (a + b) + 1 = a + (b + 1)
    OBVIOUS
  <2>3. Shifted(n, (a + b) + 1) = Shifted(n, a + b) \div 2
    BY <2>2, ShiftedFacts
  <2>4. Shifted(s, b) = Shifted(n, a + b)
    BY <1>3
  <2>5. Shifted(n, a + (b + 1)) = Shifted(s, b) \div 2
    BY <2>2, <2>3, <2>4
  <2>  QED BY <2>1, <2>5
<1> HIDE DEF S
<1>4. Nat \subseteq S
  BY <1>2, <1>3, SetInduction
<1>  QED BY <1>4 DEF S

\* What is 0 stays 0, so what is not 0 was not before.
LEMMA ShiftedPositive ==
  ASSUME NEW n \in Nat, NEW l \in Nat, NEW m \in Nat, m <= l, Shifted(n, l) > 0
  PROVE  Shifted(n, m) > 0
<1> SUFFICES ASSUME Shifted(n, m) = 0 PROVE FALSE
    BY ShiftedFacts
<1> DEFINE S == {b \in Nat : Shifted(n, m + b) = 0}
<1>1. 0 \in S
  <2>1. m + 0 = m
    OBVIOUS
  <2>  QED BY <2>1
<1>2. ASSUME NEW b \in Nat, b \in S PROVE b + 1 \in S
  <2>1. m + b \in Nat /\ (m + b) + 1 = m + (b + 1)
    OBVIOUS
  <2>2. Shifted(n, (m + b) + 1) = Shifted(n, m + b) \div 2
    BY <2>1, ShiftedFacts
  <2>3. Shifted(n, m + b) = 0
    BY <1>2
  <2>4. 0 \div 2 = 0
    OBVIOUS
  <2>  QED BY <2>1, <2>2, <2>3, <2>4
<1> HIDE DEF S
<1>3. l - m \in S
  BY <1>1, <1>2, SetInduction
<1>4. m + (l - m) = l
  OBVIOUS
<1>  QED BY <1>3, <1>4 DEF S

\* Fifteen halvings leave nothing of what D3D12 allows.
LEMMA ShiftedBounded ==
  ASSUME NEW n \in Nat, n <= MaxExtent
  PROVE  Shifted(n, 15) = 0 /\ \A l \in Nat : Shifted(n, l) <= MaxExtent
<1> DEFINE s(l) == Shifted(n, l)
<1>2. s(0) = n /\ \A l \in Nat : s(l) \in Nat /\ s(l + 1) = s(l) \div 2
  BY ONLY n \in Nat, ShiftedFacts
<1>3. s(0) <= 16384
  BY <1>2 DEF MaxExtent
<1> HIDE DEF s
<1>4. s(1) <= 8192 /\ s(2) <= 4096 /\ s(3) <= 2048 /\ s(4) <= 1024 /\ s(5) <= 512
  <2>1. s(1) = s(0) \div 2 /\ s(2) = s(1) \div 2 /\ s(3) = s(2) \div 2 /\ s(4) = s(3) \div 2 /\ s(5) = s(4) \div 2
    <3>1. s(0 + 1) = s(0) \div 2 /\ s(1 + 1) = s(1) \div 2 /\ s(2 + 1) = s(2) \div 2 /\ s(3 + 1) = s(3) \div 2 /\ s(4 + 1) = s(4) \div 2
      BY <1>2
    <3>  QED BY <3>1
  <2>2. s(0) \in Nat /\ s(1) \in Nat /\ s(2) \in Nat /\ s(3) \in Nat /\ s(4) \in Nat
    BY <1>2
  <2>  QED BY <1>3, <2>1, <2>2
<1>5. s(6) <= 256 /\ s(7) <= 128 /\ s(8) <= 64 /\ s(9) <= 32 /\ s(10) <= 16
  <2>1. s(6) = s(5) \div 2 /\ s(7) = s(6) \div 2 /\ s(8) = s(7) \div 2 /\ s(9) = s(8) \div 2 /\ s(10) = s(9) \div 2
    <3>1. s(5 + 1) = s(5) \div 2 /\ s(6 + 1) = s(6) \div 2 /\ s(7 + 1) = s(7) \div 2 /\ s(8 + 1) = s(8) \div 2 /\ s(9 + 1) = s(9) \div 2
      BY <1>2
    <3>  QED BY <3>1
  <2>2. s(5) \in Nat /\ s(6) \in Nat /\ s(7) \in Nat /\ s(8) \in Nat /\ s(9) \in Nat
    BY <1>2
  <2>  QED BY <1>4, <2>1, <2>2
<1>6. s(15) <= 0
  <2>1. s(11) = s(10) \div 2 /\ s(12) = s(11) \div 2 /\ s(13) = s(12) \div 2 /\ s(14) = s(13) \div 2 /\ s(15) = s(14) \div 2
    <3>1. s(10 + 1) = s(10) \div 2 /\ s(11 + 1) = s(11) \div 2 /\ s(12 + 1) = s(12) \div 2 /\ s(13 + 1) = s(13) \div 2 /\ s(14 + 1) = s(14) \div 2
      BY <1>2
    <3>  QED BY <3>1
  <2>2. s(10) \in Nat /\ s(11) \in Nat /\ s(12) \in Nat /\ s(13) \in Nat /\ s(14) \in Nat
    BY <1>2
  <2>  QED BY <1>5, <2>1, <2>2
<1>7. \A l \in Nat : s(l) <= 16384
  <2> DEFINE S == {l \in Nat : s(l) <= 16384}
  <2>1. 0 \in S
    BY <1>3
  <2>2. ASSUME NEW l \in Nat, l \in S PROVE l + 1 \in S
    <3> DEFINE a == s(l)
               c == s(l + 1)
    <3>1. a \in Nat /\ a <= 16384 /\ c = a \div 2
      BY <1>2, <2>2
    <3> HIDE DEF a, c
    <3>2. c <= 16384
      BY ONLY <3>1
    <3>3. s(l + 1) <= 16384
      BY ONLY <3>2 DEF c
    <3>  QED BY <3>3
  <2> HIDE DEF S
  <2>3. Nat \subseteq S
    BY <2>1, <2>2, SetInduction
  <2>  QED BY ONLY <2>3 DEF S
<1>8. s(15) = 0
  <2>1. s(15) \in Nat
    BY ONLY <1>2
  <2>  QED BY ONLY <1>6, <2>1
<1>  QED BY ONLY <1>7, <1>8 DEF s, MaxExtent

\* The lowest bit of a size: below it the size can be halved without a rest.
LEMMA LowestBit ==
  ASSUME NEW n \in Nat \ {0}, n <= MaxExtent
  PROVE  \E low \in Nat : /\ low \in BitsOf(n) /\ \A b \in BitsOf(n) : low <= b
                          /\ \A l \in Nat : l <= low => Shifted(n, l) > 0
                          /\ \A l \in Nat : l < low => Shifted(n, l) % 2 = 0
<1>0. n \in Nat /\ n <= MaxExtent /\ n # 0
  OBVIOUS
<1>1. Shifted(n, 0) = n /\ \A l \in Nat : Shifted(n, l) \in Nat /\ Shifted(n, l + 1) = Shifted(n, l) \div 2
  BY ONLY <1>0, ShiftedFacts
<1> DEFINE Z == {l \in Nat : Shifted(n, l) = 0}
           z == Min(Z)
<1>2. Z \subseteq Nat /\ 15 \in Z /\ 0 \notin Z
  <2>1. Shifted(n, 15) = 0
    BY ONLY <1>0, ShiftedBounded
  <2>2. Shifted(n, 0) # 0
    BY <1>0, <1>1
  <2>  QED BY ONLY <2>1, <2>2
<1>3. z \in Z /\ \A l \in Z : z <= l
  <2> HIDE DEF Z
  <2>  QED BY <1>2, LeastFacts
<1> HIDE DEF z
<1>4. z - 1 <= 14 /\ z - 1 \in Nat /\ z - 1 \notin Z /\ (z - 1) + 1 = z
  <2>1. z \in Nat /\ z <= 15 /\ z # 0
    BY <1>2, <1>3
  <2>2. z - 1 \notin Z
    BY <1>3, <2>1
  <2> HIDE DEF Z
  <2>  QED BY <2>1, <2>2
<1>5. Shifted(n, z - 1) % 2 = 1
  <2> DEFINE s == Shifted(n, z - 1)
  <2>1. s \in Nat /\ s # 0 /\ s \div 2 = Shifted(n, (z - 1) + 1)
    BY <1>1, <1>4
  <2>2. Shifted(n, (z - 1) + 1) = 0
    BY <1>3, <1>4
  <2> HIDE DEF s
  <2>3. s = 2 * (s \div 2) + (s % 2) /\ s % 2 \in {0, 1}
    BY <2>1, HalvesFacts
  <2>4. s % 2 = 1
    BY <2>1, <2>2, <2>3
  <2>  QED BY <2>4 DEF s
<1> DEFINE low == Min(BitsOf(n))
<1>6. z - 1 \in BitsOf(n) /\ BitsOf(n) \subseteq Nat
  <2>1. z - 1 \in 0..15
    BY ONLY <1>4
  <2>  QED BY <1>5, <2>1 DEF BitsOf
<1>7. low \in BitsOf(n) /\ \A b \in BitsOf(n) : low <= b
  BY <1>6, LeastFacts
<1>8. low \in Nat /\ low <= 14
  <2>1. low \in Nat /\ low <= z - 1
    BY <1>6, <1>7
  <2>  QED BY <1>4, <2>1
<1> HIDE DEF low
<1>9. ASSUME NEW l \in Nat, l <= low PROVE Shifted(n, l) > 0
  <2>1. Shifted(n, low) % 2 = 1 /\ Shifted(n, low) \in Nat
    BY <1>1, <1>7, <1>8 DEF BitsOf
  <2>2. Shifted(n, low) > 0
    BY <2>1
  <2>  QED BY <1>1, <1>8, <1>9, <2>2, ShiftedPositive
<1>10. ASSUME NEW l \in Nat, l < low PROVE Shifted(n, l) % 2 = 0
  <2>1. l \in 0..15 /\ l \notin BitsOf(n)
    BY <1>7, <1>8, <1>10
  <2>2. Shifted(n, l) % 2 # 1
    BY <2>1 DEF BitsOf
  <2>3. Shifted(n, l) \in Nat
    BY <1>1
  <2>  QED BY <2>2, <2>3
<1>  QED BY <1>7, <1>8, <1>9, <1>10

\* What the lowest bit of the first level says of the levels behind it.
LEMMA HalvesAre ==
  ASSUME NEW size \in Nat, size <= MaxExtent, NEW mip \in Nat, Shifted(size, mip + 1) \notin {0, 1}
  PROVE  \E low \in Nat : /\ low \in BitsOf(Shifted(size, mip + 1))
                          /\ \A b \in BitsOf(Shifted(size, mip + 1)) : low <= b
                          /\ \A n \in Nat \ {0} : Halves(size, mip, n) <=> n <= low + 1
<1> DEFINE s == Shifted(size, mip + 1)
<1>1. mip + 1 \in Nat /\ mip + 1 # 0
  OBVIOUS
<1>2. s \in Nat \ {0} /\ s # 1 /\ s <= MaxExtent
  BY <1>1, ShiftedFacts, ShiftedBounded
<1>3. \A i \in Nat \ {0} : Shifted(s, i - 1) = Shifted(size, mip + i)
  <2> SUFFICES ASSUME NEW i \in Nat \ {0} PROVE Shifted(s, i - 1) = Shifted(size, mip + i)
      OBVIOUS
  <2>1. i - 1 \in Nat /\ (mip + 1) + (i - 1) = mip + i
    OBVIOUS
  <2>2. Shifted(s, i - 1) = Shifted(size, (mip + 1) + (i - 1))
    BY ONLY <1>1, <2>1, ShiftedTwice
  <2>  QED BY <2>1, <2>2
<1>4. SizeOf(size, mip + 1) # 1
  BY <1>2 DEF SizeOf
<1> HIDE DEF s
<1>5. PICK low \in Nat : /\ low \in BitsOf(s) /\ \A b \in BitsOf(s) : low <= b
                         /\ \A l \in Nat : l <= low => Shifted(s, l) > 0
                         /\ \A l \in Nat : l < low => Shifted(s, l) % 2 = 0
  BY <1>2, LowestBit
<1>6. \A i \in 1..(low + 1) : SizeOf(size, mip + i) = Shifted(s, i - 1)
  <2> SUFFICES ASSUME NEW i \in 1..(low + 1) PROVE SizeOf(size, mip + i) = Shifted(s, i - 1)
      OBVIOUS
  <2>1. i \in Nat \ {0} /\ i - 1 \in Nat /\ i - 1 <= low
    OBVIOUS
  <2>2. Shifted(s, i - 1) > 0
    BY <1>5, <2>1
  <2>3. Shifted(s, i - 1) # 0
    BY <2>2
  <2>  QED BY <1>3, <2>1, <2>3 DEF SizeOf
<1>7. ASSUME NEW n \in Nat \ {0} PROVE Halves(size, mip, n) <=> n <= low + 1
  <2>1. Halves(size, mip, n) <=> \A i \in 1..(n - 1) : SizeOf(size, mip + i) % 2 = 0
    BY <1>4 DEF Halves
  <2>2. CASE n <= low + 1
    <3>1. ASSUME NEW i \in 1..(n - 1) PROVE SizeOf(size, mip + i) % 2 = 0
      <4>1. i \in 1..(low + 1) /\ i - 1 \in Nat /\ i - 1 < low
        BY <2>2
      <4>  QED BY <1>5, <1>6, <4>1
    <3>  QED BY <2>1, <2>2, <3>1
  <2>3. CASE n > low + 1
    <3>1. low + 1 \in 1..(n - 1) /\ low + 1 \in 1..(low + 1) /\ (low + 1) - 1 = low
      BY <2>3
    <3>2. SizeOf(size, mip + (low + 1)) = Shifted(s, low)
      BY <1>6, <3>1
    <3>3. Shifted(s, low) % 2 = 1
      BY <1>5 DEF BitsOf
    <3>4. Shifted(s, low) % 2 # 0
      BY <3>3
    <3>5. ~(n <= low + 1)
      BY <2>3
    <3>  QED BY <2>1, <3>1, <3>2, <3>4, <3>5
  <2>  QED BY <2>2, <2>3
<1>  QED BY <1>5, <1>7 DEF s

LEMMA NothingHasNoBits == BitsOf(0) = {}
<1> DEFINE S == {l \in Nat : Shifted(0, l) = 0}
<1>1. 0 \in S
  BY ShiftedFacts
<1>2. ASSUME NEW l \in Nat, l \in S PROVE l + 1 \in S
  <2>1. Shifted(0, l + 1) = Shifted(0, l) \div 2 /\ Shifted(0, l) = 0 /\ 0 \div 2 = 0
    BY <1>2, ShiftedFacts
  <2>  QED BY <2>1
<1> HIDE DEF S
<1>3. Nat \subseteq S
  BY <1>1, <1>2, SetInduction
<1>4. \A b \in 0..15 : Shifted(0, b) % 2 # 1
  <2>1. \A b \in Nat : Shifted(0, b) = 0
    BY <1>3 DEF S
  <2>  QED BY <2>1
<1>  QED BY ONLY <1>4 DEF BitsOf

\* A size that is 0 or 1 leaves the mask to the other.
LEMMA MaskFacts ==
  ASSUME NEW w \in Nat, NEW h \in Nat
  PROVE  /\ w \notin {0, 1} /\ h \notin {0, 1} => Mask(w, h) = BitsOf(w) \cup BitsOf(h)
         /\ w \notin {0, 1} /\ h \in {0, 1} => Mask(w, h) = BitsOf(w)
         /\ w \in {0, 1} /\ h \notin {0, 1} => Mask(w, h) = BitsOf(h)
<1>  QED BY ONLY NothingHasNoBits, w \in Nat, h \in Nat DEF Mask

\* What the scan says, unless there is nothing to halve.
LEMMA ScanFacts ==
  ASSUME NEW width \in Nat, width <= MaxExtent, NEW height \in Nat, height <= MaxExtent, NEW mip \in Nat,
         NEW w, w = Shifted(width, mip + 1), NEW h, h = Shifted(height, mip + 1),
         ~(w \in {0, 1} /\ h \in {0, 1})
  PROVE  \E low \in Nat : /\ BitScanForward(Mask(w, h)) = {low}
                          /\ \A n \in Nat \ {0} :
                               Halves(width, mip, n) /\ Halves(height, mip, n) <=> n <= low + 1
<1>1. w \in Nat /\ h \in Nat
  BY ShiftedFacts
<1>2. \A s : BitsOf(s) \subseteq Nat
  BY DEF BitsOf
<1>3. ASSUME NEW size \in Nat, size <= MaxExtent, Shifted(size, mip + 1) \in {0, 1}
      PROVE  \A n : Halves(size, mip, n)
  <2>1. SizeOf(size, mip + 1) = 1
    BY <1>3 DEF SizeOf
  <2>  QED BY <2>1 DEF Halves
<1>4. ASSUME NEW low \in Nat, low \in Mask(w, h), \A b \in Mask(w, h) : low <= b
      PROVE  BitScanForward(Mask(w, h)) = {low}
  <2> DEFINE M == Mask(w, h)
  <2>1. M \subseteq Nat /\ M # {}
    BY <1>2, <1>4 DEF Mask
  <2> HIDE DEF M
  <2>2. Min(M) \in M /\ \A x \in M : Min(M) <= x
    BY ONLY <2>1, LeastFacts
  <2>3. low \in M /\ \A b \in M : low <= b
    BY <1>4 DEF M
  <2>4. Min(M) = low
    <3>1. Min(M) \in Nat /\ Min(M) <= low /\ low <= Min(M)
      BY ONLY <2>1, <2>2, <2>3
    <3>  QED BY ONLY <3>1, low \in Nat
  <2>5. BitScanForward(M) = {Min(M)}
    BY <2>1 DEF BitScanForward
  <2>  QED BY <2>4, <2>5 DEF M
<1>5. CASE w \notin {0, 1} /\ h \notin {0, 1}
  <2>1. Mask(w, h) = BitsOf(w) \cup BitsOf(h)
    BY ONLY <1>1, <1>5, MaskFacts
  <2>2. PICK a \in Nat : /\ a \in BitsOf(w) /\ \A b \in BitsOf(w) : a <= b
                         /\ \A n \in Nat \ {0} : Halves(width, mip, n) <=> n <= a + 1
    BY <1>5, HalvesAre
  <2>3. PICK c \in Nat : /\ c \in BitsOf(h) /\ \A b \in BitsOf(h) : c <= b
                         /\ \A n \in Nat \ {0} : Halves(height, mip, n) <=> n <= c + 1
    BY <1>5, HalvesAre
  <2> DEFINE low == IF a <= c THEN a ELSE c
  <2>4. low \in Nat /\ low <= a /\ low <= c /\ low \in {a, c}
    OBVIOUS
  <2>5. \A n \in Nat : n <= low + 1 <=> n <= a + 1 /\ n <= c + 1
    OBVIOUS
  <2> HIDE DEF low
  <2>6. low \in Mask(w, h)
    BY <2>1, <2>2, <2>3, <2>4
  <2>7. \A b \in Mask(w, h) : low <= b
    <3> SUFFICES ASSUME NEW b \in Mask(w, h) PROVE low <= b
        OBVIOUS
    <3>1. b \in Nat /\ (a <= b \/ c <= b)
      BY <1>2, <2>1, <2>2, <2>3
    <3>  QED BY ONLY <2>4, <3>1, a \in Nat, c \in Nat
  <2>8. BitScanForward(Mask(w, h)) = {low}
    BY <1>4, <2>4, <2>6, <2>7
  <2>9. \A n \in Nat \ {0} : Halves(width, mip, n) /\ Halves(height, mip, n) <=> n <= low + 1
    BY <2>2, <2>3, <2>5
  <2>  QED BY <2>4, <2>8, <2>9
<1>6. CASE w \notin {0, 1} /\ h \in {0, 1}
  <2>1. Mask(w, h) = BitsOf(w)
    BY ONLY <1>1, <1>6, MaskFacts
  <2>2. PICK a \in Nat : /\ a \in BitsOf(w) /\ \A b \in BitsOf(w) : a <= b
                         /\ \A n \in Nat \ {0} : Halves(width, mip, n) <=> n <= a + 1
    BY <1>6, HalvesAre
  <2>3. \A n : Halves(height, mip, n)
    BY <1>3, <1>6
  <2>4. BitScanForward(Mask(w, h)) = {a}
    <3>1. a \in Mask(w, h) /\ \A b \in Mask(w, h) : a <= b
      BY ONLY <2>1, <2>2
    <3>  QED BY ONLY <1>4, <3>1, a \in Nat
  <2>5. \A n \in Nat \ {0} : Halves(width, mip, n) /\ Halves(height, mip, n) <=> n <= a + 1
    BY ONLY <2>2, <2>3
  <2>  QED BY ONLY <2>4, <2>5, a \in Nat
<1>7. CASE w \in {0, 1} /\ h \notin {0, 1}
  <2>1. Mask(w, h) = BitsOf(h)
    BY ONLY <1>1, <1>7, MaskFacts
  <2>2. PICK a \in Nat : /\ a \in BitsOf(h) /\ \A b \in BitsOf(h) : a <= b
                         /\ \A n \in Nat \ {0} : Halves(height, mip, n) <=> n <= a + 1
    BY <1>7, HalvesAre
  <2>3. \A n : Halves(width, mip, n)
    BY <1>3, <1>7
  <2>4. BitScanForward(Mask(w, h)) = {a}
    <3>1. a \in Mask(w, h) /\ \A b \in Mask(w, h) : a <= b
      BY ONLY <2>1, <2>2
    <3>  QED BY ONLY <1>4, <3>1, a \in Nat
  <2>5. \A n \in Nat \ {0} : Halves(width, mip, n) /\ Halves(height, mip, n) <=> n <= a + 1
    BY ONLY <2>2, <2>3
  <2>  QED BY ONLY <2>4, <2>5, a \in Nat
<1>  QED BY <1>5, <1>6, <1>7

\* Where both sizes are down to 0 or 1, one level at most is left.
LEMMA LastLevel ==
  ASSUME NEW width \in Nat, NEW height \in Nat, NEW mip \in Nat,
         Shifted(width, mip + 1) \in {0, 1}, Shifted(height, mip + 1) \in {0, 1}
  PROVE  MaxLevels(width, height) \in Nat /\ MaxLevels(width, height) <= mip + 2
<1> DEFINE S == {n \in 1..16 : n = 1 \/ Shifted(width, n - 1) > 0 \/ Shifted(height, n - 1) > 0}
<1>1. Max(S) \in S
  <2>1. S \subseteq 0..16 /\ 1 \in S /\ 16 \in Nat
    OBVIOUS
  <2> HIDE DEF S
  <2>  QED BY <2>1, GreatestFacts
<1> DEFINE k == Max(S)
<1>2. k \in Nat /\ k >= 1 /\ (k = 1 \/ Shifted(width, k - 1) > 0 \/ Shifted(height, k - 1) > 0)
  BY <1>1
<1>3. MaxLevels(width, height) = k
  BY DEF MaxLevels
<1> HIDE DEF k
<1>4. k <= mip + 2
  <2> SUFFICES ASSUME k > mip + 2 PROVE FALSE
      BY <1>2
  <2>1. mip + 2 \in Nat /\ k - 1 \in Nat /\ mip + 2 <= k - 1 /\ k # 1 /\ mip + 1 \in Nat /\ (mip + 1) + 1 = mip + 2
    BY <1>2
  <2>2. ASSUME NEW size \in Nat, Shifted(size, mip + 1) \in {0, 1} PROVE ~(Shifted(size, k - 1) > 0)
    <3>1. Shifted(size, mip + 2) = Shifted(size, mip + 1) \div 2
      BY <2>1, ShiftedFacts
    <3>2. 0 \div 2 = 0 /\ 1 \div 2 = 0
      OBVIOUS
    <3>3. Shifted(size, mip + 2) = 0
      BY <2>2, <3>1, <3>2
    <3>  QED BY <2>1, <3>3, ShiftedPositive
  <2>  QED BY <1>2, <2>1, <2>2
<1>  QED BY <1>2, <1>3, <1>4

\* What is known of the texture while its mips are generated, and of the levels
\* that have been written.
TextureInv ==
  /\ texture.width \in Extents /\ texture.height \in Extents
  /\ texture.levels \in Nat /\ texture.levels <= MaxLevels(texture.width, texture.height)
  /\ srcMip \in Nat /\ srcMip < texture.levels

SourceInv ==
  /\ source = [m \in 1..srcMip |-> source[m]]
  /\ \A m \in 1..srcMip : source[m] \in Nat /\ source[m] < srcMip
  /\ \A mip \in Range(source) : {m \in 1..srcMip : source[m] = mip} = (mip + 1)..(mip + Exact(mip))

MipsInv == texture # NoTexture => TextureInv /\ SourceInv

\* How many levels a pass may write, and that it writes them all.
LEMMA PassFacts ==
  ASSUME MipsAssumption, TextureInv, srcMip < texture.levels - 1, NEW n \in MipCounts
  PROVE  /\ n \in Nat /\ srcMip + n < texture.levels
         /\ \/ n > 0 /\ n = Exact(srcMip)
            \/ n = 0 /\ -1 \in Uninitialised /\ srcMip = MaxLevels(texture.width, texture.height) - 2
<1> DEFINE width == texture.width
           height == texture.height
           levels == texture.levels
           w == Shifted(width, srcMip + 1)
           h == Shifted(height, srcMip + 1)
           C == {k \in 1..4 : srcMip + k < levels /\ Halves(width, srcMip, k) /\ Halves(height, srcMip, k)}
<1>1. /\ width \in Nat /\ width <= MaxExtent /\ height \in Nat /\ height <= MaxExtent
      /\ levels \in Nat /\ srcMip \in Nat /\ srcMip < levels - 1
  <2>1. \A x \in 1..MaxExtent : x \in Nat /\ x <= MaxExtent
    BY DEF MaxExtent
  <2>  QED BY <2>1 DEF MipsAssumption, TextureInv
<1>2. Exact(srcMip) = Max(C)
  BY DEF Exact
<1>3. PICK b \in BitScanForward(Mask(w, h)) : n = Clamped(AtMostFour(b + 1), srcMip, levels)
  BY DEF MipCounts
<1>4. levels <= MaxLevels(width, height)
  BY DEF TextureInv
<1> HIDE DEF C, w, h, width, height, levels
<1>6. \A k : k \in C => k \in 1..4 /\ srcMip + k < levels
  BY DEF C
<1>7. CASE ~(w \in {0, 1} /\ h \in {0, 1})
  <2>1. PICK low \in Nat : /\ BitScanForward(Mask(w, h)) = {low}
                           /\ \A k \in Nat \ {0} :
                                Halves(width, srcMip, k) /\ Halves(height, srcMip, k) <=> k <= low + 1
    <3>1. w = Shifted(width, srcMip + 1) /\ h = Shifted(height, srcMip + 1)
      BY DEF w, h
    <3>  QED BY ONLY <1>1, <1>7, <3>1, ScanFacts
  <2>2. b = low
    BY <1>3, <2>1
  <2>3. n \in 1..4 /\ n <= low + 1 /\ srcMip + n < levels
    BY <1>1, <1>3, <2>2 DEF Clamped, AtMostFour
  <2>4. \A k \in 1..4 : k <= low + 1 /\ srcMip + k < levels => n >= k
    BY <1>1, <1>3, <2>2 DEF Clamped, AtMostFour
  <2>5. \A k \in 1..4 : k \in C <=> k <= low + 1 /\ srcMip + k < levels
    BY <2>1 DEF C
  <2>6. n \in C /\ \A k \in C : n >= k
    BY <1>6, <2>3, <2>4, <2>5
  <2>7. Max(C) = n
    <3>1. C \subseteq 0..4 /\ C # {} /\ 4 \in Nat
      BY <1>6, <2>6
    <3>2. Max(C) \in C /\ \A k \in C : Max(C) >= k
      BY ONLY <3>1, GreatestFacts
    <3>3. Max(C) \in Nat /\ n \in Nat /\ Max(C) >= n /\ n >= Max(C)
      BY ONLY <1>6, <2>6, <3>2
    <3>  QED BY ONLY <3>3
  <2>8. n \in Nat /\ n > 0
    BY ONLY <2>3
  <2>  QED BY <1>2, <2>3, <2>7, <2>8 DEF levels
<1>8. CASE w \in {0, 1} /\ h \in {0, 1}
  <2>1. MaxLevels(width, height) \in Nat /\ MaxLevels(width, height) <= srcMip + 2
    BY <1>1, <1>8, LastLevel DEF w, h
  <2>2. levels = srcMip + 2 /\ srcMip = MaxLevels(width, height) - 2
    BY <1>1, <1>4, <2>1
  <2>3. b \in Nat \/ (b = -1 /\ -1 \in Uninitialised)
    <3> DEFINE M == Mask(w, h)
    <3>1. M \subseteq Nat
      BY DEF Mask, BitsOf
    <3> HIDE DEF M
    <3>2. M # {} => Min(M) \in Nat
      BY ONLY <3>1, LeastFacts
    <3>3. b \in IF M = {} THEN Uninitialised ELSE {Min(M)}
      BY <1>3 DEF BitScanForward, M
    <3>4. \A u \in Uninitialised : u \in Nat \/ u = -1
      BY DEF MipsAssumption
    <3>5. CASE M = {}
      <4>1. b \in Uninitialised
        BY ONLY <3>3, <3>5
      <4>2. b = -1 => -1 \in Uninitialised
        BY ONLY <4>1
      <4>  QED BY ONLY <3>4, <4>1, <4>2
    <3>6. CASE M # {}
      <4>1. b = Min(M)
        BY ONLY <3>3, <3>6
      <4>  QED BY ONLY <3>2, <3>6, <4>1
    <3>  QED BY ONLY <3>5, <3>6
  <2>4. b \in Nat => n = 1
    BY <1>1, <1>3, <2>2 DEF Clamped, AtMostFour
  <2>5. b = -1 => n = 0
    BY <1>1, <1>3, <2>2 DEF Clamped, AtMostFour
  <2>6. Max(C) = 1
    <3>1. C \subseteq 0..4 /\ \A k \in C : k = 1
      BY <1>1, <1>6, <2>2
    <3>2. 1 \in C
      <4>1. SizeOf(width, srcMip + 1) = 1 /\ SizeOf(height, srcMip + 1) = 1
        BY <1>8 DEF SizeOf, w, h
      <4>2. 1 \in 1..4 /\ srcMip + 1 < levels
        BY <1>1, <2>2
      <4>  QED BY <4>1, <4>2 DEF C, Halves
    <3>  QED BY ONLY <3>1, <3>2, 4 \in Nat, GreatestFacts
  <2>7. srcMip + 1 < levels /\ srcMip + 0 < levels /\ 1 > 0 /\ 0 \in Nat /\ 1 \in Nat
    BY <1>1, <2>2
  <2>  QED BY <1>2, <2>2, <2>3, <2>4, <2>5, <2>6, <2>7 DEF width, height, levels
<1>  QED BY <1>7, <1>8

LEMMA BeginMipsInv ==
  ASSUME BeginMips
  PROVE  MipsInv'
<1>1. PICK width \in Extents, height \in Extents :
        \E levels \in 2..MaxLevels(width, height) :
          texture' = [width |-> width, height |-> height, levels |-> levels]
  BY DEF BeginMips
<1>2. PICK levels \in 2..MaxLevels(width, height) :
        texture' = [width |-> width, height |-> height, levels |-> levels]
  BY <1>1
<1>3. srcMip' = 0 /\ source' = <<>>
  BY DEF BeginMips
<1>4. texture'.width = width /\ texture'.height = height /\ texture'.levels = levels
  BY ONLY <1>2
<1> DEFINE most == MaxLevels(width, height)
<1>5. levels \in 2..most /\ most \in Int
  <2>1. \A k : k \in 1..16 => k \in Int
    OBVIOUS
  <2> DEFINE S == {n \in 1..16 : n = 1 \/ Shifted(width, n - 1) > 0 \/ Shifted(height, n - 1) > 0}
  <2>2. most = Max(S)
    BY DEF MaxLevels
  <2>3. S \subseteq 0..16 /\ 1 \in S /\ 16 \in Nat
    OBVIOUS
  <2> HIDE DEF S, most
  <2>4. Max(S) \in S
    BY ONLY <2>3, GreatestFacts
  <2>5. Max(S) \in 0..16
    BY ONLY <2>3, <2>4
  <2>6. most \in Int
    BY ONLY <2>2, <2>5
  <2>  QED BY <2>6 DEF most
<1> HIDE DEF most
<1>6. levels \in Nat /\ levels <= most /\ 0 < levels
  BY ONLY <1>5
<1>7. TextureInv'
  BY ONLY <1>3, <1>4, <1>6, width \in Extents, height \in Extents DEF TextureInv, most
<1>8. SourceInv'
  <2>1. source' = [m \in 1..srcMip' |-> source'[m]] /\ DOMAIN source' = {}
    BY <1>3
  <2>2. 1..srcMip' = {}
    BY <1>3
  <2>3. Range(source)' = {}
    BY <2>1 DEF Range
  <2>  QED BY ONLY <2>1, <2>2, <2>3 DEF SourceInv
<1>  QED BY <1>7, <1>8 DEF MipsInv

LEMMA PassInv ==
  ASSUME MipsAssumption, MipsInv, Pass
  PROVE  MipsInv'
<1>1. TextureInv /\ SourceInv /\ srcMip < texture.levels - 1
  BY DEF MipsInv, Pass
<1>2. PICK n \in MipCounts :
        /\ source' = [mip \in 1..(srcMip + n) |-> IF mip <= srcMip THEN source[mip] ELSE srcMip]
        /\ srcMip' = srcMip + n
  BY DEF Pass
<1>3. texture' = texture
  BY DEF Pass
<1>4. n \in Nat /\ srcMip + n < texture.levels /\ (n > 0 => n = Exact(srcMip)) /\ srcMip \in Nat
  BY ONLY <1>1, MipsAssumption, n \in MipCounts, PassFacts DEF TextureInv
<1>5. \A mip : Exact(mip)' = Exact(mip)
  BY <1>3 DEF Exact, Halves
<1>6. TextureInv'
  <2>1. srcMip' \in Nat /\ srcMip' < texture.levels
    BY ONLY <1>2, <1>4
  <2>  QED BY ONLY <1>1, <1>3, <2>1 DEF TextureInv
<1> DEFINE old == 1..srcMip
           new == (srcMip + 1)..(srcMip + n)
<1>7. /\ 1..srcMip' = old \cup new /\ srcMip' = srcMip + n
      /\ \A m \in old : m \in Nat /\ m <= srcMip /\ m \notin new
      /\ \A m \in new : m \in Nat /\ ~(m <= srcMip) /\ n > 0
  <2>1. 1..(srcMip + n) = old \cup new
    BY ONLY <1>4
  <2>2. \A m \in old : m \in Nat /\ m <= srcMip /\ m \notin new
    BY ONLY <1>4
  <2>3. \A m \in new : m \in Nat /\ ~(m <= srcMip) /\ n > 0
    BY ONLY <1>4
  <2>4. srcMip' = srcMip + n
    BY ONLY <1>2
  <2>  QED BY ONLY <2>1, <2>2, <2>3, <2>4
<1> HIDE DEF old, new
<1>8. /\ source' = [m \in old \cup new |-> source'[m]]
      /\ \A m \in old : source'[m] = source[m]
      /\ \A m \in new : source'[m] = srcMip
  <2>1. source' = [m \in old \cup new |-> IF m <= srcMip THEN source[m] ELSE srcMip]
    BY ONLY <1>2, <1>7
  <2>  QED BY ONLY <1>7, <2>1
<1>9. /\ source = [m \in old |-> source[m]]
      /\ \A m \in old : source[m] \in Nat /\ source[m] < srcMip
      /\ \A mip \in Range(source) : {m \in old : source[m] = mip} = (mip + 1)..(mip + Exact(mip))
  BY ONLY <1>1 DEF SourceInv, old
<1>10. \A m \in old \cup new : source'[m] \in Nat /\ source'[m] < srcMip'
  <2>1. \A m \in old : source'[m] \in Nat /\ source'[m] < srcMip + n
    BY ONLY <1>4, <1>8, <1>9
  <2>2. \A m \in new : n > 0
    BY ONLY <1>7
  <2>3. \A m \in new : source'[m] \in Nat /\ source'[m] < srcMip + n
    BY ONLY <1>4, <1>8, <2>2
  <2>  QED BY ONLY <1>7, <2>1, <2>3
<1>11. ASSUME NEW mip \in Range(source)'
       PROVE  {m \in old \cup new : source'[m] = mip} = (mip + 1)..(mip + Exact(mip))
  <2>1. PICK k \in old \cup new : mip = source'[k]
    BY ONLY <1>8, <1>11 DEF Range
  <2>2. CASE mip = srcMip
    <3>1. \A m \in old : source'[m] # srcMip
      <4>1. \A m \in old : source[m] # srcMip
        BY ONLY <1>4, <1>9
      <4>  QED BY ONLY <1>8, <4>1
    <3>2. k \in new
      BY ONLY <2>1, <2>2, <3>1
    <3>3. n = Exact(srcMip)
      BY ONLY <1>4, <1>7, <3>2
    <3>4. {m \in old \cup new : source'[m] = srcMip} = new
      BY ONLY <1>8, <3>1
    <3>  QED BY ONLY <2>2, <3>3, <3>4 DEF new
  <2>3. CASE mip # srcMip
    <3>1. k \in old /\ mip = source[k]
      BY ONLY <1>8, <2>1, <2>3
    <3>2. mip \in Range(source)
      <4>1. DOMAIN source = old
        BY ONLY <1>9
      <4>  QED BY ONLY <3>1, <4>1 DEF Range
    <3>3. {m \in old \cup new : source'[m] = mip} = {m \in old : source[m] = mip}
      BY ONLY <1>8, <2>3
    <3>  QED BY ONLY <1>9, <3>2, <3>3
  <2>  QED BY ONLY <2>2, <2>3
<1>12. SourceInv'
  <2>1. source' = [m \in 1..srcMip' |-> source'[m]]
    BY ONLY <1>7, <1>8
  <2>2. \A m \in 1..srcMip' : source'[m] \in Nat /\ source'[m] < srcMip'
    BY ONLY <1>7, <1>10
  <2>3. \A mip \in Range(source)' :
          {m \in 1..srcMip' : source'[m] = mip} = (mip + 1)..(mip + Exact(mip)')
    BY ONLY <1>5, <1>7, <1>11
  <2>  QED BY ONLY <2>1, <2>2, <2>3 DEF SourceInv
<1>  QED BY ONLY <1>6, <1>12 DEF MipsInv

LEMMA MipsInvariance == MipsSpec => []MipsInv
<1>1. InitMips => MipsInv
  BY DEF InitMips, MipsInv
<1>2. MipsInv /\ [GenerateMips_UAV]_mipVars => MipsInv'
  <2> SUFFICES ASSUME MipsInv, [GenerateMips_UAV]_mipVars PROVE MipsInv'
      OBVIOUS
  <2>1. CASE BeginMips
    BY <2>1, BeginMipsInv
  <2>2. CASE Pass
    BY <2>2, MipsAssumption, PassInv
  <2>3. CASE EndMips
    BY <2>3 DEF EndMips, MipsInv
  <2>4. CASE UNCHANGED mipVars
    BY <2>4 DEF mipVars, MipsInv, TextureInv, SourceInv, Exact, Halves
  <2>  QED BY <2>1, <2>2, <2>3, <2>4 DEF GenerateMips_UAV
<1>  QED BY <1>1, <1>2, PTL DEF MipsSpec

\* For a texture of any size Direct3D allows and any number of levels it can
\* have, the passes of GenerateMips_UAV write each level once and as many at a
\* time as can be halved exactly, whatever an empty mask leaves in mipCount.
THEOREM EveryPassIsExact == MipsSpec => []PassesAreExact
<1>1. MipsInv => PassesAreExact
  <2> SUFFICES ASSUME MipsInv, texture # NoTexture
               PROVE  /\ DOMAIN source = 1..srcMip /\ srcMip < texture.levels
                      /\ \A mip \in Range(source) :
                           {m \in DOMAIN source : source[m] = mip} = (mip + 1)..(mip + Exact(mip))
                      /\ srcMip < texture.levels - 1 /\ 0 \in MipCounts =>
                           -1 \in Uninitialised /\ srcMip = MaxLevels(texture.width, texture.height) - 2
      BY DEF PassesAreExact
  <2>1. TextureInv /\ SourceInv
    BY DEF MipsInv
  <2>2. DOMAIN source = 1..srcMip
    BY ONLY <2>1 DEF SourceInv
  <2>3. \A mip \in Range(source) :
          {m \in DOMAIN source : source[m] = mip} = (mip + 1)..(mip + Exact(mip))
    BY ONLY <2>1, <2>2 DEF SourceInv
  <2>4. srcMip < texture.levels
    BY ONLY <2>1 DEF TextureInv
  <2>5. ASSUME srcMip < texture.levels - 1, 0 \in MipCounts
        PROVE  -1 \in Uninitialised /\ srcMip = MaxLevels(texture.width, texture.height) - 2
    BY ONLY <2>1, <2>5, MipsAssumption, PassFacts
  <2>  QED BY ONLY <2>2, <2>3, <2>4, <2>5
<1>  QED BY <1>1, MipsInvariance, PTL

=============================================================================
