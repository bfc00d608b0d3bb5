--------------------- MODULE ResourceStateTracker_proofs ---------------------
(***************************************************************************)
(* Proofs about ResourceStateTracker, for any resources, subresources,     *)
(* states and lists.                                                       *)
(*                                                                         *)
(* The argument follows one subresource along all the commands that are to *)
(* come: those left on the queue, and behind them those of the list that   *)
(* is being executed.  The commands fit when each finds the subresource in *)
(* the state it needs, and they leave it in its global state.  What a list *)
(* has recorded fits from where its pending barrier brings the             *)
(* subresource, and leaves it in the list's own final state.               *)
(***************************************************************************)
EXTENDS ResourceStateTracker, SequenceTheorems, FunctionTheorems, FiniteSetTheorems, TLAPS

-----------------------------------------------------------------------------
(* The inductive invariant.                                                *)

SubStates(r) == UNION {[D -> States] : D \in SUBSET Subs(r)}

\* Only a chain of mips has states of some subresources and not of others,
\* and its other subresources are in the common state.
StatesOf(r) ==
  {rs \in [state : States, sub : SubStates(r)] :
     IF r \in Chains THEN rs.state = Common
     ELSE rs.sub = Empty \/ (Subresources[r] = 1 /\ DOMAIN rs.sub = {0})}

\* What a caller may ask for: all subresources at once, or the only one; or one
\* of a chain of mips.
May(r, i) ==
  /\ i \in Subs(r) \cup {All}
  /\ IF r \in Chains THEN i # All ELSE i = All \/ Subresources[r] = 1

BarriersOf(r) ==
  [op : {"barrier"}, resource : {r}, sub : Subs(r) \cup {All}, from : States, to : States]
AsksOf(r) == [resource : {r}, sub : Subs(r), state : States]

AllBarriers == UNION {BarriersOf(r) : r \in Resources}
AllAsks     == UNION {AsksOf(r) : r \in Resources}
Commands    == AllBarriers \cup [op : {"use"}, asked : SUBSET AllAsks]
Signals     == [op : {"signal"}, list : Lists]

Types ==
  /\ DOMAIN global \subseteq Resources
  /\ \A r \in DOMAIN global : global[r] \in StatesOf(r)
  /\ pending \in [Lists -> Seq(AllBarriers)]
  /\ barriers \in [Lists -> Seq(AllBarriers)]
  /\ before \in [Lists -> Seq(AllBarriers)]
  /\ commands \in [Lists -> Seq(Commands)]
  /\ DOMAIN final = Lists
  /\ \A l \in Lists : /\ DOMAIN final[l] \subseteq Resources
                     /\ \A r \in DOMAIN final[l] : final[l][r] \in StatesOf(r)
  /\ asked \in [Lists -> SUBSET AllAsks]
  /\ pc \in [Lists -> {"idle", "recording", "submit", "inFlight"}]
  /\ owner \in Lists \cup {NoList}
  /\ alive \subseteq DOMAIN global
  /\ gpu \in Seq(Commands \cup Signals)
  /\ DOMAIN actual = Resources
  /\ \A r \in Resources : actual[r] \in [Subs(r) -> States]

\* What a list has between its phases.
Phases ==
  \A l \in Lists :
    /\ owner = l <=> pc[l] = "submit"
    /\ pc[l] # "recording" => pending[l] = <<>> /\ barriers[l] = <<>> /\ DOMAIN final[l] = {}
    /\ pc[l] # "submit" => before[l] = <<>>
    /\ pc[l] \in {"idle", "inFlight"} => commands[l] = <<>>
    /\ pc[l] = "idle" => asked[l] = {}

\* Command c is about resource r.
Mentions(c, r) ==
  \/ c.op = "barrier" /\ c.resource = r
  \/ c.op = "use" /\ \E a \in c.asked : a.resource = r

Own(l) == commands[l] \o barriers[l]

\* Everything a list has or has on the queue is kept alive by it.
Refer(l, G) ==
  \A j \in 1..Len(G) : \A r \in Resources : Mentions(G[j], r) => RefersTo(l, r)

References ==
  /\ \A l \in Lists :
       /\ \A a \in asked[l] : a.resource \in alive
       /\ Refer(l, pending[l]) /\ Refer(l, Own(l)) /\ Refer(l, before[l])
  /\ \A j \in 1..Len(gpu) : \A r \in Resources : Mentions(gpu[j], r) =>
       \E m \in 1..Len(gpu), l \in Lists :
         j < m /\ gpu[m] = [op |-> "signal", list |-> l] /\ RefersTo(l, r)

\* What a list has asked for is what it will leave.
Asked(l) ==
  /\ \A r \in DOMAIN final[l] : RefersTo(l, r)
  /\ \A a \in asked[l] :
       /\ a.resource \in DOMAIN final[l]
       /\ GetSubresourceState(final[l][a.resource], a.sub) = a.state

\* A list has one pending barrier for each resource it uses.
Pending(l) ==
  /\ \A j, k \in 1..Len(pending[l]) : pending[l][j].resource = pending[l][k].resource => j = k
  /\ \A j \in 1..Len(pending[l]) :
       /\ pending[l][j].resource \in DOMAIN final[l]
       /\ May(pending[l][j].resource, pending[l][j].sub)
  /\ \A r \in DOMAIN final[l] : \E j \in 1..Len(pending[l]) : pending[l][j].resource = r

\* A chain of mips is used by one list, once.
ChainsOnce ==
  \A r \in Chains, l \in Lists :
    /\ r \in DOMAIN final[l] => global[r].sub = Empty
    /\ \A k \in Lists : RefersTo(l, r) /\ RefersTo(k, r) => k = l

\* Command c needs subresource i of r to be in state t.
Needs(c, r, i, t) ==
  \/ Touches(c, r, i) /\ t = c.from
  \/ c.op = "use" /\ [resource |-> r, sub |-> i, state |-> t] \in c.asked

\* Every command of G finds subresource i of r in the state it needs, if it
\* was in state s at first.
Fits(G, r, i, s) ==
  \A j \in 1..Len(G) : \A t \in States :
    Needs(G[j], r, i, t) => Leaves(G, j - 1, r, i, s, t)

Brings(G, r, i, s, t) == Fits(G, r, i, s) /\ Leaves(G, Len(G), r, i, s, t)

\* The state that the pending barriers of l bring subresource i of r to.
Starts(l, r, i, s) ==
  \/ \E j \in 1..Len(pending[l]) : Touches(pending[l][j], r, i) /\ s = pending[l][j].to
  \/ /\ r \in Chains /\ s = Common
     /\ \A j \in 1..Len(pending[l]) : ~Touches(pending[l][j], r, i)

RecordedFits(l) ==
  \A r \in DOMAIN final[l] : \A i \in Subs(r), s \in States :
    Starts(l, r, i, s) => Brings(Own(l), r, i, s, GetSubresourceState(final[l][r], i))

\* All that the GPU has still to do.
Todo == IF owner = NoList THEN gpu ELSE gpu \o (before[owner] \o commands[owner])

QueueFits ==
  \A r \in alive : \A i \in Subs(r) :
    Brings(Todo, r, i, actual[r][i], GetSubresourceState(global[r], i))

IInv ==
  /\ Types /\ Phases /\ References
  /\ \A l \in Lists : pc[l] = "recording" => Asked(l) /\ Pending(l) /\ RecordedFits(l)
  /\ ChainsOnce /\ QueueFits

-----------------------------------------------------------------------------
(* Commands in a row.                                                      *)

LEMMA ConcatFacts ==
  ASSUME NEW S, NEW G \in Seq(S), NEW H \in Seq(S)
  PROVE  /\ G \o H \in Seq(S)
         /\ Len(G) \in Nat /\ Len(H) \in Nat
         /\ Len(G \o H) = Len(G) + Len(H)
         /\ \A j \in 1..Len(G) : (G \o H)[j] = G[j]
         /\ \A j \in 1..Len(H) : (G \o H)[Len(G) + j] = H[j]
         /\ \A j \in 1..Len(G \o H) :
              \/ j \in 1..Len(G)
              \/ \E k \in 1..Len(H) : j = Len(G) + k
<1>1. Len(G) \in Nat /\ Len(H) \in Nat
  BY LenProperties
<1>2. /\ G \o H \in Seq(S)
      /\ Len(G \o H) = Len(G) + Len(H)
      /\ \A j \in 1 .. Len(G) + Len(H) :
           (G \o H)[j] = IF j <= Len(G) THEN G[j] ELSE H[j - Len(G)]
  BY ConcatProperties
<1>3. \A j \in 1..Len(G) : (G \o H)[j] = G[j]
  BY <1>1, <1>2
<1>4. \A j \in 1..Len(H) : (G \o H)[Len(G) + j] = H[j]
  BY <1>1, <1>2
<1>5. ASSUME NEW j \in 1..Len(G \o H), j \notin 1..Len(G)
      PROVE  \E k \in 1..Len(H) : j = Len(G) + k
  <2>1. j - Len(G) \in 1..Len(H) /\ j = Len(G) + (j - Len(G))
    BY <1>1, <1>2, <1>5
  <2>  QED BY <2>1
<1>  QED BY <1>1, <1>2, <1>3, <1>4, <1>5

LEMMA Associative ==
  ASSUME NEW S, NEW G \in Seq(S), NEW H \in Seq(S), NEW K \in Seq(S)
  PROVE  (G \o H) \o K = G \o (H \o K)
BY ConcatAssociative

\* G and behind it H, for steps that are not about the elements.
Then(G, H) == G \o H

LEMMA ThenFacts ==
  ASSUME NEW S
  PROVE  /\ \A G, H \in Seq(S) : Then(G, H) \in Seq(S)
         /\ \A G, H, K \in Seq(S) : Then(Then(G, H), K) = Then(G, Then(H, K))
<1>1. \A G, H \in Seq(S) : Then(G, H) \in Seq(S)
  BY ConcatProperties DEF Then
<1>2. \A G, H, K \in Seq(S) : Then(Then(G, H), K) = Then(G, Then(H, K))
  BY Associative DEF Then
<1>  QED BY <1>1, <1>2

LEMMA ThenElement ==
  ASSUME NEW S
  PROVE  \A G, H \in Seq(S) : \A k \in 1..Len(Then(G, H)) :
           \/ k \in 1..Len(G) /\ Then(G, H)[k] = G[k]
           \/ \E i \in 1..Len(H) : Then(G, H)[k] = H[i]
BY ConcatFacts DEF Then

LEMMA ElementOfThree ==
  ASSUME NEW S, NEW G \in Seq(S), NEW H \in Seq(S), NEW K \in Seq(S),
         NEW c \in Range(G \o H \o K)
  PROVE  \/ \E k \in 1..Len(G) : c = G[k]
         \/ \E k \in 1..Len(H) : c = H[k]
         \/ \E k \in 1..Len(K) : c = K[k]
<1> DEFINE P == Then(G, H)
           Q == Then(P, K)
<1>1. c \in Range(Q)
  BY DEF Then
<1>2. P \in Seq(S)
  BY ThenFacts
<1>3. \A k \in 1..Len(P) : \/ \E i \in 1..Len(G) : P[k] = G[i]
                          \/ \E i \in 1..Len(H) : P[k] = H[i]
  <2> HIDE DEF P, Q
  <2>1. P = Then(G, H)
    BY DEF P
  <2>  QED BY <2>1, ThenElement, SMTT(30)
<1> HIDE DEF P
<1>4. Q \in Seq(S)
  BY <1>2, ThenFacts
<1>5. \A k \in 1..Len(Q) : \/ k \in 1..Len(P) /\ Q[k] = P[k]
                          \/ \E i \in 1..Len(K) : Q[k] = K[i]
  BY <1>2, ThenElement
<1> HIDE DEF Q
<1>6. PICK k \in 1..Len(Q) : c = Q[k]
  <2>1. DOMAIN Q = 1..Len(Q)
    BY <1>4, LenProperties
  <2>  QED BY <1>1, <2>1 DEF Range
<1>  QED BY <1>3, <1>5, <1>6

LEMMA ElementBehind ==
  ASSUME NEW S, NEW G \in Seq(S), NEW H \in Seq(S), NEW k \in 1..Len(H)
  PROVE  \E j \in 1..Len(G \o H) : (G \o H)[j] = H[k]
<1>1. /\ Len(G) \in Nat /\ Len(H) \in Nat /\ Len(G \o H) = Len(G) + Len(H)
      /\ (G \o H)[Len(G) + k] = H[k]
  BY ConcatFacts
<1>2. Len(G) + k \in 1..Len(G \o H)
  BY <1>1
<1>  QED BY <1>1, <1>2

LEMMA TailFacts ==
  ASSUME NEW S, NEW G \in Seq(S), G # <<>>
  PROVE  /\ Tail(G) \in Seq(S)
         /\ Len(G) \in Nat /\ Len(G) > 0
         /\ Len(Tail(G)) = Len(G) - 1
         /\ Head(G) = G[1] /\ Head(G) \in S
         /\ \A j \in 1..Len(Tail(G)) : j + 1 \in 1..Len(G) /\ Tail(G)[j] = G[j + 1]
<1>1. Tail(G) \in Seq(S) /\ Head(G) \in S /\ Len(Tail(G)) = Len(G) - 1
      /\ \A j \in 1..Len(Tail(G)) : Tail(G)[j] = G[j + 1]
  BY HeadTailProperties
<1>2. Len(G) \in Nat /\ Len(G) > 0 /\ Head(G) = G[1]
  BY EmptySeq
<1>3. \A j \in 1..Len(Tail(G)) : j + 1 \in 1..Len(G)
  BY <1>1, <1>2
<1>  QED BY <1>1, <1>2, <1>3

\* Whether commands leave a state depends on them alone.
LEMMA LeavesSame ==
  ASSUME NEW G, NEW H, NEW n, \A j \in 1..n : H[j] = G[j], NEW r, NEW i, NEW s, NEW t,
         Leaves(G, n, r, i, s, t)
  PROVE  Leaves(H, n, r, i, s, t)
BY DEF Leaves

LEMMA LeavesNothing ==
  ASSUME NEW G, NEW r, NEW i, NEW s, NEW t
  PROVE  Leaves(G, 0, r, i, s, t) <=> t = s
BY DEF Leaves

LEMMA LeavesConcat ==
  ASSUME NEW S, NEW G \in Seq(S), NEW H \in Seq(S), NEW n \in 0..Len(H),
         NEW r, NEW i, NEW s, NEW u, NEW t,
         Leaves(G, Len(G), r, i, s, u), Leaves(H, n, r, i, u, t)
  PROVE  Leaves(G \o H, Len(G) + n, r, i, s, t)
<1> DEFINE K == G \o H
           TG == {j \in 1..Len(G) : Touches(G[j], r, i)}
           TH == {j \in 1..n : Touches(H[j], r, i)}
           TK == {j \in 1..(Len(G) + n) : Touches(K[j], r, i)}
<1>1. /\ Len(G) \in Nat /\ Len(H) \in Nat /\ n \in Nat
      /\ \A j \in 1..Len(G) : K[j] = G[j]
      /\ \A j \in 1..Len(H) : K[Len(G) + j] = H[j]
  BY ConcatFacts
<1>2. /\ TG = {} => u = s
      /\ \A j \in TG : (\A k \in TG : k <= j) => u = G[j].to
      /\ TH = {} => t = u
      /\ \A j \in TH : (\A k \in TH : k <= j) => t = H[j].to
  BY DEF Leaves
<1> HIDE DEF K
<1>3. \A j \in 1..Len(G) : j \in TK <=> j \in TG
  <2>1. \A j \in 1..Len(G) : j \in 1..(Len(G) + n)
    BY <1>1
  <2>  QED BY <1>1, <2>1
<1>4. \A k \in 1..n : Len(G) + k \in TK <=> k \in TH
  <2>1. \A k \in 1..n : Len(G) + k \in 1..(Len(G) + n) /\ K[Len(G) + k] = H[k]
    BY <1>1
  <2>  QED BY <2>1
<1>5. TG \subseteq 1..Len(G) /\ TH \subseteq 1..n /\ TK \subseteq 1..(Len(G) + n)
  OBVIOUS
<1> HIDE DEF TG, TH, TK
<1>6. TK = {} => t = s
  <2> SUFFICES ASSUME TK = {} PROVE TG = {} /\ TH = {}
    BY <1>2
  <2>  QED BY <1>3, <1>4, <1>5
<1>7. ASSUME NEW j \in TK, \A k \in TK : k <= j PROVE t = K[j].to
  <2>1. CASE j \in 1..Len(G)
    <3>1. TH = {}
      <4> SUFFICES ASSUME NEW k \in TH PROVE FALSE
        OBVIOUS
      <4>1. Len(G) + k <= j
        BY <1>4, <1>5, <1>7
      <4>2. k \in 1..n
        BY <1>5
      <4>  QED BY <4>1, <4>2, <1>1, <2>1
    <3>2. j \in TG /\ \A k \in TG : k <= j
      BY <1>3, <1>5, <1>7, <2>1
    <3>  QED BY <1>1, <1>2, <2>1, <3>1, <3>2
  <2>2. CASE j \notin 1..Len(G)
    <3>1. j \in 1..(Len(G) + n)
      BY <1>5
    <3>2. PICK k \in 1..n : j = Len(G) + k
      <4>1. j - Len(G) \in 1..n /\ j = Len(G) + (j - Len(G))
        BY <3>1, <2>2, <1>1
      <4>  QED BY <4>1
    <3>3. k \in TH
      BY <1>4, <3>2
    <3>4. \A m \in TH : m <= k
      <4> SUFFICES ASSUME NEW m \in TH PROVE m <= k
        OBVIOUS
      <4>1. m \in 1..n /\ Len(G) + m <= Len(G) + k
        BY <1>4, <1>5, <1>7, <3>2
      <4>  QED BY <4>1, <1>1
    <3>5. K[j] = H[k]
      <4>1. k \in 1..Len(H)
        BY <1>1
      <4>  QED BY <4>1, <1>1, <3>2
    <3>  QED BY <1>2, <3>3, <3>4, <3>5
  <2>  QED BY <2>1, <2>2
<1>  QED BY <1>6, <1>7 DEF Leaves, K, TK

\* Commands one after the other bring a subresource from the first state to
\* the last.
LEMMA BringsConcat ==
  ASSUME NEW S, NEW G \in Seq(S), NEW H \in Seq(S), NEW r, NEW i, NEW s, NEW u, NEW t,
         Brings(G, r, i, s, u), Brings(H, r, i, u, t)
  PROVE  Brings(G \o H, r, i, s, t)
<1> DEFINE K == G \o H
<1>1. /\ Len(G) \in Nat /\ Len(H) \in Nat /\ Len(K) = Len(G) + Len(H)
      /\ \A j \in 1..Len(G) : K[j] = G[j]
      /\ \A j \in 1..Len(H) : K[Len(G) + j] = H[j]
      /\ \A j \in 1..Len(K) : \/ j \in 1..Len(G)
                              \/ \E k \in 1..Len(H) : j = Len(G) + k
  BY ConcatFacts
<1>2. Leaves(K, Len(K), r, i, s, t)
  BY <1>1, LeavesConcat DEF Brings
<1>3. ASSUME NEW n \in 0..Len(H), NEW v, Leaves(H, n, r, i, u, v)
      PROVE  Leaves(K, Len(G) + n, r, i, s, v)
  BY <1>3, LeavesConcat DEF Brings
<1> HIDE DEF K
<1>4. ASSUME NEW j \in 1..Len(K), NEW v \in States, Needs(K[j], r, i, v)
      PROVE  Leaves(K, j - 1, r, i, s, v)
  <2>1. CASE j \in 1..Len(G)
    <3>1. Leaves(G, j - 1, r, i, s, v)
      BY <1>1, <1>4, <2>1 DEF Brings, Fits
    <3>2. \A k \in 1..(j - 1) : K[k] = G[k]
      BY <1>1, <2>1
    <3>  QED BY <3>1, <3>2, LeavesSame
  <2>2. ASSUME NEW k \in 1..Len(H), j = Len(G) + k PROVE Leaves(K, j - 1, r, i, s, v)
    <3>1. Leaves(H, k - 1, r, i, u, v)
      BY <1>1, <1>4, <2>2 DEF Brings, Fits
    <3>2. k - 1 \in 0..Len(H) /\ j - 1 = Len(G) + (k - 1)
      BY <1>1, <2>2
    <3>  QED BY <1>3, <3>1, <3>2
  <2>  QED BY <1>1, <2>1, <2>2
<1>  QED BY <1>2, <1>4 DEF Brings, Fits, K

\* The GPU executes the first command.
LEMMA BringsTail ==
  ASSUME NEW S, NEW G \in Seq(S), G # <<>>, NEW r, NEW i, NEW s, NEW t, Brings(G, r, i, s, t)
  PROVE  Brings(Tail(G), r, i, IF Touches(Head(G), r, i) THEN Head(G).to ELSE s, t)
<1> DEFINE T == Tail(G)
           u == IF Touches(Head(G), r, i) THEN Head(G).to ELSE s
<1>1. /\ Len(G) \in Nat /\ Len(G) > 0 /\ Len(T) = Len(G) - 1 /\ Head(G) = G[1]
      /\ \A j \in 1..Len(T) : j + 1 \in 1..Len(G) /\ T[j] = G[j + 1]
  BY TailFacts
<1>2. u = IF Touches(G[1], r, i) THEN G[1].to ELSE s
  BY <1>1
<1> HIDE DEF T, u
<1>3. ASSUME NEW n \in 0..Len(T), NEW v, Leaves(G, n + 1, r, i, s, v)
      PROVE  Leaves(T, n, r, i, u, v)
  <2> DEFINE TG == {j \in 1..(n + 1) : Touches(G[j], r, i)}
             TT == {j \in 1..n : Touches(T[j], r, i)}
  <2>1. /\ TG = {} => v = s
        /\ \A j \in TG : (\A k \in TG : k <= j) => v = G[j].to
    BY <1>3 DEF Leaves
  <2>2. n \in Nat /\ n <= Len(T)
    BY <1>1
  <2>3. \A j \in 1..n : j \in TT <=> j + 1 \in TG
    <3>1. \A j \in 1..n : j \in 1..Len(T) /\ j + 1 \in 1..(n + 1)
      BY <1>1, <2>2
    <3>2. \A j \in 1..n : T[j] = G[j + 1]
      BY <1>1, <3>1
    <3>  QED BY <3>1, <3>2
  <2>4. 1 \in TG <=> Touches(G[1], r, i)
    <3>1. 1 \in 1..(n + 1)
      BY <2>2
    <3>  QED BY <3>1
  <2>5. TG \subseteq 1..(n + 1) /\ TT \subseteq 1..n
    OBVIOUS
  <2>6. \A k \in 1..(n + 1) : k = 1 \/ \E j \in 1..n : k = j + 1
    <3> SUFFICES ASSUME NEW k \in 1..(n + 1), k # 1 PROVE \E j \in 1..n : k = j + 1
      OBVIOUS
    <3>1. k - 1 \in 1..n /\ k = (k - 1) + 1
      BY <2>2
    <3>  QED BY <3>1
  <2> HIDE DEF TG, TT
  <2>7. ASSUME TT = {} PROVE v = u
    <3>1. \A k \in TG : k = 1
      BY <2>3, <2>5, <2>6, <2>7
    <3>2. CASE 1 \in TG
      BY <1>2, <2>1, <2>4, <3>1, <3>2
    <3>3. CASE 1 \notin TG
      <4>1. TG = {}
        BY <3>1, <3>3
      <4>  QED BY <1>2, <2>1, <2>4, <3>3, <4>1
    <3>  QED BY <3>2, <3>3
  <2>8. ASSUME NEW j \in TT, \A k \in TT : k <= j PROVE v = T[j].to
    <3>1. j \in 1..n /\ j + 1 \in TG
      BY <2>3, <2>5
    <3>2. \A k \in TG : k <= j + 1
      <4> SUFFICES ASSUME NEW k \in TG PROVE k <= j + 1
        OBVIOUS
      <4>1. CASE k = 1
        BY <4>1, <3>1
      <4>2. ASSUME NEW m \in 1..n, k = m + 1 PROVE k <= j + 1
        <5>1. m <= j
          BY <2>3, <2>8, <4>2
        <5>  QED BY <5>1, <4>2, <3>1
      <4>  QED BY <4>1, <4>2, <2>5, <2>6
    <3>3. T[j] = G[j + 1]
      BY <1>1, <2>2, <3>1
    <3>  QED BY <2>1, <3>1, <3>2, <3>3
  <2>  QED BY <2>7, <2>8 DEF Leaves, TT
<1>4. Leaves(T, Len(T), r, i, u, t)
  <2>1. Len(T) + 1 = Len(G) /\ Len(T) \in 0..Len(T)
    BY <1>1
  <2>  QED BY <1>3, <2>1 DEF Brings
<1>5. ASSUME NEW j \in 1..Len(T), NEW v \in States, Needs(T[j], r, i, v)
      PROVE  Leaves(T, j - 1, r, i, u, v)
  <2>1. j + 1 \in 1..Len(G) /\ Needs(G[j + 1], r, i, v)
    BY <1>1, <1>5
  <2>2. j \in Nat /\ (j + 1) - 1 = (j - 1) + 1 /\ j - 1 \in 0..Len(T)
    BY <1>1
  <2>3. Leaves(G, (j - 1) + 1, r, i, s, v)
    BY <2>1, <2>2 DEF Brings, Fits
  <2>  QED BY <1>3, <2>2, <2>3
<1>  QED BY <1>4, <1>5 DEF Brings, Fits, T, u

\* Commands that are about other resources.
LEMMA BringsOther ==
  ASSUME NEW G, NEW r, NEW i, NEW s, \A j \in 1..Len(G) : ~Mentions(G[j], r)
  PROVE  Brings(G, r, i, s, s)
<1>1. \A j \in 1..Len(G) : ~Touches(G[j], r, i) /\ \A t : ~Needs(G[j], r, i, t)
  BY DEF Mentions, Touches, Needs
<1>  QED BY <1>1 DEF Brings, Fits, Leaves

-----------------------------------------------------------------------------
(* Sets of barriers that are recorded in any order.                        *)

LEMMA SetToSeqFacts ==
  ASSUME NEW D, IsFiniteSet(D)
  PROVE  /\ SetToSeq(D) \in Seq(D)
         /\ \A j \in 1..Len(SetToSeq(D)) : SetToSeq(D)[j] \in D
         /\ \A c \in D : \E j \in 1..Len(SetToSeq(D)) : SetToSeq(D)[j] = c
         /\ \A j, k \in 1..Len(SetToSeq(D)) : SetToSeq(D)[j] = SetToSeq(D)[k] => j = k
<1> DEFINE n == Cardinality(D)
           f == SetToSeq(D)
           R == Range(f)
<1>1. n \in Nat /\ ExistsBijection(1..n, D)
  BY FS_CardinalityType
<1>2. \E g \in [1..n -> D] : IsInjective(g)
  BY <1>1 DEF ExistsBijection, Bijection, Injection
<1>3. f \in [1..n -> D] /\ IsInjective(f)
  BY <1>2 DEF SetToSeq
<1> HIDE DEF f
<1>4. f \in Seq(D) /\ Len(f) = n
  <2> HIDE DEF n
  <2>1. f \in Seq(D) /\ DOMAIN f = 1..n
    BY <1>1, <1>3, SeqDef
  <2>2. Len(f) \in Nat /\ 1..Len(f) = 1..n
    BY <2>1, LenProperties
  <2>  QED BY <2>1, <2>2, <1>1
<1>5. R = D
  <2>1. R \subseteq D /\ f \in Surjection(1..n, R)
    BY <1>3, Fun_RangeProperties
  <2>2. f \in Injection(1..n, R)
    BY <1>3, <2>1 DEF Injection, Surjection
  <2>3. IsFiniteSet(1..n) /\ Cardinality(1..n) = n
    <3> HIDE DEF n
    <3>1. 1 \in Int /\ n \in Int /\ 0 \in Nat
      BY <1>1
    <3>2. IsFiniteSet(1..n) /\ Cardinality(1..n) = IF 1 > n THEN 0 ELSE n - 1 + 1
      BY <3>1, FS_Interval
    <3>  QED BY <1>1, <3>2
  <2>4. Cardinality(R) = n
    BY <2>1, <2>2, <2>3, FS_Surjection
  <2>  QED BY <2>1, <2>4, FS_Subset
<1>6. \A c \in D : \E j \in 1..n : f[j] = c
  BY <1>3, <1>5 DEF Range
<1>7. \A j, k \in 1..n : f[j] = f[k] => j = k
  BY <1>3 DEF IsInjective
<1>  QED BY <1>3, <1>4, <1>6, <1>7 DEF f

\* At most one barrier of D is for subresource i of r, and none only if it is
\* already where it should be.
LEMMA BringsBatch ==
  ASSUME NEW D, IsFiniteSet(D), NEW r, NEW i, NEW s, NEW t,
         \A c \in D : c.op = "barrier" /\ (Touches(c, r, i) => c.from = s /\ c.to = t),
         \A c, d \in D : Touches(c, r, i) /\ Touches(d, r, i) => c = d,
         s = t \/ \E c \in D : Touches(c, r, i)
  PROVE  Brings(SetToSeq(D), r, i, s, t)
<1> DEFINE G == SetToSeq(D)
<1>1. /\ \A j \in 1..Len(G) : G[j] \in D
      /\ \A c \in D : \E j \in 1..Len(G) : G[j] = c
      /\ \A j, k \in 1..Len(G) : G[j] = G[k] => j = k
      /\ Len(G) \in Nat
  BY SetToSeqFacts, LenProperties
<1> HIDE DEF G
<1>2. Leaves(G, Len(G), r, i, s, t)
  <2> DEFINE T == {j \in 1..Len(G) : Touches(G[j], r, i)}
  <2>1. T = {} => t = s
    BY <1>1
  <2>2. \A j \in T : t = G[j].to
    BY <1>1
  <2>  QED BY <2>1, <2>2 DEF Leaves
<1>3. ASSUME NEW j \in 1..Len(G), NEW v \in States, Needs(G[j], r, i, v)
      PROVE  Leaves(G, j - 1, r, i, s, v)
  <2>1. G[j] \in D /\ Touches(G[j], r, i) /\ v = s
    BY <1>1, <1>3 DEF Needs
  <2>2. \A k \in 1..(j - 1) : k \in 1..Len(G) /\ k # j
    BY <1>1
  <2>3. \A k \in 1..(j - 1) : ~Touches(G[k], r, i)
    BY <1>1, <2>1, <2>2
  <2>  QED BY <2>1, <2>3 DEF Leaves
<1>  QED BY <1>2, <1>3 DEF Brings, Fits, G

-----------------------------------------------------------------------------
(* Resources and their states.                                             *)

LEMMA SubsFacts ==
  ASSUME TrackerAssumption, NEW r \in Resources
  PROVE  /\ 0 \in Subs(r) /\ Subs(r) \subseteq Nat /\ All \notin Subs(r)
         /\ Subresources[r] = 1 => Subs(r) = {0}
         /\ IsFiniteSet(Subs(r))
<1>1. Subresources[r] \in Nat /\ Subresources[r] > 0 /\ All \notin Nat
  BY DEF TrackerAssumption
<1>2. 0 \in Subs(r) /\ Subs(r) \subseteq Nat
  BY <1>1 DEF Subs
<1>3. All \notin Subs(r)
  BY <1>1, <1>2
<1>4. Subresources[r] = 1 => Subs(r) = {0}
  BY DEF Subs
<1>5. IsFiniteSet(Subs(r))
  <2>1. 0 \in Int /\ Subresources[r] - 1 \in Int
    BY <1>1
  <2>  QED BY <2>1, FS_Interval DEF Subs
<1>  QED BY <1>2, <1>3, <1>4, <1>5

LEMMA StateFacts ==
  ASSUME NEW r \in Resources, NEW rs \in StatesOf(r)
  PROVE  /\ rs.state \in States
         /\ DOMAIN rs.sub \subseteq Subs(r)
         /\ rs.sub \in [DOMAIN rs.sub -> States]
         /\ \A i : GetSubresourceState(rs, i) \in States
         /\ r \in Chains => rs.state = Common
         /\ r \notin Chains => rs.sub = Empty \/ (Subresources[r] = 1 /\ DOMAIN rs.sub = {0})
         /\ rs.sub = Empty <=> DOMAIN rs.sub = {}
<1>1. /\ rs.state \in States /\ rs.sub \in SubStates(r)
      /\ r \in Chains => rs.state = Common
      /\ r \notin Chains => rs.sub = Empty \/ (Subresources[r] = 1 /\ DOMAIN rs.sub = {0})
  BY DEF StatesOf
<1>2. PICK D \in SUBSET Subs(r) : rs.sub \in [D -> States]
  BY <1>1 DEF SubStates
<1>3. DOMAIN rs.sub = D
  BY <1>2
<1>4. \A i : GetSubresourceState(rs, i) \in States
  BY <1>1, <1>2, <1>3 DEF GetSubresourceState
<1>5. rs.sub = Empty <=> DOMAIN rs.sub = {}
  <2>1. DOMAIN Empty = {}
    BY DEF Empty
  <2>2. ASSUME D = {} PROVE rs.sub = Empty
    BY <1>2, <2>2 DEF Empty
  <2>  QED BY <1>3, <2>1, <2>2
<1>  QED BY <1>1, <1>2, <1>3, <1>4, <1>5

\* A resource in one state.
LEMMA WholeFacts ==
  ASSUME NEW r \in Resources, NEW s \in States, r \in Chains => s = Common
  PROVE  /\ ResourceState(s) \in StatesOf(r)
         /\ ResourceState(s).sub = Empty
         /\ \A i : GetSubresourceState(ResourceState(s), i) = s
<1>1. Empty \in SubStates(r) /\ DOMAIN Empty = {}
  <2>1. Empty \in [{} -> States]
    BY DEF Empty
  <2>  QED BY <2>1 DEF SubStates, Empty
<1>2. ResourceState(s).state = s /\ ResourceState(s).sub = Empty
  BY DEF ResourceState
<1>3. ResourceState(s) \in StatesOf(r)
  BY <1>1, <1>2 DEF ResourceState, StatesOf
<1>4. \A i : GetSubresourceState(ResourceState(s), i) = s
  BY <1>1, <1>2 DEF GetSubresourceState
<1>  QED BY <1>2, <1>3, <1>4

LEMMA SetFacts ==
  ASSUME TrackerAssumption, NEW r \in Resources, NEW rs \in StatesOf(r), NEW i, May(r, i),
         NEW s \in States
  PROVE  /\ SetSubresourceState(rs, i, s) \in StatesOf(r)
         /\ \A k \in Subs(r) :
              GetSubresourceState(SetSubresourceState(rs, i, s), k) =
                IF k \in Part(r, i) THEN s ELSE GetSubresourceState(rs, k)
<1>1. CASE i = All
  <2>1. SetSubresourceState(rs, i, s) = ResourceState(s) /\ Part(r, i) = Subs(r)
    BY <1>1 DEF SetSubresourceState, Part
  <2>2. r \notin Chains
    BY <1>1 DEF May
  <2>3. /\ ResourceState(s) \in StatesOf(r)
        /\ \A k : GetSubresourceState(ResourceState(s), k) = s
    BY <2>2, WholeFacts
  <2>  QED BY <2>1, <2>3
<1>2. CASE i # All
  <2> DEFINE new == Put(rs.sub, i, s)
             D == {i} \cup DOMAIN rs.sub
  <2>1. /\ rs \in [state : States, sub : SubStates(r)]
        /\ rs.state \in States /\ DOMAIN rs.sub \subseteq Subs(r)
        /\ rs.sub \in [DOMAIN rs.sub -> States]
        /\ r \in Chains => rs.state = Common
        /\ r \notin Chains => rs.sub = Empty \/ (Subresources[r] = 1 /\ DOMAIN rs.sub = {0})
    BY StateFacts DEF StatesOf
  <2>2. SetSubresourceState(rs, i, s) = [state |-> rs.state, sub |-> new]
    BY <1>2, <2>1 DEF SetSubresourceState
  <2>3. i \in Subs(r) /\ Part(r, i) = {i}
    BY <1>2 DEF May, Part
  <2>4. new = [k \in D |-> IF k = i THEN s ELSE rs.sub[k]]
    BY DEF Put
  <2>5. new \in [D -> States] /\ DOMAIN new = D
    BY <2>1, <2>4
  <2>6. \A k \in D : new[k] = IF k = i THEN s ELSE rs.sub[k]
    BY <2>4
  <2> HIDE DEF new
  <2>7. new \in SubStates(r)
    <3>1. D \in SUBSET Subs(r)
      BY <2>1, <2>3
    <3>  QED BY <2>5, <3>1 DEF SubStates
  <2>8. r \notin Chains => Subresources[r] = 1 /\ DOMAIN new = {0}
    <3> SUFFICES ASSUME r \notin Chains PROVE Subresources[r] = 1 /\ D = {0}
      BY <2>5
    <3>1. Subresources[r] = 1
      BY <1>2 DEF May
    <3>2. Subs(r) = {0}
      BY <3>1, SubsFacts
    <3>  QED BY <2>1, <2>3, <3>1, <3>2
  <2>9. SetSubresourceState(rs, i, s) \in StatesOf(r)
    BY <2>1, <2>2, <2>7, <2>8 DEF StatesOf
  <2>10. ASSUME NEW k \in Subs(r)
         PROVE  GetSubresourceState(SetSubresourceState(rs, i, s), k) =
                  IF k = i THEN s ELSE GetSubresourceState(rs, k)
    <3>1. GetSubresourceState(SetSubresourceState(rs, i, s), k) =
            IF k \in D THEN new[k] ELSE rs.state
      BY <2>2, <2>5 DEF GetSubresourceState
    <3>  QED BY <2>6, <3>1 DEF GetSubresourceState
  <2>  QED BY <2>3, <2>9, <2>10
<1>  QED BY <1>1, <1>2

LEMMA BarrierFacts ==
  ASSUME NEW r, NEW i, NEW s, NEW t
  PROVE  /\ Barrier(r, i, s, t).op = "barrier" /\ Barrier(r, i, s, t).resource = r
         /\ Barrier(r, i, s, t).sub = i
         /\ Barrier(r, i, s, t).from = s /\ Barrier(r, i, s, t).to = t
         /\ \A q, k : Touches(Barrier(r, i, s, t), q, k) <=> q = r /\ k \in Part(r, i)
         /\ \A q : Mentions(Barrier(r, i, s, t), q) <=> q = r
BY DEF Barrier, Touches, Mentions

LEMMA PartFacts ==
  ASSUME TrackerAssumption, NEW r \in Resources, NEW i \in Subs(r) \cup {All}
  PROVE  Part(r, i) \subseteq Subs(r) /\ Part(r, i) # {} /\ (i # All => Part(r, i) = {i})
BY SubsFacts DEF Part

\* The barriers that bring a part of r to a state: one for each subresource
\* that is in another one.
LEMMA BarriersFacts ==
  ASSUME TrackerAssumption, NEW r \in Resources, NEW rs \in StatesOf(r), NEW i, May(r, i),
         NEW s \in States
  PROVE  /\ IsFiniteSet(Barriers(rs, r, i, s))
         /\ Barriers(rs, r, i, s) \subseteq BarriersOf(r)
         /\ \A c \in Barriers(rs, r, i, s), k \in Subs(r) : Touches(c, r, k) =>
              c.from = GetSubresourceState(rs, k) /\ c.to = s /\ k \in Part(r, i)
         /\ \A c, d \in Barriers(rs, r, i, s), k \in Subs(r) :
              Touches(c, r, k) /\ Touches(d, r, k) => c = d
         /\ \A k \in Part(r, i) : GetSubresourceState(rs, k) # s =>
              \E c \in Barriers(rs, r, i, s) : Touches(c, r, k)
<1> DEFINE B == Barriers(rs, r, i, s)
<1>1. /\ rs.state \in States /\ DOMAIN rs.sub \subseteq Subs(r)
      /\ rs.sub \in [DOMAIN rs.sub -> States]
      /\ \A k : GetSubresourceState(rs, k) \in States
      /\ r \in Chains => rs.state = Common
      /\ r \notin Chains => rs.sub = Empty \/ (Subresources[r] = 1 /\ DOMAIN rs.sub = {0})
      /\ rs.sub = Empty <=> DOMAIN rs.sub = {}
  BY StateFacts
<1>2. i \in Subs(r) \cup {All} /\ (r \in Chains => i # All)
  BY DEF May
<1>3. CASE i = All /\ rs.sub # Empty
  <2>1. DOMAIN rs.sub = {0} /\ Subs(r) = {0} /\ 0 # All /\ Part(r, All) = {0} /\ Part(r, 0) = {0}
    BY <1>1, <1>2, <1>3, SubsFacts DEF Part
  <2> DEFINE b == Barrier(r, 0, rs.sub[0], s)
  <2>2. B = IF rs.sub[0] # s THEN {b} ELSE {}
    <3>1. B = {Barrier(r, j, rs.sub[j], s) : j \in {k \in DOMAIN rs.sub : rs.sub[k] # s}}
      BY <1>3 DEF Barriers
    <3>  QED BY <2>1, <3>1
  <2>3. b \in BarriersOf(r)
    BY <1>1, <2>1 DEF Barrier, BarriersOf
  <2>4. b.from = rs.sub[0] /\ b.to = s /\ \A k : Touches(b, r, k) <=> k = 0
    BY <2>1, BarrierFacts
  <2>5. GetSubresourceState(rs, 0) = rs.sub[0]
    BY <2>1 DEF GetSubresourceState
  <2>6. IsFiniteSet(B)
    <3> HIDE DEF B, b
    <3>1. B = {} \/ B = {b}
      BY <2>2
    <3>2. IsFiniteSet({})
      BY FS_EmptySet
    <3>3. \A x : IsFiniteSet({x})
      BY FS_Singleton
    <3>  QED BY <3>1, <3>2, <3>3
  <2> HIDE DEF b
  <2>  QED BY <1>3, <2>1, <2>2, <2>3, <2>4, <2>5, <2>6
<1>4. CASE ~(i = All /\ rs.sub # Empty)
  <2> DEFINE u == GetSubresourceState(rs, i)
             b == Barrier(r, i, u, s)
  <2>1. B = IF u # s THEN {b} ELSE {}
    <3>1. B = {b : j \in {s} \ {u}}
      BY <1>4 DEF Barriers
    <3>  QED BY <3>1
  <2>2. b \in BarriersOf(r)
    BY <1>1, <1>2 DEF Barrier, BarriersOf
  <2>3. b.from = u /\ b.to = s /\ \A k : Touches(b, r, k) <=> k \in Part(r, i)
    BY BarrierFacts
  <2>4. \A k \in Part(r, i) : GetSubresourceState(rs, k) = u
    <3>1. CASE i = All
      <4>1. DOMAIN rs.sub = {}
        BY <1>1, <1>4, <3>1
      <4>  QED BY <4>1 DEF GetSubresourceState
    <3>2. CASE i # All
      BY <3>2 DEF Part
    <3>  QED BY <3>1, <3>2
  <2>5. IsFiniteSet(B)
    <3> HIDE DEF B, b
    <3>1. B = {} \/ B = {b}
      BY <2>1
    <3>2. IsFiniteSet({})
      BY FS_EmptySet
    <3>3. \A x : IsFiniteSet({x})
      BY FS_Singleton
    <3>  QED BY <3>1, <3>2, <3>3
  <2> HIDE DEF b, u, B
  <2>  QED BY <2>1, <2>2, <2>3, <2>4, <2>5 DEF B
<1>  QED BY <1>3, <1>4

-----------------------------------------------------------------------------
(* What follows from the types.                                            *)

LEMMA BarrierTypes ==
  ASSUME NEW c \in AllBarriers
  PROVE  /\ c.op = "barrier" /\ c.resource \in Resources
         /\ c.sub \in Subs(c.resource) \cup {All}
         /\ c.from \in States /\ c.to \in States
         /\ \A r : Mentions(c, r) <=> r = c.resource
         /\ \A r, i : Touches(c, r, i) => r = c.resource
<1>1. PICK r \in Resources : c \in BarriersOf(r)
  BY DEF AllBarriers
<1>2. c.op = "barrier" /\ c.resource = r /\ c.sub \in Subs(r) \cup {All}
      /\ c.from \in States /\ c.to \in States
  BY <1>1 DEF BarriersOf
<1>  QED BY <1>2 DEF Mentions, Touches

LEMMA AskTypes ==
  ASSUME NEW a \in AllAsks
  PROVE  /\ a.resource \in Resources /\ a.sub \in Subs(a.resource) /\ a.state \in States
         /\ a = [resource |-> a.resource, sub |-> a.sub, state |-> a.state]
<1>1. PICK r \in Resources : a \in AsksOf(r)
  BY DEF AllAsks
<1>  QED BY <1>1 DEF AsksOf

LEMMA CommandTypes ==
  ASSUME NEW c \in Commands \cup Signals
  PROVE  /\ c \in AllBarriers \/ (c.op = "use" /\ c.asked \subseteq AllAsks)
              \/ (c.op = "signal" /\ \A r : ~Mentions(c, r))
         /\ c.op = "barrier" => c \in AllBarriers
         /\ c.op = "use" => c.asked \subseteq AllAsks
         /\ \A r : Mentions(c, r) => r \in Resources
<1>1. CASE c \in AllBarriers
  BY <1>1, BarrierTypes
<1>2. CASE c \in [op : {"use"}, asked : SUBSET AllAsks]
  <2>1. c.op = "use" /\ c.asked \subseteq AllAsks
    BY <1>2
  <2>2. \A r : Mentions(c, r) => r \in Resources
    BY <2>1, AskTypes DEF Mentions
  <2>  QED BY <2>1, <2>2
<1>3. CASE c \in Signals
  <2>1. c.op = "signal"
    BY <1>3 DEF Signals
  <2>2. \A r : ~Mentions(c, r)
    BY <2>1 DEF Mentions
  <2>  QED BY <2>1, <2>2
<1>  QED BY <1>1, <1>2, <1>3 DEF Commands

LEMMA ListTypes ==
  ASSUME Types, NEW l \in Lists
  PROVE  /\ pending[l] \in Seq(AllBarriers) /\ barriers[l] \in Seq(AllBarriers)
         /\ before[l] \in Seq(AllBarriers) /\ commands[l] \in Seq(Commands)
         /\ barriers[l] \in Seq(Commands) /\ before[l] \in Seq(Commands)
         /\ Own(l) \in Seq(Commands)
         /\ \A j \in 1..Len(pending[l]) : pending[l][j] \in AllBarriers
         /\ asked[l] \subseteq AllAsks
<1>1. /\ pending[l] \in Seq(AllBarriers) /\ barriers[l] \in Seq(AllBarriers)
      /\ before[l] \in Seq(AllBarriers) /\ commands[l] \in Seq(Commands)
      /\ asked[l] \subseteq AllAsks
  BY DEF Types
<1>2. barriers[l] \in Seq(Commands) /\ before[l] \in Seq(Commands)
  <2>1. AllBarriers \subseteq Commands
    BY DEF Commands
  <2>  QED BY <1>1, <2>1, SeqMonotonic
<1>3. Own(l) \in Seq(Commands)
  BY <1>1, <1>2, ConcatProperties DEF Own
<1>4. \A j \in 1..Len(pending[l]) : pending[l][j] \in AllBarriers
  BY <1>1, ElementOfSeq
<1>  QED BY <1>1, <1>2, <1>3, <1>4

LEMMA TodoTypes ==
  ASSUME TrackerAssumption, Types PROVE Todo \in Seq(Commands \cup Signals)
<1> DEFINE All2 == Commands \cup Signals
<1>1. gpu \in Seq(All2)
  BY DEF Types
<1>2. CASE owner = NoList
  BY <1>1, <1>2 DEF Todo
<1>3. CASE owner # NoList
  <2>1. owner \in Lists
    BY <1>3 DEF Types
  <2>2. before[owner] \in Seq(Commands) /\ commands[owner] \in Seq(Commands)
    BY <2>1, ListTypes
  <2>3. before[owner] \o commands[owner] \in Seq(Commands)
    BY <2>2, ConcatProperties
  <2>4. before[owner] \o commands[owner] \in Seq(All2)
    BY <2>3, SeqMonotonic
  <2>  QED BY <1>1, <1>3, <2>4, ConcatProperties DEF Todo
<1>  QED BY <1>2, <1>3

\* What nobody refers to is on no list and not on the queue.
LEMMA Unmentioned ==
  ASSUME IInv, NEW r \in Resources, r \notin alive
  PROVE  /\ \A l \in Lists : ~RefersTo(l, r) /\ r \notin DOMAIN final[l]
         /\ \A j \in 1..Len(gpu) : ~Mentions(gpu[j], r)
<1>1. \A l \in Lists : ~RefersTo(l, r)
  BY DEF IInv, References, RefersTo
<1>2. \A j \in 1..Len(gpu) : ~Mentions(gpu[j], r)
  BY <1>1 DEF IInv, References
<1>3. ASSUME NEW l \in Lists, r \in DOMAIN final[l] PROVE FALSE
  <2>1. pc[l] = "recording"
    BY <1>3 DEF IInv, Phases
  <2>2. RefersTo(l, r)
    BY <1>3, <2>1 DEF IInv, Asked
  <2>  QED BY <1>1, <2>2
<1>  QED BY <1>1, <1>2, <1>3

LEMMA FinalFacts ==
  ASSUME IInv, NEW l \in Lists, NEW r \in DOMAIN final[l]
  PROVE  /\ pc[l] = "recording" /\ RefersTo(l, r) /\ r \in alive /\ r \in Resources
         /\ r \in DOMAIN global
         /\ final[l][r] \in StatesOf(r) /\ global[r] \in StatesOf(r)
<1>1. pc[l] = "recording"
  BY DEF IInv, Phases
<1>2. RefersTo(l, r)
  BY <1>1 DEF IInv, Asked
<1>3. r \in alive
  BY <1>2 DEF IInv, References, RefersTo
<1>  QED BY <1>1, <1>2, <1>3 DEF IInv, Types

\* The parts of a list that is left alone.
LEMMA ListKept ==
  ASSUME NEW l \in Lists,
         pending'[l] = pending[l], barriers'[l] = barriers[l], commands'[l] = commands[l],
         before'[l] = before[l], final'[l] = final[l], asked'[l] = asked[l]
  PROVE  /\ Own(l)' = Own(l)
         /\ \A r : RefersTo(l, r)' <=> RefersTo(l, r)
         /\ Refer(l, pending[l]) => Refer(l, pending[l])'
         /\ Refer(l, Own(l)) => Refer(l, Own(l))'
         /\ Refer(l, before[l]) => Refer(l, before[l])'
         /\ Asked(l) => Asked(l)'
         /\ Pending(l) => Pending(l)'
         /\ RecordedFits(l) => RecordedFits(l)'
<1>1. Own(l)' = Own(l)
  BY DEF Own
<1>2. \A r : RefersTo(l, r)' <=> RefersTo(l, r)
  BY DEF RefersTo
<1>3. /\ Refer(l, pending[l]) => Refer(l, pending[l])'
      /\ Refer(l, before[l]) => Refer(l, before[l])'
  BY <1>2 DEF Refer
<1>4. Refer(l, Own(l)) => Refer(l, Own(l))'
  BY <1>1, <1>2 DEF Refer
<1>5. Asked(l) => Asked(l)'
  BY <1>2 DEF Asked
<1>6. Pending(l) => Pending(l)'
  BY DEF Pending
<1>7. RecordedFits(l) => RecordedFits(l)'
  <2>1. \A r, i, s : Starts(l, r, i, s)' <=> Starts(l, r, i, s)
    BY DEF Starts
  <2>  QED BY <1>1, <2>1 DEF RecordedFits
<1>  QED BY <1>1, <1>2, <1>3, <1>4, <1>5, <1>6, <1>7

-----------------------------------------------------------------------------
(* The invariant is kept.                                                  *)

LEMMA InitInv == TrackerAssumption /\ Init => IInv
<1> SUFFICES ASSUME TrackerAssumption, Init PROVE IInv
  OBVIOUS
<1>1. \A S : <<>> \in Seq(S) /\ Len(<<>>) = 0
  BY EmptySeq
<1>2. Types
  <2>1. \A r \in Resources : actual[r] \in [Subs(r) -> States]
    BY DEF Init, TrackerAssumption
  <2>  QED BY <1>1, <2>1 DEF Init, Types
<1>3. Phases
  BY DEF Init, Phases, TrackerAssumption
<1>4. \A l \in Lists : /\ pending[l] = <<>> /\ before[l] = <<>> /\ asked[l] = {}
                       /\ Len(Own(l)) = 0 /\ pc[l] = "idle" /\ DOMAIN final[l] = {}
  <2>1. \A l \in Lists : commands[l] = <<>> /\ barriers[l] = <<>>
    BY DEF Init
  <2>2. Len(<<>> \o <<>>) = 0
    BY <1>1, ConcatProperties
  <2>  QED BY <2>1, <2>2 DEF Init, Own
<1>5. References
  BY <1>1, <1>4 DEF References, Refer, Init
<1>6. ChainsOnce
  BY <1>4 DEF ChainsOnce, RefersTo
<1>7. QueueFits
  BY DEF Init, QueueFits
<1>  QED BY <1>2, <1>3, <1>4, <1>5, <1>6, <1>7 DEF IInv

LEMMA AddInv ==
  ASSUME TrackerAssumption, IInv, NEW r \in Resources, NEW s \in States,
         AddGlobalResourceState(r, s)
  PROVE  IInv'
<1>1. /\ owner = NoList /\ r \notin alive /\ (r \in Chains => s = Common)
      /\ alive' = alive \cup {r}
      /\ global' = Put(global, r, SetSubresourceState(Of(global, r), All, s))
      /\ actual' = [actual EXCEPT ![r] = [i \in Subs(r) |-> s]]
      /\ UNCHANGED <<pending, barriers, final, commands, before, asked, pc, owner, gpu>>
  BY DEF AddGlobalResourceState, CanLock, trackerVars, listVars
<1>2. /\ DOMAIN global' = DOMAIN global \cup {r}
      /\ global'[r] = ResourceState(s)
      /\ \A q \in DOMAIN global : q # r => global'[q] = global[q]
  <2>1. SetSubresourceState(Of(global, r), All, s) = ResourceState(s)
    BY DEF SetSubresourceState
  <2>  QED BY <1>1, <2>1 DEF Put
<1>3. /\ ResourceState(s) \in StatesOf(r)
      /\ \A i : GetSubresourceState(ResourceState(s), i) = s
  BY <1>1, WholeFacts
<1>4. /\ \A q \in Resources : q # r => actual'[q] = actual[q]
      /\ actual'[r] = [i \in Subs(r) |-> s] /\ DOMAIN actual' = Resources
  BY <1>1 DEF IInv, Types
<1>5. Types'
  <2>1. ASSUME NEW q \in Resources PROVE actual'[q] \in [Subs(q) -> States]
    <3>1. CASE q = r
      <4>1. [i \in Subs(r) |-> s] \in [Subs(r) -> States]
        OBVIOUS
      <4>  QED BY <1>4, <3>1, <4>1
    <3>2. CASE q # r
      <4>1. actual[q] \in [Subs(q) -> States]
        BY DEF IInv, Types
      <4>  QED BY <1>4, <3>2, <4>1
    <3>  QED BY <3>1, <3>2
  <2>2. /\ DOMAIN global' \subseteq Resources /\ alive' \subseteq DOMAIN global'
        /\ \A q \in DOMAIN global' : global'[q] \in StatesOf(q)
    BY <1>1, <1>2, <1>3 DEF IInv, Types
  <2>  QED BY <1>1, <1>4, <2>1, <2>2 DEF IInv, Types
<1>6. Phases'
  BY <1>1 DEF IInv, Phases
<1>7. \A l \in Lists : /\ \A q : RefersTo(l, q)' <=> RefersTo(l, q)
                       /\ Refer(l, pending[l])' /\ Refer(l, Own(l))' /\ Refer(l, before[l])'
                       /\ pc[l]' = "recording" => Asked(l)' /\ Pending(l)' /\ RecordedFits(l)'
  BY <1>1, ListKept DEF IInv, References
<1>8. References'
  BY <1>1, <1>7 DEF IInv, References
<1>9. ChainsOnce'
  <2>1. ASSUME NEW q \in Chains, NEW l \in Lists, q \in DOMAIN final[l]
        PROVE  q # r /\ q \in DOMAIN global
    BY <1>1, <2>1, FinalFacts
  <2>  QED BY <1>1, <1>2, <1>7, <2>1 DEF IInv, ChainsOnce
<1>10. QueueFits'
  <2>1. Todo = gpu /\ Todo' = gpu
    BY <1>1 DEF Todo
  <2> SUFFICES ASSUME NEW q \in alive', NEW i \in Subs(q)
               PROVE  Brings(gpu, q, i, actual'[q][i], GetSubresourceState(global'[q], i))
    BY <2>1 DEF QueueFits
  <2>2. CASE q = r
    <3>1. \A j \in 1..Len(gpu) : ~Mentions(gpu[j], r)
      BY <1>1, Unmentioned
    <3>2. actual'[q][i] = s /\ GetSubresourceState(global'[q], i) = s
      BY <1>2, <1>3, <1>4, <2>2
    <3>  QED BY <2>2, <3>1, <3>2, BringsOther
  <2>3. CASE q # r
    <3>1. q \in alive /\ q \in DOMAIN global /\ q \in Resources
      BY <1>1, <2>3 DEF IInv, Types
    <3>  QED BY <1>2, <1>4, <2>1, <2>3, <3>1 DEF IInv, QueueFits
  <2>  QED BY <2>2, <2>3
<1>  QED BY <1>5, <1>6, <1>7, <1>8, <1>9, <1>10 DEF IInv

LEMMA DestroyInv ==
  ASSUME TrackerAssumption, IInv, NEW r \in Resources, Destroy(r)
  PROVE  IInv'
<1>1. /\ \A l \in Lists : ~RefersTo(l, r)
      /\ alive' = alive \ {r}
      /\ UNCHANGED <<global, pending, barriers, final, commands, before, asked, pc, owner, gpu,
                     actual>>
  BY DEF Destroy, trackerVars, listVars, gpuVars
<1>2. Types'
  <2>1. alive' \subseteq DOMAIN global'
    BY <1>1 DEF IInv, Types
  <2>  QED BY <1>1, <2>1 DEF IInv, Types
<1>3. Phases'
  BY <1>1 DEF IInv, Phases
<1>4. \A l \in Lists : /\ \A q : RefersTo(l, q)' <=> RefersTo(l, q)
                       /\ Refer(l, pending[l])' /\ Refer(l, Own(l))' /\ Refer(l, before[l])'
                       /\ pc[l]' = "recording" => Asked(l)' /\ Pending(l)' /\ RecordedFits(l)'
  BY <1>1, ListKept DEF IInv, References
<1>5. References'
  <2>1. \A l \in Lists : \A a \in asked[l] : a.resource \in alive'
    BY <1>1 DEF IInv, References, RefersTo
  <2>  QED BY <1>1, <1>4, <2>1 DEF IInv, References
<1>6. ChainsOnce'
  BY <1>1, <1>4 DEF IInv, ChainsOnce
<1>7. QueueFits'
  <2>1. Todo' = Todo
    BY <1>1 DEF Todo
  <2>  QED BY <1>1, <2>1 DEF IInv, QueueFits
<1>  QED BY <1>2, <1>3, <1>4, <1>5, <1>6, <1>7 DEF IInv

\* The steps that change only what is about the one list l, which is not being
\* executed.
LEMMA OneList ==
  ASSUME TrackerAssumption, IInv, NEW l \in Lists,
         UNCHANGED <<global, alive, gpu, actual, owner>>, owner # l, Types',
         \A k \in Lists \ {l} : /\ pending'[k] = pending[k] /\ barriers'[k] = barriers[k]
                                /\ commands'[k] = commands[k] /\ before'[k] = before[k]
                                /\ final'[k] = final[k] /\ asked'[k] = asked[k]
                                /\ pc'[k] = pc[k],
         Phases',
         \A a \in asked'[l] : a.resource \in alive,
         Refer(l, pending[l])', Refer(l, Own(l))', Refer(l, before[l])',
         \A r : RefersTo(l, r) => RefersTo(l, r)',
         pc'[l] = "recording" => Asked(l)' /\ Pending(l)' /\ RecordedFits(l)',
         \A r \in Chains : /\ r \in DOMAIN final'[l] => global[r].sub = Empty
                           /\ \A k \in Lists \ {l} : ~(RefersTo(l, r)' /\ RefersTo(k, r))
  PROVE  IInv'
<1>1. \A k \in Lists \ {l} :
        /\ \A r : RefersTo(k, r)' <=> RefersTo(k, r)
        /\ Refer(k, pending[k])' /\ Refer(k, Own(k))' /\ Refer(k, before[k])'
        /\ pc[k]' = "recording" => Asked(k)' /\ Pending(k)' /\ RecordedFits(k)'
  BY ListKept DEF IInv, References
<1>2. References'
  <2>1. \A k \in Lists : \A r : RefersTo(k, r) => RefersTo(k, r)'
    BY <1>1
  <2>2. \A k \in Lists : \A a \in asked'[k] : a.resource \in alive'
    BY DEF IInv, References
  <2>3. \A k \in Lists : Refer(k, pending[k])' /\ Refer(k, Own(k))' /\ Refer(k, before[k])'
    BY <1>1
  <2>4. \A j \in 1..Len(gpu) : \A r \in Resources : Mentions(gpu[j], r) =>
          \E m \in 1..Len(gpu), k \in Lists :
            j < m /\ gpu[m] = [op |-> "signal", list |-> k] /\ RefersTo(k, r)'
    BY <2>1 DEF IInv, References
  <2>  QED BY <2>2, <2>3, <2>4 DEF References
<1>3. ChainsOnce'
  <2>1. ASSUME NEW r \in Chains, NEW k \in Lists, r \in DOMAIN final'[k]
        PROVE  global'[r].sub = Empty
    BY <2>1 DEF IInv, ChainsOnce
  <2>2. ASSUME NEW r \in Chains, NEW k \in Lists, NEW m \in Lists,
               RefersTo(k, r)', RefersTo(m, r)'
        PROVE  m = k
    BY <1>1, <2>2 DEF IInv, ChainsOnce
  <2>  QED BY <2>1, <2>2 DEF ChainsOnce
<1>4. QueueFits'
  <2>1. Todo' = Todo
    <3>1. owner # NoList => owner \in Lists \ {l}
      BY DEF IInv, Types
    <3>  QED BY <3>1 DEF Todo
  <2>  QED BY <2>1 DEF IInv, QueueFits
<1>5. \A k \in Lists : pc[k]' = "recording" => Asked(k)' /\ Pending(k)' /\ RecordedFits(k)'
  BY <1>1
<1>  QED BY <1>2, <1>3, <1>4, <1>5 DEF IInv

LEMMA BeginInv ==
  ASSUME TrackerAssumption, IInv, NEW l \in Lists, BeginRecording(l)
  PROVE  IInv'
<1>1. /\ pc[l] = "idle" /\ pc' = [pc EXCEPT ![l] = "recording"]
      /\ UNCHANGED <<global, pending, barriers, final, commands, before, asked, owner, alive, gpu,
                     actual>>
  BY DEF BeginRecording, trackerVars, gpuVars
<1>2. /\ owner # l /\ asked[l] = {} /\ pending[l] = <<>> /\ DOMAIN final[l] = {}
      /\ before[l] = <<>>
      /\ pc'[l] = "recording" /\ \A k \in Lists \ {l} : pc'[k] = pc[k]
  BY <1>1 DEF IInv, Phases, Types
<1>3. Types'
  BY <1>1 DEF IInv, Types
<1>4. Phases'
  BY <1>1, <1>2 DEF IInv, Phases
<1>5. /\ Refer(l, pending[l])' /\ Refer(l, Own(l))' /\ Refer(l, before[l])'
      /\ \A r : RefersTo(l, r)' <=> RefersTo(l, r)
  BY <1>1, ListKept DEF IInv, References
<1>6. Asked(l)' /\ Pending(l)' /\ RecordedFits(l)'
  <2>1. Len(pending'[l]) = 0
    BY <1>1, <1>2, EmptySeq
  <2>  QED BY <1>1, <1>2, <2>1 DEF Asked, Pending, RecordedFits
<1>7. \A r : ~RefersTo(l, r)'
  BY <1>1, <1>2 DEF RefersTo
<1>  QED BY <1>1, <1>2, <1>3, <1>4, <1>5, <1>6, <1>7, OneList

\* What a list has asked for, when it asks for one more part.
LEMMA AskFacts ==
  ASSUME TrackerAssumption, NEW A \in SUBSET AllAsks, NEW r \in Resources,
         NEW i \in Subs(r) \cup {All}, NEW s \in States
  PROVE  /\ Ask(A, r, i, s) \in SUBSET AllAsks
         /\ \A a \in Ask(A, r, i, s) :
              \/ a \in A /\ (a.resource # r \/ a.sub \notin Part(r, i))
              \/ a.resource = r /\ a.sub \in Part(r, i) /\ a.state = s
         /\ \A q : (\E a \in A : a.resource = q) => \E a \in Ask(A, r, i, s) : a.resource = q
         /\ \E a \in Ask(A, r, i, s) : a.resource = r
<1> DEFINE Kept == {a \in A : a.resource # r \/ a.sub \notin Part(r, i)}
           New == [resource : {r}, sub : Part(r, i), state : {s}]
<1>1. Ask(A, r, i, s) = Kept \cup New
  BY DEF Ask
<1>2. Part(r, i) \subseteq Subs(r) /\ Part(r, i) # {}
  BY PartFacts
<1>3. New \subseteq AllAsks
  <2>1. New \subseteq AsksOf(r)
    BY <1>2 DEF AsksOf
  <2>  QED BY <2>1 DEF AllAsks
<1>4. \A a \in New : a.resource = r /\ a.sub \in Part(r, i) /\ a.state = s
  OBVIOUS
<1>5. \E a \in New : a.resource = r
  <2>1. PICK k \in Part(r, i) : TRUE
    BY <1>2
  <2>2. [resource |-> r, sub |-> k, state |-> s] \in New
    BY <2>1
  <2>  QED BY <2>2
<1> HIDE DEF New
<1>6. ASSUME NEW q, NEW a \in A, a.resource = q PROVE \E c \in Kept \cup New : c.resource = q
  <2>1. CASE q = r
    BY <1>5, <2>1
  <2>2. CASE q # r
    BY <1>6, <2>2
  <2>  QED BY <2>1, <2>2
<1>  QED BY <1>1, <1>3, <1>4, <1>5, <1>6

LEMMA BarrierInv ==
  ASSUME TrackerAssumption, IInv, NEW l \in Lists, NEW r \in Resources, NEW s \in States,
         NEW i \in Subs(r) \cup {All}, ResourceBarrier(l, r, i, s)
  PROVE  IInv'
<1> DEFINE known == r \in DOMAIN final[l]
           old == Of(final[l], r)
           new == SetSubresourceState(old, i, s)
           D == Barriers(final[l][r], r, i, s)
           b == Barrier(r, i, Common, s)
<1>1. /\ pc[l] = "recording" /\ r \in alive /\ MayAsk(l, r, i)
      /\ known => /\ barriers' = [barriers EXCEPT ![l] = @ \o SetToSeq(D)]
                  /\ pending' = pending
      /\ ~known => /\ pending' = [pending EXCEPT ![l] = Append(@, b)]
                   /\ barriers' = barriers
      /\ final' = [final EXCEPT ![l] = Put(@, r, SetSubresourceState(Of(@, r), i, s))]
      /\ asked' = [asked EXCEPT ![l] = Ask(@, r, i, s)]
      /\ UNCHANGED <<global, commands, before, pc, owner, alive, gpu, actual>>
  BY DEF ResourceBarrier, gpuVars
<1>2. May(r, i)
  BY <1>1 DEF May, MayAsk
<1>3. /\ pending[l] \in Seq(AllBarriers) /\ barriers[l] \in Seq(AllBarriers)
      /\ commands[l] \in Seq(Commands) /\ barriers[l] \in Seq(Commands)
      /\ Own(l) \in Seq(Commands) /\ asked[l] \in SUBSET AllAsks
  BY ListTypes DEF IInv
<1>4. Asked(l) /\ Pending(l) /\ RecordedFits(l) /\ owner # l /\ before[l] = <<>>
  BY <1>1 DEF IInv, Phases
<1>5. /\ old \in StatesOf(r)
      /\ known => old = final[l][r]
      /\ ~known => \A k : GetSubresourceState(old, k) = Common
  <2>1. CASE known
    BY <2>1 DEF Of, IInv, Types
  <2>2. CASE ~known
    <3>1. Common \in States
      BY DEF TrackerAssumption
    <3>2. old = ResourceState(Common)
      BY <2>2 DEF Of
    <3>  QED BY <2>2, <3>1, <3>2, WholeFacts
  <2>  QED BY <2>1, <2>2
<1>6. /\ new \in StatesOf(r)
      /\ \A k \in Subs(r) : GetSubresourceState(new, k) =
           IF k \in Part(r, i) THEN s ELSE GetSubresourceState(old, k)
  BY <1>2, <1>5, SetFacts
<1>7. /\ DOMAIN final' = Lists
      /\ DOMAIN final'[l] = {r} \cup DOMAIN final[l]
      /\ final'[l][r] = new
      /\ \A q \in DOMAIN final[l] : q # r => final'[l][q] = final[l][q]
      /\ \A m \in Lists \ {l} : final'[m] = final[m]
  <2>1. DOMAIN final = Lists
    BY DEF IInv, Types
  <2>2. final'[l] = Put(final[l], r, new) /\ \A m \in Lists \ {l} : final'[m] = final[m]
    BY <1>1, <2>1
  <2>3. /\ DOMAIN Put(final[l], r, new) = {r} \cup DOMAIN final[l]
        /\ Put(final[l], r, new)[r] = new
        /\ \A q \in DOMAIN final[l] : q # r => Put(final[l], r, new)[q] = final[l][q]
    BY DEF Put
  <2>4. DOMAIN final' = Lists
    BY <1>1, <2>1
  <2>  QED BY <2>2, <2>3, <2>4
<1>8. /\ known => IsFiniteSet(D) /\ D \subseteq BarriersOf(r)
      /\ known => \A c \in D, k \in Subs(r) : Touches(c, r, k) =>
           c.from = GetSubresourceState(old, k) /\ c.to = s /\ k \in Part(r, i)
      /\ known => \A c, d \in D, k \in Subs(r) : Touches(c, r, k) /\ Touches(d, r, k) => c = d
      /\ known => \A k \in Part(r, i) : GetSubresourceState(old, k) # s =>
                    \E c \in D : Touches(c, r, k)
  BY <1>2, <1>5, BarriersFacts
<1>9. b \in AllBarriers /\ (known => D \subseteq AllBarriers)
  <2>1. b \in BarriersOf(r)
    BY DEF Barrier, BarriersOf, TrackerAssumption
  <2>  QED BY <1>8, <2>1 DEF AllBarriers
<1>10. known => SetToSeq(D) \in Seq(AllBarriers) /\ SetToSeq(D) \in Seq(Commands)
                /\ \A j \in 1..Len(SetToSeq(D)) : SetToSeq(D)[j] \in D
  <2> SUFFICES ASSUME known PROVE SetToSeq(D) \in Seq(AllBarriers)
                                  /\ SetToSeq(D) \in Seq(Commands)
                                  /\ \A j \in 1..Len(SetToSeq(D)) : SetToSeq(D)[j] \in D
    OBVIOUS
  <2>1. SetToSeq(D) \in Seq(D) /\ \A j \in 1..Len(SetToSeq(D)) : SetToSeq(D)[j] \in D
    BY <1>8, SetToSeqFacts
  <2>2. D \subseteq AllBarriers /\ D \subseteq Commands
    BY <1>9 DEF Commands
  <2>  QED BY <2>1, <2>2, SeqMonotonic
<1> HIDE DEF D, b, new, old
<1>11. /\ pending'[l] = IF known THEN pending[l] ELSE Append(pending[l], b)
       /\ barriers'[l] = IF known THEN barriers[l] \o SetToSeq(D) ELSE barriers[l]
       /\ asked'[l] = Ask(asked[l], r, i, s)
       /\ \A k \in Lists \ {l} : /\ pending'[k] = pending[k] /\ barriers'[k] = barriers[k]
                                 /\ asked'[k] = asked[k]
  BY <1>1 DEF IInv, Types
<1>12. /\ asked'[l] \in SUBSET AllAsks
       /\ \A a \in asked'[l] :
            \/ a \in asked[l] /\ (a.resource # r \/ a.sub \notin Part(r, i))
            \/ a.resource = r /\ a.sub \in Part(r, i) /\ a.state = s
       /\ \A q : RefersTo(l, q) => RefersTo(l, q)'
       /\ RefersTo(l, r)'
  <2>1. PICK A \in SUBSET AllAsks : A = asked[l]
    BY <1>3
  <2>2. /\ Ask(A, r, i, s) \in SUBSET AllAsks
        /\ \A a \in Ask(A, r, i, s) :
             \/ a \in A /\ (a.resource # r \/ a.sub \notin Part(r, i))
             \/ a.resource = r /\ a.sub \in Part(r, i) /\ a.state = s
        /\ \A q : (\E a \in A : a.resource = q) =>
                  \E a \in Ask(A, r, i, s) : a.resource = q
        /\ \E a \in Ask(A, r, i, s) : a.resource = r
    BY AskFacts
  <2>3. asked'[l] = Ask(A, r, i, s)
    BY <1>11, <2>1
  <2>4. (\A q : RefersTo(l, q) => RefersTo(l, q)') /\ RefersTo(l, r)'
    BY <2>1, <2>2, <2>3 DEF RefersTo
  <2>  QED BY <2>1, <2>2, <2>3, <2>4
<1>13. Own(l)' = IF known THEN Own(l) \o SetToSeq(D) ELSE Own(l)
  <2>1. CASE known
    <3>1. PICK c \in Seq(Commands), d \in Seq(Commands), e \in Seq(Commands) :
            c = commands[l] /\ d = barriers[l] /\ e = SetToSeq(D)
      BY <1>3, <1>10, <2>1
    <3>2. Own(l)' = c \o (d \o e) /\ Own(l) = c \o d
      BY <1>1, <1>11, <2>1, <3>1 DEF Own
    <3>3. (c \o d) \o e = c \o (d \o e)
      BY Associative, SMTT(30)
    <3>  QED BY <2>1, <3>1, <3>2, <3>3
  <2>2. CASE ~known
    BY <1>1, <1>11, <2>2 DEF Own
  <2>  QED BY <2>1, <2>2
<1>14. Types'
  <2>1. pending' \in [Lists -> Seq(AllBarriers)]
    <3>1. pending \in [Lists -> Seq(AllBarriers)]
      BY DEF IInv, Types
    <3>2. known => pending' = pending
      BY <1>1
    <3>3. ~known => pending' = [pending EXCEPT ![l] = Append(pending[l], b)]
      BY <1>1, <3>1
    <3>4. Append(pending[l], b) \in Seq(AllBarriers)
      BY <1>3, <1>9, AppendProperties
    <3>  QED BY <3>1, <3>2, <3>3, <3>4
  <2>2. barriers' \in [Lists -> Seq(AllBarriers)]
    <3>1. barriers \in [Lists -> Seq(AllBarriers)]
      BY DEF IInv, Types
    <3>2. ~known => barriers' = barriers
      BY <1>1
    <3>3. known => barriers' = [barriers EXCEPT ![l] = barriers[l] \o SetToSeq(D)]
      BY <1>1, <3>1
    <3>4. known => barriers[l] \o SetToSeq(D) \in Seq(AllBarriers)
      BY <1>3, <1>10, ConcatProperties
    <3>  QED BY <3>1, <3>2, <3>3, <3>4
  <2>3. asked' \in [Lists -> SUBSET AllAsks]
    BY <1>1, <1>11, <1>12 DEF IInv, Types
  <2>4. \A m \in Lists : /\ DOMAIN final'[m] \subseteq Resources
                         /\ \A q \in DOMAIN final'[m] : final'[m][q] \in StatesOf(q)
    BY <1>6, <1>7 DEF IInv, Types
  <2>  QED BY <1>1, <1>7, <2>1, <2>2, <2>3, <2>4 DEF IInv, Types
<1>15. Phases'
  <2>1. \A k \in Lists \ {l} : DOMAIN final'[k] = DOMAIN final[k]
    BY <1>7
  <2>  QED BY <1>1, <1>11, <2>1 DEF IInv, Phases
<1>16. \A a \in asked'[l] : a.resource \in alive
  BY <1>1, <1>12 DEF IInv, References
<1>17. \A j \in 1..Len(Own(l)) : ~known => ~Mentions(Own(l)[j], r)
  <2> SUFFICES ASSUME NEW j \in 1..Len(Own(l)), Mentions(Own(l)[j], r) PROVE known
    OBVIOUS
  <2>1. RefersTo(l, r)
    BY DEF IInv, References, Refer
  <2>  QED BY <1>4, <2>1 DEF Asked, RefersTo
<1>18. Refer(l, pending[l])' /\ Refer(l, Own(l))' /\ Refer(l, before[l])'
  <2>1. Refer(l, pending[l]) /\ Refer(l, Own(l)) /\ Refer(l, before[l])
    BY DEF IInv, References
  <2>2. Refer(l, pending[l])'
    <3> SUFFICES ASSUME NEW j \in 1..Len(pending'[l]), NEW q \in Resources,
                        Mentions(pending'[l][j], q)
                 PROVE  RefersTo(l, q)'
      BY DEF Refer
    <3>1. CASE known
      BY <1>11, <1>12, <2>1, <3>1 DEF Refer
    <3>2. CASE ~known
      <4>1. /\ \A k \in 1..Len(pending[l]) : pending'[l][k] = pending[l][k]
            /\ pending'[l][Len(pending[l]) + 1] = b
            /\ j \in 1..Len(pending[l]) \/ j = Len(pending[l]) + 1
        BY <1>3, <1>9, <1>11, <3>2, AppendProperties
      <4>2. CASE j \in 1..Len(pending[l])
        BY <1>12, <2>1, <4>1, <4>2 DEF Refer
      <4>3. CASE j = Len(pending[l]) + 1
        BY <1>12, <4>1, <4>3, BarrierFacts DEF b
      <4>  QED BY <4>1, <4>2, <4>3
    <3>  QED BY <3>1, <3>2
  <2>3. Refer(l, Own(l))'
    <3> SUFFICES ASSUME NEW j \in 1..Len(Own(l)'), NEW q \in Resources,
                        Mentions(Own(l)'[j], q)
                 PROVE  RefersTo(l, q)'
      BY DEF Refer
    <3>1. CASE ~known
      BY <1>12, <1>13, <2>1, <3>1 DEF Refer
    <3>2. CASE known
      <4>1. \/ j \in 1..Len(Own(l)) /\ Own(l)'[j] = Own(l)[j]
            \/ \E k \in 1..Len(SetToSeq(D)) : Own(l)'[j] = SetToSeq(D)[k]
        BY <1>3, <1>10, <1>13, <3>2, ConcatFacts
      <4>2. CASE j \in 1..Len(Own(l)) /\ Own(l)'[j] = Own(l)[j]
        BY <1>12, <2>1, <4>2 DEF Refer
      <4>3. CASE \E k \in 1..Len(SetToSeq(D)) : Own(l)'[j] = SetToSeq(D)[k]
        <5>1. Own(l)'[j] \in BarriersOf(r)
          BY <1>8, <1>10, <3>2, <4>3
        <5>2. q = r
          BY <5>1 DEF BarriersOf, Mentions
        <5>  QED BY <1>12, <5>2
      <4>  QED BY <4>1, <4>2, <4>3
    <3>  QED BY <3>1, <3>2
  <2>4. Refer(l, before[l])'
    BY <1>1, <1>12, <2>1 DEF Refer
  <2>  QED BY <2>2, <2>3, <2>4
<1>19. Asked(l)'
  <2>1. \A q \in DOMAIN final'[l] : RefersTo(l, q)'
    BY <1>4, <1>7, <1>12 DEF Asked
  <2>2. ASSUME NEW a \in asked'[l]
        PROVE  /\ a.resource \in DOMAIN final'[l]
               /\ GetSubresourceState(final'[l][a.resource], a.sub) = a.state
    <3>1. CASE a.resource = r /\ a.sub \in Part(r, i) /\ a.state = s
      <4>1. a.sub \in Subs(r)
        BY <3>1, PartFacts
      <4>  QED BY <1>6, <1>7, <3>1, <4>1
    <3>2. CASE a \in asked[l] /\ (a.resource # r \/ a.sub \notin Part(r, i))
      <4>1. /\ a.resource \in DOMAIN final[l]
            /\ GetSubresourceState(final[l][a.resource], a.sub) = a.state
            /\ a.sub \in Subs(a.resource)
        BY <1>3, <1>4, <3>2, AskTypes DEF Asked
      <4>2. CASE a.resource # r
        BY <1>7, <4>1, <4>2
      <4>3. CASE a.resource = r
        BY <1>5, <1>6, <1>7, <3>2, <4>1, <4>3
      <4>  QED BY <4>2, <4>3
    <3>  QED BY <1>12, <3>1, <3>2
  <2>  QED BY <2>1, <2>2 DEF Asked
<1>20. Pending(l)'
  <2>1. CASE known
    <3>1. DOMAIN final'[l] = DOMAIN final[l] /\ pending'[l] = pending[l]
      BY <1>7, <1>11, <2>1
    <3>  QED BY <1>4, <3>1 DEF Pending
  <2>2. CASE ~known
    <3> DEFINE n == Len(pending[l])
    <3>1. /\ \A k \in 1..n : pending'[l][k] = pending[l][k]
          /\ pending'[l][n + 1] = b
          /\ 1..Len(pending'[l]) = 1..n \cup {n + 1}
      BY <1>3, <1>9, <1>11, <2>2, AppendProperties
    <3>2. b.resource = r /\ b.sub = i
      BY BarrierFacts DEF b
    <3>3. \A k \in 1..n : pending[l][k].resource # r
      BY <1>4, <2>2 DEF Pending
    <3> HIDE DEF n
    <3>4. \A j, k \in 1..Len(pending'[l]) :
            pending'[l][j].resource = pending'[l][k].resource => j = k
      <4>1. \A j, k \in 1..n : pending[l][j].resource = pending[l][k].resource => j = k
        BY <1>4 DEF Pending, n
      <4>  QED BY <3>1, <3>2, <3>3, <4>1
    <3>5. \A j \in 1..Len(pending'[l]) : /\ pending'[l][j].resource \in DOMAIN final'[l]
                                         /\ May(pending'[l][j].resource, pending'[l][j].sub)
      <4>1. \A j \in 1..n : /\ pending[l][j].resource \in DOMAIN final[l]
                            /\ May(pending[l][j].resource, pending[l][j].sub)
        BY <1>4 DEF Pending, n
      <4>  QED BY <1>2, <1>7, <3>1, <3>2, <4>1
    <3>6. \A q \in DOMAIN final'[l] : \E j \in 1..Len(pending'[l]) : pending'[l][j].resource = q
      <4>1. \A q \in DOMAIN final[l] : \E j \in 1..n : pending[l][j].resource = q
        BY <1>4 DEF Pending, n
      <4>  QED BY <1>7, <3>1, <3>2, <4>1
    <3>  QED BY <3>4, <3>5, <3>6 DEF Pending
  <2>  QED BY <2>1, <2>2
<1>21. RecordedFits(l)'
  <2> SUFFICES ASSUME NEW q \in DOMAIN final'[l], NEW k \in Subs(q), NEW t \in States,
                      Starts(l, q, k, t)'
               PROVE  Brings(Own(l)', q, k, t, GetSubresourceState(final'[l][q], k))
    BY DEF RecordedFits
  <2>1. CASE known
    <3>1. q \in DOMAIN final[l] /\ Starts(l, q, k, t) /\ Own(l)' = Own(l) \o SetToSeq(D)
      BY <1>7, <1>11, <1>13, <2>1 DEF Starts
    <3>2. Brings(Own(l), q, k, t, GetSubresourceState(final[l][q], k))
      BY <1>4, <3>1 DEF RecordedFits
    <3>3. Brings(SetToSeq(D), q, k, GetSubresourceState(final[l][q], k),
                 GetSubresourceState(final'[l][q], k))
      <4>1. CASE q # r
        <5>1. \A c \in D : ~Mentions(c, q)
          BY <1>8, <2>1, <4>1 DEF BarriersOf, Mentions
        <5>2. GetSubresourceState(final'[l][q], k) = GetSubresourceState(final[l][q], k)
          BY <1>7, <3>1, <4>1
        <5>  QED BY <1>10, <2>1, <5>1, <5>2, BringsOther
      <4>2. CASE q = r
        <5> DEFINE u == GetSubresourceState(old, k)
                   v == GetSubresourceState(new, k)
        <5>1. v = IF k \in Part(r, i) THEN s ELSE u
          BY <1>6, <4>2
        <5> HIDE DEF u, v
        <5>2. \A c \in D : c.op = "barrier"
          BY <1>8, <2>1 DEF BarriersOf
        <5>3. \A c \in D : Touches(c, r, k) => c.from = u /\ c.to = v
          BY <1>8, <2>1, <4>2, <5>1 DEF u
        <5>4. \A c, d \in D : Touches(c, r, k) /\ Touches(d, r, k) => c = d
          BY <1>8, <2>1, <4>2
        <5>5. u = v \/ \E c \in D : Touches(c, r, k)
          BY <1>8, <2>1, <4>2, <5>1 DEF u
        <5>6. Brings(SetToSeq(D), r, k, u, v)
          BY <1>8, <2>1, <5>2, <5>3, <5>4, <5>5, BringsBatch
        <5>7. final[l][q] = old /\ final'[l][q] = new
          BY <1>5, <1>7, <2>1, <4>2
        <5>  QED BY <4>2, <5>6, <5>7 DEF u, v
      <4>  QED BY <4>1, <4>2
    <3>  QED BY <1>3, <1>10, <2>1, <3>1, <3>2, <3>3, BringsConcat
  <2>2. CASE ~known
    <3>1. Own(l)' = Own(l)
      BY <1>13, <2>2
    <3>2. /\ \A j \in 1..Len(pending[l]) : pending'[l][j] = pending[l][j]
          /\ pending'[l][Len(pending[l]) + 1] = b
          /\ 1..Len(pending'[l]) = 1..Len(pending[l]) \cup {Len(pending[l]) + 1}
      BY <1>3, <1>9, <1>11, <2>2, AppendProperties
    <3>3. /\ \A p, m : Touches(b, p, m) <=> p = r /\ m \in Part(r, i)
          /\ b.to = s
      BY BarrierFacts DEF b
    <3>4. CASE q # r
      <4>1. q \in DOMAIN final[l] /\ final'[l][q] = final[l][q]
        BY <1>7, <3>4
      <4>2. Starts(l, q, k, t)
        BY <3>2, <3>3, <3>4 DEF Starts
      <4>  QED BY <1>4, <3>1, <4>1, <4>2 DEF RecordedFits
    <3>5. CASE q = r
      <4>1. \A j \in 1..Len(pending[l]) : ~Touches(pending[l][j], r, k)
        <5>1. \A j \in 1..Len(pending[l]) : pending[l][j].resource # r
          BY <1>4, <2>2 DEF Pending
        <5>  QED BY <5>1 DEF Touches
      <4>2. GetSubresourceState(new, k) = IF k \in Part(r, i) THEN s ELSE Common
        BY <1>5, <1>6, <2>2, <3>5
      <4>3. t = GetSubresourceState(new, k)
        <5>1. ASSUME NEW j \in 1..Len(pending'[l]), Touches(pending'[l][j], r, k),
                     t = pending'[l][j].to
              PROVE  t = s /\ k \in Part(r, i)
          <6>1. j = Len(pending[l]) + 1
            BY <3>2, <4>1, <5>1
          <6>  QED BY <3>2, <3>3, <5>1, <6>1
        <5>2. ASSUME t = Common, \A j \in 1..Len(pending'[l]) : ~Touches(pending'[l][j], r, k)
              PROVE  t = Common /\ k \notin Part(r, i)
          <6>1. ~Touches(b, r, k)
            BY <3>2, <5>2
          <6>  QED BY <3>3, <5>2, <6>1
        <5>3. \/ \E j \in 1..Len(pending'[l]) :
                   Touches(pending'[l][j], r, k) /\ t = pending'[l][j].to
              \/ /\ t = Common
                 /\ \A j \in 1..Len(pending'[l]) : ~Touches(pending'[l][j], r, k)
          BY <3>5 DEF Starts
        <5>  QED BY <4>2, <5>1, <5>2, <5>3
      <4>4. final'[l][q] = new
        BY <1>7, <3>5
      <4>  QED BY <1>17, <2>2, <3>1, <3>5, <4>3, <4>4, BringsOther
    <3>  QED BY <3>4, <3>5
  <2>  QED BY <2>1, <2>2
<1>22. ASSUME NEW q \in Chains
       PROVE  /\ q \in DOMAIN final'[l] => global[q].sub = Empty
              /\ \A k \in Lists \ {l} : ~(RefersTo(l, q)' /\ RefersTo(k, q))
  <2>1. CASE q = r
    BY <1>1, <1>7, <2>1 DEF MayAsk
  <2>2. CASE q # r
    <3>1. RefersTo(l, q)' => RefersTo(l, q)
      BY <1>12, <2>2 DEF RefersTo
    <3>2. q \in DOMAIN final'[l] => q \in DOMAIN final[l]
      BY <1>7, <2>2
    <3>  QED BY <3>1, <3>2 DEF IInv, ChainsOnce
  <2>  QED BY <2>1, <2>2
<1>  QED BY <1>1, <1>4, <1>7, <1>11, <1>12, <1>14, <1>15, <1>16, <1>18, <1>19, <1>20, <1>21,
            <1>22, OneList

LEMMA UseInv ==
  ASSUME TrackerAssumption, IInv, NEW l \in Lists, Use(l)
  PROVE  IInv'
<1> DEFINE u == Command(l)
<1>1. /\ pc[l] = "recording"
      /\ commands' = [commands EXCEPT ![l] = @ \o Append(barriers[l], u)]
      /\ barriers' = [barriers EXCEPT ![l] = <<>>]
      /\ UNCHANGED <<global, pending, final, before, asked, pc, owner, alive, gpu, actual>>
  BY DEF Use, Flushed, gpuVars
<1>2. /\ pending[l] \in Seq(AllBarriers) /\ barriers[l] \in Seq(AllBarriers)
      /\ commands[l] \in Seq(Commands) /\ barriers[l] \in Seq(Commands)
      /\ Own(l) \in Seq(Commands) /\ asked[l] \in SUBSET AllAsks
  BY ListTypes DEF IInv
<1>3. Asked(l) /\ Pending(l) /\ RecordedFits(l) /\ owner # l /\ before[l] = <<>>
  BY <1>1 DEF IInv, Phases
<1>4. u \in Commands /\ u.op = "use" /\ u.asked = asked[l]
  BY <1>2 DEF Command, Commands
<1> HIDE DEF u
<1>5. /\ commands'[l] = commands[l] \o Append(barriers[l], u)
      /\ barriers'[l] = <<>>
      /\ \A k \in Lists \ {l} : commands'[k] = commands[k] /\ barriers'[k] = barriers[k]
  BY <1>1 DEF IInv, Types
<1>6. /\ commands'[l] \in Seq(Commands)
      /\ Own(l)' = Own(l) \o <<u>> /\ <<u>> \in Seq(Commands)
  <2>1. PICK c \in Seq(Commands), d \in Seq(Commands), e \in Seq(Commands) :
          c = commands[l] /\ d = barriers[l] /\ e = <<u>>
    <3>1. <<u>> \in Seq(Commands)
      BY <1>4
    <3>  QED BY <1>2, <3>1
  <2>2. Append(d, u) = d \o e
    BY <1>4, <2>1, AppendIsConcat
  <2>3. commands'[l] = c \o (d \o e)
    BY <1>5, <2>1, <2>2
  <2>4. d \o e \in Seq(Commands) /\ c \o (d \o e) \in Seq(Commands)
    BY ConcatProperties
  <2>5. Own(l)' = c \o (d \o e)
    <3>1. Own(l)' = (c \o (d \o e)) \o <<>>
      BY <1>5, <2>3 DEF Own
    <3>  QED BY <2>4, <3>1, ConcatEmptySeq
  <2>6. (c \o d) \o e = c \o (d \o e)
    BY Associative, SMTT(30)
  <2>  QED BY <2>1, <2>3, <2>4, <2>5, <2>6 DEF Own
<1>7. Len(<<u>>) = 1 /\ <<u>>[1] = u
  OBVIOUS
<1>8. \A q : RefersTo(l, q)' <=> RefersTo(l, q)
  BY <1>1 DEF RefersTo
<1>9. Types'
  <2>1. commands' \in [Lists -> Seq(Commands)]
    BY <1>1, <1>5, <1>6 DEF IInv, Types
  <2>2. barriers' \in [Lists -> Seq(AllBarriers)]
    <3>1. <<>> \in Seq(AllBarriers)
      BY EmptySeq
    <3>  QED BY <1>1, <3>1 DEF IInv, Types
  <2>  QED BY <1>1, <2>1, <2>2 DEF IInv, Types
<1>10. Phases'
  BY <1>1, <1>5 DEF IInv, Phases
<1>11. \A a \in asked'[l] : a.resource \in alive
  BY <1>1 DEF IInv, References
<1>12. Refer(l, pending[l])' /\ Refer(l, Own(l))' /\ Refer(l, before[l])'
  <2>1. Refer(l, pending[l]) /\ Refer(l, Own(l)) /\ Refer(l, before[l])
    BY DEF IInv, References
  <2>2. Refer(l, Own(l))'
    <3> SUFFICES ASSUME NEW j \in 1..Len(Own(l)'), NEW q \in Resources, Mentions(Own(l)'[j], q)
                 PROVE  RefersTo(l, q)
      BY <1>8 DEF Refer
    <3>1. \/ j \in 1..Len(Own(l)) /\ Own(l)'[j] = Own(l)[j]
          \/ Own(l)'[j] = u
      BY <1>2, <1>6, <1>7, ConcatFacts
    <3>2. CASE j \in 1..Len(Own(l)) /\ Own(l)'[j] = Own(l)[j]
      BY <2>1, <3>2 DEF Refer
    <3>3. CASE Own(l)'[j] = u
      BY <1>4, <3>3 DEF Mentions, RefersTo
    <3>  QED BY <3>1, <3>2, <3>3
  <2>  QED BY <1>1, <1>8, <2>1, <2>2 DEF Refer
<1>13. Asked(l)' /\ Pending(l)'
  BY <1>1, <1>3, <1>8 DEF Asked, Pending
<1>14. RecordedFits(l)'
  <2> SUFFICES ASSUME NEW q \in DOMAIN final[l], NEW k \in Subs(q), NEW t \in States,
                      Starts(l, q, k, t)
               PROVE  Brings(Own(l)', q, k, t, GetSubresourceState(final[l][q], k))
    <3>1. \A q, k, t : Starts(l, q, k, t)' <=> Starts(l, q, k, t)
      BY <1>1 DEF Starts
    <3>  QED BY <1>1, <3>1 DEF RecordedFits
  <2> DEFINE g == GetSubresourceState(final[l][q], k)
  <2>1. Brings(Own(l), q, k, t, g)
    BY <1>3 DEF RecordedFits
  <2>2. \A v : Needs(u, q, k, v) => v = g
    <3> SUFFICES ASSUME NEW v, Needs(u, q, k, v) PROVE v = g
      OBVIOUS
    <3>1. [resource |-> q, sub |-> k, state |-> v] \in asked[l]
      BY <1>4 DEF Needs, Touches
    <3>  QED BY <1>3, <3>1 DEF Asked
  <2>3. ~Touches(u, q, k)
    BY <1>4 DEF Touches
  <2> HIDE DEF g
  <2>4. Brings(<<u>>, q, k, g, g)
    <3>1. Leaves(<<u>>, 1, q, k, g, g)
      BY <1>7, <2>3 DEF Leaves
    <3>2. Leaves(<<u>>, 0, q, k, g, g)
      BY LeavesNothing
    <3>3. \A j \in 1..Len(<<u>>) : j = 1 /\ j - 1 = 0
      BY <1>7
    <3>4. Fits(<<u>>, q, k, g)
      BY <1>7, <2>2, <3>2, <3>3 DEF Fits
    <3>  QED BY <1>7, <3>1, <3>4 DEF Brings
  <2>5. Brings(Own(l) \o <<u>>, q, k, t, g)
    BY <1>2, <1>6, <2>1, <2>4, BringsConcat
  <2>  QED BY <1>6, <2>5 DEF g
<1>15. \A r \in Chains : /\ r \in DOMAIN final'[l] => global[r].sub = Empty
                         /\ \A k \in Lists \ {l} : ~(RefersTo(l, r)' /\ RefersTo(k, r))
  BY <1>1, <1>8 DEF IInv, ChainsOnce
<1>  QED BY <1>1, <1>3, <1>5, <1>8, <1>9, <1>10, <1>11, <1>12, <1>13, <1>14, <1>15, OneList

LEMMA ResetInv ==
  ASSUME TrackerAssumption, IInv, NEW l \in Lists, Reset(l)
  PROVE  IInv'
<1>1. /\ pc[l] = "inFlight"
      /\ [op |-> "signal", list |-> l] \notin Range(gpu)
      /\ pending' = [pending EXCEPT ![l] = <<>>]
      /\ barriers' = [barriers EXCEPT ![l] = <<>>]
      /\ final' = [final EXCEPT ![l] = [r \in {} |-> ResourceState(Common)]]
      /\ asked' = [asked EXCEPT ![l] = {}]
      /\ pc' = [pc EXCEPT ![l] = "idle"]
      /\ UNCHANGED <<global, commands, before, owner, alive, gpu, actual>>
  BY DEF Reset, gpuVars
<1>2. owner # l /\ before[l] = <<>> /\ commands[l] = <<>>
  BY <1>1 DEF IInv, Phases
<1>3. /\ pending'[l] = <<>> /\ barriers'[l] = <<>> /\ DOMAIN final'[l] = {} /\ asked'[l] = {}
      /\ pc'[l] = "idle" /\ DOMAIN final' = Lists
      /\ \A k \in Lists \ {l} : /\ pending'[k] = pending[k] /\ barriers'[k] = barriers[k]
                                /\ final'[k] = final[k] /\ asked'[k] = asked[k] /\ pc'[k] = pc[k]
  <2>1. \A q : q \in Lists => q \in DOMAIN final
    BY DEF IInv, Types
  <2>  QED BY <1>1, <2>1 DEF IInv, Types
<1>4. Types'
  <2>1. <<>> \in Seq(AllBarriers)
    BY EmptySeq
  <2>2. pending' \in [Lists -> Seq(AllBarriers)] /\ barriers' \in [Lists -> Seq(AllBarriers)]
    BY <1>1, <2>1 DEF IInv, Types
  <2>3. \A m \in Lists : /\ DOMAIN final'[m] \subseteq Resources
                         /\ \A q \in DOMAIN final'[m] : final'[m][q] \in StatesOf(q)
    BY <1>3 DEF IInv, Types
  <2>4. asked' \in [Lists -> SUBSET AllAsks]
    BY <1>1 DEF IInv, Types
  <2>5. pc' \in [Lists -> {"idle", "recording", "submit", "inFlight"}]
    BY <1>1 DEF IInv, Types
  <2>  QED BY <1>1, <1>3, <2>2, <2>3, <2>4, <2>5 DEF IInv, Types
<1>5. Phases'
  <2>1. \A k \in Lists \ {l} : DOMAIN final'[k] = DOMAIN final[k]
    BY <1>3
  <2>  QED BY <1>1, <1>2, <1>3, <2>1 DEF IInv, Phases
<1>6. \A k \in Lists \ {l} :
        /\ \A r : RefersTo(k, r)' <=> RefersTo(k, r)
        /\ Refer(k, pending[k])' /\ Refer(k, Own(k))' /\ Refer(k, before[k])'
        /\ pc[k]' = "recording" => Asked(k)' /\ Pending(k)' /\ RecordedFits(k)'
  BY <1>1, <1>3, ListKept DEF IInv, References
<1>7. /\ \A r : ~RefersTo(l, r)'
      /\ Refer(l, pending[l])' /\ Refer(l, Own(l))' /\ Refer(l, before[l])'
  <2>1. Len(<<>>) = 0 /\ <<>> \o <<>> = <<>>
    BY EmptySeq, ConcatEmptySeq
  <2>2. Own(l)' = <<>> /\ pending'[l] = <<>> /\ before'[l] = <<>>
    BY <1>1, <1>2, <1>3, <2>1 DEF Own
  <2>3. \A r : ~RefersTo(l, r)'
    BY <1>3 DEF RefersTo
  <2>  QED BY <2>1, <2>2, <2>3 DEF Refer
<1>8. References'
  <2>1. \A k \in Lists : \A a \in asked'[k] : a.resource \in alive'
    BY <1>1, <1>3 DEF IInv, References
  <2>2. ASSUME NEW j \in 1..Len(gpu), NEW r \in Resources, Mentions(gpu[j], r)
        PROVE  \E m \in 1..Len(gpu), k \in Lists :
                 j < m /\ gpu[m] = [op |-> "signal", list |-> k] /\ RefersTo(k, r)'
    <3>1. PICK m \in 1..Len(gpu), k \in Lists :
            j < m /\ gpu[m] = [op |-> "signal", list |-> k] /\ RefersTo(k, r)
      BY <2>2 DEF IInv, References
    <3>2. k # l
      <4>1. DOMAIN gpu = 1..Len(gpu)
        BY LenProperties DEF IInv, Types
      <4>  QED BY <1>1, <3>1, <4>1 DEF Range
    <3>  QED BY <1>6, <3>1, <3>2
  <2>  QED BY <1>1, <1>6, <1>7, <2>1, <2>2 DEF References
<1>9. ChainsOnce'
  <2>1. ASSUME NEW r \in Chains, NEW k \in Lists, r \in DOMAIN final'[k]
        PROVE  global'[r].sub = Empty
    BY <1>1, <1>3, <2>1 DEF IInv, ChainsOnce
  <2>2. ASSUME NEW r \in Chains, NEW k \in Lists, NEW m \in Lists,
               RefersTo(k, r)', RefersTo(m, r)'
        PROVE  m = k
    BY <1>6, <1>7, <2>2 DEF IInv, ChainsOnce
  <2>  QED BY <2>1, <2>2 DEF ChainsOnce
<1>10. QueueFits'
  <2>1. Todo' = Todo
    BY <1>1 DEF Todo
  <2>  QED BY <1>1, <2>1 DEF IInv, QueueFits
<1>11. \A k \in Lists : pc[k]' = "recording" => Asked(k)' /\ Pending(k)' /\ RecordedFits(k)'
  BY <1>3, <1>6
<1>  QED BY <1>4, <1>5, <1>8, <1>9, <1>10, <1>11 DEF IInv

\* The barriers in front of a list bring what it uses from the global states to
\* where its own commands start.
LEMMA PendingBrings ==
  ASSUME TrackerAssumption, IInv, NEW l \in Lists, pc[l] = "recording"
  PROVE  LET B == FlushPendingResourceBarriers(l) IN
         /\ B \in Seq(AllBarriers)
         /\ \A j \in 1..Len(B) : B[j].resource \in DOMAIN final[l]
         /\ \A r \in DOMAIN final[l] : \A i \in Subs(r) : \E s \in States :
              Starts(l, r, i, s) /\ Brings(B, r, i, GetSubresourceState(global[r], i), s)
<1> DEFINE P == {p \in Range(pending[l]) : p.resource \in DOMAIN global}
           f == [b \in P |-> Barriers(global[b.resource], b.resource, b.sub, b.to)]
           D == UNION {Barriers(global[b.resource], b.resource, b.sub, b.to) : b \in P}
<1>1. Asked(l) /\ Pending(l)
  BY DEF IInv
<1>2. /\ pending[l] \in Seq(AllBarriers)
      /\ \A j \in 1..Len(pending[l]) : pending[l][j] \in AllBarriers
      /\ DOMAIN pending[l] = 1..Len(pending[l]) /\ Len(pending[l]) \in Nat
      /\ pending[l] \in [1..Len(pending[l]) -> AllBarriers]
  <2>1. pending[l] \in Seq(AllBarriers)
        /\ \A j \in 1..Len(pending[l]) : pending[l][j] \in AllBarriers
    BY ListTypes DEF IInv
  <2>  QED BY <2>1, LenProperties
<1>3. /\ \A b \in P : \E j \in 1..Len(pending[l]) : b = pending[l][j]
      /\ \A j \in 1..Len(pending[l]) : pending[l][j] \in P
  <2>1. \A j \in 1..Len(pending[l]) : pending[l][j].resource \in DOMAIN global
    BY <1>1, FinalFacts DEF Pending
  <2>  QED BY <1>2, <2>1 DEF Range
<1>4. \A b \in P : /\ b \in AllBarriers /\ b.resource \in DOMAIN final[l]
                   /\ b.resource \in Resources /\ global[b.resource] \in StatesOf(b.resource)
                   /\ May(b.resource, b.sub) /\ b.to \in States
  <2> SUFFICES ASSUME NEW b \in P
               PROVE  /\ b \in AllBarriers /\ b.resource \in DOMAIN final[l]
                      /\ b.resource \in Resources /\ global[b.resource] \in StatesOf(b.resource)
                      /\ May(b.resource, b.sub) /\ b.to \in States
    OBVIOUS
  <2>1. PICK j \in 1..Len(pending[l]) : b = pending[l][j]
    BY <1>3
  <2>2. b \in AllBarriers /\ b.resource \in DOMAIN final[l] /\ May(b.resource, b.sub)
    BY <1>1, <1>2, <2>1 DEF Pending
  <2>  QED BY <2>2, FinalFacts, BarrierTypes
<1> HIDE DEF P
<1>5. \A b, c \in P : b.resource = c.resource => b = c
  <2> SUFFICES ASSUME NEW b \in P, NEW c \in P, b.resource = c.resource PROVE b = c
    OBVIOUS
  <2>1. PICK j \in 1..Len(pending[l]), k \in 1..Len(pending[l]) :
          b = pending[l][j] /\ c = pending[l][k]
    BY <1>3
  <2>2. j = k
    BY <1>1, <2>1 DEF Pending
  <2>  QED BY <2>1, <2>2
<1>6. \A b \in P :
        LET G == Barriers(global[b.resource], b.resource, b.sub, b.to) IN
        /\ IsFiniteSet(G) /\ G \subseteq BarriersOf(b.resource)
        /\ \A c \in G, k \in Subs(b.resource) : Touches(c, b.resource, k) =>
             /\ c.from = GetSubresourceState(global[b.resource], k)
             /\ c.to = b.to /\ k \in Part(b.resource, b.sub)
        /\ \A c, d \in G, k \in Subs(b.resource) :
             Touches(c, b.resource, k) /\ Touches(d, b.resource, k) => c = d
        /\ \A k \in Part(b.resource, b.sub) :
             GetSubresourceState(global[b.resource], k) # b.to =>
               \E c \in G : Touches(c, b.resource, k)
  BY <1>4, BarriersFacts
<1>7. \A c \in D : \E b \in P : c \in Barriers(global[b.resource], b.resource, b.sub, b.to)
  OBVIOUS
<1>8. \A b \in P : Barriers(global[b.resource], b.resource, b.sub, b.to) \subseteq D
  OBVIOUS
<1>9. IsFiniteSet(D)
  <2> DEFINE R == Range(f)
  <2>1. IsFiniteSet(P)
    <3>1. pending[l] \in Surjection(1..Len(pending[l]), Range(pending[l]))
      BY <1>2, Fun_RangeProperties
    <3>2. IsFiniteSet(1..Len(pending[l]))
      <4>1. 1 \in Int /\ Len(pending[l]) \in Int
        BY <1>2
      <4>  QED BY <4>1, FS_Interval
    <3>3. IsFiniteSet(Range(pending[l]))
      BY <3>1, <3>2, FS_Surjection
    <3>4. P \subseteq Range(pending[l])
      BY DEF P
    <3>  QED BY <3>3, <3>4, FS_Subset
  <2>2. DOMAIN f = P /\ f \in [P -> R]
    BY DEF Range
  <2>3. f \in Surjection(P, R)
    BY <2>2, Fun_RangeProperties DEF Range, Surjection
  <2>4. IsFiniteSet(R)
    <3> HIDE DEF f, R
    <3>  QED BY <2>1, <2>3, FS_Surjection
  <2>5. R = {Barriers(global[b.resource], b.resource, b.sub, b.to) : b \in P}
    BY DEF Range
  <2>6. \A G \in R : IsFiniteSet(G)
    BY <1>6, <2>5
  <2>7. IsFiniteSet(UNION R)
    <3> HIDE DEF R
    <3>  QED BY <2>4, <2>6, FS_UNION
  <2>  QED BY <2>5, <2>7
<1>10. \A c \in D : \E b \in P : c \in BarriersOf(b.resource)
  BY <1>6, <1>7
<1>11. FlushPendingResourceBarriers(l) = SetToSeq(D)
  BY DEF FlushPendingResourceBarriers, Resolve, P
<1> HIDE DEF D
<1>12. /\ SetToSeq(D) \in Seq(AllBarriers)
       /\ \A j \in 1..Len(SetToSeq(D)) : SetToSeq(D)[j] \in D
  <2>1. SetToSeq(D) \in Seq(D) /\ \A j \in 1..Len(SetToSeq(D)) : SetToSeq(D)[j] \in D
    BY <1>9, SetToSeqFacts
  <2>2. D \subseteq AllBarriers
    BY <1>4, <1>10 DEF AllBarriers
  <2>  QED BY <2>1, <2>2, SeqMonotonic
<1>13. \A j \in 1..Len(SetToSeq(D)) : SetToSeq(D)[j].resource \in DOMAIN final[l]
  BY <1>4, <1>10, <1>12 DEF BarriersOf
<1>14. ASSUME NEW r \in DOMAIN final[l], NEW i \in Subs(r)
       PROVE  \E s \in States :
                /\ Starts(l, r, i, s)
                /\ Brings(SetToSeq(D), r, i, GetSubresourceState(global[r], i), s)
  <2> DEFINE u == GetSubresourceState(global[r], i)
  <2>1. PICK b \in P : b.resource = r
    BY <1>1, <1>3 DEF Pending
  <2>2. PICK n \in 1..Len(pending[l]) : b = pending[l][n]
    BY <1>3
  <2> DEFINE G == Barriers(global[r], r, b.sub, b.to)
  <2>3. /\ G \subseteq BarriersOf(r)
        /\ \A c \in G : Touches(c, r, i) => c.from = u /\ c.to = b.to /\ i \in Part(r, b.sub)
        /\ \A c, d \in G : Touches(c, r, i) /\ Touches(d, r, i) => c = d
        /\ (i \in Part(r, b.sub) /\ u # b.to) => \E c \in G : Touches(c, r, i)
    BY <1>6, <2>1
  <2>4. G \subseteq D
    BY <1>8, <2>1
  <2>5. ASSUME NEW c \in D, Touches(c, r, i) PROVE c \in G
    <3>1. PICK d \in P : c \in Barriers(global[d.resource], d.resource, d.sub, d.to)
      BY <1>7
    <3>2. d.resource = r
      BY <1>6, <2>5, <3>1 DEF BarriersOf, Touches
    <3>  QED BY <1>5, <2>1, <3>1, <3>2
  <2>6. r \in Resources /\ May(r, b.sub) /\ b \in AllBarriers /\ b.to \in States
        /\ b.op = "barrier"
    BY <1>4, <2>1, BarrierTypes
  <2>7. \A c \in D : c.op = "barrier"
    BY <1>10 DEF BarriersOf
  <2>8. Touches(b, r, i) <=> i \in Part(r, b.sub)
    BY <2>1, <2>6 DEF Touches
  <2> HIDE DEF u, G
  <2>9. CASE i \in Part(r, b.sub)
    <3>1. Starts(l, r, i, b.to)
      BY <2>2, <2>8, <2>9 DEF Starts
    <3>2. u = b.to \/ \E c \in D : Touches(c, r, i)
      BY <2>3, <2>4, <2>9
    <3>3. Brings(SetToSeq(D), r, i, u, b.to)
      <4>1. \A c \in D : c.op = "barrier" /\ (Touches(c, r, i) => c.from = u /\ c.to = b.to)
        BY <2>3, <2>5, <2>7
      <4>2. \A c, d \in D : Touches(c, r, i) /\ Touches(d, r, i) => c = d
        BY <2>3, <2>5
      <4>  QED BY <1>9, <3>2, <4>1, <4>2, BringsBatch
    <3>  QED BY <2>6, <3>1, <3>3 DEF u
  <2>10. CASE i \notin Part(r, b.sub)
    <3>1. r \in Chains
      <4> SUFFICES ASSUME r \notin Chains PROVE FALSE
        OBVIOUS
      <4>1. b.sub \in Subs(r) \cup {All} /\ (b.sub = All \/ Subresources[r] = 1)
        BY <2>6 DEF May
      <4>2. CASE b.sub = All
        BY <2>10, <4>2 DEF Part
      <4>3. CASE b.sub # All
        <5>1. Subs(r) = {0}
          BY <2>6, <4>1, <4>3, SubsFacts
        <5>  QED BY <2>10, <4>1, <4>3, <5>1 DEF Part
      <4>  QED BY <4>2, <4>3
    <3>2. u = Common
      <4>1. global[r].sub = Empty
        BY <3>1 DEF IInv, ChainsOnce
      <4>2. global[r].state = Common
        BY <1>4, <2>1, <3>1, StateFacts
      <4>  QED BY <4>1, <4>2 DEF u, GetSubresourceState, Empty
    <3>3. Starts(l, r, i, Common)
      <4>1. ASSUME NEW j \in 1..Len(pending[l]), Touches(pending[l][j], r, i) PROVE FALSE
        <5>1. pending[l][j].resource = r /\ pending[l][j] \in P
          BY <1>3, <4>1 DEF Touches
        <5>2. pending[l][j] = b
          BY <1>5, <2>1, <5>1
        <5>  QED BY <2>8, <2>10, <4>1, <5>2
      <4>  QED BY <3>1, <4>1 DEF Starts
    <3>4. \A c \in D : ~Touches(c, r, i)
      BY <2>3, <2>5, <2>10
    <3>5. Brings(SetToSeq(D), r, i, u, Common)
      BY <1>9, <2>7, <3>2, <3>4, BringsBatch
    <3>6. Common \in States
      BY DEF TrackerAssumption
    <3>  QED BY <3>3, <3>5, <3>6 DEF u
  <2>  QED BY <2>9, <2>10
<1>  QED BY <1>11, <1>12, <1>13, <1>14

LEMMA CloseInv ==
  ASSUME TrackerAssumption, IInv, NEW l \in Lists, Close(l)
  PROVE  IInv'
<1> DEFINE B == FlushPendingResourceBarriers(l)
<1>1. /\ pc[l] = "recording" /\ owner = NoList
      /\ owner' = l
      /\ commands' = [commands EXCEPT ![l] = @ \o barriers[l]]
      /\ before' = [before EXCEPT ![l] = B]
      /\ global' = PutAll(global, final[l])
      /\ barriers' = [barriers EXCEPT ![l] = <<>>]
      /\ pending' = [pending EXCEPT ![l] = <<>>]
      /\ final' = [final EXCEPT ![l] = [r \in {} |-> ResourceState(Common)]]
      /\ pc' = [pc EXCEPT ![l] = "submit"]
      /\ UNCHANGED <<asked, alive, gpu, actual>>
  BY DEF Close, CanLock, Flushed, gpuVars
<1>2. /\ B \in Seq(AllBarriers)
      /\ \A j \in 1..Len(B) : B[j].resource \in DOMAIN final[l]
      /\ \A r \in DOMAIN final[l] : \A i \in Subs(r) : \E s \in States :
           Starts(l, r, i, s) /\ Brings(B, r, i, GetSubresourceState(global[r], i), s)
  BY <1>1, PendingBrings
<1> HIDE DEF B
<1>3. Asked(l) /\ RecordedFits(l) /\ \A k \in Lists : pc[k] # "submit"
  BY <1>1 DEF IInv, Phases, TrackerAssumption
<1>4. /\ commands'[l] = Own(l) /\ before'[l] = B /\ barriers'[l] = <<>> /\ pending'[l] = <<>>
      /\ DOMAIN final'[l] = {} /\ pc'[l] = "submit" /\ DOMAIN final' = Lists
      /\ \A k \in Lists \ {l} :
           /\ pending'[k] = pending[k] /\ barriers'[k] = barriers[k]
           /\ commands'[k] = commands[k] /\ before'[k] = before[k]
           /\ final'[k] = final[k] /\ pc'[k] = pc[k]
  <2>1. DOMAIN final = Lists /\ DOMAIN commands = Lists /\ DOMAIN before = Lists
        /\ DOMAIN barriers = Lists /\ DOMAIN pending = Lists /\ DOMAIN pc = Lists
    BY DEF IInv, Types
  <2>2. /\ commands'[l] = Own(l) /\ before'[l] = B /\ barriers'[l] = <<>>
        /\ pending'[l] = <<>> /\ DOMAIN final'[l] = {} /\ pc'[l] = "submit"
    BY <1>1, <2>1 DEF Own
  <2>3. DOMAIN final' = Lists
    BY <1>1, <2>1
  <2>4. \A k \in Lists \ {l} :
           /\ pending'[k] = pending[k] /\ barriers'[k] = barriers[k]
           /\ commands'[k] = commands[k] /\ before'[k] = before[k]
           /\ final'[k] = final[k] /\ pc'[k] = pc[k]
    BY <1>1, <2>1
  <2>  QED BY <2>2, <2>3, <2>4
<1>5. /\ DOMAIN global' = DOMAIN global \cup DOMAIN final[l]
      /\ \A r \in DOMAIN final[l] : global'[r] = final[l][r]
      /\ \A r \in DOMAIN global : r \notin DOMAIN final[l] => global'[r] = global[r]
  BY <1>1 DEF PutAll
<1>6. Own(l) \in Seq(Commands) /\ B \in Seq(Commands) /\ B \o Own(l) \in Seq(Commands)
  <2>1. Own(l) \in Seq(Commands)
    BY ListTypes DEF IInv
  <2>2. AllBarriers \subseteq Commands
    BY DEF Commands
  <2>3. B \in Seq(Commands)
    BY <1>2, <2>2, SeqMonotonic
  <2>  QED BY <2>1, <2>3, ConcatProperties
<1>7. Types'
  <2>1. <<>> \in Seq(AllBarriers)
    BY EmptySeq
  <2>2. pending' \in [Lists -> Seq(AllBarriers)] /\ barriers' \in [Lists -> Seq(AllBarriers)]
    BY <1>1, <2>1 DEF IInv, Types
  <2>3. before' \in [Lists -> Seq(AllBarriers)]
    BY <1>1, <1>2 DEF IInv, Types
  <2>4. commands' \in [Lists -> Seq(Commands)]
    BY <1>1, <1>4, <1>6 DEF IInv, Types
  <2>5. \A m \in Lists : /\ DOMAIN final'[m] \subseteq Resources
                         /\ \A q \in DOMAIN final'[m] : final'[m][q] \in StatesOf(q)
    BY <1>4 DEF IInv, Types
  <2>6. pc' \in [Lists -> {"idle", "recording", "submit", "inFlight"}]
    BY <1>1 DEF IInv, Types
  <2>7. /\ DOMAIN global' \subseteq Resources /\ alive' \subseteq DOMAIN global'
        /\ \A r \in DOMAIN global' : global'[r] \in StatesOf(r)
    BY <1>1, <1>5 DEF IInv, Types
  <2>  QED BY <1>1, <1>4, <2>2, <2>3, <2>4, <2>5, <2>6, <2>7 DEF IInv, Types
<1>8. Phases'
  <2>1. \A k \in Lists \ {l} : DOMAIN final'[k] = DOMAIN final[k]
    BY <1>4
  <2>  QED BY <1>1, <1>3, <1>4, <2>1 DEF IInv, Phases
<1>9. \A k \in Lists : \A r : RefersTo(k, r)' <=> RefersTo(k, r)
  BY <1>1 DEF RefersTo
<1>10. \A k \in Lists \ {l} :
        /\ Refer(k, pending[k])' /\ Refer(k, Own(k))' /\ Refer(k, before[k])'
        /\ pc[k]' = "recording" => Asked(k)' /\ Pending(k)' /\ RecordedFits(k)'
  BY <1>1, <1>4, ListKept DEF IInv, References
<1>11. Refer(l, pending[l])' /\ Refer(l, Own(l))' /\ Refer(l, before[l])'
  <2>1. Len(<<>>) = 0
    OBVIOUS
  <2>2. Own(l)' = Own(l)
    <3>1. Own(l)' = Own(l) \o <<>>
      BY <1>4 DEF Own
    <3>  QED BY <1>6, <3>1, ConcatEmptySeq
  <2>3. Refer(l, Own(l))'
    BY <1>9, <2>2 DEF IInv, References, Refer
  <2>4. \A j \in 1..Len(B) : \A r \in Resources : Mentions(B[j], r) => RefersTo(l, r)
    <3>1. \A j \in 1..Len(B) : B[j] \in AllBarriers
      BY <1>2, ElementOfSeq
    <3>  QED BY <1>2, <1>3, <3>1, BarrierTypes DEF Asked
  <2>  QED BY <1>4, <1>9, <2>1, <2>3, <2>4 DEF Refer
<1>12. References'
  <2>1. \A k \in Lists : \A a \in asked'[k] : a.resource \in alive'
    BY <1>1 DEF IInv, References
  <2>  QED BY <1>1, <1>9, <1>10, <1>11, <2>1 DEF IInv, References
<1>13. ChainsOnce'
  <2>1. ASSUME NEW r \in Chains, NEW k \in Lists, r \in DOMAIN final'[k]
        PROVE  global'[r].sub = Empty
    <3>1. k # l /\ r \in DOMAIN final[k]
      BY <1>4, <2>1
    <3>2. r \notin DOMAIN final[l]
      <4> SUFFICES ASSUME r \in DOMAIN final[l] PROVE FALSE
        OBVIOUS
      <4>1. RefersTo(l, r) /\ RefersTo(k, r)
        BY <3>1, FinalFacts
      <4>  QED BY <3>1, <4>1 DEF IInv, ChainsOnce
    <3>3. r \in DOMAIN global
      BY <3>1, FinalFacts
    <3>  QED BY <1>5, <3>1, <3>2, <3>3 DEF IInv, ChainsOnce
  <2>2. ASSUME NEW r \in Chains, NEW k \in Lists, NEW m \in Lists,
               RefersTo(k, r)', RefersTo(m, r)'
        PROVE  m = k
    BY <1>9, <2>2 DEF IInv, ChainsOnce
  <2>  QED BY <2>1, <2>2 DEF ChainsOnce
<1>14. QueueFits'
  <2>1. Todo = gpu /\ Todo' = gpu \o (B \o Own(l))
    BY <1>1, <1>4 DEF Todo, TrackerAssumption
  <2> SUFFICES ASSUME NEW r \in alive, NEW i \in Subs(r)
               PROVE  Brings(gpu \o (B \o Own(l)), r, i, actual[r][i],
                             GetSubresourceState(global'[r], i))
    BY <1>1, <2>1 DEF QueueFits
  <2>2. Brings(gpu, r, i, actual[r][i], GetSubresourceState(global[r], i))
    BY <2>1 DEF IInv, QueueFits
  <2>3. Brings(B \o Own(l), r, i, GetSubresourceState(global[r], i),
               GetSubresourceState(global'[r], i))
    <3>1. CASE r \in DOMAIN final[l]
      <4>1. PICK s \in States :
              Starts(l, r, i, s) /\ Brings(B, r, i, GetSubresourceState(global[r], i), s)
        BY <1>2, <3>1
      <4>2. Brings(Own(l), r, i, s, GetSubresourceState(final[l][r], i))
        BY <1>3, <3>1, <4>1 DEF RecordedFits
      <4>3. Brings(Own(l), r, i, s, GetSubresourceState(global'[r], i))
        BY <1>5, <3>1, <4>2
      <4>  QED BY <1>6, <4>1, <4>3, BringsConcat
    <3>2. CASE r \notin DOMAIN final[l]
      <4>1. r \in DOMAIN global /\ r \in Resources
        BY DEF IInv, Types
      <4>2. ~RefersTo(l, r)
        BY <1>3, <3>2 DEF Asked, RefersTo
      <4>3. \A j \in 1..Len(B) : ~Mentions(B[j], r)
        <5>1. \A j \in 1..Len(B) : B[j] \in AllBarriers
          BY <1>2, ElementOfSeq
        <5>  QED BY <1>2, <3>2, <5>1, BarrierTypes
      <4>4. \A j \in 1..Len(Own(l)) : ~Mentions(Own(l)[j], r)
        BY <4>1, <4>2 DEF IInv, References, Refer
      <4>5. \A g : Brings(B, r, i, g, g) /\ Brings(Own(l), r, i, g, g)
        BY <4>3, <4>4, BringsOther
      <4>6. \A g : Brings(B \o Own(l), r, i, g, g)
        BY <1>6, <4>5, BringsConcat
      <4>7. global'[r] = global[r]
        BY <1>5, <3>2, <4>1
      <4>  QED BY <4>6, <4>7
    <3>  QED BY <3>1, <3>2
  <2>4. gpu \in Seq(Commands \cup Signals) /\ B \o Own(l) \in Seq(Commands \cup Signals)
    BY <1>6, SeqMonotonic DEF IInv, Types
  <2>  QED BY <2>2, <2>3, <2>4, BringsConcat
<1>15. \A k \in Lists : pc[k]' = "recording" => Asked(k)' /\ Pending(k)' /\ RecordedFits(k)'
  BY <1>4, <1>10
<1>  QED BY <1>7, <1>8, <1>12, <1>13, <1>14, <1>15 DEF IInv

LEMMA SubmitInv ==
  ASSUME TrackerAssumption, IInv, NEW l \in Lists, Submit(l)
  PROVE  IInv'
<1> DEFINE sig == [op |-> "signal", list |-> l]
           X == before[l] \o commands[l]
           All2 == Commands \cup Signals
<1>1. /\ pc[l] = "submit"
      /\ gpu' = gpu \o before[l] \o Append(commands[l], sig)
      /\ before' = [before EXCEPT ![l] = <<>>]
      /\ commands' = [commands EXCEPT ![l] = <<>>]
      /\ owner' = NoList
      /\ pc' = [pc EXCEPT ![l] = "inFlight"]
      /\ UNCHANGED <<global, pending, barriers, final, asked, alive, actual>>
  BY DEF Submit, trackerVars
<1>2. owner = l /\ owner # NoList /\ barriers[l] = <<>>
  BY <1>1 DEF IInv, Phases, TrackerAssumption
<1>3. /\ sig \in All2 /\ <<sig>> \in Seq(All2) /\ Len(<<sig>>) = 1 /\ <<sig>>[1] = sig
      /\ \A r : ~Mentions(sig, r)
  BY DEF Signals, Mentions
<1> HIDE DEF sig
<1>4. /\ before'[l] = <<>> /\ commands'[l] = <<>> /\ pc'[l] = "inFlight"
      /\ \A k \in Lists \ {l} : /\ before'[k] = before[k] /\ commands'[k] = commands[k]
                                /\ pc'[k] = pc[k]
  BY <1>1 DEF IInv, Types
<1>5. /\ before[l] \in Seq(Commands) /\ commands[l] \in Seq(Commands) /\ X \in Seq(Commands)
      /\ before[l] \in Seq(All2) /\ commands[l] \in Seq(All2) /\ X \in Seq(All2)
      /\ gpu \in Seq(All2)
  <2>1. before[l] \in Seq(Commands) /\ commands[l] \in Seq(Commands)
    BY ListTypes DEF IInv
  <2>2. X \in Seq(Commands)
    BY <2>1, ConcatProperties
  <2> HIDE DEF X
  <2>3. before[l] \in Seq(All2) /\ commands[l] \in Seq(All2) /\ X \in Seq(All2)
    BY <2>1, <2>2, SeqMonotonic
  <2>  QED BY <2>1, <2>2, <2>3 DEF IInv, Types
<1>6. /\ Todo = gpu \o X /\ Todo \in Seq(All2)
      /\ gpu' = Todo \o <<sig>> /\ gpu' \in Seq(All2) /\ Todo' = gpu'
  <2> DEFINE b == before[l]
             c == commands[l]
             e == <<sig>>
  <2>1. /\ b \in Seq(All2) /\ c \in Seq(All2) /\ e \in Seq(All2) /\ gpu \in Seq(All2)
    BY <1>3, <1>5
  <2>2. Append(c, sig) = c \o e
    BY <1>3, <2>1, AppendIsConcat
  <2>3. gpu' = Then(Then(gpu, b), Then(c, e))
    BY <1>1, <2>2 DEF Then
  <2>4. Todo = Then(gpu, Then(b, c)) /\ X = Then(b, c)
    BY <1>2 DEF Todo, Then
  <2>5. Todo' = gpu'
    BY <1>1 DEF Todo
  <2> HIDE DEF b, c, e, X, All2
  <2>6. gpu' = Then(Todo, e) /\ Todo \in Seq(All2) /\ gpu' \in Seq(All2)
    BY <2>1, <2>3, <2>4, ThenFacts
  <2>  QED BY <2>4, <2>5, <2>6 DEF e, Then
<1> HIDE DEF X
<1>7. Types'
  <2>1. <<>> \in Seq(AllBarriers) /\ <<>> \in Seq(Commands)
    BY EmptySeq
  <2>2. before' \in [Lists -> Seq(AllBarriers)]
    BY <1>1, <2>1 DEF IInv, Types
  <2>3. commands' \in [Lists -> Seq(Commands)]
    BY <1>1, <2>1 DEF IInv, Types
  <2>4. pc' \in [Lists -> {"idle", "recording", "submit", "inFlight"}]
    BY <1>1 DEF IInv, Types
  <2>  QED BY <1>1, <1>6, <2>2, <2>3, <2>4 DEF IInv, Types
<1>8. Phases'
  <2>1. \A k \in Lists : pc'[k] = "submit" <=> owner' = k
    BY <1>1, <1>2, <1>4 DEF IInv, Phases, TrackerAssumption
  <2>  QED BY <1>1, <1>4, <2>1 DEF IInv, Phases
<1>9. \A k \in Lists : \A r : RefersTo(k, r)' <=> RefersTo(k, r)
  BY <1>1 DEF RefersTo
<1>10. \A k \in Lists \ {l} :
        /\ Refer(k, pending[k])' /\ Refer(k, Own(k))' /\ Refer(k, before[k])'
        /\ pc[k]' = "recording" => Asked(k)' /\ Pending(k)' /\ RecordedFits(k)'
  BY <1>1, <1>4, ListKept DEF IInv, References
<1>11. Refer(l, pending[l])' /\ Refer(l, Own(l))' /\ Refer(l, before[l])'
  <2>1. Len(<<>>) = 0 /\ <<>> \o <<>> = <<>>
    BY EmptySeq, ConcatEmptySeq
  <2>2. Own(l)' = <<>> /\ before'[l] = <<>> /\ pending'[l] = pending[l]
    BY <1>1, <1>2, <1>4, <2>1 DEF Own
  <2>3. Refer(l, pending[l])'
    BY <1>9, <2>2 DEF IInv, References, Refer
  <2>  QED BY <2>1, <2>2, <2>3 DEF Refer
<1>12. ASSUME NEW j \in 1..Len(gpu'), NEW r \in Resources, Mentions(gpu'[j], r)
       PROVE  \E m \in 1..Len(gpu'), k \in Lists :
                j < m /\ gpu'[m] = [op |-> "signal", list |-> k] /\ RefersTo(k, r)'
  <2> DEFINE n == Len(Todo) + 1
  <2>1. /\ Len(Todo) \in Nat /\ Len(gpu') = n /\ n \in 1..Len(gpu') /\ gpu'[n] = sig
        /\ \A k \in 1..Len(Todo) : gpu'[k] = Todo[k]
        /\ j \in 1..Len(Todo) \/ j = n
    <3>1. /\ Len(Todo) \in Nat /\ Len(gpu') = Len(Todo) + Len(<<sig>>)
          /\ \A k \in 1..Len(Todo) : gpu'[k] = Todo[k]
          /\ \A k \in 1..Len(<<sig>>) : gpu'[Len(Todo) + k] = <<sig>>[k]
      BY <1>3, <1>6, ConcatFacts
    <3>  QED BY <1>3, <3>1
  <2>2. /\ Len(gpu) \in Nat /\ Len(X) \in Nat /\ Len(Todo) = Len(gpu) + Len(X)
        /\ \A k \in 1..Len(gpu) : Todo[k] = gpu[k]
        /\ \A k \in 1..Len(X) : Todo[Len(gpu) + k] = X[k]
        /\ \A i \in 1..Len(Todo) : i \in 1..Len(gpu) \/ \E k \in 1..Len(X) : i = Len(gpu) + k
    BY <1>5, <1>6, ConcatFacts
  <2>3. j \in 1..Len(Todo)
    BY <1>3, <1>12, <2>1
  <2>4. CASE j \in 1..Len(gpu)
    <3>1. Mentions(gpu[j], r)
      BY <1>12, <2>1, <2>2, <2>3, <2>4
    <3>2. PICK m \in 1..Len(gpu), k \in Lists :
            j < m /\ gpu[m] = [op |-> "signal", list |-> k] /\ RefersTo(k, r)
      BY <2>4, <3>1 DEF IInv, References
    <3>3. m \in 1..Len(Todo) /\ m \in 1..Len(gpu')
      BY <2>1, <2>2
    <3>4. gpu'[m] = gpu[m]
      BY <2>1, <2>2, <3>3
    <3>  QED BY <1>9, <3>2, <3>3, <3>4
  <2>5. ASSUME NEW k \in 1..Len(X), j = Len(gpu) + k PROVE RefersTo(l, r)
    <3>1. Mentions(X[k], r)
      BY <1>12, <2>1, <2>2, <2>3, <2>5
    <3>2. Refer(l, before[l]) /\ Refer(l, commands[l])
      <4>1. Own(l) = commands[l]
        BY <1>2, <1>5, ConcatEmptySeq DEF Own
      <4>  QED BY <4>1 DEF IInv, References
    <3>3. \/ k \in 1..Len(before[l]) /\ X[k] = before[l][k]
          \/ \E i \in 1..Len(commands[l]) : X[k] = commands[l][i]
      <4> HIDE DEF All2
      <4>1. X = Then(before[l], commands[l])
        BY DEF X, Then
      <4> DEFINE b == before[l]
                 c == commands[l]
      <4>2. b \in Seq(Commands) /\ c \in Seq(Commands) /\ k \in 1..Len(Then(b, c))
        BY <1>5, <4>1
      <4> HIDE DEF b, c
      <4>3. \/ k \in 1..Len(b) /\ Then(b, c)[k] = b[k]
            \/ \E i \in 1..Len(c) : Then(b, c)[k] = c[i]
        BY <4>2, ThenElement
      <4>  QED BY <4>1, <4>3 DEF b, c
    <3>  QED BY <3>1, <3>2, <3>3 DEF Refer
  <2>6. CASE j \notin 1..Len(gpu)
    <3>1. RefersTo(l, r)'
      BY <1>9, <2>2, <2>3, <2>5, <2>6
    <3>2. j < n
      BY <2>1, <2>3
    <3>  QED BY <2>1, <3>1, <3>2 DEF sig
  <2>  QED BY <2>4, <2>6
<1>13. References'
  <2>1. \A k \in Lists : \A a \in asked'[k] : a.resource \in alive'
    BY <1>1 DEF IInv, References
  <2>  QED BY <1>10, <1>11, <1>12, <2>1 DEF References
<1>14. ChainsOnce'
  BY <1>1, <1>9 DEF IInv, ChainsOnce
<1>15. QueueFits'
  <2> SUFFICES ASSUME NEW r \in alive, NEW i \in Subs(r)
               PROVE  Brings(Todo \o <<sig>>, r, i, actual[r][i],
                             GetSubresourceState(global[r], i))
    BY <1>1, <1>6 DEF QueueFits
  <2>1. Brings(Todo, r, i, actual[r][i], GetSubresourceState(global[r], i))
    BY DEF IInv, QueueFits
  <2>2. \A g : Brings(<<sig>>, r, i, g, g)
    BY <1>3, BringsOther
  <2>  QED BY <1>3, <1>6, <2>1, <2>2, BringsConcat
<1>16. \A k \in Lists : pc[k]' = "recording" => Asked(k)' /\ Pending(k)' /\ RecordedFits(k)'
  BY <1>4, <1>10
<1>  QED BY <1>7, <1>8, <1>13, <1>14, <1>15, <1>16 DEF IInv

\* What is behind the first command is left.
LEMMA TailConcat ==
  ASSUME NEW S, NEW G \in Seq(S), G # <<>>, NEW H \in Seq(S)
  PROVE  G \o H # <<>> /\ Head(G \o H) = Head(G) /\ Tail(G \o H) = Tail(G) \o H
<1>1. /\ G \o H \in Seq(S) /\ Len(G) \in Nat /\ Len(H) \in Nat
      /\ Len(G \o H) = Len(G) + Len(H)
      /\ \A j \in 1..Len(G) + Len(H) :
           (G \o H)[j] = IF j <= Len(G) THEN G[j] ELSE H[j - Len(G)]
  BY ConcatProperties, LenProperties
<1>2. /\ Tail(G) \in Seq(S) /\ Len(G) > 0 /\ Len(Tail(G)) = Len(G) - 1 /\ Head(G) = G[1]
      /\ \A j \in 1..Len(Tail(G)) : Tail(G)[j] = G[j + 1]
  BY TailFacts
<1>3. G \o H # <<>>
  BY <1>1, <1>2, EmptySeq
<1>4. Head(G \o H) = Head(G)
  <2>1. Head(G \o H) = (G \o H)[1]
    BY <1>1, <1>3, TailFacts
  <2>  QED BY <1>1, <1>2, <2>1
<1>5. Tail(G \o H) = Tail(G) \o H
  <2> DEFINE A == Tail(G \o H)
             B == Tail(G) \o H
  <2>1. /\ A \in Seq(S) /\ Len(A) = Len(G) + Len(H) - 1
        /\ \A j \in 1..Len(A) : A[j] = (G \o H)[j + 1]
    BY <1>1, <1>3, TailFacts
  <2>2. /\ B \in Seq(S) /\ Len(B) = (Len(G) - 1) + Len(H)
        /\ \A j \in 1..Len(B) :
             B[j] = IF j <= Len(G) - 1 THEN Tail(G)[j] ELSE H[j - (Len(G) - 1)]
    <3>1. /\ B \in Seq(S) /\ Len(B) = Len(Tail(G)) + Len(H)
          /\ \A j \in 1..Len(Tail(G)) + Len(H) :
               B[j] = IF j <= Len(Tail(G)) THEN Tail(G)[j] ELSE H[j - Len(Tail(G))]
      BY <1>2, ConcatProperties
    <3> HIDE DEF B
    <3>  QED BY <1>1, <1>2, <3>1
  <2> HIDE DEF A, B
  <2>3. Len(A) = Len(B)
    BY <1>1, <2>1, <2>2
  <2>4. ASSUME NEW j \in 1..Len(A) PROVE A[j] = B[j]
    <3>1. j \in Nat /\ j + 1 \in 1..Len(G) + Len(H)
      BY <1>1, <2>1
    <3>2. A[j] = IF j + 1 <= Len(G) THEN G[j + 1] ELSE H[(j + 1) - Len(G)]
      BY <1>1, <2>1, <3>1
    <3>3. j <= Len(G) - 1 => Tail(G)[j] = G[j + 1]
      BY <1>1, <1>2, <3>1
    <3>4. j - (Len(G) - 1) = (j + 1) - Len(G)
      BY <1>1, <3>1
    <3>5. B[j] = IF j <= Len(G) - 1 THEN Tail(G)[j] ELSE H[j - (Len(G) - 1)]
      BY <2>2, <2>3
    <3>  QED BY <1>1, <3>1, <3>2, <3>3, <3>4, <3>5
  <2>  QED BY <2>1, <2>2, <2>3, <2>4, SeqEqual DEF A, B
<1>  QED BY <1>3, <1>4, <1>5

LEMMA GpuInv ==
  ASSUME TrackerAssumption, IInv, Gpu
  PROVE  IInv'
<1> DEFINE c == Head(gpu)
           All2 == Commands \cup Signals
<1>1. /\ gpu # <<>> /\ gpu' = Tail(gpu)
      /\ actual' = Executed(c)
      /\ UNCHANGED <<global, pending, barriers, final, commands, before, asked, pc, owner, alive>>
  BY DEF Gpu, trackerVars, listVars
<1>2. /\ gpu \in Seq(All2) /\ gpu' \in Seq(All2) /\ c \in All2
      /\ Len(gpu) \in Nat /\ Len(gpu) > 0 /\ Len(gpu') = Len(gpu) - 1
      /\ \A j \in 1..Len(gpu') : j + 1 \in 1..Len(gpu) /\ gpu'[j] = gpu[j + 1]
  <2>1. gpu \in Seq(All2)
    BY DEF IInv, Types
  <2>  QED BY <1>1, <2>1, TailFacts
<1>3. /\ DOMAIN actual' = Resources
      /\ \A r \in Resources : actual'[r] =
           [i \in Subs(r) |-> IF Touches(c, r, i) THEN c.to ELSE actual[r][i]]
  BY <1>1 DEF Executed
<1>4. c.op = "barrier" => c.to \in States
  BY <1>2, CommandTypes, BarrierTypes
<1> HIDE DEF c
<1>5. Types'
  <2>1. ASSUME NEW r \in Resources PROVE actual'[r] \in [Subs(r) -> States]
    <3>1. \A i \in Subs(r) : actual[r][i] \in States
      BY DEF IInv, Types
    <3>2. \A i \in Subs(r) : (IF Touches(c, r, i) THEN c.to ELSE actual[r][i]) \in States
      BY <1>4, <3>1 DEF Touches
    <3>  QED BY <1>3, <3>2
  <2>  QED BY <1>1, <1>2, <1>3, <2>1 DEF IInv, Types
<1>6. Phases'
  BY <1>1 DEF IInv, Phases
<1>7. \A l \in Lists :
        /\ \A r : RefersTo(l, r)' <=> RefersTo(l, r)
        /\ Refer(l, pending[l])' /\ Refer(l, Own(l))' /\ Refer(l, before[l])'
        /\ pc[l]' = "recording" => Asked(l)' /\ Pending(l)' /\ RecordedFits(l)'
  BY <1>1, ListKept DEF IInv, References
<1>8. References'
  <2>1. \A l \in Lists : \A a \in asked'[l] : a.resource \in alive'
    BY <1>1 DEF IInv, References
  <2>2. ASSUME NEW j \in 1..Len(gpu'), NEW r \in Resources, Mentions(gpu'[j], r)
        PROVE  \E m \in 1..Len(gpu'), l \in Lists :
                 j < m /\ gpu'[m] = [op |-> "signal", list |-> l] /\ RefersTo(l, r)'
    <3>1. j + 1 \in 1..Len(gpu) /\ Mentions(gpu[j + 1], r)
      BY <1>2, <2>2
    <3>2. PICK m \in 1..Len(gpu), l \in Lists :
            j + 1 < m /\ gpu[m] = [op |-> "signal", list |-> l] /\ RefersTo(l, r)
      BY <3>1 DEF IInv, References
    <3>3. m - 1 \in 1..Len(gpu') /\ j < m - 1 /\ (m - 1) + 1 = m
      BY <1>2, <3>2
    <3>4. gpu'[m - 1] = gpu[m]
      BY <1>2, <3>3
    <3>  QED BY <1>7, <3>2, <3>3, <3>4
  <2>  QED BY <1>7, <2>1, <2>2 DEF References
<1>9. ChainsOnce'
  BY <1>1, <1>7 DEF IInv, ChainsOnce
<1>10. QueueFits'
  <2>1. Todo # <<>> /\ Head(Todo) = c /\ Todo' = Tail(Todo) /\ Todo \in Seq(All2)
    <3>1. CASE owner = NoList
      BY <1>1, <1>2, <3>1 DEF Todo, c
    <3>2. CASE owner # NoList
      <4> DEFINE X == before[owner] \o commands[owner]
      <4>1. X \in Seq(All2)
        <5>1. before[owner] \in Seq(Commands) /\ commands[owner] \in Seq(Commands)
          BY <3>2, ListTypes DEF IInv, Types
        <5>2. X \in Seq(Commands)
          BY <5>1, ConcatProperties
        <5>  QED BY <5>2, SeqMonotonic
      <4>2. Todo = gpu \o X /\ Todo' = Tail(gpu) \o X
        BY <1>1, <3>2 DEF Todo
      <4> HIDE DEF X
      <4>3. gpu \o X # <<>> /\ Head(gpu \o X) = Head(gpu) /\ Tail(gpu \o X) = Tail(gpu) \o X
        BY <1>1, <1>2, <4>1, TailConcat
      <4>  QED BY <4>2, <4>3, TodoTypes DEF c, IInv
    <3>  QED BY <3>1, <3>2
  <2> SUFFICES ASSUME NEW r \in alive, NEW i \in Subs(r)
               PROVE  Brings(Todo', r, i, actual'[r][i], GetSubresourceState(global[r], i))
    BY <1>1 DEF QueueFits
  <2>2. Brings(Todo, r, i, actual[r][i], GetSubresourceState(global[r], i))
    BY DEF IInv, QueueFits
  <2>3. Brings(Tail(Todo), r, i, IF Touches(c, r, i) THEN c.to ELSE actual[r][i],
               GetSubresourceState(global[r], i))
    BY <2>1, <2>2, BringsTail
  <2>4. r \in Resources
    BY DEF IInv, Types
  <2>5. actual'[r][i] = IF Touches(c, r, i) THEN c.to ELSE actual[r][i]
    BY <1>3, <2>4
  <2>  QED BY <2>1, <2>3, <2>5
<1>11. \A l \in Lists : pc[l]' = "recording" => Asked(l)' /\ Pending(l)' /\ RecordedFits(l)'
  BY <1>7
<1>  QED BY <1>5, <1>6, <1>8, <1>9, <1>10, <1>11 DEF IInv

LEMMA StutterInv == TrackerAssumption /\ IInv /\ UNCHANGED vars => IInv'
<1> SUFFICES ASSUME TrackerAssumption, IInv, UNCHANGED vars PROVE IInv'
  OBVIOUS
<1>1. UNCHANGED <<global, pending, barriers, final, commands, before, asked, pc, owner, alive,
                  gpu, actual>>
  BY DEF vars, trackerVars, listVars, gpuVars
<1>2. Types' /\ Phases' /\ ChainsOnce'
  BY <1>1 DEF IInv, Types, Phases, ChainsOnce, RefersTo
<1>3. \A l \in Lists :
        /\ \A r : RefersTo(l, r)' <=> RefersTo(l, r)
        /\ Refer(l, pending[l])' /\ Refer(l, Own(l))' /\ Refer(l, before[l])'
        /\ pc[l]' = "recording" => Asked(l)' /\ Pending(l)' /\ RecordedFits(l)'
  BY <1>1, ListKept DEF IInv, References
<1>4. References'
  BY <1>1, <1>3 DEF IInv, References
<1>5. QueueFits'
  <2>1. Todo' = Todo
    BY <1>1 DEF Todo
  <2>  QED BY <1>1, <2>1 DEF IInv, QueueFits
<1>  QED BY <1>2, <1>3, <1>4, <1>5 DEF IInv

LEMMA NextInv == TrackerAssumption /\ IInv /\ [Next]_vars => IInv'
<1> SUFFICES ASSUME TrackerAssumption, IInv, [Next]_vars PROVE IInv'
  OBVIOUS
<1>1. ASSUME NEW r \in Resources, NEW s \in States, AddGlobalResourceState(r, s) PROVE IInv'
  BY <1>1, AddInv
<1>2. ASSUME NEW r \in Resources, Destroy(r) PROVE IInv'
  BY <1>2, DestroyInv
<1>3. ASSUME NEW l \in Lists, BeginRecording(l) PROVE IInv'
  BY <1>3, BeginInv
<1>4. ASSUME NEW l \in Lists, Use(l) PROVE IInv'
  BY <1>4, UseInv
<1>5. ASSUME NEW l \in Lists, NEW r \in Resources, NEW s \in States,
             NEW i \in Subs(r) \cup {All}, ResourceBarrier(l, r, i, s)
      PROVE  IInv'
  BY <1>5, BarrierInv
<1>6. ASSUME NEW l \in Lists, Close(l) PROVE IInv'
  BY <1>6, CloseInv
<1>7. ASSUME NEW l \in Lists, Submit(l) PROVE IInv'
  BY <1>7, SubmitInv
<1>8. ASSUME NEW l \in Lists, Reset(l) PROVE IInv'
  BY <1>8, ResetInv
<1>9. CASE Gpu
  BY <1>9, GpuInv
<1>10. CASE UNCHANGED vars
  BY <1>10, StutterInv
<1>  QED BY <1>1, <1>2, <1>3, <1>4, <1>5, <1>6, <1>7, <1>8, <1>9, <1>10 DEF Next

\* Whatever the lists record and in whatever order they are executed, the
\* commands fit along the queue.
THEOREM Invariance == Spec => []IInv
<1>1. Init => IInv
  BY TrackerAssumption, InitInv
<1>2. IInv /\ [Next]_vars => IInv'
  BY TrackerAssumption, NextInv
<1>  QED BY <1>1, <1>2, PTL DEF Spec

-----------------------------------------------------------------------------
(* The properties.                                                         *)

LEMMA StatesOfAreStates ==
  ASSUME TrackerAssumption, NEW r \in Resources, NEW rs \in StatesOf(r)
  PROVE  IsResourceState(rs)
<1>1. PICK D \in SUBSET Subs(r) : rs.sub \in [D -> States]
  BY DEF StatesOf, SubStates
<1>2. rs.state \in States
  BY DEF StatesOf
<1>3. Subs(r) \subseteq Nat
  BY DEF Subs, TrackerAssumption
<1>4. DOMAIN rs.sub \subseteq Nat /\ Range(rs.sub) \subseteq States
  BY <1>1, <1>3 DEF Range
<1>  QED BY <1>2, <1>4 DEF IsResourceState

LEMMA BarriersAlive ==
  ASSUME TrackerAssumption, IInv, NEW l \in Lists, NEW G \in Seq(AllBarriers), Refer(l, G),
         NEW j \in 1..Len(G)
  PROVE  G[j].resource \in alive /\ G[j].from \in States /\ G[j].to \in States
<1>1. G[j] \in AllBarriers
  BY ElementOfSeq
<1>2. /\ G[j].resource \in Resources /\ Mentions(G[j], G[j].resource)
      /\ G[j].from \in States /\ G[j].to \in States
  BY <1>1, BarrierTypes
<1>3. RefersTo(l, G[j].resource)
  BY <1>2 DEF Refer
<1>4. G[j].resource \in alive
  BY <1>3 DEF IInv, References, RefersTo
<1>  QED BY <1>2, <1>4

\* Every state variable keeps its type: what a list has recorded or keeps a
\* state of exists.
THEOREM TypeCorrect == Spec => []TypeOK
<1>1. ASSUME IInv PROVE TypeOK
  <2>1. \A r \in DOMAIN global : r \in Resources /\ IsResourceState(global[r])
    BY <1>1, TrackerAssumption, StatesOfAreStates DEF IInv, Types
  <2>2. ASSUME NEW l \in Lists, NEW r \in DOMAIN final[l]
        PROVE  r \in alive /\ IsResourceState(final[l][r])
    BY <1>1, TrackerAssumption, FinalFacts, StatesOfAreStates
  <2>3. ASSUME NEW l \in Lists, NEW b \in Range(pending[l] \o barriers[l] \o before[l])
        PROVE  b.resource \in alive /\ b.from \in States /\ b.to \in States
    <3>1. /\ pending[l] \in Seq(AllBarriers) /\ barriers[l] \in Seq(AllBarriers)
          /\ before[l] \in Seq(AllBarriers)
      BY <1>1, ListTypes DEF IInv
    <3>2. \/ \E k \in 1..Len(pending[l]) : b = pending[l][k]
          \/ \E k \in 1..Len(barriers[l]) : b = barriers[l][k]
          \/ \E k \in 1..Len(before[l]) : b = before[l][k]
      BY <2>3, <3>1, ElementOfThree
    <3>3. Refer(l, pending[l]) /\ Refer(l, before[l]) /\ Refer(l, barriers[l])
      <4>1. Refer(l, pending[l]) /\ Refer(l, before[l]) /\ Refer(l, Own(l))
        BY <1>1 DEF IInv, References
      <4>2. commands[l] \in Seq(Commands) /\ barriers[l] \in Seq(Commands)
        BY <1>1, ListTypes DEF IInv
      <4>3. \A k \in 1..Len(barriers[l]) : \E j \in 1..Len(Own(l)) : Own(l)[j] = barriers[l][k]
        <5> DEFINE c == commands[l]
                   d == barriers[l]
        <5>1. c \in Seq(Commands) /\ d \in Seq(Commands) /\ Own(l) = c \o d
          BY <4>2 DEF Own
        <5> HIDE DEF c, d
        <5>2. \A k \in 1..Len(d) : \E j \in 1..Len(c \o d) : (c \o d)[j] = d[k]
          BY <5>1, ElementBehind
        <5>  QED BY <5>1, <5>2 DEF d
      <4>  QED BY <4>1, <4>3 DEF Refer
    <3>  QED BY <1>1, <3>1, <3>2, <3>3, TrackerAssumption, BarriersAlive
  <2>4. /\ DOMAIN global \subseteq Resources /\ alive \subseteq Resources
        /\ pc \in [Lists -> {"idle", "recording", "submit", "inFlight"}]
        /\ owner \in Lists \cup {NoList}
        /\ \A r \in Resources : actual[r] \in [Subs(r) -> States]
    BY <1>1 DEF IInv, Types
  <2>  QED BY <2>1, <2>2, <2>3, <2>4 DEF TypeOK
<1>  QED BY <1>1, Invariance, PTL

\* The first command that is left finds every subresource as it needs it.
LEMMA FirstFits ==
  ASSUME TrackerAssumption, IInv, gpu # <<>>, NEW r \in alive, NEW i \in Subs(r),
         NEW t \in States, Needs(Head(gpu), r, i, t)
  PROVE  actual[r][i] = t
<1>1. gpu \in Seq(Commands \cup Signals)
  BY DEF IInv, Types
<1>2. 1 \in 1..Len(gpu) /\ Head(gpu) = gpu[1] /\ Len(gpu) \in Nat
  <2>1. Len(gpu) \in Nat /\ Len(gpu) > 0 /\ Head(gpu) = gpu[1]
    BY <1>1, TailFacts
  <2>  QED BY <2>1
<1>3. 1 \in 1..Len(Todo) /\ Todo[1] = gpu[1]
  <2>1. CASE owner = NoList
    BY <1>2, <2>1 DEF Todo
  <2>2. CASE owner # NoList
    <3> DEFINE X == before[owner] \o commands[owner]
    <3>1. X \in Seq(Commands \cup Signals)
      <4>1. before[owner] \in Seq(Commands) /\ commands[owner] \in Seq(Commands)
        BY <2>2, ListTypes DEF IInv, Types
      <4>2. X \in Seq(Commands)
        BY <4>1, ConcatProperties
      <4>  QED BY <4>2, SeqMonotonic
    <3>2. Todo = gpu \o X
      BY <2>2 DEF Todo
    <3> HIDE DEF X
    <3>3. Len(X) \in Nat /\ Len(gpu \o X) = Len(gpu) + Len(X)
          /\ \A j \in 1..Len(gpu) : (gpu \o X)[j] = gpu[j]
      BY <1>1, <3>1, ConcatFacts
    <3>  QED BY <1>2, <3>2, <3>3
  <2>  QED BY <2>1, <2>2
<1>4. Fits(Todo, r, i, actual[r][i])
  BY DEF IInv, QueueFits, Brings
<1>5. Leaves(Todo, 1 - 1, r, i, actual[r][i], t)
  BY <1>2, <1>3, <1>4 DEF Fits
<1>6. Leaves(Todo, 0, r, i, actual[r][i], t)
  BY <1>5
<1>  QED BY <1>6, LeavesNothing

\* A resource that a command on the queue is about exists.
LEMMA QueuedAlive ==
  ASSUME IInv, gpu # <<>>, NEW r \in Resources, Mentions(Head(gpu), r)
  PROVE  r \in alive
<1>1. gpu \in Seq(Commands \cup Signals)
  BY DEF IInv, Types
<1>2. 1 \in 1..Len(gpu) /\ Head(gpu) = gpu[1]
  <2>1. Len(gpu) \in Nat /\ Len(gpu) > 0 /\ Head(gpu) = gpu[1]
    BY <1>1, TailFacts
  <2>  QED BY <2>1
<1>3. \E l \in Lists : RefersTo(l, r)
  BY <1>2 DEF IInv, References
<1>  QED BY <1>3 DEF IInv, References, RefersTo

\* A transition barrier that the GPU comes to starts from the state the
\* subresource is in, in whatever order the lists were executed.
THEOREM BeforeStatesAlwaysMatch == Spec => []BeforeStatesMatch
<1>1. ASSUME IInv PROVE BeforeStatesMatch
  <2> SUFFICES ASSUME gpu # <<>>, Head(gpu).op = "barrier",
                      NEW i \in Part(Head(gpu).resource, Head(gpu).sub)
               PROVE  actual[Head(gpu).resource][i] = Head(gpu).from
    BY DEF BeforeStatesMatch
  <2> DEFINE c == Head(gpu)
             r == Head(gpu).resource
  <2>1. c \in AllBarriers
    <3>1. c \in Commands \cup Signals
      BY <1>1, TailFacts DEF IInv, Types
    <3>  QED BY <3>1, CommandTypes
  <2>2. /\ r \in Resources /\ c.sub \in Subs(r) \cup {All} /\ c.from \in States
        /\ Mentions(c, r)
    BY <2>1, BarrierTypes
  <2>3. r \in alive
    BY <1>1, <2>2, QueuedAlive
  <2>4. i \in Subs(r)
    BY <2>2 DEF Part
  <2>5. Needs(c, r, i, c.from)
    BY DEF Needs, Touches
  <2>  QED BY <1>1, <2>2, <2>3, <2>4, <2>5, TrackerAssumption, FirstFits
<1>  QED BY <1>1, Invariance, PTL

\* A draw, a dispatch or a copy that the GPU comes to finds every subresource
\* in the state that its caller asked for.
THEOREM UsesAlwaysFindStates == Spec => []UsesFindStates
<1>1. ASSUME IInv PROVE UsesFindStates
  <2> SUFFICES ASSUME gpu # <<>>, Head(gpu).op = "use", NEW a \in Head(gpu).asked
               PROVE  actual[a.resource][a.sub] = a.state
    BY DEF UsesFindStates
  <2>1. Head(gpu).asked \subseteq AllAsks
    <3>1. Head(gpu) \in Commands \cup Signals
      BY <1>1, TailFacts DEF IInv, Types
    <3>  QED BY <3>1, CommandTypes
  <2>2. /\ a.resource \in Resources /\ a.sub \in Subs(a.resource) /\ a.state \in States
        /\ a = [resource |-> a.resource, sub |-> a.sub, state |-> a.state]
    BY <2>1, AskTypes
  <2>3. a.resource \in alive
    <3>1. Mentions(Head(gpu), a.resource)
      BY DEF Mentions
    <3>  QED BY <1>1, <2>2, <3>1, QueuedAlive
  <2>4. Needs(Head(gpu), a.resource, a.sub, a.state)
    BY <2>2 DEF Needs
  <2>  QED BY <1>1, <2>2, <2>3, <2>4, TrackerAssumption, FirstFits
<1>  QED BY <1>1, Invariance, PTL

\* Between two executions the global states are those the GPU will leave the
\* resources in when it has come to the end of its queue.
THEOREM GlobalStatesAreLast == Spec => []GlobalIsLastState
<1>1. ASSUME IInv PROVE GlobalIsLastState
  BY <1>1 DEF IInv, QueueFits, Brings, Todo, GlobalIsLastState
<1>  QED BY <1>1, Invariance, PTL

=============================================================================
