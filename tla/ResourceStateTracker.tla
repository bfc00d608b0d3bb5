------------------------ MODULE ResourceStateTracker ------------------------
(***************************************************************************)
(* DX12Lib's ResourceStateTracker (ResourceStateTracker.h and .cpp) with   *)
(* the calls that CommandList::Close and CommandQueue::ExecuteCommandLists *)
(* make of it.  A list that is being recorded knows the state of a         *)
(* resource only from its own earlier barriers; what the first barrier of  *)
(* a resource starts from is decided when the list is executed, from the   *)
(* global states that the lists executed before have left.                 *)
(*                                                                         *)
(* Lists are recorded concurrently and executed in any order on one queue  *)
(* of the GPU, where `actual' says what state each subresource is in.      *)
(* Barriers that are not transitions change no state and are left out, and *)
(* so are the implicit promotion and decay of states.                      *)
(***************************************************************************)
EXTENDS Naturals, Sequences, FiniteSets, Functions, SequencesExt

CONSTANTS
  Resources,     \* addresses of ID3D12Resources
  Subresources,  \* Subresources[r]: how many subresources r has
  Chains,        \* the textures GenerateMips makes for a list, mip by mip
  States,        \* D3D12_RESOURCE_STATES
  Common,        \* D3D12_RESOURCE_STATE_COMMON
  Lists,         \* command lists
  MaxRecorded,   \* bound on what a list records
  MaxQueue,      \* bound on the commands on the queue when one more list comes
  All,           \* D3D12_RESOURCE_BARRIER_ALL_SUBRESOURCES
  NoList         \* nobody has the global mutex

ASSUME TrackerAssumption ==
  /\ Subresources \in [Resources -> Nat \ {0}]
  /\ Chains \subseteq Resources
  /\ Common \in States
  /\ All \notin Nat
  /\ NoList \notin Lists
  /\ MaxRecorded \in Nat /\ MaxQueue \in Nat

VARIABLES
  global,    \* ms_GlobalResourceState
  pending,   \* pending[l]: m_PendingResourceBarriers
  barriers,  \* m_ResourceBarriers
  final,     \* m_FinalResourceState
  commands,  \* commands[l]: what the D3D12 list of l has recorded and not submitted
  before,    \* before[l]: the same of its pending command list
  asked,     \* asked[l]: the states l's caller has asked for, one per subresource
  pc,        \* how far the caller of l is
  owner,     \* ms_GlobalMutex: the list that is being executed
  alive,     \* the resources that exist
  gpu,       \* the commands that are left on the queue
  actual     \* actual[r][i]: the state subresource i of r is in

trackerVars == <<pending, barriers, final>>
listVars    == <<commands, before, asked, pc>>
gpuVars     == <<gpu, actual>>
vars        == <<global, trackerVars, listVars, owner, alive, gpuVars>>

\* m[x] = v, and all of n put into m, for maps.
Put(m, x, v) == [y \in {x} \cup DOMAIN m |-> IF y = x THEN v ELSE m[y]]
PutAll(m, n) == [y \in DOMAIN n \cup DOMAIN m |-> IF y \in DOMAIN n THEN n[y] ELSE m[y]]

Subs(r) == 0..(Subresources[r] - 1)
Part(r, i) == IF i = All THEN Subs(r) ELSE {i}

-----------------------------------------------------------------------------
(* ResourceState: the state of a resource and those of the subresources     *)
(* that have one of their own.  A definition that ends in _mutant is a slip *)
(* one could make in the code; no specification uses it.                    *)

Empty == [i \in {} |-> Common]
ResourceState(s) == [state |-> s, sub |-> Empty]

SetSubresourceState_mutant(rs, i, s) ==
  IF i = All THEN [rs EXCEPT !.state = s] ELSE [rs EXCEPT !.sub = Put(@, i, s)]
SetSubresourceState(rs, i, s) ==
  IF i = All THEN ResourceState(s) ELSE [rs EXCEPT !.sub = Put(@, i, s)]

GetSubresourceState(rs, i) == IF i \in DOMAIN rs.sub THEN rs.sub[i] ELSE rs.state

Barrier(r, i, s, t) == [op |-> "barrier", resource |-> r, sub |-> i, from |-> s, to |-> t]

\* The barriers that bring part i of r to state s, from what rs says: one for
\* each subresource rs knows by itself, if all are meant, or else one.
Barriers(rs, r, i, s) ==
  IF i = All /\ rs.sub # Empty
  THEN {Barrier(r, j, rs.sub[j], s) : j \in {k \in DOMAIN rs.sub : rs.sub[k] # s}}
  ELSE {Barrier(r, i, GetSubresourceState(rs, i), s) : j \in {s} \ {GetSubresourceState(rs, i)}}

IsResourceState(rs) ==
  rs.state \in States /\ DOMAIN rs.sub \subseteq Nat /\ Range(rs.sub) \subseteq States

TypeOK ==
  /\ DOMAIN global \subseteq Resources
  /\ \A r \in DOMAIN global : IsResourceState(global[r])
  /\ \A l \in Lists :
       /\ \A r \in DOMAIN final[l] : r \in alive /\ IsResourceState(final[l][r])
       /\ \A b \in Range(pending[l] \o barriers[l] \o before[l]) :
            b.resource \in alive /\ b.from \in States /\ b.to \in States
  /\ pc \in [Lists -> {"idle", "recording", "submit", "inFlight"}]
  /\ owner \in Lists \cup {NoList}
  /\ alive \subseteq Resources
  /\ \A r \in Resources : actual[r] \in [Subs(r) -> States]

Init ==
  /\ global = [r \in {} |-> ResourceState(Common)]
  /\ pending = [l \in Lists |-> <<>>]
  /\ barriers = [l \in Lists |-> <<>>]
  /\ final = [l \in Lists |-> [r \in {} |-> ResourceState(Common)]]
  /\ commands = [l \in Lists |-> <<>>]
  /\ before = [l \in Lists |-> <<>>]
  /\ asked = [l \in Lists |-> {}]
  /\ pc = [l \in Lists |-> "idle"]
  /\ owner = NoList
  /\ alive = {}
  /\ gpu = <<>>
  /\ actual = [r \in Resources |-> [i \in Subs(r) |-> Common]]

-----------------------------------------------------------------------------
(* Resources.  An address may be used again, and nobody takes the entry of  *)
(* a resource that was destroyed out of the global states.                  *)

CanLock_mutant == TRUE
CanLock == owner = NoList

Of(states, r) == IF r \in DOMAIN states THEN states[r] ELSE ResourceState(Common)

\* The chains of mips are created in the common state.
AddGlobalResourceState(r, s) ==
  /\ CanLock
  /\ r \notin alive
  /\ r \in Chains => s = Common
  /\ alive' = alive \cup {r}
  /\ global' = Put(global, r, SetSubresourceState(Of(global, r), All, s))
  /\ actual' = [actual EXCEPT ![r] = [i \in Subs(r) |-> s]]
  /\ UNCHANGED <<trackerVars, listVars, owner, gpu>>

RefersTo_mutant(l, r) == pc[l] = "recording" /\ \E a \in asked[l] : a.resource = r
RefersTo(l, r) == \E a \in asked[l] : a.resource = r

\* A list keeps what it uses alive until it is reset.
Destroy(r) ==
  /\ r \in alive
  /\ \A l \in Lists : ~RefersTo(l, r)
  /\ alive' = alive \ {r}
  /\ UNCHANGED <<global, trackerVars, listVars, owner, gpuVars>>

-----------------------------------------------------------------------------
(* Recording.                                                              *)

BeginRecording(l) ==
  /\ pc[l] = "idle"
  /\ pc' = [pc EXCEPT ![l] = "recording"]
  /\ UNCHANGED <<global, trackerVars, commands, before, asked, owner, alive, gpuVars>>

\* What the callers ask for: all subresources at once, or the only one; but a
\* chain of mips one by one, in the list that it was made for.
MayAsk(l, r, i) ==
  IF r \in Chains
  THEN /\ i # All
       /\ global[r].sub = Empty
       /\ \A k \in Lists \ {l} : ~RefersTo(k, r)
  ELSE i = All \/ Subresources[r] = 1

Recorded(l) == SelectSeq(commands[l], LAMBDA c : c.op = "barrier")

\* Bound: MaxRecorded.
Room(l) == Len(Recorded(l)) + Len(barriers[l]) + Len(pending[l]) < MaxRecorded

Ask(A, r, i, s) ==
  {a \in A : a.resource # r \/ a.sub \notin Part(r, i)}
    \cup [resource : {r}, sub : Part(r, i), state : {s}]

ResourceBarrier(l, r, i, s) ==
  LET known == r \in DOMAIN final[l] IN
  /\ pc[l] = "recording" /\ Room(l)
  /\ r \in alive /\ MayAsk(l, r, i)
  /\ IF known
     THEN /\ barriers' = [barriers EXCEPT ![l] = @ \o SetToSeq(Barriers(final[l][r], r, i, s))]
          /\ UNCHANGED pending
     ELSE /\ pending' = [pending EXCEPT ![l] = Append(@, Barrier(r, i, Common, s))]
          /\ UNCHANGED barriers
  /\ final' = [final EXCEPT ![l] = Put(@, r, SetSubresourceState(Of(@, r), i, s))]
  /\ asked' = [asked EXCEPT ![l] = Ask(@, r, i, s)]
  /\ UNCHANGED <<global, commands, before, pc, owner, alive, gpuVars>>

\* What FlushResourceBarriers records.
Flushed_mutant(l) == <<>>
Flushed(l) == barriers[l]

Command(l) == [op |-> "use", asked |-> asked[l]]

\* A draw, a dispatch or a copy; a second one with nothing asked in between
\* would find the same.
Use(l) ==
  /\ pc[l] = "recording" /\ asked[l] # {}
  /\ commands[l] # <<>> => Last(commands[l]) # Command(l)
  /\ commands' = [commands EXCEPT ![l] = @ \o Append(Flushed(l), Command(l))]
  /\ barriers' = [barriers EXCEPT ![l] = <<>>]
  /\ UNCHANGED <<global, pending, final, before, asked, pc, owner, alive, gpuVars>>

-----------------------------------------------------------------------------
(* ExecuteCommandLists.                                                    *)

\* What the pending barriers start from.
Resolve_mutant(l) == PutAll(global, final[l])
Resolve(l) == global

\* In any order: they are of different resources.
FlushPendingResourceBarriers(l) ==
  SetToSeq(UNION {Barriers(Resolve(l)[b.resource], b.resource, b.sub, b.to) :
                  b \in {p \in Range(pending[l]) : p.resource \in DOMAIN Resolve(l)}})

\* Lock, Close and CommitFinalResourceStates.  Bound: MaxQueue.
Close(l) ==
  /\ pc[l] = "recording"
  /\ Len(gpu) <= MaxQueue
  /\ CanLock
  /\ owner' = l
  /\ commands' = [commands EXCEPT ![l] = @ \o Flushed(l)]
  /\ before' = [before EXCEPT ![l] = FlushPendingResourceBarriers(l)]
  /\ global' = PutAll(global, final[l])
  /\ barriers' = [barriers EXCEPT ![l] = <<>>]
  /\ pending' = [pending EXCEPT ![l] = <<>>]
  /\ final' = [final EXCEPT ![l] = [r \in {} |-> ResourceState(Common)]]
  /\ pc' = [pc EXCEPT ![l] = "submit"]
  /\ UNCHANGED <<asked, alive, gpuVars>>

\* The pending command list goes in front, and the signal behind; Unlock.
Submit(l) ==
  /\ pc[l] = "submit"
  /\ gpu' = gpu \o before[l] \o Append(commands[l], [op |-> "signal", list |-> l])
  /\ before' = [before EXCEPT ![l] = <<>>]
  /\ commands' = [commands EXCEPT ![l] = <<>>]
  /\ owner' = NoList
  /\ pc' = [pc EXCEPT ![l] = "inFlight"]
  /\ UNCHANGED <<global, trackerVars, asked, alive, actual>>

\* The recycling thread resets the list when its signal has been reached.
Reset(l) ==
  /\ pc[l] = "inFlight"
  /\ [op |-> "signal", list |-> l] \notin Range(gpu)
  /\ pending' = [pending EXCEPT ![l] = <<>>]
  /\ barriers' = [barriers EXCEPT ![l] = <<>>]
  /\ final' = [final EXCEPT ![l] = [r \in {} |-> ResourceState(Common)]]
  /\ asked' = [asked EXCEPT ![l] = {}]
  /\ pc' = [pc EXCEPT ![l] = "idle"]
  /\ UNCHANGED <<global, commands, before, owner, alive, gpuVars>>

\* Command c changes the state of subresource i of r.
Touches(c, r, i) == c.op = "barrier" /\ c.resource = r /\ i \in Part(r, c.sub)

\* The states after command c.
Executed(c) ==
  [r \in Resources |-> [i \in Subs(r) |-> IF Touches(c, r, i) THEN c.to ELSE actual[r][i]]]

Gpu ==
  /\ gpu # <<>>
  /\ gpu' = Tail(gpu)
  /\ actual' = Executed(Head(gpu))
  /\ UNCHANGED <<global, trackerVars, listVars, owner, alive>>

-----------------------------------------------------------------------------
Next ==
  \/ \E r \in Resources :
       \/ \E s \in States : AddGlobalResourceState(r, s)
       \/ Destroy(r)
  \/ \E l \in Lists :
       \/ BeginRecording(l) \/ Use(l)
       \/ \E r \in Resources, s \in States : \E i \in Subs(r) \cup {All} : ResourceBarrier(l, r, i, s)
       \/ Close(l) \/ Submit(l) \/ Reset(l)
  \/ Gpu

Spec == Init /\ [][Next]_vars

-----------------------------------------------------------------------------
(* Properties.                                                             *)

\* When the GPU comes to a barrier, what it transitions is in the state the
\* barrier starts from, although the list was recorded before it was known
\* which list would run first ("This guarantees that resources will be in the
\* expected state at the beginning of a command list",
\* ResourceStateTracker.h:126-128).
BeforeStatesMatch ==
  gpu # <<>> /\ Head(gpu).op = "barrier" =>
    \A i \in Part(Head(gpu).resource, Head(gpu).sub) :
      actual[Head(gpu).resource][i] = Head(gpu).from

\* When the GPU comes to a draw or a copy, everything its caller asked for is
\* in the state that was asked for (CommandList.cpp:159-163, 1591-1625).
UsesFindStates ==
  gpu # <<>> /\ Head(gpu).op = "use" =>
    \A a \in Head(gpu).asked : actual[a.resource][a.sub] = a.state

\* The first n commands of G leave subresource i of r, which was in state s,
\* in state t: that of the last of them that touches it.
Leaves(G, n, r, i, s, t) ==
  LET T == {j \in 1..n : Touches(G[j], r, i)} IN
  /\ T = {} => t = s
  /\ \A j \in T : (\A k \in T : k <= j) => t = G[j].to

\* Between two executions the global states are those in which the GPU will
\* leave the resources when it has come to the end of its queue.
GlobalIsLastState ==
  owner = NoList =>
    \A r \in alive : \A i \in Subs(r) :
      Leaves(gpu, Len(gpu), r, i, actual[r][i], GetSubresourceState(global[r], i))

=============================================================================
