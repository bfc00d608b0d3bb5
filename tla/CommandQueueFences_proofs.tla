---------------------- MODULE CommandQueueFences_proofs ----------------------
(***************************************************************************)
(* More proofs about CommandQueue: the order of the fence values.  That a  *)
(* queue's fence never goes back, that Flush drains, and that mips are     *)
(* generated after their textures are copied.  Each needs to know who      *)
(* holds the two locks, and that a fence value is handed out once.         *)
(***************************************************************************)
EXTENDS CommandQueue_proofs

-----------------------------------------------------------------------------
(* The inductive invariant, on top of IInv.                                *)

\* On which queue a thread's call is made.
CallOf(t) ==
  /\ pc[t] \in {"idle", "flush", "sleep", "flushWait"} => queue[t] = NoQueue
  /\ held[t]["mips"] # NoList => queue[t] = Copy
  /\ pc[t] \in {"get", "tryPop"} /\ slot[t] = "mips" => queue[t] = Copy
  /\ pc[t] \in {"increment", "signal"} /\ toBeQueued[t] = <<>> => queue[t] = Direct
  /\ queue[t] = Direct /\ Direct \in Queues => Direct \in Uses[t]

Calls == \A t \in Threads : CallOf(t)

\* ExecuteCommandLists holds ResourceStateTracker's mutex from Lock to Unlock;
\* only Present's Signal, on the direct queue, does not.
LockedBy(t) ==
  /\ pc[t] \in {"get", "tryPop"} /\ slot[t] = "pending" => lockOwner = t
  /\ pc[t] \in {"close", "unlock"} => lockOwner = t
  /\ pc[t] \in {"increment", "signal"} /\ (queue[t] # Direct \/ toBeQueued[t] # <<>>) =>
       lockOwner = t

Locked == \A t \in Threads : LockedBy(t)

\* The recycling thread holds its mutex while it drains, and a flushing thread
\* while it waits for the fence.
Mutexes ==
  /\ \A q \in Queues : worker[q] \in {"drain", "wait"} => mutex[q] = q
  /\ \A t \in Threads : pc[t] = "flushWait" => mutex[Head(toFlush[t])] = t

\* A thread that has taken a fence value is the only one that has it.
HasTicket(t) == pc[t] \in {"signal", "unlock", "clear", "push"}

Tickets ==
  /\ \A t \in Threads : HasTicket(t) => signalled[t] > 0 /\ signalled[t] <= fenceValue[queue[t]]
  /\ \A t, u \in Threads :
       HasTicket(t) /\ HasTicket(u) /\ queue[t] = queue[u] /\ signalled[t] = signalled[u] => t = u
  /\ \A t \in Threads, q \in Queues : lastFence[t][q] <= fenceValue[q]
  /\ \A t, u \in Threads :
       HasTicket(u) /\ u # t => signalled[u] # lastFence[t][queue[u]]

\* What a thread that waits for the fence in Flush has executed on that queue
\* is signalled no later than what it waits for, and is no longer in flight.
FlushedBy(t) ==
  LET q == Head(toFlush[t]) IN
  pc[t] = "flushWait" =>
    /\ lastFence[t][q] <= signalled[t]
    /\ \A i \in 1..Len(inFlight[q]) : inFlight[q][i].fence # lastFence[t][q]

Flushed == \A t \in Threads : FlushedBy(t)

\* The queues whose Signal has no competitor: those that only
\* ExecuteCommandLists signals, and the direct queue if one thread renders.
OneRenderer == \A t, u \in Threads : Direct \in Uses[t] /\ Direct \in Uses[u] => t = u

Ordered(q) == q # Direct \/ OneRenderer

\* No signal is queued behind a greater one, and whoever is about to signal
\* has a value that is not less than any that is queued.
SignalsOf(q) ==
  /\ \A i \in 1..Len(gpu[q]) : gpu[q][i].op = "signal" => fence[q] <= gpu[q][i].value
  /\ \A j \in 1..Len(gpu[q]) : \A i \in 1..(j-1) :
       gpu[q][i].op = "signal" /\ gpu[q][j].op = "signal" => gpu[q][i].value <= gpu[q][j].value
  /\ \A t \in Threads : pc[t] = "signal" /\ queue[t] = q =>
       /\ fence[q] <= signalled[t]
       /\ \A i \in 1..Len(gpu[q]) : gpu[q][i].op = "signal" => gpu[q][i].value <= signalled[t]

Signals == \A q \in Queues : Ordered(q) => SignalsOf(q)

\* The copy fence has reached f, or the compute queue waits for it before its
\* n-th command.
WaitsFor(f, n) ==
  \/ fence[Copy] >= f
  \/ \E j \in 1..(n-1) : /\ gpu[Compute][j].op = "wait" /\ gpu[Compute][j].on = Copy
                         /\ gpu[Compute][j].value >= f

Behind(l) ==
  copyFence[l] > 0 =>
    /\ Copy \in Queues /\ Compute \in Queues
    /\ WaitsFor(copyFence[l], Len(gpu[Compute]) + 1)
    /\ \A i \in 1..Len(gpu[Compute]) :
         gpu[Compute][i].op = "exec" /\ gpu[Compute][i].list = l => WaitsFor(copyFence[l], i)

MipsWait == \A l \in CommandLists : Behind(l)

FInv ==
  /\ IInv
  /\ Calls
  /\ Locked
  /\ Mutexes
  /\ Tickets
  /\ Flushed
  /\ Signals
  /\ MipsWait

-----------------------------------------------------------------------------
LEMMA FencesInit == Init => FInv
<1> SUFFICES ASSUME Init PROVE FInv
    OBVIOUS
<1>1. IInv
  BY InitInvariant
<1> USE DEF Init
<1>2. Calls /\ Locked /\ Mutexes /\ Tickets /\ Flushed /\ MipsWait
  <2>1. \A t \in Threads : held[t]["mips"] = NoList
    BY DEF NoLists, Slots
  <2>2. \A t \in Threads : queue[t] = Direct /\ Direct \in Queues => Direct \in Uses[t]
    BY QueuesAssumption
  <2>3. Calls
    BY <2>1, <2>2 DEF Calls, CallOf
  <2>4. Locked /\ Mutexes /\ Flushed
    BY DEF Locked, LockedBy, Mutexes, Flushed, FlushedBy
  <2>5. Tickets
    BY DEF Tickets, HasTicket
  <2>6. MipsWait
    BY DEF MipsWait, Behind
  <2>  QED BY <2>3, <2>4, <2>5, <2>6
<1>3. Signals
  BY DEF Signals, SignalsOf
<1>  QED BY <1>1, <1>2, <1>3 DEF FInv

USE DEF Goto, Return, StartOp, Obtained, GetFrom, gpuVars, queueVars, workerVars,
        lockVars, threadVars, ghostVars, vars, IsFenceComplete, Wait, Popped, CanLock,
        AllPopped, HasMips, LoopsOn

LEMMA CallsStep == TypeOK /\ Control /\ Calls /\ [Next]_vars => Calls'
<1> SUFFICES ASSUME TypeOK, Control, Calls, [Next]_vars
             PROVE  Calls'
    OBVIOUS
<1>0. /\ pc \in [Threads -> States]
      /\ queue \in [Threads -> Queues \cup {NoQueue}]
      /\ slot \in [Threads -> Slots]
      /\ held \in [Threads -> [Slots -> CommandLists \cup {NoList}]]
      /\ toBeQueued \in [Threads -> Seq(CommandLists)]
      /\ NoQueue \notin Queues /\ Direct # Copy /\ Direct # Compute
    BY QueuesAssumption DEF TypeOK
<1> USE <1>0 DEF Calls, CallOf, Control, ControlOf, InExecute
<1>1. CASE UNCHANGED <<pc, queue, slot, held, toBeQueued>>
  BY <1>1
<1>2. ASSUME NEW t \in Threads, Start(t) PROVE Calls'
  <2>1. Uses[t] \subseteq Queues
    BY QueuesAssumption
  <2>2. held[t]["mips"] = NoList /\ slot[t] = "main"
    BY <1>2 DEF Start, BeginRecording, BeginSignal, BeginFlush
  <2>  QED BY <1>2, <2>1, <2>2 DEF Start, BeginRecording, BeginSignal, BeginFlush
<1>3. ASSUME NEW t \in Threads, Lock(t) PROVE Calls'
  BY <1>3 DEF Lock
<1>4. ASSUME NEW t \in Threads, NEW l \in CommandLists, Obtained(t, l),
             pc[t] \in {"get", "tryPop"}, UNCHANGED <<queue, slot, toBeQueued>>
      PROVE  Calls'
  BY <1>4 DEF Slots
<1>5. ASSUME NEW t \in Threads, GetCommandList(t) PROVE Calls'
  <2>1. CASE CreateCommandList(t)
    <3>1. NewList \in CommandLists
      BY <2>1 DEF CreateCommandList, NewList
    <3>  QED BY <1>4, <2>1, <3>1 DEF CreateCommandList
  <2>2. CASE TryPop(t)
    <3>1. GetFrom(t) \in Queues
      BY <2>2 DEF TryPop
    <3>2. Head(available[GetFrom(t)]) \in CommandLists
      BY <2>2, <3>1, HeadTailProperties DEF TryPop, TypeOK
    <3>  QED BY <1>4, <2>2, <3>2 DEF TryPop
  <2>3. CASE SeeAvailable(t) \/ TryPopFails(t)
    BY <2>3 DEF SeeAvailable, TryPopFails
  <2>  QED BY <1>5, <2>1, <2>2, <2>3 DEF GetCommandList
<1>6. ASSUME NEW t \in Threads, RecordMips(t) PROVE Calls'
  BY <1>6 DEF RecordMips
<1>7. ASSUME NEW t \in Threads, NEW b \in BOOLEAN, Submit(t, b) PROVE Calls'
  <2>1. toBeQueued'[t] # <<>>
    BY <1>7 DEF Submit
  <2>  QED BY <1>7, <2>1 DEF Submit, Slots
<1>8. ASSUME NEW t \in Threads, IncrementFence(t) PROVE Calls'
  BY <1>8 DEF IncrementFence
<1>9. ASSUME NEW t \in Threads, Signal(t) PROVE Calls'
  <2>1. CASE toBeQueued[t] = <<>>
    BY <1>9, <2>1 DEF Signal
  <2>2. CASE toBeQueued[t] # <<>>
    BY <1>9, <2>2 DEF Signal
  <2>  QED BY <2>1, <2>2
<1>10. ASSUME NEW t \in Threads, UnlockMutex(t) \/ ClearIsLocked(t) \/ PushInFlight(t)
       PROVE  Calls'
  <2>1. CASE UnlockMutex(t)
    BY <2>1 DEF UnlockMutex
  <2>2. CASE ClearIsLocked(t)
    BY <2>2 DEF ClearIsLocked
  <2>3. CASE PushInFlight(t)
    BY <2>3 DEF PushInFlight
  <2>  QED BY <1>10, <2>1, <2>2, <2>3
<1>11. ASSUME NEW t \in Threads, FinishExecute(t) PROVE Calls'
  BY <1>11 DEF FinishExecute
<1>12. ASSUME NEW t \in Threads, ExecuteMips(t) PROVE Calls'
  BY <1>12 DEF ExecuteMips, Slots
<1>13. ASSUME NEW t \in Threads, Flush(t) PROVE Calls'
  <2>1. CASE FlushEmpty(t) \/ FlushSleep(t)
    BY <2>1 DEF FlushEmpty, FlushSleep
  <2>2. CASE FlushReturn(t)
    BY <2>2 DEF FlushReturn
  <2>  QED BY <1>13, <2>1, <2>2 DEF Flush
<1>14. ASSUME NEW q \in Queues, ProccessInFlightCommandLists(q) PROVE Calls'
  <2>1. CASE Notify(q)
    BY <2>1 DEF Notify, Sleeping
  <2>  QED BY <1>1, <1>14, <2>1
       DEF ProccessInFlightCommandLists, LockInFlight, PopInFlight, Recycle, UnlockInFlight
<1>15. ASSUME NEW q \in Queues, Gpu(q) \/ Destroy(q) PROVE Calls'
  BY <1>1, <1>15 DEF Gpu, GpuExecute, GpuSignal, GpuWait, Destroy
<1>16. ASSUME NEW t \in Threads, Work(t) PROVE Calls'
  BY <1>5, <1>6, <1>7, <1>8, <1>9, <1>10, <1>11, <1>12, <1>13, <1>16
     DEF Work, ExecuteCommandLists
<1> QED BY <1>1, <1>2, <1>3, <1>14, <1>15, <1>16 DEF Next

-----------------------------------------------------------------------------
(* The two locks.                                                          *)

LEMMA LockedStep == TypeOK /\ Control /\ Locked /\ [Next]_vars => Locked'
<1> SUFFICES ASSUME TypeOK, Control, Locked, [Next]_vars
             PROVE  Locked'
    OBVIOUS
<1>0. /\ pc \in [Threads -> States]
      /\ queue \in [Threads -> Queues \cup {NoQueue}]
      /\ slot \in [Threads -> Slots]
      /\ toBeQueued \in [Threads -> Seq(CommandLists)]
      /\ NoThread \notin Threads
    BY QueuesAssumption DEF TypeOK
<1> USE <1>0 DEF Locked, LockedBy, Control, ControlOf, InExecute
<1>1. CASE UNCHANGED <<pc, queue, slot, toBeQueued, lockOwner>>
  BY <1>1
<1>2. ASSUME NEW t \in Threads, Start(t) PROVE Locked'
  <2>1. toBeQueued[t] = <<>>
    BY <1>2 DEF Start, BeginRecording, BeginSignal, BeginFlush
  <2>  QED BY <1>2, <2>1 DEF Start, BeginRecording, BeginSignal, BeginFlush
<1>3. ASSUME NEW t \in Threads, Lock(t) PROVE Locked'
  BY <1>3 DEF Lock
<1>4. ASSUME NEW t \in Threads, GetCommandList(t) PROVE Locked'
  BY <1>4 DEF GetCommandList, CreateCommandList, SeeAvailable, TryPop, TryPopFails
<1>5. ASSUME NEW t \in Threads, RecordMips(t) PROVE Locked'
  BY <1>5 DEF RecordMips
<1>6. ASSUME NEW t \in Threads, NEW b \in BOOLEAN, Submit(t, b) PROVE Locked'
  BY <1>6 DEF Submit
<1>7. ASSUME NEW t \in Threads, IncrementFence(t) PROVE Locked'
  BY <1>7 DEF IncrementFence
<1>8. ASSUME NEW t \in Threads, Signal(t) PROVE Locked'
  <2>1. CASE toBeQueued[t] = <<>>
    BY <1>8, <2>1 DEF Signal
  <2>2. CASE toBeQueued[t] # <<>>
    BY <1>8, <2>2 DEF Signal
  <2>  QED BY <2>1, <2>2
<1>9. ASSUME NEW t \in Threads, UnlockMutex(t) PROVE Locked'
  BY <1>9 DEF UnlockMutex
<1>10. ASSUME NEW t \in Threads, ClearIsLocked(t) \/ FinishExecute(t) PROVE Locked'
  BY <1>10 DEF ClearIsLocked, FinishExecute
<1>11. ASSUME NEW t \in Threads, PushInFlight(t) PROVE Locked'
  BY <1>11 DEF PushInFlight
<1>12. ASSUME NEW t \in Threads, ExecuteMips(t) PROVE Locked'
  BY <1>12 DEF ExecuteMips
<1>13. ASSUME NEW t \in Threads, Flush(t) PROVE Locked'
  <2>1. CASE FlushEmpty(t) \/ FlushSleep(t)
    BY <2>1 DEF FlushEmpty, FlushSleep
  <2>2. CASE FlushReturn(t)
    BY <2>2 DEF FlushReturn
  <2>  QED BY <1>13, <2>1, <2>2 DEF Flush
<1>14. ASSUME NEW q \in Queues, ProccessInFlightCommandLists(q) PROVE Locked'
  <2>1. CASE Notify(q)
    BY <2>1 DEF Notify, Sleeping
  <2>  QED BY <1>1, <1>14, <2>1
       DEF ProccessInFlightCommandLists, LockInFlight, PopInFlight, Recycle, UnlockInFlight
<1>15. ASSUME NEW q \in Queues, Gpu(q) \/ Destroy(q) PROVE Locked'
  BY <1>1, <1>15 DEF Gpu, GpuExecute, GpuSignal, GpuWait, Destroy
<1>16. ASSUME NEW t \in Threads, Work(t) PROVE Locked'
  BY <1>4, <1>5, <1>6, <1>7, <1>8, <1>9, <1>10, <1>11, <1>12, <1>13, <1>16
     DEF Work, ExecuteCommandLists
<1> QED BY <1>1, <1>2, <1>3, <1>14, <1>15, <1>16 DEF Next

LEMMA MutexesStep == TypeOK /\ Control /\ Mutexes /\ [Next]_vars => Mutexes'
<1> SUFFICES ASSUME TypeOK, Control, Mutexes, [Next]_vars
             PROVE  Mutexes'
    OBVIOUS
<1>0. /\ pc \in [Threads -> States]
      /\ mutex \in [Queues -> Holders]
      /\ worker \in [Queues -> {"lock", "drain", "wait", "notify", "exited"}]
      /\ toFlush \in [Threads -> Seq(Queues)]
      /\ NoThread \notin Threads /\ NoThread \notin Queues /\ Threads \cap Queues = {}
      /\ \A t \in Threads : pc[t] \in {"flush", "flushWait"} => Head(toFlush[t]) \in Queues
  <2>1. \A t \in Threads : pc[t] \in {"flush", "flushWait"} => Head(toFlush[t]) \in Queues
    BY HeadTailProperties DEF TypeOK, Control, ControlOf
  <2>  QED BY <2>1, QueuesAssumption DEF TypeOK
<1> USE <1>0 DEF Mutexes
\* Steps that leave the mutexes to who holds them.
<1>1. ASSUME UNCHANGED mutex,
             \A q \in Queues : worker'[q] \in {"drain", "wait"} => worker[q] \in {"drain", "wait"},
             \A t \in Threads : pc'[t] = "flushWait" =>
               pc[t] = "flushWait" /\ toFlush'[t] = toFlush[t]
      PROVE  Mutexes'
  BY <1>1
<1>2. ASSUME NEW t \in Threads, Start(t) \/ Lock(t) PROVE Mutexes'
  BY <1>1, <1>2 DEF Start, BeginRecording, BeginSignal, BeginFlush, Lock
<1>3. ASSUME NEW t \in Threads, GetCommandList(t) \/ RecordMips(t) PROVE Mutexes'
  <2>1. CASE CreateCommandList(t)
    BY <1>1, <2>1 DEF CreateCommandList
  <2>2. CASE TryPop(t)
    BY <1>1, <2>2 DEF TryPop
  <2>3. CASE SeeAvailable(t)
    BY <1>1, <2>3 DEF SeeAvailable
  <2>4. CASE TryPopFails(t)
    BY <1>1, <2>4 DEF TryPopFails
  <2>5. CASE RecordMips(t)
    BY <1>1, <2>5 DEF RecordMips
  <2>  QED BY <1>3, <2>1, <2>2, <2>3, <2>4, <2>5 DEF GetCommandList
<1>4. ASSUME NEW t \in Threads, ExecuteCommandLists(t) PROVE Mutexes'
  BY <1>1, <1>4
     DEF ExecuteCommandLists, Submit, IncrementFence, Signal, UnlockMutex, ClearIsLocked,
         PushInFlight, FinishExecute, ExecuteMips
<1>5. ASSUME NEW t \in Threads, FlushEmpty(t) PROVE Mutexes'
  BY <1>5 DEF FlushEmpty
<1>6. ASSUME NEW t \in Threads, FlushSleep(t) PROVE Mutexes'
  BY <1>1, <1>6 DEF FlushSleep
<1>7. ASSUME NEW t \in Threads, FlushReturn(t) PROVE Mutexes'
  <2> DEFINE q == Head(toFlush[t])
  <2>1. /\ pc[t] = "flushWait" /\ mutex[q] = t /\ q \in Queues
        /\ mutex' = [mutex EXCEPT ![q] = NoThread] /\ UNCHANGED worker
        /\ pc'[t] # "flushWait"
        /\ \A u \in Threads : u # t => pc'[u] = pc[u] /\ toFlush'[u] = toFlush[u]
    BY <1>7 DEF FlushReturn
  <2> HIDE DEF q
  <2>  QED BY <2>1
<1>8. ASSUME NEW q \in Queues, LockInFlight(q) PROVE Mutexes'
  BY <1>8 DEF LockInFlight
<1>9. ASSUME NEW q \in Queues, PopInFlight(q) \/ Recycle(q) PROVE Mutexes'
  BY <1>1, <1>9 DEF PopInFlight, Recycle
<1>10. ASSUME NEW q \in Queues, UnlockInFlight(q) PROVE Mutexes'
  BY <1>10 DEF UnlockInFlight
<1>11. ASSUME NEW q \in Queues, Notify(q) PROVE Mutexes'
  BY <1>1, <1>11 DEF Notify, Sleeping
<1>12. ASSUME NEW q \in Queues, Gpu(q) \/ Destroy(q) PROVE Mutexes'
  BY <1>1, <1>12 DEF Gpu, GpuExecute, GpuSignal, GpuWait, Destroy
<1>13. CASE UNCHANGED vars
  BY <1>1, <1>13
<1>14. ASSUME NEW t \in Threads, Work(t) PROVE Mutexes'
  BY <1>3, <1>4, <1>5, <1>6, <1>7, <1>14 DEF Work, Flush
<1> QED
  BY <1>2, <1>8, <1>9, <1>10, <1>11, <1>12, <1>13, <1>14
     DEF Next, ProccessInFlightCommandLists

-----------------------------------------------------------------------------
(* Fence values are tickets.                                               *)

LEMMA TicketsStep == TypeOK /\ Control /\ Tickets /\ [Next]_vars => Tickets'
<1> SUFFICES ASSUME TypeOK, Control, Tickets, [Next]_vars
             PROVE  Tickets'
    OBVIOUS
<1>0. /\ pc \in [Threads -> States]
      /\ queue \in [Threads -> Queues \cup {NoQueue}]
      /\ fenceValue \in [Queues -> Nat]
      /\ signalled \in [Threads -> Nat]
      /\ lastFence \in [Threads -> [Queues -> Nat]]
      /\ \A t \in Threads : HasTicket(t) \/ pc[t] = "increment" => queue[t] \in Queues
    BY DEF TypeOK, Control, ControlOf, InExecute, HasTicket
<1> USE <1>0 DEF Tickets
\* Steps that hand out no ticket.
<1>1. ASSUME UNCHANGED <<fenceValue, lastFence>>,
             \A t \in Threads : HasTicket(t)' =>
               HasTicket(t) /\ signalled'[t] = signalled[t] /\ queue'[t] = queue[t]
      PROVE  Tickets'
  BY <1>1
<1>2. ASSUME NEW t \in Threads, IncrementFence(t) PROVE Tickets'
  <2> DEFINE q == queue[t]
             v == fenceValue[q] + 1
  <2>1. /\ q \in Queues /\ v \in Nat /\ v > 0
        /\ fenceValue' = [fenceValue EXCEPT ![q] = v]
        /\ signalled' = [signalled EXCEPT ![t] = v]
        /\ UNCHANGED <<queue, lastFence>>
        /\ HasTicket(t)' /\ \A u \in Threads : u # t => HasTicket(u)' = HasTicket(u)
    BY <1>2 DEF IncrementFence, HasTicket
  <2>2. \A r \in Queues : fenceValue'[r] \in Nat /\ fenceValue[r] <= fenceValue'[r]
    BY <2>1
  <2>3. \A u \in Threads : u # t /\ HasTicket(u)' =>
          /\ HasTicket(u) /\ signalled'[u] = signalled[u]
          /\ queue[u] = q => signalled[u] < v
    BY <2>1
  <2>4. \A u \in Threads : lastFence[u][q] < v
    BY <2>1
  <2>5. \A u \in Threads : HasTicket(u)' =>
          signalled'[u] > 0 /\ signalled'[u] <= fenceValue'[queue'[u]]
    <3>1. signalled'[t] > 0 /\ signalled'[t] <= fenceValue'[queue'[t]]
      BY <2>1
    <3>2. ASSUME NEW u \in Threads, u # t, HasTicket(u)'
          PROVE  signalled'[u] > 0 /\ signalled'[u] <= fenceValue'[queue'[u]]
      <4>1. HasTicket(u) /\ queue[u] \in Queues /\ signalled'[u] = signalled[u]
        BY <2>3, <3>2
      <4>2. signalled[u] > 0 /\ signalled[u] <= fenceValue[queue[u]]
        BY <4>1
      <4>  QED BY <2>1, <2>2, <4>1, <4>2
    <3>  QED BY <3>1, <3>2
  <2>6. \A u, w \in Threads :
          HasTicket(u)' /\ HasTicket(w)' /\ queue'[u] = queue'[w] /\ signalled'[u] = signalled'[w]
            => u = w
    BY <2>1, <2>3
  <2>7. \A u \in Threads, r \in Queues : lastFence'[u][r] <= fenceValue'[r]
    BY <2>1, <2>2
  <2>8. \A u, w \in Threads :
          HasTicket(w)' /\ w # u => signalled'[w] # lastFence'[u][queue'[w]]
    BY <2>1, <2>3, <2>4
  <2>  QED BY <2>5, <2>6, <2>7, <2>8
<1>3. ASSUME NEW t \in Threads, Signal(t) PROVE Tickets'
  <2>1. pc[t] = "signal" /\ HasTicket(t) /\ UNCHANGED fenceValue
    BY <1>3 DEF Signal, HasTicket
  <2>2. CASE toBeQueued[t] = <<>>
    BY <1>1, <1>3, <2>1, <2>2 DEF Signal, HasTicket
  <2>3. CASE toBeQueued[t] # <<>>
    <3>1. /\ lastFence' = [lastFence EXCEPT ![t][queue[t]] = signalled[t]]
          /\ UNCHANGED <<queue, signalled>>
          /\ \A u \in Threads : HasTicket(u)' = HasTicket(u)
      BY <1>3, <2>3 DEF Signal, HasTicket
    <3>2. \A u \in Threads, q \in Queues :
            lastFence'[u][q] = IF u = t /\ q = queue[t] THEN signalled[t] ELSE lastFence[u][q]
      BY <2>1, <3>1
    <3>3. \A u \in Threads, q \in Queues : lastFence'[u][q] <= fenceValue'[q]
      BY <2>1, <3>2
    <3>4. ASSUME NEW u \in Threads, NEW w \in Threads, HasTicket(w)', w # u
          PROVE  signalled'[w] # lastFence'[u][queue'[w]]
      <4>1. HasTicket(w) /\ queue[w] \in Queues
        BY <3>1, <3>4
      <4>2. CASE u = t /\ queue[w] = queue[t]
        BY <2>1, <3>1, <3>2, <3>4, <4>1, <4>2
      <4>3. CASE ~(u = t /\ queue[w] = queue[t])
        <5>1. lastFence'[u][queue[w]] = lastFence[u][queue[w]]
          BY <3>2, <4>1, <4>3
        <5>  QED BY <3>1, <3>4, <4>1, <5>1
      <4>  QED BY <4>2, <4>3
    <3>5. /\ \A u \in Threads :
               HasTicket(u)' => signalled'[u] > 0 /\ signalled'[u] <= fenceValue'[queue'[u]]
          /\ \A u, w \in Threads :
               HasTicket(u)' /\ HasTicket(w)' /\ queue'[u] = queue'[w]
                 /\ signalled'[u] = signalled'[w] => u = w
      BY <2>1, <3>1
    <3>  QED BY <3>3, <3>4, <3>5
  <2>  QED BY <2>2, <2>3
<1>4. ASSUME NEW t \in Threads, Start(t) \/ Lock(t) PROVE Tickets'
  BY <1>1, <1>4 DEF Start, BeginRecording, BeginSignal, BeginFlush, Lock, HasTicket
<1>5. ASSUME NEW t \in Threads, GetCommandList(t) PROVE Tickets'
  <2>1. /\ pc[t] \in {"get", "tryPop"} /\ pc'[t] \notin {"signal", "unlock", "clear", "push"}
        /\ \A u \in Threads : u # t => pc'[u] = pc[u]
        /\ UNCHANGED <<fenceValue, lastFence, signalled, queue>>
    BY <1>5 DEF GetCommandList, CreateCommandList, SeeAvailable, TryPop, TryPopFails
  <2>  QED BY <1>1, <2>1 DEF HasTicket
<1>6. ASSUME NEW t \in Threads, RecordMips(t) PROVE Tickets'
  BY <1>1, <1>6 DEF RecordMips, HasTicket
<1>7. ASSUME NEW t \in Threads, NEW b \in BOOLEAN, Submit(t, b) PROVE Tickets'
  BY <1>1, <1>7 DEF Submit, HasTicket
<1>8. ASSUME NEW t \in Threads, UnlockMutex(t) \/ ClearIsLocked(t) \/ PushInFlight(t)
      PROVE  Tickets'
  BY <1>1, <1>8 DEF UnlockMutex, ClearIsLocked, PushInFlight, HasTicket
<1>9. ASSUME NEW t \in Threads, FinishExecute(t) \/ ExecuteMips(t) PROVE Tickets'
  BY <1>1, <1>9 DEF FinishExecute, ExecuteMips, HasTicket
<1>10. ASSUME NEW t \in Threads, Flush(t) PROVE Tickets'
  <2>1. CASE FlushEmpty(t) \/ FlushSleep(t)
    BY <1>1, <2>1 DEF FlushEmpty, FlushSleep, HasTicket
  <2>2. CASE FlushReturn(t)
    BY <1>1, <2>2 DEF FlushReturn, HasTicket
  <2>  QED BY <1>10, <2>1, <2>2 DEF Flush
<1>11. ASSUME NEW q \in Queues, ProccessInFlightCommandLists(q) PROVE Tickets'
  <2>1. CASE Notify(q)
    BY <1>1, <2>1 DEF Notify, Sleeping, HasTicket
  <2>  QED BY <1>1, <1>11, <2>1
       DEF ProccessInFlightCommandLists, LockInFlight, PopInFlight, Recycle, UnlockInFlight,
           HasTicket
<1>12. ASSUME NEW q \in Queues, Gpu(q) \/ Destroy(q) PROVE Tickets'
  BY <1>1, <1>12 DEF Gpu, GpuExecute, GpuSignal, GpuWait, Destroy, HasTicket
<1>13. CASE UNCHANGED vars
  BY <1>1, <1>13 DEF HasTicket
<1>14. ASSUME NEW t \in Threads, Work(t) PROVE Tickets'
  BY <1>2, <1>3, <1>5, <1>6, <1>7, <1>8, <1>9, <1>10, <1>14 DEF Work, ExecuteCommandLists
<1> QED BY <1>4, <1>11, <1>12, <1>13, <1>14 DEF Next

\* What PushInFlight and PopInFlight do to the in-flight queue.
LEMMA PushEntry ==
  ASSUME TypeOK, Control, NEW t \in Threads, PushInFlight(t)
  PROVE  /\ queue[t] \in Queues /\ Len(inFlight[queue[t]]) \in Nat
         /\ Len(inFlight'[queue[t]]) = Len(inFlight[queue[t]]) + 1
         /\ \A i \in 1..Len(inFlight[queue[t]]) :
              inFlight'[queue[t]][i] = inFlight[queue[t]][i]
         /\ inFlight'[queue[t]][Len(inFlight[queue[t]]) + 1].fence = signalled[t]
         /\ \A r \in Queues : r # queue[t] => inFlight'[r] = inFlight[r]
<1> DEFINE q == queue[t]
           e == [fence |-> signalled[t], list |-> Head(toBeQueued[t])]
<1>1. q \in Queues /\ inFlight \in [Queues -> Seq(Entries)]
  BY DEF PushInFlight, Control, ControlOf, InExecute, TypeOK
<1>2. e \in Entries
  BY HeadTailProperties DEF PushInFlight, Entries, TypeOK
<1>3. /\ inFlight'[q] = Append(inFlight[q], e)
      /\ \A r \in Queues : r # q => inFlight'[r] = inFlight[r]
  BY <1>1 DEF PushInFlight
<1>  QED BY <1>1, <1>2, <1>3, AppendProperties, LenProperties

LEMMA PopEntry ==
  ASSUME TypeOK, NEW q \in Queues, PopInFlight(q)
  PROVE  /\ \A i \in 1..Len(inFlight'[q]) :
              i+1 \in 1..Len(inFlight[q]) /\ inFlight'[q][i] = inFlight[q][i+1]
         /\ \A r \in Queues : r # q => inFlight'[r] = inFlight[r]
<1>1. inFlight \in [Queues -> Seq(Entries)] /\ inFlight[q] # <<>>
  BY DEF PopInFlight, TypeOK
<1>2. inFlight'[q] = Tail(inFlight[q]) /\ \A r \in Queues : r # q => inFlight'[r] = inFlight[r]
  BY <1>1 DEF PopInFlight
<1>3. /\ inFlight[q] \in Seq(Entries) /\ Len(inFlight[q]) \in Nat \ {0}
      /\ Len(Tail(inFlight[q])) = Len(inFlight[q]) - 1
      /\ \A i \in 1..Len(Tail(inFlight[q])) : Tail(inFlight[q])[i] = inFlight[q][i+1]
  BY <1>1, HeadTailProperties, EmptySeq
<1>4. \A i \in 1..Len(inFlight'[q]) :
        i+1 \in 1..Len(inFlight[q]) /\ inFlight'[q][i] = inFlight[q][i+1]
  BY <1>2, <1>3
<1>  QED BY <1>2, <1>4

LEMMA FlushedStep ==
  TypeOK /\ Control /\ Mutexes /\ Tickets /\ Flushed /\ [Next]_vars => Flushed'
<1> SUFFICES ASSUME TypeOK, Control, Mutexes, Tickets, Flushed, [Next]_vars
             PROVE  Flushed'
    OBVIOUS
<1>0. /\ pc \in [Threads -> States]
      /\ lastFence \in [Threads -> [Queues -> Nat]]
      /\ signalled \in [Threads -> Nat]
      /\ fenceValue \in [Queues -> Nat]
      /\ inFlight \in [Queues -> Seq(Entries)]
      /\ toFlush \in [Threads -> Seq(Queues)]
      /\ \A t \in Threads : pc[t] \in {"flush", "flushWait"} => Head(toFlush[t]) \in Queues
  <2>1. \A t \in Threads : pc[t] \in {"flush", "flushWait"} => Head(toFlush[t]) \in Queues
    BY HeadTailProperties DEF TypeOK, Control, ControlOf
  <2>  QED BY <2>1 DEF TypeOK
<1> USE <1>0
\* Steps that neither change what a waiting thread waits for nor queue a list.
<1>1. ASSUME \A t \in Threads : pc'[t] = "flushWait" =>
               /\ pc[t] = "flushWait" /\ signalled'[t] = signalled[t]
               /\ toFlush'[t] = toFlush[t] /\ lastFence'[t] = lastFence[t],
             \A q \in Queues : \A i \in 1..Len(inFlight'[q]) :
               \E k \in 1..Len(inFlight[q]) : inFlight'[q][i] = inFlight[q][k]
      PROVE  Flushed'
  <2> SUFFICES ASSUME NEW t \in Threads, pc'[t] = "flushWait"
               PROVE  FlushedBy(t)'
      BY DEF Flushed, FlushedBy
  <2>1. /\ pc[t] = "flushWait" /\ signalled'[t] = signalled[t] /\ toFlush'[t] = toFlush[t]
        /\ lastFence'[t] = lastFence[t] /\ Head(toFlush[t]) \in Queues
    BY <1>1
  <2> DEFINE q == Head(toFlush[t])
  <2>2. /\ lastFence[t][q] <= signalled[t]
        /\ \A k \in 1..Len(inFlight[q]) : inFlight[q][k].fence # lastFence[t][q]
    BY <2>1 DEF Flushed, FlushedBy
  <2>3. \A i \in 1..Len(inFlight'[q]) : inFlight'[q][i].fence # lastFence[t][q]
    BY <1>1, <2>1, <2>2
  <2>4. Head(toFlush'[t]) = q
    BY <2>1
  <2> HIDE DEF q
  <2>  QED BY <2>1, <2>2, <2>3, <2>4 DEF FlushedBy
<1>2. ASSUME UNCHANGED inFlight
      PROVE  \A q \in Queues : \A i \in 1..Len(inFlight'[q]) :
               \E k \in 1..Len(inFlight[q]) : inFlight'[q][i] = inFlight[q][k]
  BY <1>2
<1>3. ASSUME NEW t \in Threads, FlushEmpty(t) PROVE Flushed'
  <2>1. /\ pc[t] = "flush" /\ inFlight[Head(toFlush[t])] = <<>>
        /\ signalled'[t] = fenceValue[Head(toFlush[t])]
        /\ UNCHANGED <<inFlight, toFlush, lastFence>>
        /\ \A u \in Threads : u # t => pc'[u] = pc[u] /\ signalled'[u] = signalled[u]
    BY <1>3 DEF FlushEmpty
  <2>2. FlushedBy(t)'
    <3> DEFINE q == Head(toFlush[t])
    <3>1. q \in Queues /\ lastFence[t][q] <= fenceValue[q]
      BY <2>1 DEF Tickets
    <3>2. inFlight'[q] = <<>> /\ Len(inFlight'[q]) = 0
      BY <2>1
    <3>3. Head(toFlush'[t]) = q /\ signalled'[t] = fenceValue[q] /\ lastFence'[t] = lastFence[t]
      BY <2>1
    <3> HIDE DEF q
    <3>  QED BY <3>1, <3>2, <3>3 DEF FlushedBy
  <2>3. \A u \in Threads : u # t => FlushedBy(u)'
    BY <2>1 DEF Flushed, FlushedBy
  <2>  QED BY <2>2, <2>3 DEF Flushed
<1>4. ASSUME NEW t \in Threads, PushInFlight(t) PROVE Flushed'
  <2>1. /\ pc[t] = "push" /\ HasTicket(t) /\ queue[t] \in Queues
        /\ UNCHANGED <<pc, signalled, toFlush, lastFence>>
    BY <1>4, PushEntry DEF PushInFlight, HasTicket
  <2> SUFFICES ASSUME NEW u \in Threads, pc[u] = "flushWait", NEW q \in Queues,
                      q = Head(toFlush[u]), NEW i \in 1..Len(inFlight'[q])
               PROVE  inFlight'[q][i].fence # lastFence[u][q]
      BY <2>1 DEF Flushed, FlushedBy
  <2>2. FlushedBy(u) /\ u # t
    BY <2>1 DEF Flushed
  <2>3. CASE q # queue[t] \/ i # Len(inFlight[q]) + 1
    <3>1. CASE q # queue[t]
      <4>1. inFlight'[q] = inFlight[q]
        BY <1>4, <3>1, PushEntry
      <4>  QED BY <2>2, <4>1 DEF FlushedBy
    <3>2. CASE q = queue[t]
      <4>1. /\ Len(inFlight[q]) \in Nat /\ Len(inFlight'[q]) = Len(inFlight[q]) + 1
            /\ \A j \in 1..Len(inFlight[q]) : inFlight'[q][j] = inFlight[q][j]
        BY <1>4, <3>2, PushEntry
      <4>2. i # Len(inFlight[q]) + 1
        BY <2>3, <3>2
      <4>3. i \in 1..Len(inFlight[q])
        BY <4>1, <4>2
      <4>4. inFlight'[q][i] = inFlight[q][i]
        BY <4>1, <4>3
      <4>  QED BY <2>2, <4>3, <4>4 DEF FlushedBy
    <3>  QED BY <3>1, <3>2
  <2>4. CASE q = queue[t] /\ i = Len(inFlight[q]) + 1
    <3>1. inFlight'[q][i].fence = signalled[t]
      BY <1>4, <2>4, PushEntry
    <3>2. signalled[t] # lastFence[u][queue[t]]
      BY <2>1, <2>2 DEF Tickets
    <3>  QED BY <2>4, <3>1, <3>2
  <2>  QED BY <2>3, <2>4
<1>5. ASSUME NEW q \in Queues, PopInFlight(q) PROVE Flushed'
  <2>1. UNCHANGED <<pc, signalled, toFlush, lastFence>>
    BY <1>5 DEF PopInFlight
  <2>2. \A r \in Queues : \A i \in 1..Len(inFlight'[r]) :
          \E k \in 1..Len(inFlight[r]) : inFlight'[r][i] = inFlight[r][k]
    BY <1>5, PopEntry
  <2>  QED BY <1>1, <2>1, <2>2
<1>6. ASSUME NEW t \in Threads, Signal(t) PROVE Flushed'
  <2>1. pc[t] = "signal" /\ pc'[t] # "flushWait" /\ UNCHANGED <<inFlight, toFlush>>
    BY <1>6 DEF Signal
  <2>2. \A u \in Threads : u # t =>
          pc'[u] = pc[u] /\ signalled'[u] = signalled[u] /\ lastFence'[u] = lastFence[u]
    BY <1>6 DEF Signal
  <2>  QED BY <1>1, <1>2, <2>1, <2>2
<1>7. ASSUME NEW t \in Threads, Start(t) \/ Lock(t) PROVE Flushed'
  BY <1>1, <1>2, <1>7 DEF Start, BeginRecording, BeginSignal, BeginFlush, Lock
<1>8. ASSUME NEW t \in Threads, GetCommandList(t) \/ RecordMips(t) PROVE Flushed'
  BY <1>1, <1>2, <1>8
     DEF GetCommandList, CreateCommandList, SeeAvailable, TryPop, TryPopFails, RecordMips
<1>9. ASSUME NEW t \in Threads, NEW b \in BOOLEAN, Submit(t, b) PROVE Flushed'
  BY <1>1, <1>2, <1>9 DEF Submit
<1>10. ASSUME NEW t \in Threads, IncrementFence(t) PROVE Flushed'
  BY <1>1, <1>2, <1>10 DEF IncrementFence
<1>11. ASSUME NEW t \in Threads,
              UnlockMutex(t) \/ ClearIsLocked(t) \/ FinishExecute(t) \/ ExecuteMips(t)
       PROVE  Flushed'
  BY <1>1, <1>2, <1>11 DEF UnlockMutex, ClearIsLocked, FinishExecute, ExecuteMips
<1>12. ASSUME NEW t \in Threads, FlushSleep(t) \/ FlushReturn(t) PROVE Flushed'
  BY <1>1, <1>2, <1>12 DEF FlushSleep, FlushReturn
<1>13. ASSUME NEW q \in Queues, Notify(q) PROVE Flushed'
  BY <1>1, <1>2, <1>13 DEF Notify, Sleeping
<1>14. ASSUME NEW q \in Queues, LockInFlight(q) \/ Recycle(q) \/ UnlockInFlight(q)
       PROVE  Flushed'
  BY <1>1, <1>2, <1>14 DEF LockInFlight, Recycle, UnlockInFlight
<1>15. ASSUME NEW q \in Queues, Gpu(q) \/ Destroy(q) PROVE Flushed'
  BY <1>1, <1>2, <1>15 DEF Gpu, GpuExecute, GpuSignal, GpuWait, Destroy
<1>16. CASE UNCHANGED vars
  BY <1>1, <1>2, <1>16
<1>17. ASSUME NEW t \in Threads, Work(t) PROVE Flushed'
  BY <1>3, <1>4, <1>6, <1>8, <1>9, <1>10, <1>11, <1>12, <1>17
     DEF Work, ExecuteCommandLists, Flush
<1> QED
  BY <1>5, <1>7, <1>13, <1>14, <1>15, <1>16, <1>17 DEF Next, ProccessInFlightCommandLists

-----------------------------------------------------------------------------
(* Signals reach a queue in the order of their values.                     *)

\* Between ++m_FenceValue and Signal, no other thread signals an ordered queue.
LEMMA OneSignaller ==
  ASSUME Calls, Locked, NEW q \in Queues, Ordered(q),
         NEW t \in Threads, pc[t] = "signal", queue[t] = q,
         NEW u \in Threads, pc[u] = "signal", queue[u] = q
  PROVE  t = u
<1>1. CASE q # Direct
  BY <1>1 DEF Locked, LockedBy
<1>2. CASE q = Direct
  BY <1>2 DEF Calls, CallOf, Ordered, OneRenderer
<1>  QED BY <1>1, <1>2

LEMMA SignalsStep ==
  ASSUME TypeOK, TypeOK', Control, FenceValues, Calls, Locked, Signals, [Next]_vars
  PROVE  Signals'
<1>0. /\ fence \in [Queues -> Nat] /\ fenceValue \in [Queues -> Nat]
      /\ signalled \in [Threads -> Nat]
      /\ pc \in [Threads -> States] /\ queue \in [Threads -> Queues \cup {NoQueue}]
      /\ \A q \in Queues : Len(gpu'[q]) \in Nat
  <2>1. \A q \in Queues : gpu'[q] \in Seq(Commands)
    BY DEF TypeOK
  <2>2. \A q \in Queues : Len(gpu'[q]) \in Nat
    BY <2>1, LenProperties
  <2>  QED BY <2>2 DEF TypeOK
<1> USE <1>0
\* Commands that are not signals make no difference.
<1>1. ASSUME UNCHANGED fence,
             \A q \in Queues : \A k \in 1..Len(gpu'[q]) : gpu'[q][k].op = "signal" =>
               k \in 1..Len(gpu[q]) /\ gpu'[q][k] = gpu[q][k],
             \A t \in Threads : pc'[t] = "signal" =>
               pc[t] = "signal" /\ signalled'[t] = signalled[t] /\ queue'[t] = queue[t]
      PROVE  Signals'
  <2> SUFFICES ASSUME NEW q \in Queues, Ordered(q) PROVE SignalsOf(q)'
      BY DEF Signals, Ordered, OneRenderer
  <2>1. SignalsOf(q)
    BY DEF Signals
  <2>2. \A i \in 1..Len(gpu'[q]) : gpu'[q][i].op = "signal" => fence'[q] <= gpu'[q][i].value
    BY <1>1, <2>1 DEF SignalsOf
  <2>3. ASSUME NEW j \in 1..Len(gpu'[q]), NEW i \in 1..(j-1),
               gpu'[q][i].op = "signal", gpu'[q][j].op = "signal"
        PROVE  gpu'[q][i].value <= gpu'[q][j].value
    <3>1. i \in 1..Len(gpu'[q])
      OBVIOUS
    <3>2. /\ i \in 1..Len(gpu[q]) /\ gpu'[q][i] = gpu[q][i]
          /\ j \in 1..Len(gpu[q]) /\ gpu'[q][j] = gpu[q][j]
      BY <1>1, <2>3, <3>1
    <3>  QED BY <2>1, <2>3, <3>2 DEF SignalsOf
  <2>4. ASSUME NEW t \in Threads, pc'[t] = "signal", queue'[t] = q
        PROVE  /\ fence'[q] <= signalled'[t]
               /\ \A i \in 1..Len(gpu'[q]) :
                    gpu'[q][i].op = "signal" => gpu'[q][i].value <= signalled'[t]
    BY <1>1, <2>1, <2>4 DEF SignalsOf
  <2>  QED BY <2>2, <2>3, <2>4 DEF SignalsOf
<1>2. ASSUME UNCHANGED <<fence, gpu>>,
             \A t \in Threads : pc'[t] = "signal" =>
               pc[t] = "signal" /\ signalled'[t] = signalled[t] /\ queue'[t] = queue[t]
      PROVE  Signals'
  BY <1>1, <1>2
<1>3. ASSUME NEW t \in Threads, NEW b \in BOOLEAN, Submit(t, b) PROVE Signals'
  <2>1. ASSUME NEW k \in 1..Len(gpu'[queue[t]]), gpu'[queue[t]][k].op = "signal"
        PROVE  k \in 1..Len(gpu[queue[t]])
    <3>1. "signal" # "exec" /\ ExecCmd(held[t]["main"]).op = "exec"
          /\ ExecCmd(held[t]["pending"]).op = "exec"
      BY DEF ExecCmd
    <3>2. Len(gpu[queue[t]]) \in Nat /\ ~(k > Len(gpu[queue[t]]))
      BY <1>3, <2>1, <3>1, SubmitCommands
    <3>  QED BY <3>2
  <2>2. \A q \in Queues : \A k \in 1..Len(gpu'[q]) : gpu'[q][k].op = "signal" =>
          k \in 1..Len(gpu[q]) /\ gpu'[q][k] = gpu[q][k]
    <3>1. \A k \in 1..Len(gpu[queue[t]]) : gpu'[queue[t]][k] = gpu[queue[t]][k]
      BY <1>3, SubmitCommands
    <3>2. \A q \in Queues : q # queue[t] => gpu'[q] = gpu[q]
      BY <1>3, SubmitCommands
    <3>  QED BY <2>1, <3>1, <3>2
  <2>  QED BY <1>1, <1>3, <2>2 DEF Submit
<1>4. ASSUME NEW t \in Threads, IncrementFence(t) PROVE Signals'
  <2>1. /\ pc[t] = "increment" /\ queue[t] \in Queues
        /\ signalled'[t] = fenceValue[queue[t]] + 1
        /\ UNCHANGED <<gpu, fence, queue>>
        /\ \A u \in Threads : u # t => pc'[u] = pc[u] /\ signalled'[u] = signalled[u]
    BY <1>4 DEF IncrementFence, Control, ControlOf, InExecute
  <2> SUFFICES ASSUME NEW q \in Queues, Ordered(q) PROVE SignalsOf(q)'
      BY DEF Signals, Ordered, OneRenderer
  <2>2. SignalsOf(q)
    BY DEF Signals
  <2>3. ASSUME NEW u \in Threads, pc'[u] = "signal", queue[u] = q
        PROVE  /\ fence[q] <= signalled'[u]
               /\ \A i \in 1..Len(gpu[q]) :
                    gpu[q][i].op = "signal" => gpu[q][i].value <= signalled'[u]
    <3>1. CASE u = t
      <4>1. fence[q] <= fenceValue[q] + 1
        BY DEF FenceValues
      <4>2. \A i \in 1..Len(gpu[q]) :
              gpu[q][i].op = "signal" => gpu[q][i].value <= fenceValue[q] + 1
        BY GpuTypes DEF FenceValues
      <4>  QED BY <2>1, <2>3, <3>1, <4>1, <4>2
    <3>2. CASE u # t
      BY <2>1, <2>2, <2>3, <3>2 DEF SignalsOf
    <3>  QED BY <3>1, <3>2
  <2>  QED BY <2>1, <2>2, <2>3 DEF SignalsOf
<1>5. ASSUME NEW t \in Threads, Signal(t) PROVE Signals'
  <2> DEFINE r == queue[t]
             v == signalled[t]
             n == Len(gpu[r]) + 1
  <2>1. /\ pc[t] = "signal" /\ r \in Queues /\ v \in Nat
        /\ gpu' = [gpu EXCEPT ![r] = Append(@, SignalCmd(v))]
        /\ pc'[t] # "signal" /\ UNCHANGED fence
        /\ \A u \in Threads : u # t =>
             pc'[u] = pc[u] /\ signalled'[u] = signalled[u] /\ queue'[u] = queue[u]
    BY <1>5 DEF Signal, Control, ControlOf, InExecute
  <2>2. SignalCmd(v) \in Commands /\ SignalCmd(v).op = "signal" /\ SignalCmd(v).value = v
    BY <2>1 DEF SignalCmd, Commands
  <2>3. /\ Len(gpu[r]) \in Nat /\ Len(gpu'[r]) = n
        /\ \A k \in 1..Len(gpu[r]) : gpu'[r][k] = gpu[r][k]
        /\ gpu'[r][n].op = "signal" /\ gpu'[r][n].value = v
        /\ \A q \in Queues : q # r => gpu'[q] = gpu[q]
    BY <2>1, <2>2, AppendCommand
  <2> SUFFICES ASSUME NEW q \in Queues, Ordered(q) PROVE SignalsOf(q)'
      BY DEF Signals, Ordered, OneRenderer
  <2>4. SignalsOf(q)
    BY DEF Signals
  <2>5. CASE q # r
    <3>1. \A u \in Threads : pc'[u] = "signal" /\ queue'[u] = q =>
            pc[u] = "signal" /\ queue[u] = q /\ signalled'[u] = signalled[u]
      BY <2>1
    <3>  QED BY <2>1, <2>3, <2>4, <2>5, <3>1 DEF SignalsOf
  <2>6. CASE q = r
    <3>1. \A u \in Threads : ~(pc'[u] = "signal" /\ queue'[u] = q)
      BY <2>1, <2>6, OneSignaller
    <3>2. /\ fence[r] <= v
          /\ \A i \in 1..Len(gpu[r]) : gpu[r][i].op = "signal" => gpu[r][i].value <= v
      BY <2>1, <2>4, <2>6 DEF SignalsOf
    <3>3. ASSUME NEW i \in 1..Len(gpu'[r]), gpu'[r][i].op = "signal"
          PROVE  fence[r] <= gpu'[r][i].value
      <4>1. i = n \/ i \in 1..Len(gpu[r])
        BY <2>3
      <4>2. ASSUME i \in 1..Len(gpu[r]) PROVE fence[r] <= gpu'[r][i].value
        BY <2>3, <2>4, <2>6, <3>3, <4>2 DEF SignalsOf
      <4>  QED BY <2>3, <3>2, <4>1, <4>2
    <3>4. ASSUME NEW j \in 1..Len(gpu'[r]), NEW i \in 1..(j-1),
                 gpu'[r][i].op = "signal", gpu'[r][j].op = "signal"
          PROVE  gpu'[r][i].value <= gpu'[r][j].value
      <4>1. /\ j = n \/ j \in 1..Len(gpu[r])
            /\ i \in 1..Len(gpu[r]) /\ gpu'[r][i] = gpu[r][i]
        BY <2>3
      <4>2. ASSUME j \in 1..Len(gpu[r]) PROVE gpu'[r][i].value <= gpu'[r][j].value
        BY <2>3, <2>4, <2>6, <3>4, <4>1, <4>2 DEF SignalsOf
      <4>  QED BY <2>3, <3>2, <3>4, <4>1, <4>2
    <3> HIDE DEF r, v, n
    <3>  QED BY <2>1, <2>6, <3>1, <3>3, <3>4 DEF SignalsOf
  <2>  QED BY <2>5, <2>6
<1>6. ASSUME NEW t \in Threads, ExecuteMips(t) PROVE Signals'
  <2>1. /\ Compute \in Queues /\ WaitCmd(Copy, fenceValue[Copy]) \in Commands
        /\ WaitCmd(Copy, fenceValue[Copy]).op = "wait"
    BY <1>6 DEF ExecuteMips, Control, ControlOf, WaitCmd, Commands
  <2>2. gpu' = [gpu EXCEPT ![Compute] = Append(@, WaitCmd(Copy, fenceValue[Copy]))]
    BY <1>6 DEF ExecuteMips
  <2>3. \A q \in Queues : \A k \in 1..Len(gpu'[q]) : gpu'[q][k].op = "signal" =>
          k \in 1..Len(gpu[q]) /\ gpu'[q][k] = gpu[q][k]
    BY <2>1, <2>2, AppendCommand
  <2>  QED BY <1>1, <1>6, <2>3 DEF ExecuteMips
<1>7. ASSUME NEW r \in Queues, Gpu(r) PROVE Signals'
  <2>1. UNCHANGED <<pc, signalled, queue>>
    BY <1>7 DEF Gpu, GpuExecute, GpuSignal, GpuWait
  <2> SUFFICES ASSUME NEW q \in Queues, Ordered(q) PROVE SignalsOf(q)'
      BY DEF Signals, Ordered, OneRenderer
  <2>2. SignalsOf(q)
    BY DEF Signals
  <2>3. CASE q # r
    <3>1. gpu'[q] = gpu[q] /\ fence'[q] = fence[q]
      BY <1>7, <2>3, TakeCommand
    <3>  QED BY <2>1, <2>2, <3>1 DEF SignalsOf
  <2>4. CASE q = r
    <3>1. /\ Len(gpu[q]) \in Nat \ {0}
          /\ \A k \in 1..Len(gpu'[q]) : k+1 \in 1..Len(gpu[q]) /\ gpu'[q][k] = gpu[q][k+1]
          /\ gpu[q][1].op = "signal" => fence'[q] = gpu[q][1].value
          /\ gpu[q][1].op # "signal" => fence'[q] = fence[q]
      BY <1>7, <2>4, TakeCommand
    <3>2. ASSUME NEW i \in 1..Len(gpu'[q]), gpu'[q][i].op = "signal"
          PROVE  fence'[q] <= gpu'[q][i].value
      <4>1. i+1 \in 1..Len(gpu[q]) /\ gpu'[q][i] = gpu[q][i+1]
        BY <3>1
      <4>2. 1 \in 1..((i+1)-1)
        OBVIOUS
      <4>3. fence[q] <= gpu[q][i+1].value
        BY <2>2, <3>2, <4>1 DEF SignalsOf
      <4>4. gpu[q][1].op = "signal" => gpu[q][1].value <= gpu[q][i+1].value
        BY <2>2, <3>2, <4>1, <4>2 DEF SignalsOf
      <4>  QED BY <3>1, <4>1, <4>3, <4>4
    <3>3. ASSUME NEW j \in 1..Len(gpu'[q]), NEW i \in 1..(j-1),
                 gpu'[q][i].op = "signal", gpu'[q][j].op = "signal"
          PROVE  gpu'[q][i].value <= gpu'[q][j].value
      <4>1. i \in 1..Len(gpu'[q])
        OBVIOUS
      <4>2. /\ j+1 \in 1..Len(gpu[q]) /\ i+1 \in 1..((j+1)-1)
            /\ gpu'[q][j] = gpu[q][j+1] /\ gpu'[q][i] = gpu[q][i+1]
        BY <3>1, <4>1
      <4>  QED BY <2>2, <3>3, <4>2 DEF SignalsOf
    <3>4. ASSUME NEW t \in Threads, pc[t] = "signal", queue[t] = q
          PROVE  /\ fence'[q] <= signalled[t]
                 /\ \A i \in 1..Len(gpu'[q]) :
                      gpu'[q][i].op = "signal" => gpu'[q][i].value <= signalled[t]
      <4>1. /\ fence[q] <= signalled[t]
            /\ \A k \in 1..Len(gpu[q]) :
                 gpu[q][k].op = "signal" => gpu[q][k].value <= signalled[t]
        BY <2>2, <3>4 DEF SignalsOf
      <4>2. 1 \in 1..Len(gpu[q])
        BY <3>1
      <4>3. fence'[q] <= signalled[t]
        BY <3>1, <4>1, <4>2
      <4>4. \A i \in 1..Len(gpu'[q]) :
              gpu'[q][i].op = "signal" => gpu'[q][i].value <= signalled[t]
        BY <3>1, <4>1
      <4>  QED BY <4>3, <4>4
    <3>  QED BY <2>1, <3>2, <3>3, <3>4 DEF SignalsOf
  <2>  QED BY <2>3, <2>4
<1>8. ASSUME NEW t \in Threads, Start(t) \/ Lock(t) PROVE Signals'
  BY <1>2, <1>8 DEF Start, BeginRecording, BeginSignal, BeginFlush, Lock
<1>9. ASSUME NEW t \in Threads, GetCommandList(t) \/ RecordMips(t) PROVE Signals'
  BY <1>2, <1>9
     DEF GetCommandList, CreateCommandList, SeeAvailable, TryPop, TryPopFails, RecordMips
<1>10. ASSUME NEW t \in Threads,
              UnlockMutex(t) \/ ClearIsLocked(t) \/ PushInFlight(t) \/ FinishExecute(t)
       PROVE  Signals'
  BY <1>2, <1>10 DEF UnlockMutex, ClearIsLocked, PushInFlight, FinishExecute
<1>11. ASSUME NEW t \in Threads, Flush(t) PROVE Signals'
  BY <1>2, <1>11 DEF Flush, FlushEmpty, FlushSleep, FlushReturn
<1>12. ASSUME NEW q \in Queues, ProccessInFlightCommandLists(q) \/ Destroy(q)
       PROVE  Signals'
  BY <1>2, <1>12
     DEF ProccessInFlightCommandLists, LockInFlight, PopInFlight, Recycle, UnlockInFlight,
         Notify, Destroy
<1>13. CASE UNCHANGED vars
  BY <1>2, <1>13
<1>14. ASSUME NEW t \in Threads, Work(t) PROVE Signals'
  BY <1>3, <1>4, <1>5, <1>6, <1>9, <1>10, <1>11, <1>14 DEF Work, ExecuteCommandLists
<1> QED BY <1>7, <1>8, <1>12, <1>13, <1>14 DEF Next

\* So the fence of an ordered queue never goes back.
LEMMA FenceGrows ==
  ASSUME TypeOK, Signals, [Next]_vars, NEW q \in Queues, Ordered(q)
  PROVE  fence[q] <= fence'[q]
<1>0. fence \in [Queues -> Nat]
  BY DEF TypeOK
<1>1. CASE UNCHANGED fence
  BY <1>0, <1>1
<1>2. ASSUME NEW r \in Queues, Gpu(r) PROVE fence[q] <= fence'[q]
  <2>1. CASE q # r
    BY <1>0, <1>2, <2>1, TakeCommand
  <2>2. CASE q = r
    <3>1. /\ 1 \in 1..Len(gpu[q])
          /\ gpu[q][1].op = "signal" => fence'[q] = gpu[q][1].value
          /\ gpu[q][1].op # "signal" => fence'[q] = fence[q]
      BY <1>2, <2>2, TakeCommand
    <3>2. gpu[q][1].op = "signal" => fence[q] <= gpu[q][1].value
      BY <3>1 DEF Signals, SignalsOf
    <3>  QED BY <1>0, <3>1, <3>2
  <2>  QED BY <2>1, <2>2
<1>3. ASSUME NEW t \in Threads, Start(t) \/ Lock(t) PROVE UNCHANGED fence
  BY <1>3 DEF Start, BeginRecording, BeginSignal, BeginFlush, Lock
<1>4. ASSUME NEW t \in Threads, Work(t) PROVE UNCHANGED fence
  <2>1. CASE GetCommandList(t) \/ RecordMips(t)
    <3>1. CASE CreateCommandList(t)
      BY <3>1 DEF CreateCommandList
    <3>2. CASE TryPop(t)
      BY <3>2 DEF TryPop
    <3>3. CASE SeeAvailable(t)
      BY <3>3 DEF SeeAvailable
    <3>4. CASE TryPopFails(t)
      BY <3>4 DEF TryPopFails
    <3>5. CASE RecordMips(t)
      BY <3>5 DEF RecordMips
    <3>  QED BY <2>1, <3>1, <3>2, <3>3, <3>4, <3>5 DEF GetCommandList
  <2>2. CASE ExecuteCommandLists(t)
    BY <2>2
       DEF ExecuteCommandLists, Submit, IncrementFence, Signal, UnlockMutex, ClearIsLocked,
           PushInFlight, FinishExecute, ExecuteMips
  <2>3. CASE Flush(t)
    BY <2>3 DEF Flush, FlushEmpty, FlushSleep, FlushReturn
  <2>  QED BY <1>4, <2>1, <2>2, <2>3 DEF Work
<1>5. ASSUME NEW r \in Queues, ProccessInFlightCommandLists(r) \/ Destroy(r)
      PROVE  UNCHANGED fence
  BY <1>5
     DEF ProccessInFlightCommandLists, LockInFlight, PopInFlight, Recycle, UnlockInFlight,
         Notify, Destroy
<1>6. CASE UNCHANGED vars
  BY <1>1, <1>6
<1>  QED BY <1>1, <1>2, <1>3, <1>4, <1>5, <1>6 DEF Next

-----------------------------------------------------------------------------
(* The lists that generate mips wait for the copy queue.                   *)

\* WaitsFor of the next state, for values of this one.
WaitsNext(f, n) ==
  \/ fence'[Copy] >= f
  \/ \E j \in 1..(n-1) : /\ gpu'[Compute][j].op = "wait" /\ gpu'[Compute][j].on = Copy
                         /\ gpu'[Compute][j].value >= f

\* Commands added behind the wait, and a fence that goes on, change nothing.
LEMMA WaitsGrow ==
  ASSUME NEW f \in Nat, NEW n \in Nat, NEW m \in Nat, n <= m, WaitsFor(f, n),
         fence[Copy] \in Nat, fence'[Copy] \in Nat, fence[Copy] <= fence'[Copy],
         \A k \in 1..(n-1) : gpu'[Compute][k] = gpu[Compute][k]
  PROVE  WaitsNext(f, m)
<1>1. CASE fence[Copy] >= f
  BY <1>1 DEF WaitsNext
<1>2. CASE \E j \in 1..(n-1) : /\ gpu[Compute][j].op = "wait" /\ gpu[Compute][j].on = Copy
                               /\ gpu[Compute][j].value >= f
  <2>1. PICK j \in 1..(n-1) : /\ gpu[Compute][j].op = "wait" /\ gpu[Compute][j].on = Copy
                              /\ gpu[Compute][j].value >= f
    BY <1>2
  <2>2. j \in 1..(m-1) /\ gpu'[Compute][j] = gpu[Compute][j]
    OBVIOUS
  <2>  QED BY <2>1, <2>2 DEF WaitsNext
<1>  QED BY <1>1, <1>2 DEF WaitsFor

LEMMA MipsWaitStep ==
  ASSUME TypeOK, TypeOK', IInv, Calls, Tickets, Signals, MipsWait, [Next]_vars
  PROVE  MipsWait'
<1>0. /\ fence \in [Queues -> Nat] /\ fence' \in [Queues -> Nat]
      /\ copyFence \in [CommandLists -> Nat] /\ copyFence' \in [CommandLists -> Nat]
      /\ Control /\ Waiting
      /\ \A q \in Queues : Len(gpu[q]) \in Nat /\ Len(gpu'[q]) \in Nat
  <2>1. \A q \in Queues : gpu[q] \in Seq(Commands) /\ gpu'[q] \in Seq(Commands)
    BY DEF TypeOK
  <2>2. \A q \in Queues : Len(gpu[q]) \in Nat /\ Len(gpu'[q]) \in Nat
    BY <2>1, LenProperties
  <2>  QED BY <2>2 DEF TypeOK, IInv
<1> USE <1>0
<1>1. Copy \in Queues => fence[Copy] <= fence'[Copy]
  BY FenceGrows, QueuesAssumption DEF Ordered
\* Steps that append commands to the compute queue, and mark no list.
<1>2. ASSUME NEW l \in CommandLists, copyFence'[l] \in {copyFence[l], 0},
             Compute \in Queues =>
               /\ Len(gpu[Compute]) <= Len(gpu'[Compute])
               /\ \A k \in 1..Len(gpu[Compute]) : gpu'[Compute][k] = gpu[Compute][k]
      PROVE  Behind(l)'
  <2> SUFFICES ASSUME copyFence'[l] > 0 PROVE Behind(l)'
      BY DEF Behind
  <2> DEFINE f == copyFence[l]
             n == Len(gpu[Compute])
             m == Len(gpu'[Compute])
  <2>1. /\ f > 0 /\ copyFence'[l] = f /\ Behind(l)
    BY <1>2 DEF MipsWait
  <2>2. /\ Copy \in Queues /\ Compute \in Queues /\ WaitsFor(f, n + 1)
        /\ \A i \in 1..n : gpu[Compute][i].op = "exec" /\ gpu[Compute][i].list = l => WaitsFor(f, i)
    BY <2>1 DEF Behind
  <2>3. /\ n \in Nat /\ m \in Nat /\ n <= m /\ f \in Nat
        /\ fence[Copy] \in Nat /\ fence'[Copy] \in Nat /\ fence[Copy] <= fence'[Copy]
        /\ \A k \in 1..n : gpu'[Compute][k] = gpu[Compute][k]
    BY <1>1, <1>2, <2>2
  <2> HIDE DEF n, m, f
  <2>4. ASSUME NEW k \in Nat, n + 1 <= k PROVE WaitsNext(f, k)
    <3>1. n + 1 \in Nat /\ (n + 1) - 1 = n
      BY <2>3
    <3>  QED BY <2>2, <2>3, <2>4, <3>1, WaitsGrow
  <2>5. ASSUME NEW i \in 1..m, gpu'[Compute][i].op = "exec", gpu'[Compute][i].list = l
        PROVE  WaitsNext(f, i)
    <3>1. CASE i <= n
      <4>1. i \in 1..n /\ gpu'[Compute][i] = gpu[Compute][i]
        BY <2>3, <3>1
      <4>2. WaitsFor(f, i)
        BY <2>2, <2>5, <4>1
      <4>3. i \in Nat /\ \A k \in 1..(i-1) : k \in 1..n
        BY <2>3, <4>1
      <4>4. \A k \in 1..(i-1) : gpu'[Compute][k] = gpu[Compute][k]
        BY <2>3, <4>3
      <4>  QED BY <2>3, <4>2, <4>3, <4>4, WaitsGrow
    <3>2. CASE ~(i <= n)
      BY <2>3, <2>4, <3>2
    <3>  QED BY <3>1, <3>2
  <2>6. WaitsNext(f, m + 1)
    BY <2>3, <2>4
  <2>  QED BY <2>1, <2>2, <2>5, <2>6 DEF Behind, WaitsFor, WaitsNext, n, m, f
<1>3. ASSUME UNCHANGED copyFence,
             Compute \in Queues =>
               /\ Len(gpu[Compute]) <= Len(gpu'[Compute])
               /\ \A k \in 1..Len(gpu[Compute]) : gpu'[Compute][k] = gpu[Compute][k]
      PROVE  MipsWait'
  BY <1>2, <1>3 DEF MipsWait
<1>4. ASSUME NEW t \in Threads, ExecuteMips(t) PROVE MipsWait'
  <2> DEFINE w == WaitCmd(Copy, fenceValue[Copy])
             n == Len(gpu[Compute])
  <2>a. held[t]["mips"] # NoList /\ Copy \in Queues /\ Compute \in Queues
    BY <1>4 DEF ExecuteMips, Control, ControlOf
  <2>b. PICK list \in CommandLists : list = held[t]["mips"]
    <3>1. held[t]["mips"] \in CommandLists
      BY <2>a DEF TypeOK, Slots
    <3>  QED BY <3>1
  <2>1. /\ Copy \in Queues /\ Compute \in Queues /\ w \in Commands
        /\ w.op = "wait" /\ w.on = Copy /\ w.value = fenceValue[Copy]
        /\ place[list] = <<"mips", t>>
    <3>1. fenceValue[Copy] \in Nat
      BY <2>a DEF TypeOK
    <3>2. place[list] = <<"mips", t>>
      BY <2>a, <2>b DEF IInv, OneHolder, SlotsHold, Slots
    <3>  QED BY <2>a, <3>1, <3>2 DEF WaitCmd, Commands
  <2>2. /\ gpu' = [gpu EXCEPT ![Compute] = Append(@, w)]
        /\ copyFence' = [copyFence EXCEPT ![list] = signalled[t]]
    BY <1>4, <2>b DEF ExecuteMips
  <2>3. /\ n \in Nat /\ Len(gpu'[Compute]) = n + 1
        /\ \A k \in 1..n : gpu'[Compute][k] = gpu[Compute][k]
        /\ gpu'[Compute][n + 1] = w
    BY <2>1, <2>2, AppendCommand
  <2>4. signalled[t] <= fenceValue[Copy] /\ signalled[t] \in Nat
    BY <1>4 DEF ExecuteMips, Calls, CallOf, Tickets, HasTicket, TypeOK
  <2>5. ASSUME NEW i \in 1..(n + 1), gpu'[Compute][i].op = "exec", gpu'[Compute][i].list = list
        PROVE  FALSE
    <3>1. i # n + 1
      BY <2>1, <2>3, <2>5
    <3>2. i \in 1..n /\ gpu[Compute][i].op = "exec" /\ gpu[Compute][i].list = list
      BY <2>3, <2>5, <3>1
    <3>3. gpu[Compute][i] \in Commands
      BY <2>1, <3>2, GpuTypes
    <3>4. gpu[Compute][i] = ExecCmd(list)
      BY <3>2, <3>3 DEF Commands, ExecCmd
    <3>5. ~Executing(list)
      BY <2>1, NoReuse DEF NoReuseWhileExecuting, Slots
    <3>  QED BY <2>1, <3>2, <3>4, <3>5 DEF Executing
  <2>6. Behind(list)'
    <3>1. copyFence'[list] = signalled[t]
      BY <2>1, <2>2
    <3>2. WaitsNext(signalled[t], n + 2)
      <4>1. /\ n + 1 \in 1..((n + 2)-1) /\ gpu'[Compute][n + 1].op = "wait"
            /\ gpu'[Compute][n + 1].on = Copy /\ gpu'[Compute][n + 1].value >= signalled[t]
        BY <2>1, <2>3, <2>4
      <4>  QED BY <4>1 DEF WaitsNext
    <3>3. Len(gpu'[Compute]) + 1 = n + 2
      BY <2>3
    <3> HIDE DEF w, n
    <3>  QED BY <2>1, <2>3, <2>5, <3>1, <3>2, <3>3 DEF Behind, WaitsFor, WaitsNext
  <2>7. ASSUME NEW l \in CommandLists, l # list PROVE Behind(l)'
    <3>1. copyFence'[l] = copyFence[l]
      BY <2>2, <2>7
    <3>2. n <= Len(gpu'[Compute])
      BY <2>3
    <3>  QED BY <1>2, <2>3, <3>1, <3>2
  <2>  QED BY <2>6, <2>7 DEF MipsWait
\* The GPU takes the first command: a wait only when the fence has reached it.
<1>5. ASSUME Compute \in Queues, Gpu(Compute) PROVE MipsWait'
  <2>1. UNCHANGED copyFence
    BY <1>5 DEF Gpu, GpuExecute, GpuSignal, GpuWait
  <2> SUFFICES ASSUME NEW l \in CommandLists, copyFence[l] > 0
               PROVE  Behind(l)'
      BY <2>1 DEF MipsWait, Behind
  <2> DEFINE f == copyFence[l]
             n == Len(gpu[Compute])
  <2>2. /\ Copy \in Queues /\ f \in Nat /\ WaitsFor(f, n + 1)
        /\ \A i \in 1..n : gpu[Compute][i].op = "exec" /\ gpu[Compute][i].list = l => WaitsFor(f, i)
    BY DEF MipsWait, Behind
  <2>3. /\ n \in Nat \ {0} /\ Len(gpu'[Compute]) = n - 1
        /\ \A k \in 1..(n-1) : k+1 \in 1..n /\ gpu'[Compute][k] = gpu[Compute][k+1]
    BY <1>5, TakeCommand
  <2>4. gpu[Compute][1].op = "wait" => fence[gpu[Compute][1].on] >= gpu[Compute][1].value
    <3>1. gpu[Compute] # <<>> /\ Head(gpu[Compute]) = gpu[Compute][1]
      <4>1. gpu[Compute] \in Seq(Commands)
        BY <1>5 DEF TypeOK
      <4>2. gpu[Compute] # <<>>
        BY <1>5 DEF Gpu, GpuExecute, GpuSignal, GpuWait
      <4>  QED BY <4>1, <4>2, HeadTailProperties
    <3>2. ASSUME gpu[Compute][1].op = "wait" PROVE GpuWait(Compute)
      BY <1>5, <3>1, <3>2 DEF Gpu, GpuExecute, GpuSignal
    <3>  QED BY <3>1, <3>2 DEF GpuWait
  <2>5. ASSUME NEW i \in 1..n, WaitsFor(f, i + 1) PROVE WaitsNext(f, i)
    <3>1. fence[Copy] <= fence'[Copy] /\ fence[Copy] \in Nat /\ fence'[Copy] \in Nat
      BY <1>1, <2>2
    <3>2. CASE fence[Copy] >= f
      BY <2>2, <3>1, <3>2 DEF WaitsNext
    <3>3. CASE \E j \in 1..((i+1)-1) : /\ gpu[Compute][j].op = "wait"
                                       /\ gpu[Compute][j].on = Copy
                                       /\ gpu[Compute][j].value >= f
      <4>1. PICK j \in 1..((i+1)-1) : /\ gpu[Compute][j].op = "wait"
                                      /\ gpu[Compute][j].on = Copy
                                      /\ gpu[Compute][j].value >= f
        BY <3>3
      <4>2. CASE j = 1
        <5>1. fence[Copy] >= gpu[Compute][1].value /\ gpu[Compute][1].value >= f
          BY <2>4, <4>1, <4>2
        <5>2. gpu[Compute][1].value \in Nat
          <6>1. gpu[Compute][1] \in Commands
            BY <1>5, <2>3, GpuTypes
          <6>  QED BY <4>1, <4>2, <6>1 DEF Commands
        <5>  QED BY <2>2, <3>1, <5>1, <5>2 DEF WaitsNext
      <4>3. CASE j # 1
        <5>1. j - 1 \in 1..(i-1) /\ j - 1 \in 1..(n-1) /\ (j - 1) + 1 = j
          BY <4>1, <4>3, <2>3
        <5>2. gpu'[Compute][j - 1] = gpu[Compute][j]
          BY <2>3, <5>1
        <5>  QED BY <4>1, <5>1, <5>2 DEF WaitsNext
      <4>  QED BY <4>2, <4>3
    <3>  QED BY <2>5, <3>2, <3>3 DEF WaitsFor
  <2>6. WaitsNext(f, n)
    BY <2>2, <2>3, <2>5
  <2>7. ASSUME NEW i \in 1..(n-1), gpu'[Compute][i].op = "exec", gpu'[Compute][i].list = l
        PROVE  WaitsNext(f, i)
    <3>1. i \in 1..n /\ i + 1 \in 1..n /\ gpu'[Compute][i] = gpu[Compute][i+1]
      BY <2>3
    <3>2. WaitsFor(f, i + 1)
      BY <2>2, <2>7, <3>1
    <3>  QED BY <2>5, <3>1, <3>2
  <2>8. copyFence'[l] = f /\ Len(gpu'[Compute]) + 1 = n
    BY <2>1, <2>3
  <2> HIDE DEF f, n
  <2>  QED BY <1>5, <2>2, <2>3, <2>6, <2>7, <2>8 DEF Behind, WaitsFor, WaitsNext
<1>6. ASSUME NEW q \in Queues, Gpu(q) PROVE MipsWait'
  <2>1. CASE q = Compute
    BY <1>5, <1>6, <2>1
  <2>2. CASE q # Compute
    <3>1. UNCHANGED copyFence
      BY <1>6 DEF Gpu, GpuExecute, GpuSignal, GpuWait
    <3>2. Compute \in Queues => gpu'[Compute] = gpu[Compute]
      BY <1>6, <2>2, TakeCommand
    <3>  QED BY <1>3, <3>1, <3>2
  <2>  QED BY <2>1, <2>2
<1>7. ASSUME NEW t \in Threads, NEW b \in BOOLEAN, Submit(t, b) PROVE MipsWait'
  <2>1. UNCHANGED copyFence
    BY <1>7 DEF Submit
  <2>2. CASE Compute \in Queues /\ queue[t] = Compute
    <3>1. /\ Len(gpu[Compute]) <= Len(gpu'[Compute])
          /\ \A k \in 1..Len(gpu[Compute]) : gpu'[Compute][k] = gpu[Compute][k]
      BY <1>7, <2>2, SubmitCommands
    <3>  QED BY <1>3, <2>1, <3>1
  <2>3. CASE ~(Compute \in Queues /\ queue[t] = Compute)
    <3>1. Compute \in Queues => gpu'[Compute] = gpu[Compute]
      BY <1>7, <2>3, SubmitCommands
    <3>  QED BY <1>3, <2>1, <3>1
  <2>  QED BY <2>2, <2>3
<1>8. ASSUME NEW t \in Threads, Signal(t) PROVE MipsWait'
  <2>1. UNCHANGED copyFence /\ queue[t] \in Queues
    BY <1>8 DEF Signal, Control, ControlOf, InExecute
  <2>2. /\ gpu' = [gpu EXCEPT ![queue[t]] = Append(@, SignalCmd(signalled[t]))]
        /\ SignalCmd(signalled[t]) \in Commands
    BY <1>8 DEF Signal, SignalCmd, Commands, TypeOK
  <2>3. ASSUME Compute \in Queues
        PROVE  /\ Len(gpu[Compute]) <= Len(gpu'[Compute])
               /\ \A k \in 1..Len(gpu[Compute]) : gpu'[Compute][k] = gpu[Compute][k]
    <3>1. CASE queue[t] = Compute
      BY <2>1, <2>2, <2>3, <3>1, AppendCommand
    <3>2. CASE queue[t] # Compute
      <4>1. gpu'[Compute] = gpu[Compute]
        BY <2>1, <2>2, <2>3, <3>2, AppendCommand
      <4>  QED BY <2>3, <4>1
    <3>  QED BY <3>1, <3>2
  <2>  QED BY <1>3, <2>1, <2>3
\* The other steps leave the GPU's queues alone.
<1>9. ASSUME UNCHANGED gpu, UNCHANGED copyFence PROVE MipsWait'
  BY <1>3, <1>9
<1>10. ASSUME NEW q \in Queues, Recycle(q) PROVE MipsWait'
  <2>1. /\ entry[q].list \in CommandLists
        /\ UNCHANGED gpu /\ copyFence' = [copyFence EXCEPT ![entry[q].list] = 0]
    BY <1>10, ElementTypes DEF Recycle
  <2>2. \A l \in CommandLists : copyFence'[l] \in {copyFence[l], 0}
    BY <2>1
  <2>  QED BY <1>2, <2>1, <2>2 DEF MipsWait
<1>11. ASSUME NEW t \in Threads, Start(t) \/ Lock(t) PROVE MipsWait'
  BY <1>9, <1>11 DEF Start, BeginRecording, BeginSignal, BeginFlush, Lock
<1>12. ASSUME NEW t \in Threads, GetCommandList(t) \/ RecordMips(t) PROVE MipsWait'
  BY <1>9, <1>12
     DEF GetCommandList, CreateCommandList, SeeAvailable, TryPop, TryPopFails, RecordMips
<1>13. ASSUME NEW t \in Threads,
              \/ IncrementFence(t) \/ UnlockMutex(t) \/ ClearIsLocked(t) \/ PushInFlight(t)
              \/ FinishExecute(t) \/ Flush(t)
       PROVE  MipsWait'
  BY <1>9, <1>13
     DEF IncrementFence, UnlockMutex, ClearIsLocked, PushInFlight, FinishExecute, Flush,
         FlushEmpty, FlushSleep, FlushReturn
<1>14. ASSUME NEW q \in Queues,
              \/ LockInFlight(q) \/ PopInFlight(q) \/ UnlockInFlight(q) \/ Notify(q) \/ Destroy(q)
       PROVE  MipsWait'
  BY <1>9, <1>14 DEF LockInFlight, PopInFlight, UnlockInFlight, Notify, Destroy
<1>15. CASE UNCHANGED vars
  BY <1>9, <1>15
<1>16. ASSUME NEW t \in Threads, Work(t) PROVE MipsWait'
  BY <1>4, <1>7, <1>8, <1>12, <1>13, <1>16 DEF Work, ExecuteCommandLists
<1> QED
  BY <1>6, <1>10, <1>11, <1>14, <1>15, <1>16 DEF Next, ProccessInFlightCommandLists

-----------------------------------------------------------------------------
(* The invariant holds in every state, and what follows from it.           *)

LEMMA FencesStep == FInv /\ [Next]_vars => FInv'
<1> SUFFICES ASSUME FInv, [Next]_vars PROVE FInv'
    OBVIOUS
<1>1. TypeOK /\ Control /\ Waiting /\ FenceValues /\ IInv
  BY DEF FInv, IInv
<1>2. IInv' /\ TypeOK'
  <2>1. IInv'
    BY <1>1, InvariantStep
  <2>  QED BY <2>1 DEF IInv
<1>3. Calls' /\ Locked' /\ Mutexes' /\ Tickets'
  BY <1>1, CallsStep, LockedStep, MutexesStep, TicketsStep DEF FInv
<1>4. Flushed' /\ Signals' /\ MipsWait'
  BY <1>1, <1>2, FlushedStep, SignalsStep, MipsWaitStep DEF FInv
<1>  QED BY <1>2, <1>3, <1>4 DEF FInv

THEOREM FencesInvariance == Spec => []FInv
<1>1. Init => FInv
  BY FencesInit
<1>2. FInv /\ [Next]_vars => FInv'
  BY FencesStep
<1>  QED BY <1>1, <1>2, PTL DEF Spec

\* The lists that generate mips run only when the copy queue has finished the
\* lists they were recorded with: no command of theirs is submitted before the
\* compute queue's Wait, and the fence it waits for never goes back
\* (CommandQueue.cpp:220-226).
THEOREM MipsRunAfterCopy == Spec => []MipsAfterCopy
<1>1. FInv => MipsAfterCopy
  <2> SUFFICES ASSUME FInv, Compute \in Queues, gpu[Compute] # <<>>,
                      Head(gpu[Compute]).op = "exec", copyFence[Head(gpu[Compute]).list] > 0
               PROVE  fence[Copy] >= copyFence[Head(gpu[Compute]).list]
      BY DEF MipsAfterCopy
  <2> DEFINE l == Head(gpu[Compute]).list
  <2>1. gpu[Compute] \in Seq(Commands) /\ Len(gpu[Compute]) \in Nat \ {0}
        /\ Head(gpu[Compute]) = gpu[Compute][1]
    <3>1. gpu[Compute] \in Seq(Commands)
      BY DEF FInv, IInv, TypeOK
    <3>  QED BY <3>1, HeadTailProperties, EmptySeq
  <2>2. 1 \in 1..Len(gpu[Compute])
    BY <2>1
  <2>3. l \in CommandLists
    <3>1. gpu[Compute][1] \in Commands
      BY <2>2, GpuTypes DEF FInv, IInv
    <3>  QED BY <2>1, <3>1 DEF Commands
  <2>4. WaitsFor(copyFence[l], 1)
    BY <2>1, <2>2, <2>3 DEF FInv, MipsWait, Behind
  <2>  QED BY <2>4 DEF WaitsFor
<1>  QED BY <1>1, FencesInvariance, PTL

\* When Flush returns to thread t, everything t executed on that queue has
\* left the GPU and the in-flight queue: a value it waits for is handed out
\* once, and the mutex it waits under keeps the recycling thread out
\* (CommandQueue.cpp:125-135).
THEOREM FlushReturnsDrained == Spec => FlushDrains
<1> DEFINE Drained(t) ==
      LET q == Head(toFlush[t]) IN
      /\ fence[q] >= lastFence[t][q]
      /\ \A i \in 1..Len(inFlight[q]) : inFlight[q][i].fence # lastFence[t][q]
      /\ worker[q] = "wait" => entry[q].fence # lastFence[t][q]
<1>1. ASSUME FInv, [Next]_vars, NEW t \in Threads, pc[t] = "flushWait", pc'[t] # "flushWait"
      PROVE  Drained(t)
  <2> DEFINE q == Head(toFlush[t])
  <2>1. FlushReturn(t)
    <3>0. pc \in [Threads -> States]
      BY <1>1 DEF FInv, IInv, TypeOK
    <3>1. ASSUME NEW u \in Threads, Start(u) \/ Lock(u) PROVE pc'[t] = pc[t]
      BY <1>1, <3>0, <3>1 DEF Start, BeginRecording, BeginSignal, BeginFlush, Lock
    <3>2. ASSUME NEW u \in Threads, GetCommandList(u) \/ RecordMips(u) PROVE pc'[t] = pc[t]
      <4>1. CASE CreateCommandList(u)
        BY <1>1, <3>0, <4>1 DEF CreateCommandList
      <4>2. CASE TryPop(u)
        BY <1>1, <3>0, <4>2 DEF TryPop
      <4>3. CASE SeeAvailable(u)
        BY <1>1, <3>0, <4>3 DEF SeeAvailable
      <4>4. CASE TryPopFails(u)
        BY <1>1, <3>0, <4>4 DEF TryPopFails
      <4>5. CASE RecordMips(u)
        BY <1>1, <3>0, <4>5 DEF RecordMips
      <4>  QED BY <3>2, <4>1, <4>2, <4>3, <4>4, <4>5 DEF GetCommandList
    <3>3. ASSUME NEW u \in Threads, ExecuteCommandLists(u) PROVE pc'[t] = pc[t]
      BY <1>1, <3>0, <3>3
         DEF ExecuteCommandLists, Submit, IncrementFence, Signal, UnlockMutex, ClearIsLocked,
             PushInFlight, FinishExecute, ExecuteMips
    <3>4. ASSUME NEW u \in Threads, Flush(u), pc'[t] # pc[t] PROVE FlushReturn(t)
      BY <1>1, <3>0, <3>4 DEF Flush, FlushEmpty, FlushSleep, FlushReturn
    <3>5. ASSUME NEW r \in Queues, ProccessInFlightCommandLists(r) \/ Gpu(r) \/ Destroy(r)
          PROVE  pc'[t] = pc[t]
      BY <1>1, <3>0, <3>5
         DEF ProccessInFlightCommandLists, LockInFlight, PopInFlight, Recycle, UnlockInFlight,
             Notify, Sleeping, Gpu, GpuExecute, GpuSignal, GpuWait, Destroy
    <3>6. ~UNCHANGED vars
      BY <1>1
    <3>  QED BY <1>1, <3>1, <3>2, <3>3, <3>4, <3>5, <3>6 DEF Next, Work
  <2>2. fence[q] >= signalled[t] /\ q \in Queues
    <3>1. toFlush[t] \in Seq(Queues) /\ toFlush[t] # <<>>
      BY <1>1 DEF FInv, IInv, TypeOK, Control, ControlOf
    <3>2. q \in Queues
      BY <3>1, HeadTailProperties
    <3>  QED BY <2>1, <3>2 DEF FlushReturn
  <2>3. /\ lastFence[t][q] <= signalled[t]
        /\ \A i \in 1..Len(inFlight[q]) : inFlight[q][i].fence # lastFence[t][q]
    BY <1>1 DEF FInv, Flushed, FlushedBy
  <2>4. worker[q] # "wait"
    BY <1>1, <2>2, QueuesAssumption DEF FInv, Mutexes
  <2>5. fence[q] \in Nat /\ signalled[t] \in Nat /\ lastFence[t][q] \in Nat
    BY <1>1, <2>2 DEF FInv, IInv, TypeOK
  <2>  QED BY <2>2, <2>3, <2>4, <2>5
<1>2. FInv /\ [Next]_vars =>
        [\A t \in Threads : pc[t] = "flushWait" /\ pc'[t] # "flushWait" => Drained(t)]_vars
  BY <1>1
<1>  QED BY <1>2, FencesInvariance, PTL DEF Spec, FlushDrains

\* The completed value of a queue that only ExecuteCommandLists signals never
\* goes back, because it increments m_FenceValue and signals it under
\* ResourceStateTracker's mutex; that of the direct queue, which Present also
\* signals, does not if one thread renders (CommandQueue.cpp:91-96).
THEOREM OrderedFencesGrow ==
  Spec => [][\A q \in Queues : Ordered(q) => fence'[q] >= fence[q]]_fence
<1>1. FInv /\ [Next]_vars => [\A q \in Queues : Ordered(q) => fence'[q] >= fence[q]]_fence
  <2> SUFFICES ASSUME FInv, [Next]_vars, NEW q \in Queues, Ordered(q)
               PROVE  fence'[q] >= fence[q]
      OBVIOUS
  <2>1. TypeOK /\ TypeOK' /\ Signals
    BY FencesStep DEF FInv, IInv
  <2>2. fence[q] <= fence'[q]
    BY <2>1, FenceGrows
  <2>  QED BY <2>1, <2>2 DEF TypeOK
<1>  QED BY <1>1, FencesInvariance, PTL DEF Spec

\* No fence goes back in a program whose direct queue belongs to one thread,
\* as the sample's does (CommandQueue.cpp:91-96).
THEOREM FencesNeverRegress == OneRenderer => (Spec => FenceNeverRegresses)
<1> SUFFICES ASSUME OneRenderer PROVE Spec => FenceNeverRegresses
    OBVIOUS
<1>1. [\A q \in Queues : Ordered(q) => fence'[q] >= fence[q]]_fence
        => [\A q \in Queues : fence'[q] >= fence[q]]_fence
  BY DEF Ordered
<1>  QED BY <1>1, OrderedFencesGrow, PTL DEF FenceNeverRegresses

=============================================================================
