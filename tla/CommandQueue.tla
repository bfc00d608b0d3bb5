---------------------------- MODULE CommandQueue ----------------------------
(***************************************************************************)
(* DX12Lib's CommandQueue (src/DX12Lib/src/CommandQueue.cpp): the three    *)
(* queues of a Device, the GPU behind each of them, the thread of each     *)
(* queue that recycles command lists, and the application threads that     *)
(* obtain, record, execute and flush.                                      *)
(*                                                                         *)
(* A command list is a model value; what it records is abstracted to the   *)
(* one thing the queue looks at: whether it carries a second list that     *)
(* generates mips on the compute queue.  The operations of a               *)
(* ThreadSafeQueue are atomic, so each is a step on a sequence.  Local     *)
(* variables are given back their initial value when the call returns.     *)
(***************************************************************************)
EXTENDS Naturals, Sequences

CONSTANTS
  Direct, Compute, Copy,  \* the three queues of a Device
  Queues,                 \* those of them an instance looks at
  Threads,                \* application threads (window thread, loading task)
  Uses,                   \* Uses[t]: the queues thread t submits to
  CommandLists,           \* identities of the lists the program may construct
  MaxOps,                 \* bound: MaxOps[t] operations are started by thread t
  NoList, NoThread, NoQueue \* nullptr; "nobody"; no call yet

ASSUME QueuesAssumption ==
  /\ Queues \subseteq {Direct, Compute, Copy}
  /\ Direct # Compute /\ Direct # Copy /\ Compute # Copy
  /\ NoThread \notin Threads \cup Queues
  /\ Threads \cap Queues = {}
  /\ NoList \notin CommandLists
  /\ NoQueue \notin Queues
  /\ Uses \in [Threads -> SUBSET Queues]
  /\ MaxOps \in [Threads -> Nat]

VARIABLES
  gpu,        \* gpu[q]: what the D3D12 queue still has to execute
  fence,      \* fence[q]: completed value of m_d3d12Fence
  fenceValue, \* m_FenceValue
  inFlight,   \* m_InFlightCommandLists
  available,  \* m_AvailableCommandLists
  mutex,      \* m_ProcessInFlightCommandListsThreadMutex: who holds it
  running,    \* m_bProcessInFlightCommandLists
  worker,     \* control state of ProccessInFlightCommandLists
  entry,      \* its commandListEntry
  lockOwner,  \* ResourceStateTracker::ms_GlobalMutex: who holds it
  isLocked,   \* ResourceStateTracker::ms_IsLocked
  created,    \* the lists constructed so far
  pc,         \* control state of each application thread
  queue,      \* the queue its current call is made on
  slot,       \* which variable the current GetCommandList call assigns
  held,       \* the lists it holds: commandList, pendingCommandList and
              \* m_ComputeCommandList
  toBeQueued, \* ExecuteCommandLists' toBeQueued
  signalled,  \* ExecuteCommandLists' fenceValue
  toFlush,    \* the queues left to flush in the current call
  ops,        \* operations started, for the bound MaxOps
  lastFence,  \* lastFence[t][q]: what t's last ExecuteCommandList returned
  copyFence,  \* copyFence[l]: the copy fence a mip list was queued behind
  place       \* place[l]: which container of the code holds list l

gpuVars    == <<gpu, fence>>
queueVars  == <<fenceValue, inFlight, available, mutex, running>>
workerVars == <<worker, entry>>
lockVars   == <<lockOwner, isLocked>>
threadVars == <<pc, queue, slot, held, toBeQueued, signalled, toFlush, ops>>
ghostVars  == <<lastFence, copyFence, place>>
vars == <<gpuVars, queueVars, workerVars, lockVars, created, threadVars, ghostVars>>

-----------------------------------------------------------------------------
(* Commands of a D3D12 queue, and the types of the variables.              *)

ExecCmd(l)    == [op |-> "exec", list |-> l]
SignalCmd(v)  == [op |-> "signal", value |-> v]
WaitCmd(q, v) == [op |-> "wait", on |-> q, value |-> v]

Commands ==
  [op : {"exec"}, list : CommandLists]
    \cup [op : {"signal"}, value : Nat]
    \cup [op : {"wait"}, on : Queues, value : Nat]

Entries == [fence : Nat, list : CommandLists]
Slots   == {"main", "pending", "mips"}
Kinds   == Slots \cup {"new", "queued", "inFlight", "entry", "available"}
States  == {"idle", "get", "tryPop", "null", "record", "execute", "close",
            "increment", "signal", "unlock", "clear", "push",
            "flush", "sleep", "flushWait"}
NoLists == [s \in Slots |-> NoList]
NoEntry == [fence |-> 0, list |-> NoList]
Holders == Threads \cup Queues \cup {NoThread}

TypeOK ==
  /\ gpu \in [Queues -> Seq(Commands)]
  /\ fence \in [Queues -> Nat]
  /\ fenceValue \in [Queues -> Nat]
  /\ inFlight \in [Queues -> Seq(Entries)]
  /\ available \in [Queues -> Seq(CommandLists)]
  /\ mutex \in [Queues -> Holders]
  /\ running \in [Queues -> BOOLEAN]
  /\ worker \in [Queues -> {"lock", "drain", "wait", "notify", "exited"}]
  /\ entry \in [Queues -> Entries \cup {NoEntry}]
  /\ lockOwner \in Threads \cup {NoThread}
  /\ isLocked \in BOOLEAN
  /\ created \in SUBSET CommandLists
  /\ pc \in [Threads -> States]
  /\ queue \in [Threads -> Queues \cup {NoQueue}]
  /\ slot \in [Threads -> Slots]
  /\ held \in [Threads -> [Slots -> CommandLists \cup {NoList}]]
  /\ toBeQueued \in [Threads -> Seq(CommandLists)]
  /\ signalled \in [Threads -> Nat]
  /\ toFlush \in [Threads -> Seq(Queues)]
  /\ ops \in [Threads -> Nat]
  /\ lastFence \in [Threads -> [Queues -> Nat]]
  /\ copyFence \in [CommandLists -> Nat]
  /\ place \in [CommandLists -> Kinds \X Holders]

Init ==
  /\ gpu = [q \in Queues |-> <<>>]
  /\ fence = [q \in Queues |-> 0]
  /\ fenceValue = [q \in Queues |-> 0]
  /\ inFlight = [q \in Queues |-> <<>>]
  /\ available = [q \in Queues |-> <<>>]
  /\ mutex = [q \in Queues |-> NoThread]
  /\ running = [q \in Queues |-> TRUE]
  /\ worker = [q \in Queues |-> "lock"]
  /\ entry = [q \in Queues |-> NoEntry]
  /\ lockOwner = NoThread
  /\ isLocked = FALSE
  /\ created = {}
  /\ pc = [t \in Threads |-> "idle"]
  /\ queue = [t \in Threads |-> NoQueue]
  /\ slot = [t \in Threads |-> "main"]
  /\ held = [t \in Threads |-> NoLists]
  /\ toBeQueued = [t \in Threads |-> <<>>]
  /\ signalled = [t \in Threads |-> 0]
  /\ toFlush = [t \in Threads |-> <<>>]
  /\ ops = [t \in Threads |-> 0]
  /\ lastFence = [t \in Threads |-> [q \in Queues |-> 0]]
  /\ copyFence = [l \in CommandLists |-> 0]
  /\ place = [l \in CommandLists |-> <<"new", NoThread>>]

Goto(t, to) == pc' = [pc EXCEPT ![t] = to]

Return(t) ==
  /\ Goto(t, "idle")
  /\ queue' = [queue EXCEPT ![t] = NoQueue]
  /\ slot' = [slot EXCEPT ![t] = "main"]
  /\ signalled' = [signalled EXCEPT ![t] = 0]

StartOp(t) ==
  /\ pc[t] = "idle"
  /\ ops[t] < MaxOps[t]
  /\ \A q \in Queues : running[q]
  /\ ops' = [ops EXCEPT ![t] = @ + 1]

-----------------------------------------------------------------------------
(* The guards and values the steps below share.  A definition that ends in  *)
(* _mutant is a slip one could make in the code; no specification uses it,  *)
(* it is there to see that the properties notice.                           *)

\* CommandQueue::IsFenceComplete, what WaitForFenceValue waits for.
IsFenceComplete_mutant(q, v) == fence[q] + 1 >= v
IsFenceComplete(q, v) == fence[q] >= v

\* CommandQueue::Wait makes a queue wait for all that was signalled on another.
Wait_mutant(other)     == WaitCmd(other, fence[other])
WaitNext_mutant(other) == WaitCmd(other, fenceValue[other] + 1)
Wait(other) == WaitCmd(other, fenceValue[other])

\* What ThreadSafeQueue::TryPop leaves in the queue.
Popped_mutant(s) == s
Popped(s) == Tail(s)

\* ResourceStateTracker::Lock gets the mutex.
CanLock_mutant == TRUE
CanLock == lockOwner = NoThread

\* The predicate of Flush's condition variable.
AllPopped_mutant(q) == TRUE
AllPopped(q) == inFlight[q] = <<>>

\* generateMipsCommandLists is not empty.
HasMips_mutant(t) == TRUE
HasMips(t) == held[t]["mips"] # NoList

\* The loop condition of ProccessInFlightCommandLists.
LoopsOn_mutant(q) == TRUE
LoopsOn(q) == running[q]

\* The threads that wait on m_ProcessInFlightCommandListsThreadCV.
Sleeping_mutant(q) == {}
Sleeping(q) == {t \in Threads : pc[t] = "sleep" /\ Head(toFlush[t]) = q}

-----------------------------------------------------------------------------
(* GetCommandList.  It looks and pops in two steps: m_AvailableCommandLists *)
(* is locked in each of them, and not in between.  It is called for the     *)
(* list to record, for the list of pending barriers, and (GenerateMips on a *)
(* copy list) for the compute list.                                         *)

\* A list that does not exist yet; which one makes no difference.
NewList == CHOOSE l \in CommandLists : l \notin created

GetFrom(t) == IF slot[t] = "mips" THEN Compute ELSE queue[t]

Obtained(t, l) ==
  /\ held' = [held EXCEPT ![t][slot[t]] = l]
  /\ place' = [place EXCEPT ![l] = <<slot[t], t>>]
  /\ Goto(t, IF slot[t] = "pending" THEN "close" ELSE "record")

BeginRecording(t, q) ==
  /\ StartOp(t)
  /\ q \in Uses[t]
  /\ queue' = [queue EXCEPT ![t] = q]
  /\ Goto(t, "get")
  /\ UNCHANGED <<gpuVars, queueVars, workerVars, lockVars, created, slot, held,
                 toBeQueued, signalled, toFlush, ghostVars>>

CreateCommandList(t) ==
  /\ pc[t] = "get"
  /\ available[GetFrom(t)] = <<>>
  /\ CommandLists \ created # {}
  /\ created' = created \cup {NewList}
  /\ Obtained(t, NewList)
  /\ UNCHANGED <<gpuVars, queueVars, workerVars, lockVars, queue, slot,
                 toBeQueued, signalled, toFlush, ops, lastFence, copyFence>>

SeeAvailable(t) ==
  /\ pc[t] = "get"
  /\ available[GetFrom(t)] # <<>>
  /\ Goto(t, "tryPop")
  /\ UNCHANGED <<gpuVars, queueVars, workerVars, lockVars, created, queue,
                 slot, held, toBeQueued, signalled, toFlush, ops, ghostVars>>

TryPop(t) ==
  /\ pc[t] = "tryPop"
  /\ available[GetFrom(t)] # <<>>
  /\ available' = [available EXCEPT ![GetFrom(t)] = Popped(@)]
  /\ Obtained(t, Head(available[GetFrom(t)]))
  /\ UNCHANGED <<gpuVars, fenceValue, inFlight, mutex, running, workerVars,
                 lockVars, created, queue, slot, toBeQueued, signalled,
                 toFlush, ops, lastFence, copyFence>>

\* TryPop found the queue empty and its result is ignored: GetCommandList
\* returns a null pointer, which every caller dereferences.
TryPopFails(t) ==
  /\ pc[t] = "tryPop"
  /\ available[GetFrom(t)] = <<>>
  /\ Goto(t, "null")
  /\ UNCHANGED <<gpuVars, queueVars, workerVars, lockVars, created, queue,
                 slot, held, toBeQueued, signalled, toFlush, ops, ghostVars>>

-----------------------------------------------------------------------------
(* Recording.  Only what the queue looks at later is visible here:          *)
(* GenerateMips on a copy list obtains a list of the compute queue.         *)

RecordMips(t) ==
  /\ pc[t] = "record"
  /\ queue[t] = Copy /\ Compute \in Queues
  /\ held[t]["mips"] = NoList
  /\ slot' = [slot EXCEPT ![t] = "mips"]
  /\ Goto(t, "get")
  /\ UNCHANGED <<gpuVars, queueVars, workerVars, lockVars, created, queue,
                 held, toBeQueued, signalled, toFlush, ops, ghostVars>>

-----------------------------------------------------------------------------
(* ExecuteCommandLists, for the one list every caller in the repository     *)
(* passes.                                                                  *)

\* ResourceStateTracker::Lock, and the call of GetCommandList for the
\* pending barriers.
Lock(t) ==
  /\ pc[t] \in {"record", "execute"}
  /\ CanLock
  /\ lockOwner' = t
  /\ isLocked' = TRUE
  /\ slot' = [slot EXCEPT ![t] = "pending"]
  /\ Goto(t, "get")
  /\ UNCHANGED <<gpuVars, queueVars, workerVars, created, queue, held,
                 toBeQueued, signalled, toFlush, ops, ghostVars>>

\* Close the two lists and hand them to the GPU, the pending one only if it
\* has barriers.  Both have to be queued for reuse either way.
Submit(t, hasPendingBarriers) ==
  LET list    == held[t]["main"]
      pending == held[t]["pending"]
  IN
  /\ pc[t] = "close"
  /\ gpu' = [gpu EXCEPT ![queue[t]] =
               @ \o (IF hasPendingBarriers THEN <<ExecCmd(pending)>> ELSE <<>>)
                 \o <<ExecCmd(list)>>]
  /\ toBeQueued' = [toBeQueued EXCEPT ![t] = <<pending, list>>]
  /\ held' = [held EXCEPT ![t]["main"] = NoList, ![t]["pending"] = NoList]
  /\ place' = [place EXCEPT ![list] = <<"queued", t>>, ![pending] = <<"queued", t>>]
  /\ Goto(t, "increment")
  /\ UNCHANGED <<fence, queueVars, workerVars, lockVars, created, queue, slot,
                 signalled, toFlush, ops, lastFence, copyFence>>

\* Signal, in its two steps: ++m_FenceValue, then ID3D12CommandQueue::Signal.
\* SwapChain::Present calls it on the direct queue.
BeginSignal(t) ==
  /\ StartOp(t)
  /\ Direct \in Uses[t]
  /\ queue' = [queue EXCEPT ![t] = Direct]
  /\ Goto(t, "increment")
  /\ UNCHANGED <<gpuVars, queueVars, workerVars, lockVars, created, slot, held,
                 toBeQueued, signalled, toFlush, ghostVars>>

IncrementFence(t) ==
  LET q == queue[t] IN
  /\ pc[t] = "increment"
  /\ fenceValue' = [fenceValue EXCEPT ![q] = @ + 1]
  /\ signalled' = [signalled EXCEPT ![t] = fenceValue[q] + 1]
  /\ Goto(t, "signal")
  /\ UNCHANGED <<gpuVars, inFlight, available, mutex, running, workerVars,
                 lockVars, created, queue, slot, held, toBeQueued, toFlush,
                 ops, ghostVars>>

Signal(t) ==
  LET q == queue[t] IN
  /\ pc[t] = "signal"
  /\ gpu' = [gpu EXCEPT ![q] = Append(@, SignalCmd(signalled[t]))]
  /\ IF toBeQueued[t] = <<>>
     THEN Return(t) /\ UNCHANGED lastFence
     ELSE /\ Goto(t, "unlock")
          /\ lastFence' = [lastFence EXCEPT ![t][q] = signalled[t]]
          /\ UNCHANGED <<queue, slot, signalled>>
  /\ UNCHANGED <<fence, queueVars, workerVars, lockVars, created, held,
                 toBeQueued, toFlush, ops, copyFence, place>>

\* ResourceStateTracker::Unlock releases the mutex first and clears the flag
\* after it.
UnlockMutex(t) ==
  /\ pc[t] = "unlock"
  /\ lockOwner' = NoThread
  /\ Goto(t, "clear")
  /\ UNCHANGED <<gpuVars, queueVars, workerVars, isLocked, created, queue, slot,
                 held, toBeQueued, signalled, toFlush, ops, ghostVars>>

ClearIsLocked(t) ==
  /\ pc[t] = "clear"
  /\ isLocked' = FALSE
  /\ Goto(t, "push")
  /\ UNCHANGED <<gpuVars, queueVars, workerVars, lockOwner, created, queue, slot,
                 held, toBeQueued, signalled, toFlush, ops, ghostVars>>

PushInFlight(t) ==
  LET q == queue[t] IN
  /\ pc[t] = "push"
  /\ toBeQueued[t] # <<>>
  /\ inFlight' = [inFlight EXCEPT ![q] =
                    Append(@, [fence |-> signalled[t], list |-> Head(toBeQueued[t])])]
  /\ toBeQueued' = [toBeQueued EXCEPT ![t] = Tail(@)]
  /\ place' = [place EXCEPT ![Head(toBeQueued[t])] = <<"inFlight", q>>]
  /\ UNCHANGED <<gpuVars, fenceValue, available, mutex, running, workerVars,
                 lockVars, created, pc, queue, slot, held, signalled, toFlush,
                 ops, lastFence, copyFence>>

FinishExecute(t) ==
  /\ pc[t] = "push"
  /\ toBeQueued[t] = <<>>
  /\ ~HasMips(t)
  /\ Return(t)
  /\ UNCHANGED <<gpuVars, queueVars, workerVars, lockVars, created, held,
                 toBeQueued, toFlush, ops, ghostVars>>

\* computeQueue.Wait( *this ) and the nested call of ExecuteCommandLists on
\* the compute queue.
ExecuteMips(t) ==
  LET list == held[t]["mips"] IN
  /\ pc[t] = "push"
  /\ toBeQueued[t] = <<>>
  /\ HasMips(t)
  /\ gpu' = [gpu EXCEPT ![Compute] = Append(@, Wait(Copy))]
  /\ held' = [held EXCEPT ![t]["main"] = list, ![t]["mips"] = NoList]
  /\ queue' = [queue EXCEPT ![t] = Compute]
  /\ copyFence' = [copyFence EXCEPT ![list] = signalled[t]]
  /\ place' = [place EXCEPT ![list] = <<"main", t>>]
  /\ Goto(t, "execute")
  /\ UNCHANGED <<fence, queueVars, workerVars, lockVars, created, slot,
                 toBeQueued, signalled, toFlush, ops, lastFence>>

-----------------------------------------------------------------------------
(* Flush: of one queue, or (Device::Flush) of the three, one after another. *)

Among(q) == IF q \in Queues THEN <<q>> ELSE <<>>
DeviceFlush == Among(Direct) \o Among(Compute) \o Among(Copy)

BeginFlush(t, qs) ==
  /\ StartOp(t)
  /\ toFlush' = [toFlush EXCEPT ![t] = qs]
  /\ Goto(t, "flush")
  /\ UNCHANGED <<gpuVars, queueVars, workerVars, lockVars, created, queue, slot,
                 held, toBeQueued, signalled, ghostVars>>

\* The condition variable's predicate holds: keep the mutex and read the
\* fence value to wait for.
FlushEmpty(t) ==
  LET q == Head(toFlush[t]) IN
  /\ pc[t] = "flush"
  /\ mutex[q] = NoThread
  /\ AllPopped(q)
  /\ mutex' = [mutex EXCEPT ![q] = t]
  /\ signalled' = [signalled EXCEPT ![t] = fenceValue[q]]
  /\ Goto(t, "flushWait")
  /\ UNCHANGED <<gpuVars, fenceValue, inFlight, available, running, workerVars,
                 lockVars, created, queue, slot, held, toBeQueued, toFlush,
                 ops, ghostVars>>

\* The predicate fails: the wait releases the mutex and sleeps.
FlushSleep(t) ==
  LET q == Head(toFlush[t]) IN
  /\ pc[t] = "flush"
  /\ mutex[q] = NoThread
  /\ ~AllPopped(q)
  /\ Goto(t, "sleep")
  /\ UNCHANGED <<gpuVars, queueVars, workerVars, lockVars, created, queue, slot,
                 held, toBeQueued, signalled, toFlush, ops, ghostVars>>

\* WaitForFenceValue returns; the mutex is released and Flush returns.
FlushReturn(t) ==
  LET q == Head(toFlush[t]) IN
  /\ pc[t] = "flushWait"
  /\ IsFenceComplete(q, signalled[t])
  /\ mutex' = [mutex EXCEPT ![q] = NoThread]
  /\ toFlush' = [toFlush EXCEPT ![t] = Tail(@)]
  /\ IF Tail(toFlush[t]) = <<>>
     THEN Return(t)
     ELSE Goto(t, "flush") /\ UNCHANGED <<queue, slot, signalled>>
  /\ UNCHANGED <<gpuVars, fenceValue, inFlight, available, running, workerVars,
                 lockVars, created, held, toBeQueued, ops, ghostVars>>

-----------------------------------------------------------------------------
(* ProccessInFlightCommandLists, the thread of queue q.                     *)

LockInFlight(q) ==
  /\ worker[q] = "lock"
  /\ mutex[q] = NoThread
  /\ mutex' = [mutex EXCEPT ![q] = q]
  /\ worker' = [worker EXCEPT ![q] = "drain"]
  /\ UNCHANGED <<gpuVars, fenceValue, inFlight, available, running, entry,
                 lockVars, created, threadVars, ghostVars>>

PopInFlight(q) ==
  /\ worker[q] = "drain"
  /\ inFlight[q] # <<>>
  /\ entry' = [entry EXCEPT ![q] = Head(inFlight[q])]
  /\ inFlight' = [inFlight EXCEPT ![q] = Popped(@)]
  /\ place' = [place EXCEPT ![Head(inFlight[q]).list] = <<"entry", q>>]
  /\ worker' = [worker EXCEPT ![q] = "wait"]
  /\ UNCHANGED <<gpuVars, fenceValue, available, mutex, running, lockVars,
                 created, threadVars, lastFence, copyFence>>

\* WaitForFenceValue returns, the list is reset and becomes available.
Recycle(q) ==
  /\ worker[q] = "wait"
  /\ IsFenceComplete(q, entry[q].fence)
  /\ available' = [available EXCEPT ![q] = Append(@, entry[q].list)]
  /\ copyFence' = [copyFence EXCEPT ![entry[q].list] = 0]
  /\ place' = [place EXCEPT ![entry[q].list] = <<"available", q>>]
  /\ entry' = [entry EXCEPT ![q] = NoEntry]
  /\ worker' = [worker EXCEPT ![q] = "drain"]
  /\ UNCHANGED <<gpuVars, fenceValue, inFlight, mutex, running, lockVars,
                 created, threadVars, lastFence>>

UnlockInFlight(q) ==
  /\ worker[q] = "drain"
  /\ inFlight[q] = <<>>
  /\ mutex' = [mutex EXCEPT ![q] = NoThread]
  /\ worker' = [worker EXCEPT ![q] = "notify"]
  /\ UNCHANGED <<gpuVars, fenceValue, inFlight, available, running, entry,
                 lockVars, created, threadVars, ghostVars>>

\* notify_one, and the loop's test of m_bProcessInFlightCommandLists.
Notify(q) ==
  /\ worker[q] = "notify"
  /\ worker' = [worker EXCEPT ![q] = IF LoopsOn(q) THEN "lock" ELSE "exited"]
  /\ \/ /\ Sleeping(q) = {}
        /\ UNCHANGED pc
     \/ \E t \in Sleeping(q) : Goto(t, "flush")
  /\ UNCHANGED <<gpuVars, queueVars, entry, lockVars, created, queue, slot, held,
                 toBeQueued, signalled, toFlush, ops, ghostVars>>

\* The destructor clears the flag and joins the thread.  The application has
\* joined its own threads before it releases the device.
Destroy(q) ==
  /\ running[q]
  /\ \A t \in Threads : pc[t] = "idle"
  /\ running' = [running EXCEPT ![q] = FALSE]
  /\ UNCHANGED <<gpuVars, fenceValue, inFlight, available, mutex, workerVars,
                 lockVars, created, threadVars, ghostVars>>

-----------------------------------------------------------------------------
(* The GPU executes the commands of each queue in order, the queues         *)
(* independently of each other.                                             *)

GpuExecute(q) ==
  /\ gpu[q] # <<>>
  /\ Head(gpu[q]).op = "exec"
  /\ gpu' = [gpu EXCEPT ![q] = Tail(@)]
  /\ UNCHANGED <<fence, queueVars, workerVars, lockVars, created, threadVars, ghostVars>>

GpuSignal(q) ==
  /\ gpu[q] # <<>>
  /\ Head(gpu[q]).op = "signal"
  /\ fence' = [fence EXCEPT ![q] = Head(gpu[q]).value]
  /\ gpu' = [gpu EXCEPT ![q] = Tail(@)]
  /\ UNCHANGED <<queueVars, workerVars, lockVars, created, threadVars, ghostVars>>

GpuWait(q) ==
  /\ gpu[q] # <<>>
  /\ Head(gpu[q]).op = "wait"
  /\ fence[Head(gpu[q]).on] >= Head(gpu[q]).value
  /\ gpu' = [gpu EXCEPT ![q] = Tail(@)]
  /\ UNCHANGED <<fence, queueVars, workerVars, lockVars, created, threadVars, ghostVars>>

-----------------------------------------------------------------------------
GetCommandList(t) ==
  CreateCommandList(t) \/ SeeAvailable(t) \/ TryPop(t) \/ TryPopFails(t)

ExecuteCommandLists(t) ==
  \/ \E b \in BOOLEAN : Submit(t, b)
  \/ IncrementFence(t) \/ Signal(t)
  \/ UnlockMutex(t) \/ ClearIsLocked(t)
  \/ PushInFlight(t) \/ FinishExecute(t) \/ ExecuteMips(t)

Flush(t) == FlushEmpty(t) \/ FlushSleep(t) \/ FlushReturn(t)

\* The window's thread, the one that renders, also presents and resizes
\* (Device::Flush).
Start(t) ==
  \/ \E q \in Uses[t] : BeginRecording(t, q) \/ BeginFlush(t, <<q>>)
  \/ Direct \in Uses[t] /\ (BeginSignal(t) \/ BeginFlush(t, DeviceFlush))

Work(t) == GetCommandList(t) \/ RecordMips(t) \/ ExecuteCommandLists(t) \/ Flush(t)

ProccessInFlightCommandLists(q) ==
  \/ LockInFlight(q) \/ PopInFlight(q) \/ Recycle(q)
  \/ UnlockInFlight(q) \/ Notify(q)

Gpu(q) == GpuExecute(q) \/ GpuSignal(q) \/ GpuWait(q)

Next ==
  \/ \E t \in Threads : Start(t) \/ Work(t) \/ Lock(t)
  \/ \E q \in Queues : ProccessInFlightCommandLists(q) \/ Gpu(q) \/ Destroy(q)

Spec == Init /\ [][Next]_vars

(* A thread that has started an operation goes on with it, the recycling    *)
(* thread goes on looping, and the GPU executes what it can.  A thread that *)
(* waits for a mutex which is released again and again gets it eventually.  *)
Fairness ==
  /\ \A t \in Threads : WF_vars(Work(t)) /\ SF_vars(Lock(t)) /\ SF_vars(Flush(t))
  /\ \A q \in Queues :
       /\ WF_vars(ProccessInFlightCommandLists(q))
       /\ SF_vars(LockInFlight(q))
       /\ WF_vars(Gpu(q))

FairSpec == Spec /\ Fairness

-----------------------------------------------------------------------------
(* Safety.                                                                 *)

AvailableHolds(q) ==
  /\ \A i \in 1..Len(available[q]) : place[available[q][i]] = <<"available", q>>
  /\ \A i, j \in 1..Len(available[q]) : available[q][i] = available[q][j] => i = j

InFlightHolds(q) ==
  /\ \A i \in 1..Len(inFlight[q]) : place[inFlight[q][i].list] = <<"inFlight", q>>
  /\ \A i, j \in 1..Len(inFlight[q]) : inFlight[q][i].list = inFlight[q][j].list => i = j

EntryHolds(q) == worker[q] = "wait" => place[entry[q].list] = <<"entry", q>>

ToBeQueuedHolds(t) ==
  /\ \A i \in 1..Len(toBeQueued[t]) : place[toBeQueued[t][i]] = <<"queued", t>>
  /\ \A i, j \in 1..Len(toBeQueued[t]) : toBeQueued[t][i] = toBeQueued[t][j] => i = j

SlotsHold(t) == \A s \in Slots : held[t][s] # NoList => place[held[t][s]] = <<s, t>>

\* Every container agrees with place on where each list is, and none holds a
\* list twice: a list that is popped, pushed and recycled by different threads
\* is never lost into two hands (CommandQueue.cpp:143, 215, 256-265).
OneHolder ==
  /\ \A q \in Queues : AvailableHolds(q) /\ InFlightHolds(q) /\ EntryHolds(q)
  /\ \A t \in Threads : ToBeQueuedHolds(t) /\ SlotsHold(t)

Executing(l) == \E q \in Queues : \E i \in 1..Len(gpu[q]) : gpu[q][i] = ExecCmd(l)

\* A command list that is available again, or that a thread records into, has
\* no commands left on any GPU queue (CommandQueue.h:26-27: the allocator
\* "cannot be reused until all the GPU commands stored are executed").
NoReuseWhileExecuting ==
  \A l \in CommandLists :
    place[l][1] \in Slots \cup {"new", "available"} => ~Executing(l)

\* The lists that generate mips run only when the copy queue has finished the
\* lists they were recorded with (CommandQueue.cpp:220-226).
MipsAfterCopy ==
  Compute \in Queues /\ gpu[Compute] # <<>> =>
    LET next == Head(gpu[Compute]) IN
    next.op = "exec" /\ copyFence[next.list] > 0 => fence[Copy] >= copyFence[next.list]

\* The completed value of a queue's fence never goes back, although it is
\* incremented and signalled in two steps (CommandQueue.cpp:91-96).
FenceNeverRegresses == [][\A q \in Queues : fence'[q] >= fence[q]]_fence

\* When Flush returns to thread t, everything t executed on that queue has
\* left the GPU and the in-flight queue, so its lists are recycled
\* (CommandQueue.cpp:125-135).
FlushDrains ==
  [][\A t \in Threads : pc[t] = "flushWait" /\ pc'[t] # "flushWait" =>
       LET q == Head(toFlush[t]) IN
       /\ fence[q] >= lastFence[t][q]
       /\ \A i \in 1..Len(inFlight[q]) : inFlight[q][i].fence # lastFence[t][q]
       /\ worker[q] = "wait" => entry[q].fence # lastFence[t][q]]_vars

\* The assertion in FlushPendingResourceBarriers and CommitFinalResourceStates,
\* which Close calls (ResourceStateTracker.cpp:139, :208): the thread that
\* executes command lists has the global state locked.
AssertIsLocked == \A t \in Threads : pc[t] = "close" => isLocked

\* What GetCommandList returns "can immediatly be used to issue commands"
\* (CommandQueue.h:28-29): it is never a null pointer.
ObtainsCommandList == \A t \in Threads : pc[t] # "null"

\* When the loading task's flush of the copy queue returns, everything that
\* was recorded with the scene has been executed (DirectX12Engine.cpp:215:
\* "Ensure that the scene is completely loaded before rendering").
SceneLoadedAfterFlush ==
  [][\A t \in Threads :
       pc[t] = "flushWait" /\ pc'[t] = "idle" /\ toFlush[t] = <<Copy>> =>
         \A l \in CommandLists : Executing(l) => copyFence[l] = 0]_vars

-----------------------------------------------------------------------------
(* Liveness, under FairSpec.                                               *)

\* Flush returns: no wake-up is lost between the recycling thread and the
\* flushing one, and neither holds the mutex while it waits for the other.
FlushReturns ==
  \A t \in Threads : pc[t] \in {"flush", "sleep", "flushWait"} ~> pc[t] = "idle"

\* An in-flight list becomes available again, unless its queue is destroyed.
ListsAreRecycled ==
  \A q \in Queues, l \in CommandLists :
    place[l] = <<"inFlight", q>> ~> place[l] = <<"available", q>> \/ ~running[q]

\* The destructor's join returns.
JoinReturns == \A q \in Queues : ~running[q] ~> worker[q] = "exited"

=============================================================================
