------------------------- MODULE CommandQueue_proofs -------------------------
(***************************************************************************)
(* Proofs about CommandQueue, for any number of threads, lists and calls.  *)
(***************************************************************************)
EXTENDS CommandQueue, SequenceTheorems, TLAPS

-----------------------------------------------------------------------------
(* The inductive invariant.                                                *)

InExecute == {"increment", "signal", "unlock", "clear", "push"}

\* What the control state of a thread says about its local variables.
ControlOf(t) ==
  /\ pc[t] \in {"get", "tryPop", "record", "execute", "close"} \cup InExecute =>
       queue[t] \in Queues
  /\ pc[t] \in {"idle", "flush", "sleep", "flushWait"} => slot[t] = "main"
  /\ pc[t] \in {"get", "tryPop"} /\ slot[t] # "main" => held[t]["main"] # NoList
  /\ pc[t] \in {"get", "tryPop"} /\ slot[t] = "mips" => Copy \in Queues /\ Compute \in Queues
  /\ pc[t] \in {"record", "execute", "close"} => held[t]["main"] # NoList
  /\ pc[t] = "close" => held[t]["pending"] # NoList
  /\ held[t]["mips"] # NoList => Copy \in Queues /\ Compute \in Queues
  /\ pc[t] \in {"flush", "sleep", "flushWait"} => toFlush[t] # <<>>
  /\ toBeQueued[t] # <<>> => pc[t] \in InExecute

Control == \A t \in Threads : ControlOf(t)

Waiting == \A q \in Queues : worker[q] = "wait" => entry[q] \in Entries

NewLists == \A l \in CommandLists : l \notin created => place[l][1] = "new"

\* A fence value is signalled after it is taken from m_FenceValue.
FenceValues ==
  /\ \A q \in Queues :
       /\ fence[q] <= fenceValue[q]
       /\ \A i \in 1..Len(gpu[q]) : gpu[q][i].op = "signal" => gpu[q][i].value <= fenceValue[q]
  /\ \A t \in Threads : pc[t] = "signal" => signalled[t] <= fenceValue[queue[t]]

\* The i-th command of queue q precedes every signal of f or more.
Before(q, i, f) ==
  /\ fence[q] < f
  /\ \A j \in 1..(i-1) : gpu[q][j].op = "signal" => gpu[q][j].value < f

\* A list that a GPU queue still has to execute is held by whoever will wait
\* for a fence value that is signalled after it.
QueuedBy(t, q, i) ==
  /\ queue[t] = q
  /\ pc[t] \in InExecute
  /\ \E k \in 1..Len(toBeQueued[t]) : toBeQueued[t][k] = gpu[q][i].list
  /\ pc[t] # "increment" => Before(q, i, signalled[t])

InFlightAt(k, q, i) ==
  /\ inFlight[q][k].list = gpu[q][i].list
  /\ Before(q, i, inFlight[q][k].fence)

EntryOf(q, i) ==
  /\ worker[q] = "wait"
  /\ entry[q].list = gpu[q][i].list
  /\ Before(q, i, entry[q].fence)

Awaited ==
  \A q \in Queues : \A i \in 1..Len(gpu[q]) :
    gpu[q][i].op = "exec" =>
      \/ \E t \in Threads : QueuedBy(t, q, i)
      \/ \E k \in 1..Len(inFlight[q]) : InFlightAt(k, q, i)
      \/ EntryOf(q, i)

IInv ==
  /\ TypeOK
  /\ Control
  /\ Waiting
  /\ NewLists
  /\ OneHolder
  /\ FenceValues
  /\ Awaited

-----------------------------------------------------------------------------
LEMMA InitInvariant == Init => IInv
<1> SUFFICES ASSUME Init PROVE IInv
    OBVIOUS
<1> USE DEF Init
<1>1. TypeOK
  <2>1. \A S : <<>> \in Seq(S)
    BY EmptySeq
  <2>2. /\ held \in [Threads -> [Slots -> CommandLists \cup {NoList}]]
        /\ slot \in [Threads -> Slots]
        /\ pc \in [Threads -> States]
        /\ place \in [CommandLists -> Kinds \X Holders]
    BY DEF NoLists, Slots, States, Kinds, Holders
  <2>  QED BY <2>1, <2>2 DEF TypeOK, Holders
<1>2. Control /\ Waiting /\ NewLists /\ FenceValues /\ Awaited
    BY DEF Control, ControlOf, Waiting, NewLists, FenceValues, Awaited, InExecute, NoLists, Slots
<1>3. OneHolder
  <2>1. \A t \in Threads, s \in Slots : held[t][s] = NoList
    BY DEF NoLists
  <2>  QED BY <2>1 DEF OneHolder, AvailableHolds, InFlightHolds, EntryHolds, ToBeQueuedHolds, SlotsHold
<1>  QED BY <1>1, <1>2, <1>3 DEF IInv

USE DEF Goto, Return, StartOp, Obtained, GetFrom, gpuVars, queueVars, workerVars,
        lockVars, threadVars, ghostVars, vars, IsFenceComplete, Wait, Popped, CanLock,
        AllPopped, HasMips, LoopsOn

LEMMA TypeStep == TypeOK /\ Control /\ Waiting /\ [Next]_vars => TypeOK'
<1> SUFFICES ASSUME TypeOK, Control, Waiting, [Next]_vars
             PROVE  TypeOK'
    OBVIOUS
<1>1. ASSUME NEW t \in Threads, NEW q \in Queues, BeginRecording(t, q) PROVE TypeOK'
  <2>1. pc' \in [Threads -> States]
    BY <1>1 DEF BeginRecording, TypeOK, States
  <2>2. queue' \in [Threads -> Queues \cup {NoQueue}]
    BY <1>1 DEF BeginRecording, TypeOK
  <2>3. ops' \in [Threads -> Nat]
    <3>1. ops \in [Threads -> Nat] /\ ops' = [ops EXCEPT ![t] = @ + 1]
      BY <1>1 DEF BeginRecording, TypeOK
    <3>  QED BY ONLY <3>1
  <2>  QED BY <1>1, <2>1, <2>2, <2>3 DEF BeginRecording, TypeOK
<1>2. ASSUME NEW t \in Threads, CreateCommandList(t) PROVE TypeOK'
  <2>1. NewList \in CommandLists
    BY <1>2 DEF CreateCommandList, NewList
  <2>2. created' \in SUBSET CommandLists
    BY <1>2, <2>1 DEF CreateCommandList, TypeOK
  <2>3. pc' \in [Threads -> States]
    BY <1>2, <2>1 DEF CreateCommandList, TypeOK, States
  <2>4. held' \in [Threads -> [Slots -> CommandLists \cup {NoList}]]
    BY <1>2, <2>1 DEF CreateCommandList, TypeOK, Slots
  <2>5. place' \in [CommandLists -> Kinds \X Holders]
    BY <1>2, <2>1 DEF CreateCommandList, TypeOK, Kinds, Slots, Holders
  <2>  QED BY <1>2, <2>2, <2>3, <2>4, <2>5 DEF CreateCommandList, TypeOK
<1>3. ASSUME NEW t \in Threads, SeeAvailable(t) PROVE TypeOK'
  <2>1. pc' \in [Threads -> States]
    BY <1>3 DEF SeeAvailable, TypeOK, States
  <2>  QED BY <1>3, <2>1 DEF SeeAvailable, TypeOK
<1>4. ASSUME NEW t \in Threads, TryPop(t) PROVE TypeOK'
  <2>1. GetFrom(t) \in Queues
    BY <1>4 DEF Control, ControlOf, TryPop, TypeOK, GetFrom
  <2>2. /\ Head(available[GetFrom(t)]) \in CommandLists
              /\ Tail(available[GetFrom(t)]) \in Seq(CommandLists)
    BY <1>4, <2>1, HeadTailProperties DEF TryPop, TypeOK
  <2>3. available' \in [Queues -> Seq(CommandLists)]
    BY <1>4, <2>1, <2>2 DEF TryPop, TypeOK
  <2>4. pc' \in [Threads -> States]
    BY <1>4, <2>1, <2>2 DEF TryPop, TypeOK, States
  <2>5. held' \in [Threads -> [Slots -> CommandLists \cup {NoList}]]
    BY <1>4, <2>1, <2>2 DEF TryPop, TypeOK, Slots
  <2>6. place' \in [CommandLists -> Kinds \X Holders]
    BY <1>4, <2>1, <2>2 DEF TryPop, TypeOK, Kinds, Slots, Holders
  <2>  QED BY <1>4, <2>3, <2>4, <2>5, <2>6 DEF TryPop, TypeOK
<1>5. ASSUME NEW t \in Threads, TryPopFails(t) PROVE TypeOK'
  <2>1. pc' \in [Threads -> States]
    BY <1>5 DEF TryPopFails, TypeOK, States
  <2>  QED BY <1>5, <2>1 DEF TryPopFails, TypeOK
<1>6. ASSUME NEW t \in Threads, RecordMips(t) PROVE TypeOK'
  <2>1. pc' \in [Threads -> States]
    BY <1>6 DEF RecordMips, TypeOK, States
  <2>2. slot' \in [Threads -> Slots]
    BY <1>6 DEF RecordMips, TypeOK, Slots
  <2>  QED BY <1>6, <2>1, <2>2 DEF RecordMips, TypeOK
<1>7. ASSUME NEW t \in Threads, Lock(t) PROVE TypeOK'
  <2>1. lockOwner' \in Threads \cup {NoThread}
    BY <1>7 DEF Lock, TypeOK
  <2>2. isLocked' \in BOOLEAN
    BY <1>7 DEF Lock, TypeOK
  <2>3. pc' \in [Threads -> States]
    BY <1>7 DEF Lock, TypeOK, States
  <2>4. slot' \in [Threads -> Slots]
    BY <1>7 DEF Lock, TypeOK, Slots
  <2>  QED BY <1>7, <2>1, <2>2, <2>3, <2>4 DEF Lock, TypeOK
<1>8. ASSUME NEW t \in Threads, NEW b \in BOOLEAN, Submit(t, b) PROVE TypeOK'
  <2>1. queue[t] \in Queues
    BY <1>8 DEF Submit, Control, ControlOf, InExecute
  <2>2. /\ held[t]["main"] \in CommandLists
        /\ held[t]["pending"] \in CommandLists
    BY <1>8, <2>1 DEF Submit, Control, ControlOf, TypeOK, Slots
  <2>3. /\ ExecCmd(held[t]["main"]) \in Commands
        /\ ExecCmd(held[t]["pending"]) \in Commands
    BY <1>8, <2>1, <2>2 DEF ExecCmd, Commands
  <2>4. /\ <<ExecCmd(held[t]["main"])>> \in Seq(Commands)
        /\ (IF b THEN <<ExecCmd(held[t]["pending"])>> ELSE <<>>) \in Seq(Commands)
    BY <1>8, <2>1, <2>2, <2>3 DEF Submit
  <2>5. gpu' \in [Queues -> Seq(Commands)]
    BY <1>8, <2>1, <2>2, <2>3, <2>4 DEF Submit, TypeOK
  <2>6. pc' \in [Threads -> States]
    BY <1>8, <2>1, <2>2, <2>3, <2>4 DEF Submit, TypeOK, States
  <2>7. held' \in [Threads -> [Slots -> CommandLists \cup {NoList}]]
    BY <1>8, <2>1, <2>2, <2>3, <2>4 DEF Submit, TypeOK, Slots
  <2>8. toBeQueued' \in [Threads -> Seq(CommandLists)]
    BY <1>8, <2>1, <2>2, <2>3, <2>4 DEF Submit, TypeOK
  <2>9. place' \in [CommandLists -> Kinds \X Holders]
    BY <1>8, <2>1, <2>2, <2>3, <2>4 DEF Submit, TypeOK, Kinds, Slots, Holders
  <2>  QED BY <1>8, <2>5, <2>6, <2>7, <2>8, <2>9 DEF Submit, TypeOK
<1>9. ASSUME NEW t \in Threads, BeginSignal(t) PROVE TypeOK'
  <2>1. Direct \in Queues
    BY <1>9, QueuesAssumption DEF BeginSignal
  <2>2. pc' \in [Threads -> States]
    BY <1>9, <2>1 DEF BeginSignal, TypeOK, States
  <2>3. queue' \in [Threads -> Queues \cup {NoQueue}]
    BY <1>9, <2>1 DEF BeginSignal, TypeOK
  <2>4. ops' \in [Threads -> Nat]
    <3>1. ops \in [Threads -> Nat] /\ ops' = [ops EXCEPT ![t] = @ + 1]
      BY <1>9 DEF BeginSignal, TypeOK
    <3>  QED BY ONLY <3>1
  <2>  QED BY <1>9, <2>2, <2>3, <2>4 DEF BeginSignal, TypeOK
<1>10. ASSUME NEW t \in Threads, IncrementFence(t) PROVE TypeOK'
  <2>1. queue[t] \in Queues
    BY <1>10 DEF IncrementFence, Control, ControlOf, InExecute
  <2>2. fenceValue[queue[t]] \in Nat
    BY <2>1 DEF TypeOK
  <2>3. fenceValue' \in [Queues -> Nat]
    <3>1. fenceValue \in [Queues -> Nat] /\ fenceValue' = [fenceValue EXCEPT ![queue[t]] = @ + 1]
      BY <1>10 DEF IncrementFence, TypeOK
    <3>  QED BY ONLY <2>1, <2>2, <3>1
  <2>4. pc' \in [Threads -> States]
    BY <1>10, <2>1, <2>2 DEF IncrementFence, TypeOK, States
  <2>5. signalled' \in [Threads -> Nat]
    <3>1. /\ signalled \in [Threads -> Nat]
          /\ signalled' = [signalled EXCEPT ![t] = fenceValue[queue[t]] + 1]
      BY <1>10 DEF IncrementFence, TypeOK
    <3>  QED BY ONLY <2>2, <3>1
  <2>  QED BY <1>10, <2>3, <2>4, <2>5 DEF IncrementFence, TypeOK
<1>11. ASSUME NEW t \in Threads, Signal(t) PROVE TypeOK'
  <2>1. queue[t] \in Queues
    BY <1>11 DEF Signal, Control, ControlOf, InExecute
  <2>2. signalled[t] \in Nat
    BY <1>11, <2>1 DEF TypeOK
  <2>3. SignalCmd(signalled[t]) \in Commands
    BY <1>11, <2>1, <2>2 DEF SignalCmd, Commands
  <2>4. gpu' \in [Queues -> Seq(Commands)]
    BY <1>11, <2>1, <2>2, <2>3 DEF Signal, TypeOK
  <2>5. CASE toBeQueued[t] = <<>>
    <3>1. Return(t) /\ UNCHANGED lastFence
      BY <1>11, <2>5 DEF Signal
    <3>2. /\ pc' \in [Threads -> States]
          /\ queue' \in [Threads -> Queues \cup {NoQueue}]
          /\ slot' \in [Threads -> Slots]
          /\ signalled' \in [Threads -> Nat]
      BY <3>1 DEF TypeOK, States, Slots
    <3>  QED BY <1>11, <2>4, <3>1, <3>2 DEF Signal, TypeOK
  <2>6. CASE toBeQueued[t] # <<>>
    <3>1. /\ pc' = [pc EXCEPT ![t] = "unlock"]
          /\ lastFence' = [lastFence EXCEPT ![t][queue[t]] = signalled[t]]
          /\ UNCHANGED <<queue, slot, signalled>>
      BY <1>11, <2>6 DEF Signal
    <3>2. /\ pc' \in [Threads -> States]
          /\ lastFence' \in [Threads -> [Queues -> Nat]]
      BY <2>1, <2>2, <3>1 DEF TypeOK, States
    <3>  QED BY <1>11, <2>4, <3>1, <3>2 DEF Signal, TypeOK
  <2>  QED BY <2>5, <2>6
<1>12. ASSUME NEW t \in Threads, UnlockMutex(t) PROVE TypeOK'
  <2>1. lockOwner' \in Threads \cup {NoThread}
    BY <1>12 DEF UnlockMutex, TypeOK
  <2>2. pc' \in [Threads -> States]
    BY <1>12 DEF UnlockMutex, TypeOK, States
  <2>  QED BY <1>12, <2>1, <2>2 DEF UnlockMutex, TypeOK
<1>13. ASSUME NEW t \in Threads, ClearIsLocked(t) PROVE TypeOK'
  <2>1. isLocked' \in BOOLEAN
    BY <1>13 DEF ClearIsLocked, TypeOK
  <2>2. pc' \in [Threads -> States]
    BY <1>13 DEF ClearIsLocked, TypeOK, States
  <2>  QED BY <1>13, <2>1, <2>2 DEF ClearIsLocked, TypeOK
<1>14. ASSUME NEW t \in Threads, PushInFlight(t) PROVE TypeOK'
  <2>1. queue[t] \in Queues
    BY <1>14 DEF PushInFlight, Control, ControlOf, InExecute
  <2>2. /\ Head(toBeQueued[t]) \in CommandLists
        /\ Tail(toBeQueued[t]) \in Seq(CommandLists)
    BY <1>14, <2>1, HeadTailProperties DEF PushInFlight, TypeOK
  <2>3. [fence |-> signalled[t], list |-> Head(toBeQueued[t])] \in Entries
    BY <1>14, <2>1, <2>2 DEF Entries, TypeOK
  <2>4. inFlight' \in [Queues -> Seq(Entries)]
    BY <1>14, <2>1, <2>2, <2>3 DEF PushInFlight, TypeOK
  <2>5. toBeQueued' \in [Threads -> Seq(CommandLists)]
    BY <1>14, <2>1, <2>2, <2>3 DEF PushInFlight, TypeOK
  <2>6. place' \in [CommandLists -> Kinds \X Holders]
    BY <1>14, <2>1, <2>2, <2>3 DEF PushInFlight, TypeOK, Kinds, Slots, Holders
  <2>  QED BY <1>14, <2>4, <2>5, <2>6 DEF PushInFlight, TypeOK
<1>15. ASSUME NEW t \in Threads, FinishExecute(t) PROVE TypeOK'
  <2>1. pc' \in [Threads -> States]
    BY <1>15 DEF FinishExecute, TypeOK, States
  <2>2. queue' \in [Threads -> Queues \cup {NoQueue}]
    BY <1>15 DEF FinishExecute, TypeOK
  <2>3. slot' \in [Threads -> Slots]
    BY <1>15 DEF FinishExecute, TypeOK, Slots
  <2>4. signalled' \in [Threads -> Nat]
    BY <1>15 DEF FinishExecute, TypeOK
  <2>  QED BY <1>15, <2>1, <2>2, <2>3, <2>4 DEF FinishExecute, TypeOK
<1>16. ASSUME NEW t \in Threads, ExecuteMips(t) PROVE TypeOK'
  <2>1. {Copy, Compute} \subseteq Queues
    BY <1>16 DEF ExecuteMips, Control, ControlOf
  <2>2. fenceValue[Copy] \in Nat
    BY <1>16, <2>1 DEF TypeOK
  <2>3. WaitCmd(Copy, fenceValue[Copy]) \in Commands
    BY <1>16, <2>1, <2>2 DEF WaitCmd, Commands
  <2>4. gpu' \in [Queues -> Seq(Commands)]
    BY <1>16, <2>1, <2>2, <2>3 DEF ExecuteMips, TypeOK
  <2>5. pc' \in [Threads -> States]
    BY <1>16, <2>1, <2>2, <2>3 DEF ExecuteMips, TypeOK, States
  <2>6. queue' \in [Threads -> Queues \cup {NoQueue}]
    BY <1>16, <2>1, <2>2, <2>3 DEF ExecuteMips, TypeOK
  <2>7. held' \in [Threads -> [Slots -> CommandLists \cup {NoList}]]
    BY <1>16 DEF ExecuteMips, TypeOK, Slots
  <2>8. copyFence' \in [CommandLists -> Nat]
    BY <1>16, <2>1, <2>2, <2>3 DEF ExecuteMips, TypeOK
  <2>9. place' \in [CommandLists -> Kinds \X Holders]
    BY <1>16, <2>1, <2>2, <2>3 DEF ExecuteMips, TypeOK, Kinds, Slots, Holders
  <2>  QED BY <1>16, <2>4, <2>5, <2>6, <2>7, <2>8, <2>9 DEF ExecuteMips, TypeOK
<1>17. ASSUME NEW t \in Threads, NEW qs \in Seq(Queues), BeginFlush(t, qs) PROVE TypeOK'
  <2>1. pc' \in [Threads -> States]
    BY <1>17 DEF BeginFlush, TypeOK, States
  <2>2. toFlush' \in [Threads -> Seq(Queues)]
    BY <1>17 DEF BeginFlush, TypeOK
  <2>3. ops' \in [Threads -> Nat]
    BY <1>17 DEF BeginFlush, TypeOK
  <2>  QED BY <1>17, <2>1, <2>2, <2>3 DEF BeginFlush, TypeOK
<1>18. ASSUME NEW t \in Threads, FlushEmpty(t) PROVE TypeOK'
  <2>1. Head(toFlush[t]) \in Queues
    BY <1>18, HeadTailProperties DEF FlushEmpty, Control, ControlOf, TypeOK
  <2>2. fenceValue[Head(toFlush[t])] \in Nat
    BY <1>18, <2>1 DEF TypeOK
  <2>3. mutex' \in [Queues -> Holders]
    BY <1>18, <2>1, <2>2 DEF FlushEmpty, TypeOK, Holders
  <2>4. pc' \in [Threads -> States]
    BY <1>18, <2>1, <2>2 DEF FlushEmpty, TypeOK, States
  <2>5. signalled' \in [Threads -> Nat]
    BY <1>18, <2>1, <2>2 DEF FlushEmpty, TypeOK
  <2>  QED BY <1>18, <2>3, <2>4, <2>5 DEF FlushEmpty, TypeOK
<1>19. ASSUME NEW t \in Threads, FlushSleep(t) PROVE TypeOK'
  <2>1. pc' \in [Threads -> States]
    BY <1>19 DEF FlushSleep, TypeOK, States
  <2>  QED BY <1>19, <2>1 DEF FlushSleep, TypeOK
<1>20. ASSUME NEW t \in Threads, FlushReturn(t) PROVE TypeOK'
  <2>1. /\ Head(toFlush[t]) \in Queues
        /\ Tail(toFlush[t]) \in Seq(Queues)
    BY <1>20, HeadTailProperties DEF FlushReturn, Control, ControlOf, TypeOK
  <2>2. mutex' \in [Queues -> Holders]
    BY <1>20, <2>1 DEF FlushReturn, TypeOK, Holders
  <2>3. toFlush' \in [Threads -> Seq(Queues)]
    BY <1>20, <2>1 DEF FlushReturn, TypeOK
  <2>4. Return(t) \/ (Goto(t, "flush") /\ UNCHANGED <<queue, slot, signalled>>)
    BY <1>20 DEF FlushReturn
  <2>5. /\ pc' \in [Threads -> States]
        /\ queue' \in [Threads -> Queues \cup {NoQueue}]
        /\ slot' \in [Threads -> Slots]
        /\ signalled' \in [Threads -> Nat]
    <3>1. CASE Return(t)
      BY <3>1 DEF TypeOK, States, Slots
    <3>2. CASE Goto(t, "flush") /\ UNCHANGED <<queue, slot, signalled>>
      BY <3>2 DEF TypeOK, States, Slots
    <3>  QED BY <2>4, <3>1, <3>2
  <2>  QED BY <1>20, <2>2, <2>3, <2>5 DEF FlushReturn, TypeOK
<1>21. ASSUME NEW q \in Queues, LockInFlight(q) PROVE TypeOK'
  <2>1. mutex' \in [Queues -> Holders]
    BY <1>21 DEF LockInFlight, TypeOK, Holders
  <2>2. worker' \in [Queues -> {"lock", "drain", "wait", "notify", "exited"}]
    BY <1>21 DEF LockInFlight, TypeOK
  <2>  QED BY <1>21, <2>1, <2>2 DEF LockInFlight, TypeOK
<1>22. ASSUME NEW q \in Queues, PopInFlight(q) PROVE TypeOK'
  <2>1. /\ Head(inFlight[q]) \in Entries
        /\ Tail(inFlight[q]) \in Seq(Entries)
    BY <1>22, HeadTailProperties DEF PopInFlight, TypeOK
  <2>2. inFlight' \in [Queues -> Seq(Entries)]
    BY <1>22, <2>1 DEF PopInFlight, TypeOK
  <2>3. worker' \in [Queues -> {"lock", "drain", "wait", "notify", "exited"}]
    BY <1>22, <2>1 DEF PopInFlight, TypeOK
  <2>4. entry' \in [Queues -> Entries \cup {NoEntry}]
    BY <1>22, <2>1 DEF PopInFlight, TypeOK, Entries, NoEntry
  <2>5. place' \in [CommandLists -> Kinds \X Holders]
    BY <1>22, <2>1 DEF PopInFlight, TypeOK, Kinds, Slots, Holders
  <2>  QED BY <1>22, <2>2, <2>3, <2>4, <2>5 DEF PopInFlight, TypeOK
<1>23. ASSUME NEW q \in Queues, Recycle(q) PROVE TypeOK'
  <2>1. entry[q].list \in CommandLists
    BY <1>23 DEF Recycle, Waiting, Entries
  <2>2. available' \in [Queues -> Seq(CommandLists)]
    BY <1>23, <2>1 DEF Recycle, TypeOK
  <2>3. worker' \in [Queues -> {"lock", "drain", "wait", "notify", "exited"}]
    BY <1>23, <2>1 DEF Recycle, TypeOK
  <2>4. entry' \in [Queues -> Entries \cup {NoEntry}]
    BY <1>23, <2>1 DEF Recycle, TypeOK, Entries, NoEntry
  <2>5. copyFence' \in [CommandLists -> Nat]
    BY <1>23, <2>1 DEF Recycle, TypeOK
  <2>6. place' \in [CommandLists -> Kinds \X Holders]
    BY <1>23, <2>1 DEF Recycle, TypeOK, Kinds, Slots, Holders
  <2>  QED BY <1>23, <2>2, <2>3, <2>4, <2>5, <2>6 DEF Recycle, TypeOK
<1>24. ASSUME NEW q \in Queues, UnlockInFlight(q) PROVE TypeOK'
  <2>1. mutex' \in [Queues -> Holders]
    BY <1>24 DEF UnlockInFlight, TypeOK, Holders
  <2>2. worker' \in [Queues -> {"lock", "drain", "wait", "notify", "exited"}]
    BY <1>24 DEF UnlockInFlight, TypeOK
  <2>  QED BY <1>24, <2>1, <2>2 DEF UnlockInFlight, TypeOK
<1>25. ASSUME NEW q \in Queues, Notify(q) PROVE TypeOK'
  <2>1. worker' \in [Queues -> {"lock", "drain", "wait", "notify", "exited"}]
    BY <1>25 DEF Notify, TypeOK
  <2>2. pc' \in [Threads -> States]
    BY <1>25 DEF Notify, TypeOK, States
  <2>  QED BY <1>25, <2>1, <2>2 DEF Notify, TypeOK
<1>26. ASSUME NEW q \in Queues, Destroy(q) PROVE TypeOK'
  <2>1. running' \in [Queues -> BOOLEAN]
    BY <1>26 DEF Destroy, TypeOK
  <2>  QED BY <1>26, <2>1 DEF Destroy, TypeOK
<1>27. ASSUME NEW q \in Queues, GpuExecute(q) PROVE TypeOK'
  <2>1. Tail(gpu[q]) \in Seq(Commands)
    BY <1>27, HeadTailProperties DEF GpuExecute, TypeOK
  <2>2. gpu' \in [Queues -> Seq(Commands)]
    BY <1>27, <2>1 DEF GpuExecute, TypeOK
  <2>  QED BY <1>27, <2>2 DEF GpuExecute, TypeOK
<1>28. ASSUME NEW q \in Queues, GpuSignal(q) PROVE TypeOK'
  <2>1. /\ Head(gpu[q]) \in Commands
        /\ Tail(gpu[q]) \in Seq(Commands)
    BY <1>28, HeadTailProperties DEF GpuSignal, TypeOK
  <2>2. Head(gpu[q]).value \in Nat
    BY <1>28, <2>1 DEF GpuSignal, Commands
  <2>3. gpu' \in [Queues -> Seq(Commands)]
    BY <1>28, <2>1, <2>2 DEF GpuSignal, TypeOK
  <2>4. fence' \in [Queues -> Nat]
    BY <1>28, <2>1, <2>2 DEF GpuSignal, TypeOK
  <2>  QED BY <1>28, <2>3, <2>4 DEF GpuSignal, TypeOK
<1>29. ASSUME NEW q \in Queues, GpuWait(q) PROVE TypeOK'
  <2>1. Tail(gpu[q]) \in Seq(Commands)
    BY <1>29, HeadTailProperties DEF GpuWait, TypeOK
  <2>2. gpu' \in [Queues -> Seq(Commands)]
    BY <1>29, <2>1 DEF GpuWait, TypeOK
  <2>  QED BY <1>29, <2>2 DEF GpuWait, TypeOK
<1>30. CASE UNCHANGED vars
    BY <1>30 DEF TypeOK
<1>31. /\ \A t \in Threads : Uses[t] \subseteq Queues
       /\ \A q \in Queues : <<q>> \in Seq(Queues)
       /\ DeviceFlush \in Seq(Queues)
    BY QueuesAssumption, ConcatProperties, EmptySeq DEF DeviceFlush, Among
<1>32. ASSUME NEW t \in Threads, Start(t) PROVE TypeOK'
    BY <1>1, <1>9, <1>17, <1>31, <1>32 DEF Start
<1>33. ASSUME NEW t \in Threads, Work(t) PROVE TypeOK'
    BY <1>2, <1>3, <1>4, <1>5, <1>6, <1>8, <1>10, <1>11, <1>12, <1>13, <1>14, <1>15,
       <1>16, <1>18, <1>19, <1>20, <1>33
       DEF Work, GetCommandList, ExecuteCommandLists, Flush
<1> QED
    BY <1>7, <1>21, <1>22, <1>23, <1>24, <1>25, <1>26, <1>27, <1>28, <1>29, <1>30, <1>32, <1>33
       DEF Next, ProccessInFlightCommandLists, Gpu

-----------------------------------------------------------------------------
(* Control: each step keeps what its thread knows about its own variables.  *)

LEMMA ControlStep == TypeOK /\ Control /\ [Next]_vars => Control'
<1> SUFFICES ASSUME TypeOK, Control, [Next]_vars
             PROVE  Control'
    OBVIOUS
<1>0. /\ pc \in [Threads -> States]
      /\ queue \in [Threads -> Queues \cup {NoQueue}]
      /\ slot \in [Threads -> Slots]
      /\ held \in [Threads -> [Slots -> CommandLists \cup {NoList}]]
      /\ toBeQueued \in [Threads -> Seq(CommandLists)]
      /\ toFlush \in [Threads -> Seq(Queues)]
    BY DEF TypeOK
<1> USE <1>0 DEF Control, ControlOf, InExecute
<1>1. ASSUME NEW t \in Threads, NEW q \in Queues, BeginRecording(t, q) PROVE Control'
    BY <1>1 DEF BeginRecording, Slots
<1>2. ASSUME NEW t \in Threads, SeeAvailable(t) PROVE Control'
    BY <1>2 DEF SeeAvailable, Slots
<1>3. ASSUME NEW t \in Threads, TryPopFails(t) PROVE Control'
    BY <1>3 DEF TryPopFails, Slots
<1>4. ASSUME NEW t \in Threads, RecordMips(t) PROVE Control'
    BY <1>4 DEF RecordMips, Slots
<1>5. ASSUME NEW t \in Threads, Lock(t) PROVE Control'
    BY <1>5 DEF Lock, Slots
<1>6. ASSUME NEW t \in Threads, NEW b \in BOOLEAN, Submit(t, b) PROVE Control'
    BY <1>6 DEF Submit, Slots
<1>7. ASSUME NEW t \in Threads, IncrementFence(t) PROVE Control'
    BY <1>7 DEF IncrementFence, Slots
<1>8. ASSUME NEW t \in Threads, UnlockMutex(t) PROVE Control'
    BY <1>8 DEF UnlockMutex, Slots
<1>9. ASSUME NEW t \in Threads, ClearIsLocked(t) PROVE Control'
    BY <1>9 DEF ClearIsLocked, Slots
<1>10. ASSUME NEW t \in Threads, PushInFlight(t) PROVE Control'
    BY <1>10 DEF PushInFlight, Slots
<1>11. ASSUME NEW t \in Threads, FinishExecute(t) PROVE Control'
    BY <1>11 DEF FinishExecute, Slots
<1>12. ASSUME NEW t \in Threads, ExecuteMips(t) PROVE Control'
    BY <1>12 DEF ExecuteMips, Slots
<1>13. ASSUME NEW t \in Threads, FlushEmpty(t) PROVE Control'
    BY <1>13 DEF FlushEmpty, Slots
<1>14. ASSUME NEW t \in Threads, FlushSleep(t) PROVE Control'
    BY <1>14 DEF FlushSleep, Slots
<1>15. ASSUME NEW t \in Threads, FlushReturn(t) PROVE Control'
    BY <1>15 DEF FlushReturn, Slots
<1>16. ASSUME NEW t \in Threads, NEW l \in CommandLists, Obtained(t, l),
              pc[t] \in {"get", "tryPop"}, UNCHANGED <<queue, slot, toBeQueued, toFlush>>
       PROVE  Control'
    <2>1. l # NoList
      BY QueuesAssumption
    <2>  QED BY <1>16, <2>1 DEF Slots
<1>17. ASSUME NEW t \in Threads, CreateCommandList(t) PROVE Control'
    <2>1. NewList \in CommandLists
      BY <1>17 DEF CreateCommandList, NewList
    <2>  QED BY <1>16, <1>17, <2>1 DEF CreateCommandList
<1>18. ASSUME NEW t \in Threads, TryPop(t) PROVE Control'
    <2>1. GetFrom(t) \in Queues
      BY <1>18 DEF TryPop
    <2>2. Head(available[GetFrom(t)]) \in CommandLists
      <3>1. available[GetFrom(t)] \in Seq(CommandLists)
        BY <2>1 DEF TypeOK
      <3>2. available[GetFrom(t)] # <<>>
        BY <1>18 DEF TryPop
      <3> HIDE DEF GetFrom
      <3>  QED BY ONLY <3>1, <3>2, HeadTailProperties
    <2>  QED BY <1>16, <1>18, <2>2 DEF TryPop
<1>19. ASSUME NEW t \in Threads, BeginSignal(t) PROVE Control'
    <2>1. Direct \in Queues
      BY <1>19, QueuesAssumption DEF BeginSignal
    <2>  QED BY <1>19, <2>1 DEF BeginSignal
<1>20. ASSUME NEW t \in Threads, Signal(t) PROVE Control'
    <2>1. pc[t] = "signal" /\ UNCHANGED <<held, toBeQueued, toFlush>>
      BY <1>20 DEF Signal
    <2>2. ASSUME NEW u \in Threads \ {t} PROVE ControlOf(u)'
      <3>1. pc'[u] = pc[u] /\ queue'[u] = queue[u] /\ slot'[u] = slot[u]
        BY <1>20 DEF Signal, Return, Goto
      <3>2. ControlOf(u)
        OBVIOUS
      <3>  QED BY <2>1, <3>1, <3>2
    <2>3. ControlOf(t)
      OBVIOUS
    <2>4. CASE toBeQueued[t] = <<>>
      <3>1. pc'[t] = "idle" /\ slot'[t] = "main"
        BY <1>20, <2>4 DEF Signal, Return, Goto, Slots
      <3>2. ControlOf(t)'
        BY <2>1, <2>3, <2>4, <3>1
      <3>  QED BY <2>2, <3>2
    <2>5. CASE toBeQueued[t] # <<>>
      <3>1. pc'[t] = "unlock" /\ queue'[t] = queue[t] /\ slot'[t] = slot[t]
        BY <1>20, <2>5 DEF Signal, Goto
      <3>2. ControlOf(t)'
        BY <2>1, <2>3, <3>1
      <3>  QED BY <2>2, <3>2
    <2>  QED BY <2>4, <2>5
<1>21. ASSUME NEW t \in Threads, NEW qs \in Seq(Queues), qs # <<>>, BeginFlush(t, qs)
       PROVE  Control'
    BY <1>21 DEF BeginFlush, Slots
<1>22. ASSUME NEW q \in Queues, Notify(q) PROVE Control'
    <2>1. UNCHANGED <<queue, slot, held, toBeQueued, toFlush>>
      BY <1>22 DEF Notify
    <2>2. CASE UNCHANGED pc
      BY <2>1, <2>2
    <2>3. ASSUME NEW t \in Sleeping(q), Goto(t, "flush") PROVE Control'
      <3>1. t \in Threads /\ pc[t] = "sleep"
        BY DEF Sleeping
      <3>  QED BY <2>1, <2>3, <3>1 DEF Slots
    <2>  QED BY <1>22, <2>2, <2>3 DEF Notify
<1>23. CASE UNCHANGED <<pc, queue, slot, held, toBeQueued, toFlush>>
    BY <1>23
<1>24. /\ \A t \in Threads : Uses[t] \subseteq Queues
       /\ \A q \in Queues : <<q>> \in Seq(Queues) /\ <<q>> # <<>>
    BY QueuesAssumption
<1>25. ASSUME NEW t \in Threads, Direct \in Uses[t]
       PROVE  DeviceFlush \in Seq(Queues) /\ DeviceFlush # <<>>
    <2>1. DeviceFlush = <<Direct>> \o Among(Compute) \o Among(Copy)
      BY <1>24, <1>25 DEF DeviceFlush, Among
    <2>2. <<Direct>> \in Seq(Queues) /\ Among(Compute) \in Seq(Queues) /\ Among(Copy) \in Seq(Queues)
      BY <1>24, <1>25 DEF Among
    <2> HIDE DEF DeviceFlush
    <2>3. DeviceFlush \in Seq(Queues) /\ Len(DeviceFlush) >= 1
      <3>1. /\ <<Direct>> \o Among(Compute) \in Seq(Queues)
            /\ Len(<<Direct>> \o Among(Compute)) = 1 + Len(Among(Compute))
        BY <2>2, ConcatProperties
      <3>2. Len(Among(Compute)) \in Nat /\ Len(Among(Copy)) \in Nat
        BY <2>2, LenProperties
      <3>  QED BY <2>1, <2>2, <3>1, <3>2, ConcatProperties
    <2>  QED BY <2>3
<1>26. ASSUME NEW t \in Threads, Start(t) PROVE Control'
    BY <1>1, <1>19, <1>21, <1>24, <1>25, <1>26 DEF Start
<1>27. ASSUME NEW t \in Threads, Work(t) PROVE Control'
    BY <1>2, <1>3, <1>4, <1>6, <1>7, <1>8, <1>9, <1>10, <1>11, <1>12, <1>13, <1>14, <1>15,
       <1>17, <1>18, <1>20, <1>27
       DEF Work, GetCommandList, ExecuteCommandLists, Flush
<1>28. ASSUME NEW q \in Queues, ProccessInFlightCommandLists(q) \/ Gpu(q) \/ Destroy(q)
       PROVE  Control'
    BY <1>22, <1>23, <1>28
       DEF ProccessInFlightCommandLists, LockInFlight, PopInFlight, Recycle, UnlockInFlight,
           Gpu, GpuExecute, GpuSignal, GpuWait, Destroy
<1> QED
    BY <1>5, <1>23, <1>26, <1>27, <1>28 DEF Next

LEMMA WaitingStep == TypeOK /\ Waiting /\ [Next]_vars => Waiting'
<1> SUFFICES ASSUME TypeOK, Waiting, [Next]_vars
             PROVE  Waiting'
    OBVIOUS
<1>1. ASSUME NEW q \in Queues, PopInFlight(q) PROVE Waiting'
    <2>1. Head(inFlight[q]) \in Entries
      BY <1>1, HeadTailProperties DEF PopInFlight, TypeOK
    <2>  QED BY <1>1, <2>1 DEF PopInFlight, Waiting, TypeOK
<1>2. ASSUME NEW q \in Queues, Recycle(q) PROVE Waiting'
    BY <1>2 DEF Recycle, Waiting, TypeOK
<1>3. ASSUME UNCHANGED entry, \A q \in Queues : worker'[q] = "wait" => worker[q] = "wait"
      PROVE  Waiting'
    BY <1>3 DEF Waiting
<1>4. ASSUME NEW q \in Queues, LockInFlight(q) \/ UnlockInFlight(q) \/ Notify(q) PROVE Waiting'
    <2>1. \A r \in Queues : worker'[r] = "wait" => worker[r] = "wait"
      BY <1>4 DEF LockInFlight, UnlockInFlight, Notify, TypeOK
    <2>  QED BY <1>3, <1>4, <2>1 DEF LockInFlight, UnlockInFlight, Notify
<1>5. CASE UNCHANGED workerVars
    BY <1>3, <1>5
<1>6. ASSUME NEW t \in Threads, Start(t) \/ Lock(t) \/ GetCommandList(t) \/ RecordMips(t)
      PROVE  UNCHANGED workerVars
    BY <1>6 DEF Start, BeginRecording, BeginSignal, BeginFlush, Lock, GetCommandList,
                CreateCommandList, SeeAvailable, TryPop, TryPopFails, RecordMips
<1>7. ASSUME NEW t \in Threads, ExecuteCommandLists(t) \/ Flush(t)
      PROVE  UNCHANGED workerVars
    BY <1>7 DEF ExecuteCommandLists, Submit, IncrementFence, Signal, UnlockMutex, ClearIsLocked,
                PushInFlight, FinishExecute, ExecuteMips, Flush, FlushEmpty, FlushSleep, FlushReturn
<1>8. ASSUME NEW q \in Queues, Gpu(q) \/ Destroy(q) PROVE UNCHANGED workerVars
    BY <1>8 DEF Gpu, GpuExecute, GpuSignal, GpuWait, Destroy
<1>  QED
    BY <1>1, <1>2, <1>4, <1>5, <1>6, <1>7, <1>8 DEF Next, Work, ProccessInFlightCommandLists

-----------------------------------------------------------------------------
(* One holder: a step moves a list from one container to the next.         *)

LEMMA ElementTypes ==
  ASSUME TypeOK, Waiting
  PROVE  /\ \A q \in Queues : \A i \in 1..Len(available[q]) : available[q][i] \in CommandLists
         /\ \A q \in Queues : \A i \in 1..Len(inFlight[q]) : inFlight[q][i].list \in CommandLists
         /\ \A q \in Queues : worker[q] = "wait" => entry[q].list \in CommandLists
         /\ \A t \in Threads : \A i \in 1..Len(toBeQueued[t]) : toBeQueued[t][i] \in CommandLists
         /\ \A t \in Threads, s \in Slots : held[t][s] # NoList => held[t][s] \in CommandLists
<1>1. ASSUME NEW q \in Queues, NEW i \in 1..Len(inFlight[q])
      PROVE  inFlight[q][i].list \in CommandLists
  <2>1. inFlight[q][i] \in Entries
    BY ElementOfSeq DEF TypeOK
  <2> QED BY <2>1 DEF Entries
<1>2. ASSUME NEW q \in Queues, worker[q] = "wait"
      PROVE  entry[q].list \in CommandLists
  BY <1>2 DEF Waiting, Entries
<1>3. /\ \A q \in Queues : \A i \in 1..Len(available[q]) : available[q][i] \in CommandLists
      /\ \A t \in Threads : \A i \in 1..Len(toBeQueued[t]) : toBeQueued[t][i] \in CommandLists
      /\ \A t \in Threads, s \in Slots : held[t][s] # NoList => held[t][s] \in CommandLists
  BY ElementOfSeq DEF TypeOK
<1> QED BY <1>1, <1>2, <1>3

Unmoved(P) == \A l \in CommandLists : place[l] \notin P => place'[l] = place[l]

\* Containers that do not change, none of whose lists moves, still agree with place.
Frame(P) ==
  /\ \A q \in Queues :
       available'[q] = available[q] /\ <<"available", q>> \notin P => AvailableHolds(q)'
  /\ \A q \in Queues :
       inFlight'[q] = inFlight[q] /\ <<"inFlight", q>> \notin P => InFlightHolds(q)'
  /\ \A q \in Queues :
       worker'[q] = worker[q] /\ entry'[q] = entry[q] /\ <<"entry", q>> \notin P
         => EntryHolds(q)'
  /\ \A t \in Threads :
       toBeQueued'[t] = toBeQueued[t] /\ <<"queued", t>> \notin P => ToBeQueuedHolds(t)'
  /\ \A t \in Threads : \A s \in Slots :
       held'[t][s] = held[t][s] /\ <<s, t>> \notin P /\ held'[t][s] # NoList
         => place'[held'[t][s]] = <<s, t>>

LEMMA HolderFrame == ASSUME TypeOK, Waiting, OneHolder, NEW P, Unmoved(P) PROVE Frame(P)
<1>1. ASSUME NEW q \in Queues, available'[q] = available[q], <<"available", q>> \notin P
      PROVE  AvailableHolds(q)'
  BY <1>1, ElementTypes DEF OneHolder, AvailableHolds, Unmoved
<1>2. ASSUME NEW q \in Queues, inFlight'[q] = inFlight[q], <<"inFlight", q>> \notin P
      PROVE  InFlightHolds(q)'
  <2>1. \A i \in 1..Len(inFlight[q]) : /\ inFlight[q][i].list \in CommandLists
                                       /\ place[inFlight[q][i].list] \notin P
    BY <1>2, ElementTypes DEF OneHolder, InFlightHolds
  <2>2. \A i \in 1..Len(inFlight[q]) : place'[inFlight[q][i].list] = place[inFlight[q][i].list]
    BY <2>1 DEF Unmoved
  <2>  QED BY <1>2, <2>2 DEF OneHolder, InFlightHolds
<1>3. ASSUME NEW q \in Queues, worker'[q] = worker[q], entry'[q] = entry[q],
             <<"entry", q>> \notin P
      PROVE  EntryHolds(q)'
  BY <1>3, ElementTypes DEF OneHolder, EntryHolds, Unmoved
<1>4. ASSUME NEW t \in Threads, toBeQueued'[t] = toBeQueued[t], <<"queued", t>> \notin P
      PROVE  ToBeQueuedHolds(t)'
  BY <1>4, ElementTypes DEF OneHolder, ToBeQueuedHolds, Unmoved
<1>5. ASSUME NEW t \in Threads, NEW s \in Slots, held'[t][s] = held[t][s],
             <<s, t>> \notin P, held'[t][s] # NoList
      PROVE  place'[held'[t][s]] = <<s, t>>
  BY <1>5, ElementTypes DEF OneHolder, SlotsHold, Unmoved
<1> QED BY <1>1, <1>2, <1>3, <1>4, <1>5 DEF Frame

LEMMA HolderStep ==
  TypeOK /\ Control /\ Waiting /\ NewLists /\ OneHolder /\ [Next]_vars => OneHolder' /\ NewLists'
<1> SUFFICES ASSUME TypeOK, Control, Waiting, NewLists, OneHolder, [Next]_vars
             PROVE  OneHolder' /\ NewLists'
    OBVIOUS
<1>0. /\ slot \in [Threads -> Slots]
      /\ held \in [Threads -> [Slots -> CommandLists \cup {NoList}]]
      /\ toBeQueued \in [Threads -> Seq(CommandLists)]
      /\ inFlight \in [Queues -> Seq(Entries)]
      /\ available \in [Queues -> Seq(CommandLists)]
      /\ worker \in [Queues -> {"lock", "drain", "wait", "notify", "exited"}]
      /\ entry \in [Queues -> Entries \cup {NoEntry}]
      /\ created \in SUBSET CommandLists
      /\ place \in [CommandLists -> Kinds \X Holders]
    BY DEF TypeOK
<1> USE <1>0
<1>2. ASSUME NEW t \in Threads, CreateCommandList(t) PROVE OneHolder' /\ NewLists'
  <2>1. NewList \in CommandLists /\ NewList \notin created
    BY <1>2 DEF CreateCommandList, NewList
  <2>2. place[NewList][1] = "new"
    BY <2>1 DEF NewLists
  <2>3. Unmoved({place[NewList]})
    BY <1>2, <2>1 DEF CreateCommandList, Unmoved
  <2>4. Frame({place[NewList]})
    BY <2>3, HolderFrame
  <2>5. \A q \in Queues : AvailableHolds(q)' /\ InFlightHolds(q)' /\ EntryHolds(q)'
    BY <1>2, <2>2, <2>4 DEF CreateCommandList, Frame
  <2>6. \A u \in Threads : ToBeQueuedHolds(u)'
    BY <1>2, <2>2, <2>4 DEF CreateCommandList, Frame
  <2>7. ASSUME NEW u \in Threads PROVE SlotsHold(u)'
    <3>1. place'[NewList] = <<slot[t], t>> /\ held'[t][slot[t]] = NewList
      BY <1>2, <2>1 DEF CreateCommandList
    <3>2. \A s \in Slots : u # t \/ s # slot[t] => held'[u][s] = held[u][s]
      BY <1>2 DEF CreateCommandList
    <3>3. \A s \in Slots : <<s, u>> # place[NewList]
      BY <2>2 DEF Slots
    <3>  QED BY <2>4, <3>1, <3>2, <3>3 DEF SlotsHold, Frame
  <2>8. NewLists'
    BY <1>2, <2>1 DEF CreateCommandList, NewLists
  <2>  QED BY <2>5, <2>6, <2>7, <2>8 DEF OneHolder
<1>4. ASSUME NEW t \in Threads, TryPop(t) PROVE OneHolder' /\ NewLists'
  <2> DEFINE q == GetFrom(t)
             l == Head(available[q])
  <2>1. q \in Queues
    BY <1>4 DEF Control, ControlOf, InExecute, TryPop
  <2> HIDE DEF q
  <2>2. /\ Tail(available[q]) \in Seq(CommandLists)
        /\ Len(Tail(available[q])) = Len(available[q]) - 1
        /\ \A i \in 1..Len(Tail(available[q])) : Tail(available[q])[i] = available[q][i+1]
        /\ Len(available[q]) \in Nat \ {0}
        /\ l = available[q][1]
        /\ l \in CommandLists
    <3>1. available[q] # <<>> /\ l = Head(available[q])
      BY <1>4 DEF TryPop, q
    <3>  QED BY <2>1, <3>1, HeadTailProperties, EmptySeq
  <2>3. place[l] = <<"available", q>>
    <3>1. 1 \in 1..Len(available[q])
      BY <2>2
    <3>2. AvailableHolds(q)
      BY <2>1 DEF OneHolder
    <3>  QED BY ONLY <2>2, <3>1, <3>2 DEF AvailableHolds
  <2>4. /\ available' = [available EXCEPT ![q] = Tail(@)]
        /\ held' = [held EXCEPT ![t][slot[t]] = l]
        /\ place' = [place EXCEPT ![l] = <<slot[t], t>>]
        /\ UNCHANGED <<inFlight, worker, entry, toBeQueued, created>>
    BY <1>4 DEF TryPop, q
  <2> HIDE DEF l
  <2>5. Frame({place[l]})
    <3>1. Unmoved({place[l]})
      BY <2>2, <2>4 DEF Unmoved
    <3>  QED BY <3>1, HolderFrame
  <2>6. ASSUME NEW r \in Queues PROVE AvailableHolds(r)' /\ InFlightHolds(r)' /\ EntryHolds(r)'
    <3>1. InFlightHolds(r)' /\ EntryHolds(r)'
      BY <2>3, <2>4, <2>5 DEF Frame
    <3>2. CASE r # q
      BY <2>3, <2>4, <2>5, <3>1, <3>2 DEF Frame
    <3>3. CASE r = q
      <4>1. available'[q] = Tail(available[q])
        BY <2>1, <2>4
      <4>2. \A i, j \in 1..Len(available[q]) : available[q][i] = available[q][j] => i = j
        BY <2>1 DEF OneHolder, AvailableHolds
      <4>3. \A i \in 1..Len(available'[q]) : /\ available'[q][i] = available[q][i+1]
                                             /\ available'[q][i] # l
                                             /\ i+1 \in 1..Len(available[q])
        BY <2>2, <4>1, <4>2
      <4>4. \A i \in 1..Len(available'[q]) : place'[available'[q][i]] = <<"available", q>>
        BY <2>1, <2>4, <4>3, ElementTypes DEF OneHolder, AvailableHolds
      <4>5. ASSUME NEW i \in 1..Len(available'[q]), NEW j \in 1..Len(available'[q]),
                   available'[q][i] = available'[q][j]
            PROVE  i = j
        <5>1. i+1 = j+1
          BY <4>2, <4>3, <4>5
        <5>  QED BY <5>1
      <4>  QED BY <3>1, <3>3, <4>4, <4>5 DEF AvailableHolds
    <3>  QED BY <3>2, <3>3
  <2>7. ASSUME NEW u \in Threads PROVE SlotsHold(u)' /\ ToBeQueuedHolds(u)'
    <3>1. place'[l] = <<slot[t], t>> /\ held'[t][slot[t]] = l
      BY <2>2, <2>4
    <3>2. \A s \in Slots : u # t \/ s # slot[t] => held'[u][s] = held[u][s]
      BY <2>4
    <3>3. \A s \in Slots : <<s, u>> # place[l]
      BY <2>3 DEF Slots
    <3>4. SlotsHold(u)'
      BY <2>5, <3>1, <3>2, <3>3 DEF SlotsHold, Frame
    <3>5. ToBeQueuedHolds(u)'
      BY <2>3, <2>4, <2>5 DEF Frame
    <3>  QED BY <3>4, <3>5
  <2>8. NewLists'
    <3>1. l \in created
      BY <2>2, <2>3 DEF NewLists
    <3>  QED BY <2>4, <3>1 DEF NewLists
  <2>  QED BY <2>6, <2>7, <2>8 DEF OneHolder
<1>8. ASSUME NEW t \in Threads, NEW b \in BOOLEAN, Submit(t, b) PROVE OneHolder' /\ NewLists'
  <2> DEFINE list    == held[t]["main"]
             pending == held[t]["pending"]
  <2>1. /\ list \in CommandLists /\ place[list] = <<"main", t>>
        /\ pending \in CommandLists /\ place[pending] = <<"pending", t>>
        /\ list # pending
    BY <1>8, ElementTypes DEF Submit, Control, ControlOf, OneHolder, SlotsHold, Slots
  <2>2. /\ toBeQueued' = [toBeQueued EXCEPT ![t] = <<pending, list>>]
        /\ held' = [held EXCEPT ![t]["main"] = NoList, ![t]["pending"] = NoList]
        /\ place' = [place EXCEPT ![list] = <<"queued", t>>, ![pending] = <<"queued", t>>]
        /\ UNCHANGED <<inFlight, available, worker, entry, created>>
    BY <1>8 DEF Submit
  <2>3. Frame({<<"main", t>>, <<"pending", t>>})
    <3>1. Unmoved({<<"main", t>>, <<"pending", t>>})
      BY <2>1, <2>2 DEF Unmoved
    <3>  QED BY <3>1, HolderFrame
  <2>4. ASSUME NEW r \in Queues PROVE AvailableHolds(r)' /\ InFlightHolds(r)' /\ EntryHolds(r)'
    BY <2>2, <2>3 DEF Frame
  <2>5. ASSUME NEW u \in Threads PROVE ToBeQueuedHolds(u)'
    <3>1. CASE u # t
      BY <2>2, <2>3, <3>1 DEF Frame
    <3>2. CASE u = t
      <4>1. toBeQueued'[t] = <<pending, list>>
        BY <2>2
      <4>2. place'[list] = <<"queued", t>> /\ place'[pending] = <<"queued", t>>
        BY <2>1, <2>2
      <4>  QED BY <2>1, <3>2, <4>1, <4>2 DEF ToBeQueuedHolds
    <3>  QED BY <3>1, <3>2
  <2>6. ASSUME NEW u \in Threads PROVE SlotsHold(u)'
    <3>1. \A s \in Slots : (u # t \/ s = "mips") => held'[u][s] = held[u][s]
      BY <2>2
    <3>2. \A s \in Slots : u # t \/ s = "mips" \/ held'[u][s] = NoList
      BY <2>2 DEF Slots
    <3>  QED BY <2>3, <3>1, <3>2 DEF SlotsHold, Frame
  <2>7. NewLists'
    <3>1. list \in created /\ pending \in created
      BY <2>1 DEF NewLists
    <3>  QED BY <2>2, <3>1 DEF NewLists
  <2>  QED BY <2>4, <2>5, <2>6, <2>7 DEF OneHolder
<1>14. ASSUME NEW t \in Threads, PushInFlight(t) PROVE OneHolder' /\ NewLists'
  <2> DEFINE q == queue[t]
             s == toBeQueued[t]
             l == Head(s)
             e == [fence |-> signalled[t], list |-> l]
  <2>1. q \in Queues
    BY <1>14 DEF Control, ControlOf, InExecute, PushInFlight
  <2>2. /\ Tail(s) \in Seq(CommandLists)
        /\ Len(Tail(s)) = Len(s) - 1
        /\ \A i \in 1..Len(Tail(s)) : Tail(s)[i] = s[i+1]
        /\ Len(s) \in Nat \ {0}
        /\ l = s[1]
        /\ l \in CommandLists
    <3>1. s # <<>> /\ s \in Seq(CommandLists)
      BY <1>14 DEF PushInFlight
    <3>  QED BY ONLY <3>1, HeadTailProperties, EmptySeq
  <2>3. place[l] = <<"queued", t>>
    <3>1. ToBeQueuedHolds(t)
      BY DEF OneHolder
    <3>2. 1 \in 1..Len(s)
      BY <2>2
    <3>  QED BY ONLY <2>2, <3>1, <3>2 DEF ToBeQueuedHolds
  <2>4. /\ inFlight' = [inFlight EXCEPT ![q] = Append(@, e)]
        /\ toBeQueued' = [toBeQueued EXCEPT ![t] = Tail(@)]
        /\ place' = [place EXCEPT ![l] = <<"inFlight", q>>]
        /\ UNCHANGED <<available, worker, entry, held, created>>
    BY <1>14 DEF PushInFlight
  <2>5. Frame({place[l]})
    <3>1. Unmoved({place[l]})
      BY <2>2, <2>4 DEF Unmoved
    <3>  QED BY <3>1, HolderFrame
  <2>6. ASSUME NEW r \in Queues PROVE AvailableHolds(r)' /\ InFlightHolds(r)' /\ EntryHolds(r)'
    <3>1. AvailableHolds(r)' /\ EntryHolds(r)'
      BY <2>3, <2>4, <2>5 DEF Frame
    <3>2. CASE r # q
      BY <2>3, <2>4, <2>5, <3>1, <3>2 DEF Frame
    <3>3. CASE r = q
      <4>1. e \in Entries
        BY <2>2 DEF Entries, TypeOK
      <4>2. /\ Len(inFlight'[q]) = Len(inFlight[q]) + 1
            /\ \A i \in 1..Len(inFlight[q]) : inFlight'[q][i] = inFlight[q][i]
            /\ inFlight'[q][Len(inFlight[q]) + 1].list = l
            /\ Len(inFlight[q]) \in Nat
        BY <2>1, <2>4, <4>1, AppendProperties, LenProperties
      <4>3. \A i \in 1..Len(inFlight[q]) : /\ inFlight[q][i].list \in CommandLists
                                           /\ place[inFlight[q][i].list] = <<"inFlight", q>>
                                           /\ inFlight[q][i].list # l
        BY <2>1, <2>3, ElementTypes DEF OneHolder, InFlightHolds
      <4>4. \A i \in 1..Len(inFlight'[q]) : place'[inFlight'[q][i].list] = <<"inFlight", q>>
        <5>1. \A i \in 1..Len(inFlight'[q]) :
                i \in 1..Len(inFlight[q]) \/ i = Len(inFlight[q]) + 1
          BY <4>2
        <5>2. place'[l] = <<"inFlight", q>>
          BY <2>2, <2>4
        <5>3. \A i \in 1..Len(inFlight[q]) : place'[inFlight[q][i].list] = <<"inFlight", q>>
          BY <2>4, <4>3
        <5>  QED BY <4>2, <5>1, <5>2, <5>3
      <4>5. \A i, j \in 1..Len(inFlight'[q]) :
              inFlight'[q][i].list = inFlight'[q][j].list => i = j
        <5>1. \A i \in 1..Len(inFlight'[q]) :
                i \in 1..Len(inFlight[q]) \/ i = Len(inFlight[q]) + 1
          BY <4>2
        <5>2. \A i, j \in 1..Len(inFlight[q]) : inFlight[q][i].list = inFlight[q][j].list => i = j
          BY <2>1 DEF OneHolder, InFlightHolds
        <5>3. ASSUME NEW i \in 1..Len(inFlight'[q]), NEW j \in 1..Len(inFlight'[q]),
                     inFlight'[q][i].list = inFlight'[q][j].list
              PROVE  i = j
          <6>1. CASE i \in 1..Len(inFlight[q]) /\ j \in 1..Len(inFlight[q])
            BY ONLY <4>2, <5>2, <5>3, <6>1
          <6>2. CASE i = Len(inFlight[q]) + 1 \/ j = Len(inFlight[q]) + 1
            BY ONLY <4>2, <4>3, <5>1, <5>3, <6>2
          <6>  QED BY ONLY <5>1, <6>1, <6>2
        <5>  QED BY ONLY <5>3
      <4>6. InFlightHolds(r)'
        BY ONLY <3>3, <4>4, <4>5 DEF InFlightHolds
      <4>  QED BY ONLY <3>1, <4>6
    <3>  QED BY <3>2, <3>3
  <2>7. ASSUME NEW u \in Threads PROVE ToBeQueuedHolds(u)'
    <3>1. CASE u # t
      BY <2>3, <2>4, <2>5, <3>1 DEF Frame
    <3>2. CASE u = t
      <4>1. toBeQueued'[t] = Tail(s)
        BY <2>4
      <4>2. \A i, j \in 1..Len(s) : s[i] = s[j] => i = j
        BY DEF OneHolder, ToBeQueuedHolds
      <4>3. \A i \in 1..Len(Tail(s)) : Tail(s)[i] = s[i+1] /\ Tail(s)[i] # l /\ i+1 \in 1..Len(s)
        BY <2>2, <4>2
      <4>4. \A i \in 1..Len(Tail(s)) : place'[Tail(s)[i]] = <<"queued", t>>
        BY <2>4, <4>3, ElementTypes DEF OneHolder, ToBeQueuedHolds
      <4>5. \A i, j \in 1..Len(Tail(s)) : Tail(s)[i] = Tail(s)[j] => i = j
        BY <2>2, <4>2, <4>3
      <4>  QED BY <3>2, <4>1, <4>4, <4>5 DEF ToBeQueuedHolds
    <3>  QED BY <3>1, <3>2
  <2>8. ASSUME NEW u \in Threads PROVE SlotsHold(u)'
    BY <2>3, <2>4, <2>5 DEF SlotsHold, Frame, Slots
  <2>9. NewLists'
    <3>1. l \in created
      BY <2>2, <2>3 DEF NewLists
    <3>  QED BY <2>4, <3>1 DEF NewLists
  <2>  QED BY <2>6, <2>7, <2>8, <2>9 DEF OneHolder
<1>16. ASSUME NEW t \in Threads, ExecuteMips(t) PROVE OneHolder' /\ NewLists'
  <2> DEFINE list == held[t]["mips"]
  <2>1. list \in CommandLists /\ place[list] = <<"mips", t>>
    BY <1>16, ElementTypes DEF ExecuteMips, OneHolder, SlotsHold, Slots
  <2>2. /\ held' = [held EXCEPT ![t]["main"] = list, ![t]["mips"] = NoList]
        /\ place' = [place EXCEPT ![list] = <<"main", t>>]
        /\ UNCHANGED <<inFlight, available, worker, entry, toBeQueued, created>>
    BY <1>16 DEF ExecuteMips
  <2>3. Frame({<<"mips", t>>})
    <3>1. Unmoved({<<"mips", t>>})
      BY <2>1, <2>2 DEF Unmoved
    <3>  QED BY <3>1, HolderFrame
  <2>4. \A q \in Queues : AvailableHolds(q)' /\ InFlightHolds(q)' /\ EntryHolds(q)'
    BY <2>2, <2>3 DEF Frame
  <2>5. \A u \in Threads : ToBeQueuedHolds(u)'
    BY <2>2, <2>3 DEF Frame
  <2>6. ASSUME NEW u \in Threads PROVE SlotsHold(u)'
    <3>1. \A s \in Slots : (u # t \/ s = "pending") => held'[u][s] = held[u][s]
      BY <2>2
    <3>2. held'[t]["mips"] = NoList /\ held'[t]["main"] = list /\ place'[list] = <<"main", t>>
      BY <2>1, <2>2 DEF Slots
    <3>3. ASSUME NEW s \in Slots, held'[u][s] # NoList
          PROVE  place'[held'[u][s]] = <<s, u>>
      <4>1. CASE u # t \/ s = "pending"
        BY <2>3, <3>1, <3>3, <4>1 DEF Frame
      <4>2. CASE u = t /\ s # "pending"
        BY <3>2, <3>3, <4>2 DEF Slots
      <4>  QED BY <4>1, <4>2
    <3>  QED BY <3>3 DEF SlotsHold
  <2>7. NewLists'
    <3>1. list \in created
      BY <2>1 DEF NewLists
    <3>  QED BY <2>2, <3>1 DEF NewLists
  <2>  QED BY <2>4, <2>5, <2>6, <2>7 DEF OneHolder
<1>22. ASSUME NEW q \in Queues, PopInFlight(q) PROVE OneHolder' /\ NewLists'
  <2> DEFINE s == inFlight[q]
             l == Head(s).list
  <2>1. /\ Tail(s) \in Seq(Entries)
        /\ Len(Tail(s)) = Len(s) - 1
        /\ \A i \in 1..Len(Tail(s)) : Tail(s)[i] = s[i+1]
        /\ Len(s) \in Nat \ {0}
        /\ Head(s) = s[1]
    BY <1>22, HeadTailProperties, EmptySeq DEF PopInFlight
  <2>2. l \in CommandLists /\ place[l] = <<"inFlight", q>>
    <3>1. 1 \in 1..Len(s)
      BY <2>1
    <3>2. s[1].list \in CommandLists /\ place[s[1].list] = <<"inFlight", q>>
      BY <3>1, ElementTypes DEF OneHolder, InFlightHolds
    <3>  QED BY <2>1, <3>2
  <2>3. /\ inFlight' = [inFlight EXCEPT ![q] = Tail(@)]
        /\ entry' = [entry EXCEPT ![q] = Head(s)]
        /\ worker' = [worker EXCEPT ![q] = "wait"]
        /\ place' = [place EXCEPT ![l] = <<"entry", q>>]
        /\ UNCHANGED <<available, toBeQueued, held, created>>
    BY <1>22 DEF PopInFlight
  <2>4. Frame({place[l]})
    <3>1. Unmoved({place[l]})
      BY <2>2, <2>3 DEF Unmoved
    <3>  QED BY <3>1, HolderFrame
  <2>5. ASSUME NEW r \in Queues PROVE AvailableHolds(r)' /\ InFlightHolds(r)' /\ EntryHolds(r)'
    <3>1. AvailableHolds(r)'
      BY <2>2, <2>3, <2>4 DEF Frame
    <3>2. CASE r # q
      BY <2>2, <2>3, <2>4, <3>1, <3>2 DEF Frame
    <3>3. CASE r = q
      <4>1. inFlight'[q] = Tail(s) /\ entry'[q] = Head(s)
        BY <2>3
      <4>2. EntryHolds(q)'
        BY <2>2, <2>3, <4>1 DEF EntryHolds
      <4>3. \A i, j \in 1..Len(s) : s[i].list = s[j].list => i = j
        BY DEF OneHolder, InFlightHolds
      <4>4. \A i \in 1..Len(Tail(s)) : /\ Tail(s)[i].list = s[i+1].list
                                       /\ Tail(s)[i].list # l
                                       /\ i+1 \in 1..Len(s)
        BY <2>1, <4>3
      <4>5. \A i \in 1..Len(Tail(s)) : place'[Tail(s)[i].list] = <<"inFlight", q>>
        BY <2>3, <4>4, ElementTypes DEF OneHolder, InFlightHolds
      <4>6. ASSUME NEW i \in 1..Len(Tail(s)), NEW j \in 1..Len(Tail(s)),
                   Tail(s)[i].list = Tail(s)[j].list
            PROVE  i = j
        <5>1. i+1 = j+1
          BY <4>3, <4>4, <4>6
        <5>  QED BY <5>1
      <4>7. InFlightHolds(q)'
        BY ONLY <4>1, <4>5, <4>6 DEF InFlightHolds
      <4>  QED BY ONLY <3>1, <3>3, <4>2, <4>7
    <3>  QED BY <3>2, <3>3
  <2>6. ASSUME NEW u \in Threads PROVE ToBeQueuedHolds(u)' /\ SlotsHold(u)'
    <3>1. ToBeQueuedHolds(u)'
      BY <2>2, <2>3, <2>4 DEF Frame
    <3>2. SlotsHold(u)'
      BY <2>2, <2>3, <2>4 DEF SlotsHold, Frame, Slots
    <3>  QED BY <3>1, <3>2
  <2>7. NewLists'
    <3>1. l \in created
      BY <2>2 DEF NewLists
    <3>  QED BY <2>3, <3>1 DEF NewLists
  <2>  QED BY <2>5, <2>6, <2>7 DEF OneHolder
<1>23. ASSUME NEW q \in Queues, Recycle(q) PROVE OneHolder' /\ NewLists'
  <2> DEFINE s == available[q]
             l == entry[q].list
  <2>1. l \in CommandLists /\ place[l] = <<"entry", q>>
    BY <1>23, ElementTypes DEF Recycle, OneHolder, EntryHolds
  <2>2. /\ available' = [available EXCEPT ![q] = Append(@, l)]
        /\ place' = [place EXCEPT ![l] = <<"available", q>>]
        /\ worker' = [worker EXCEPT ![q] = "drain"]
        /\ entry' = [entry EXCEPT ![q] = NoEntry]
        /\ UNCHANGED <<inFlight, toBeQueued, held, created>>
    BY <1>23 DEF Recycle
  <2>3. Frame({place[l]})
    <3>1. Unmoved({place[l]})
      BY <2>1, <2>2 DEF Unmoved
    <3>  QED BY <3>1, HolderFrame
  <2>4. ASSUME NEW r \in Queues PROVE AvailableHolds(r)' /\ InFlightHolds(r)' /\ EntryHolds(r)'
    <3>1. InFlightHolds(r)'
      BY <2>1, <2>2, <2>3 DEF Frame
    <3>2. CASE r # q
      BY <2>1, <2>2, <2>3, <3>1, <3>2 DEF Frame
    <3>3. CASE r = q
      <4>1. /\ Len(available'[q]) = Len(s) + 1
            /\ \A i \in 1..Len(s) : available'[q][i] = s[i]
            /\ available'[q][Len(s) + 1] = l
            /\ Len(s) \in Nat
        BY <2>1, <2>2, AppendProperties, LenProperties
      <4>2. \A i \in 1..Len(available'[q]) : i \in 1..Len(s) \/ i = Len(s) + 1
        BY <4>1
      <4>3. \A i \in 1..Len(s) : /\ s[i] \in CommandLists
                                 /\ place[s[i]] = <<"available", q>>
                                 /\ s[i] # l
        BY <2>1, ElementTypes DEF OneHolder, AvailableHolds
      <4>4. \A i \in 1..Len(s) : place'[s[i]] = <<"available", q>>
        BY <2>2, <4>3
      <4>5. place'[l] = <<"available", q>>
        BY <2>1, <2>2
      <4>6. \A i \in 1..Len(available'[q]) : place'[available'[q][i]] = <<"available", q>>
        BY <4>1, <4>2, <4>4, <4>5
      <4>7. \A i, j \in 1..Len(s) : s[i] = s[j] => i = j
        BY DEF OneHolder, AvailableHolds
      <4>8. \A i, j \in 1..Len(available'[q]) : available'[q][i] = available'[q][j] => i = j
        BY <4>1, <4>2, <4>3, <4>7
      <4>9. EntryHolds(q)'
        BY <2>2 DEF EntryHolds
      <4>  QED BY <3>1, <3>3, <4>6, <4>8, <4>9 DEF AvailableHolds
    <3>  QED BY <3>2, <3>3
  <2>5. ASSUME NEW u \in Threads PROVE ToBeQueuedHolds(u)' /\ SlotsHold(u)'
    <3>1. ToBeQueuedHolds(u)'
      BY <2>1, <2>2, <2>3 DEF Frame
    <3>2. SlotsHold(u)'
      BY <2>1, <2>2, <2>3 DEF SlotsHold, Frame, Slots
    <3>  QED BY <3>1, <3>2
  <2>6. NewLists'
    BY <2>1, <2>2 DEF NewLists
  <2>  QED BY <2>4, <2>5, <2>6 DEF OneHolder
<1>25. ASSUME UNCHANGED <<available, inFlight, entry, toBeQueued, held, created, place>>,
              \A q \in Queues : worker'[q] = "wait" => worker[q] = "wait"
       PROVE  OneHolder' /\ NewLists'
  <2>1. NewLists'
    BY <1>25 DEF NewLists
  <2>2. \A q \in Queues : AvailableHolds(q)' /\ InFlightHolds(q)' /\ EntryHolds(q)'
    BY <1>25 DEF OneHolder, AvailableHolds, InFlightHolds, EntryHolds
  <2>3. \A t \in Threads : ToBeQueuedHolds(t)' /\ SlotsHold(t)'
    BY <1>25 DEF OneHolder, ToBeQueuedHolds, SlotsHold
  <2>  QED BY <2>1, <2>2, <2>3 DEF OneHolder
<1>26. ASSUME NEW t \in Threads, Start(t) PROVE OneHolder' /\ NewLists'
  BY <1>25, <1>26 DEF Start, BeginRecording, BeginSignal, BeginFlush
<1>27. ASSUME NEW t \in Threads, Work(t) PROVE OneHolder' /\ NewLists'
  <2>1. ASSUME GetCommandList(t) PROVE OneHolder' /\ NewLists'
    BY <1>2, <1>4, <1>25, <2>1 DEF GetCommandList, SeeAvailable, TryPopFails
  <2>2. ASSUME RecordMips(t) PROVE OneHolder' /\ NewLists'
    BY <1>25, <2>2 DEF RecordMips
  <2>3. ASSUME ExecuteCommandLists(t) PROVE OneHolder' /\ NewLists'
    BY <1>8, <1>14, <1>16, <1>25, <2>3
       DEF ExecuteCommandLists, IncrementFence, Signal, UnlockMutex, ClearIsLocked, FinishExecute
  <2>4. ASSUME Flush(t) PROVE OneHolder' /\ NewLists'
    BY <1>25, <2>4 DEF Flush, FlushEmpty, FlushSleep, FlushReturn
  <2>  QED BY <1>27, <2>1, <2>2, <2>3, <2>4 DEF Work
<1>28. ASSUME NEW t \in Threads, Lock(t) PROVE OneHolder' /\ NewLists'
  BY <1>25, <1>28 DEF Lock
<1>29. ASSUME NEW q \in Queues, ProccessInFlightCommandLists(q) PROVE OneHolder' /\ NewLists'
  <2>1. ASSUME LockInFlight(q) \/ UnlockInFlight(q) \/ Notify(q)
        PROVE  \A r \in Queues : worker'[r] = "wait" => worker[r] = "wait"
    BY <2>1 DEF LockInFlight, UnlockInFlight, Notify
  <2>2. ASSUME LockInFlight(q) \/ UnlockInFlight(q) \/ Notify(q) PROVE OneHolder' /\ NewLists'
    BY <1>25, <2>1, <2>2 DEF LockInFlight, UnlockInFlight, Notify
  <2>  QED BY <1>22, <1>23, <1>29, <2>2 DEF ProccessInFlightCommandLists
<1>30. ASSUME NEW q \in Queues, Gpu(q) \/ Destroy(q) PROVE OneHolder' /\ NewLists'
  BY <1>25, <1>30 DEF Gpu, GpuExecute, GpuSignal, GpuWait, Destroy
<1>31. CASE UNCHANGED vars
  BY <1>25, <1>31
<1> QED
  BY <1>26, <1>27, <1>28, <1>29, <1>30, <1>31 DEF Next

-----------------------------------------------------------------------------
(* Fence values.                                                           *)

LEMMA GpuTypes ==
  ASSUME TypeOK, NEW q \in Queues
  PROVE  /\ gpu[q] \in Seq(Commands) /\ Len(gpu[q]) \in Nat
         /\ \A i \in 1..Len(gpu[q]) : /\ gpu[q][i] \in Commands
                                      /\ gpu[q][i].op = "signal" => gpu[q][i].value \in Nat
<1>1. gpu[q] \in Seq(Commands) /\ Len(gpu[q]) \in Nat
  BY LenProperties DEF TypeOK
<1>2. ASSUME NEW i \in 1..Len(gpu[q]) PROVE gpu[q][i] \in Commands
  BY <1>1, ElementOfSeq
<1>3. \A c \in Commands : c.op = "signal" => c.value \in Nat
  BY DEF Commands
<1>  QED BY <1>1, <1>2, <1>3


\* Commands are only appended to a queue ...
LEMMA AppendCommand ==
  ASSUME TypeOK, NEW q \in Queues, NEW c \in Commands,
         gpu' = [gpu EXCEPT ![q] = Append(@, c)]
  PROVE  /\ Len(gpu[q]) \in Nat /\ Len(gpu'[q]) = Len(gpu[q]) + 1
         /\ \A k \in 1..Len(gpu[q]) : gpu'[q][k] = gpu[q][k]
         /\ gpu'[q][Len(gpu[q]) + 1] = c
         /\ \A r \in Queues : r # q => gpu'[r] = gpu[r]
<1>1. gpu \in [Queues -> Seq(Commands)]
  BY DEF TypeOK
<1>2. gpu'[q] = Append(gpu[q], c) /\ \A r \in Queues : r # q => gpu'[r] = gpu[r]
  BY <1>1
<1>  QED BY <1>1, <1>2, AppendProperties, LenProperties

LEMMA SubmitCommands ==
  ASSUME TypeOK, Control, NEW t \in Threads, NEW b \in BOOLEAN, Submit(t, b)
  PROVE  LET q == queue[t] IN
         /\ q \in Queues
         /\ Len(gpu[q]) \in Nat /\ Len(gpu'[q]) >= Len(gpu[q])
         /\ \A k \in 1..Len(gpu[q]) : gpu'[q][k] = gpu[q][k]
         /\ \A k \in 1..Len(gpu'[q]) : k > Len(gpu[q]) =>
              gpu'[q][k] \in {ExecCmd(held[t]["main"]), ExecCmd(held[t]["pending"])}
         /\ Len(gpu'[q]) \in Nat
         /\ \A r \in Queues : r # q => gpu'[r] = gpu[r]
<1> DEFINE q       == queue[t]
           list    == ExecCmd(held[t]["main"])
           pending == ExecCmd(held[t]["pending"])
<1>1. q \in Queues
  BY DEF Submit, Control, ControlOf, InExecute
<1>2. list \in Commands /\ pending \in Commands
  <2>1. held[t]["main"] \in CommandLists /\ held[t]["pending"] \in CommandLists
    BY DEF Submit, Control, ControlOf, TypeOK, Slots
  <2>  QED BY <2>1 DEF ExecCmd, Commands
<1>3. gpu' = [gpu EXCEPT ![q] = @ \o (IF b THEN <<pending>> ELSE <<>>) \o <<list>>]
  BY DEF Submit
<1>4. gpu \in [Queues -> Seq(Commands)]
  BY DEF TypeOK
<1> HIDE DEF q, list, pending
<1>5. \A r \in Queues : r # q => gpu'[r] = gpu[r]
  BY <1>3
<1>6. gpu[q] \in Seq(Commands) /\ Len(gpu[q]) \in Nat
  BY <1>1, <1>4, LenProperties
<1>7. CASE b
  <2>1. gpu'[q] = (gpu[q] \o <<pending>>) \o <<list>>
    BY <1>1, <1>3, <1>4, <1>7
  <2>2. gpu'[q] = Append(Append(gpu[q], pending), list)
    BY <1>2, <1>6, <2>1
  <2>3. /\ Append(gpu[q], pending) \in Seq(Commands)
        /\ Len(Append(gpu[q], pending)) = Len(gpu[q]) + 1
        /\ \A i \in 1..Len(gpu[q]) : Append(gpu[q], pending)[i] = gpu[q][i]
        /\ Append(gpu[q], pending)[Len(gpu[q]) + 1] = pending
    BY <1>2, <1>6, AppendProperties
  <2>4. /\ Len(gpu'[q]) = Len(gpu[q]) + 2
        /\ \A i \in 1..Len(gpu[q]) : gpu'[q][i] = gpu[q][i]
        /\ gpu'[q][Len(gpu[q]) + 1] = pending
        /\ gpu'[q][Len(gpu[q]) + 2] = list
    BY <1>2, <1>6, <2>2, <2>3, AppendProperties
  <2>5. \A k \in 1..Len(gpu'[q]) : k > Len(gpu[q]) => gpu'[q][k] \in {list, pending}
    BY <1>6, <2>4
  <2>  QED BY <1>1, <1>5, <1>6, <2>4, <2>5 DEF q, list, pending
<1>8. CASE ~b
  <2>1. gpu'[q] = gpu[q] \o <<>> \o <<list>>
    BY <1>1, <1>3, <1>4, <1>8
  <2>2. gpu'[q] = Append(gpu[q], list)
    BY <1>2, <1>6, <2>1
  <2>3. /\ Len(gpu'[q]) = Len(gpu[q]) + 1
        /\ \A i \in 1..Len(gpu[q]) : gpu'[q][i] = gpu[q][i]
        /\ gpu'[q][Len(gpu[q]) + 1] = list
    BY <1>2, <1>6, <2>2, AppendProperties
  <2>4. \A k \in 1..Len(gpu'[q]) : k > Len(gpu[q]) => gpu'[q][k] \in {list, pending}
    BY <1>6, <2>3
  <2>  QED BY <1>1, <1>5, <1>6, <2>3, <2>4 DEF q, list, pending
<1>  QED BY <1>7, <1>8

\* ... and the GPU takes the first.
LEMMA TakeCommand ==
  ASSUME TypeOK, NEW q \in Queues, Gpu(q)
  PROVE  /\ Len(gpu[q]) \in Nat \ {0} /\ Len(gpu'[q]) = Len(gpu[q]) - 1
         /\ \A k \in 1..Len(gpu'[q]) : k+1 \in 1..Len(gpu[q]) /\ gpu'[q][k] = gpu[q][k+1]
         /\ \A r \in Queues : r # q => gpu'[r] = gpu[r] /\ fence'[r] = fence[r]
         /\ gpu[q][1].op = "signal" => fence'[q] = gpu[q][1].value
         /\ gpu[q][1].op # "signal" => fence'[q] = fence[q]
<1>1. gpu \in [Queues -> Seq(Commands)] /\ fence \in [Queues -> Nat]
  BY DEF TypeOK
<1>2. /\ gpu[q] \in Seq(Commands) /\ gpu[q] # <<>>
      /\ gpu' = [gpu EXCEPT ![q] = Tail(@)]
  BY <1>1 DEF Gpu, GpuExecute, GpuSignal, GpuWait
<1>3. /\ Len(gpu[q]) \in Nat \ {0}
      /\ Head(gpu[q]) = gpu[q][1]
      /\ Len(Tail(gpu[q])) = Len(gpu[q]) - 1
      /\ \A k \in 1..Len(Tail(gpu[q])) : Tail(gpu[q])[k] = gpu[q][k+1]
  BY <1>2, HeadTailProperties, EmptySeq
<1>4. gpu'[q] = Tail(gpu[q]) /\ \A r \in Queues : r # q => gpu'[r] = gpu[r]
  BY <1>1, <1>2
<1>5. /\ Head(gpu[q]).op = "signal" => fence' = [fence EXCEPT ![q] = Head(gpu[q]).value]
      /\ Head(gpu[q]).op # "signal" => fence' = fence
  BY DEF Gpu, GpuExecute, GpuSignal, GpuWait
<1>6. /\ \A r \in Queues : r # q => fence'[r] = fence[r]
      /\ Head(gpu[q]).op = "signal" => fence'[q] = Head(gpu[q]).value
      /\ Head(gpu[q]).op # "signal" => fence'[q] = fence[q]
  BY <1>1, <1>5
<1>7. \A k \in 1..Len(gpu'[q]) : k+1 \in 1..Len(gpu[q]) /\ gpu'[q][k] = gpu[q][k+1]
  BY <1>3, <1>4
<1>  QED BY <1>3, <1>4, <1>6, <1>7

LEMMA FenceValuesStep == TypeOK /\ Control /\ FenceValues /\ [Next]_vars => FenceValues'
<1> SUFFICES ASSUME TypeOK, Control, FenceValues, [Next]_vars
             PROVE  FenceValues'
    OBVIOUS
<1>0. /\ fence \in [Queues -> Nat] /\ fenceValue \in [Queues -> Nat]
      /\ gpu \in [Queues -> Seq(Commands)] /\ signalled \in [Threads -> Nat]
      /\ pc \in [Threads -> States] /\ queue \in [Threads -> Queues \cup {NoQueue}]
    BY DEF TypeOK
<1> USE <1>0
<1>1. ASSUME UNCHANGED <<gpu, fence, fenceValue>>,
             \A t \in Threads : pc'[t] = "signal" =>
               pc[t] = "signal" /\ signalled'[t] = signalled[t] /\ queue'[t] = queue[t]
      PROVE  FenceValues'
  BY <1>1 DEF FenceValues
\* Commands that are not signals make no difference.
<1>2. ASSUME UNCHANGED <<fence, fenceValue>>,
             \A q \in Queues : \A k \in 1..Len(gpu'[q]) : gpu'[q][k].op = "signal" =>
               k \in 1..Len(gpu[q]) /\ gpu'[q][k] = gpu[q][k],
             \A t \in Threads : pc'[t] = "signal" =>
               pc[t] = "signal" /\ signalled'[t] = signalled[t] /\ queue'[t] = queue[t]
      PROVE  FenceValues'
  BY <1>2 DEF FenceValues
<1>3. ASSUME NEW t \in Threads, NEW b \in BOOLEAN, Submit(t, b) PROVE FenceValues'
  <2>1. \A k \in 1..Len(gpu'[queue[t]]) : gpu'[queue[t]][k].op = "signal" =>
          k \in 1..Len(gpu[queue[t]])
    <3>1. ExecCmd(held[t]["main"]).op = "exec" /\ ExecCmd(held[t]["pending"]).op = "exec"
      BY DEF ExecCmd
    <3>2. /\ Len(gpu[queue[t]]) \in Nat
          /\ \A k \in 1..Len(gpu'[queue[t]]) : k > Len(gpu[queue[t]]) =>
               gpu'[queue[t]][k] \in {ExecCmd(held[t]["main"]), ExecCmd(held[t]["pending"])}
      BY <1>3, SubmitCommands
    <3>3. ASSUME NEW k \in 1..Len(gpu'[queue[t]]), gpu'[queue[t]][k].op = "signal"
          PROVE  k \in 1..Len(gpu[queue[t]])
      <4>1. "signal" # "exec"
        OBVIOUS
      <4>2. ~(k > Len(gpu[queue[t]]))
        BY <3>1, <3>2, <3>3, <4>1
      <4>  QED BY <3>2, <4>2
    <3>  QED BY <3>3
  <2>2. \A q \in Queues : \A k \in 1..Len(gpu'[q]) : gpu'[q][k].op = "signal" =>
          k \in 1..Len(gpu[q]) /\ gpu'[q][k] = gpu[q][k]
    BY <1>3, <2>1, SubmitCommands
  <2>  QED BY <1>2, <1>3, <2>2 DEF Submit
<1>4. ASSUME NEW t \in Threads, IncrementFence(t) PROVE FenceValues'
  <2>1. queue[t] \in Queues
    BY <1>4 DEF IncrementFence, Control, ControlOf, InExecute
  <2>2. /\ fenceValue' = [fenceValue EXCEPT ![queue[t]] = @ + 1]
        /\ \A r \in Queues : fenceValue'[r] \in Nat /\ fenceValue[r] <= fenceValue'[r]
    BY <1>4, <2>1 DEF IncrementFence
  <2>3. \A u \in Threads : pc'[u] = "signal" => signalled'[u] <= fenceValue'[queue'[u]]
    <3>1. signalled'[t] <= fenceValue'[queue'[t]]
      BY <1>4, <2>1 DEF IncrementFence
    <3>2. ASSUME NEW u \in Threads, u # t, pc'[u] = "signal"
          PROVE  signalled'[u] <= fenceValue'[queue'[u]]
      <4>1. pc[u] = "signal" /\ signalled'[u] = signalled[u] /\ queue'[u] = queue[u]
        BY <1>4, <3>2 DEF IncrementFence
      <4>2. queue[u] \in Queues
        BY <4>1 DEF Control, ControlOf, InExecute
      <4>  QED BY <2>2, <4>1, <4>2 DEF FenceValues
    <3>  QED BY <3>1, <3>2
  <2>4. UNCHANGED <<gpu, fence>>
    BY <1>4 DEF IncrementFence
  <2>5. \A r \in Queues : fence'[r] <= fenceValue'[r]
    BY <2>2, <2>4 DEF FenceValues
  <2>6. \A r \in Queues : \A i \in 1..Len(gpu'[r]) :
          gpu'[r][i].op = "signal" => gpu'[r][i].value <= fenceValue'[r]
    BY <2>2, <2>4, GpuTypes DEF FenceValues
  <2>  QED BY <2>3, <2>5, <2>6 DEF FenceValues
<1>5. ASSUME NEW t \in Threads, Signal(t) PROVE FenceValues'
  <2> DEFINE q == queue[t]
  <2>1. q \in Queues
    BY <1>5 DEF Signal, Control, ControlOf, InExecute
  <2>2. /\ gpu' = [gpu EXCEPT ![q] = Append(@, SignalCmd(signalled[t]))]
        /\ pc'[t] # "signal"
        /\ \A u \in Threads : u # t =>
             pc'[u] = pc[u] /\ signalled'[u] = signalled[u] /\ queue'[u] = queue[u]
        /\ UNCHANGED <<fence, fenceValue>>
    BY <1>5 DEF Signal
  <2>3. signalled[t] <= fenceValue[q]
    BY <1>5 DEF Signal, FenceValues
  <2>4. SignalCmd(signalled[t]) \in Commands
    BY DEF SignalCmd, Commands
  <2>5. ASSUME NEW r \in Queues, NEW i \in 1..Len(gpu'[r]), gpu'[r][i].op = "signal"
        PROVE  gpu'[r][i].value <= fenceValue'[r]
    <3>1. CASE r # q
      BY <2>2, <2>5, <3>1 DEF FenceValues
    <3>2. CASE r = q
      <4>1. /\ Len(gpu'[q]) = Len(gpu[q]) + 1
            /\ Len(gpu[q]) \in Nat
            /\ \A j \in 1..Len(gpu[q]) : gpu'[q][j] = gpu[q][j]
            /\ gpu'[q][Len(gpu[q]) + 1] = SignalCmd(signalled[t])
        BY <2>1, <2>2, <2>4, AppendProperties, LenProperties
      <4>2. CASE i = Len(gpu[q]) + 1
        BY <2>1, <2>2, <2>3, <3>2, <4>1, <4>2 DEF SignalCmd
      <4>3. CASE i \in 1..Len(gpu[q])
        BY <2>1, <2>2, <2>5, <3>2, <4>1, <4>3 DEF FenceValues
      <4>  QED BY <3>2, <4>1, <4>2, <4>3
    <3>  QED BY <3>1, <3>2
  <2>  QED BY <2>2, <2>5 DEF FenceValues
<1>6. ASSUME NEW t \in Threads, ExecuteMips(t) PROVE FenceValues'
  <2>1. Compute \in Queues /\ WaitCmd(Copy, fenceValue[Copy]) \in Commands
    BY <1>6 DEF ExecuteMips, Control, ControlOf, WaitCmd, Commands
  <2>2. gpu' = [gpu EXCEPT ![Compute] = Append(@, WaitCmd(Copy, fenceValue[Copy]))]
    BY <1>6 DEF ExecuteMips
  <2>3. \A q \in Queues : \A k \in 1..Len(gpu'[q]) : gpu'[q][k].op = "signal" =>
          k \in 1..Len(gpu[q]) /\ gpu'[q][k] = gpu[q][k]
    BY <2>1, <2>2, AppendCommand DEF WaitCmd
  <2>  QED BY <1>2, <1>6, <2>3 DEF ExecuteMips
<1>7. ASSUME NEW q \in Queues, Gpu(q) PROVE FenceValues'
  <2>1. UNCHANGED <<fenceValue, pc, signalled, queue>>
    BY <1>7 DEF Gpu, GpuExecute, GpuSignal, GpuWait
  <2>2. \A r \in Queues : fence'[r] <= fenceValue'[r]
    <3>1. 1 \in 1..Len(gpu[q])
      BY <1>7, TakeCommand
    <3>2. fence'[q] <= fenceValue[q]
      BY <1>7, <3>1, TakeCommand DEF FenceValues
    <3>  QED BY <1>7, <2>1, <3>2, TakeCommand DEF FenceValues
  <2>3. ASSUME NEW r \in Queues, NEW k \in 1..Len(gpu'[r]), gpu'[r][k].op = "signal"
        PROVE  gpu'[r][k].value <= fenceValue'[r]
    <3>1. CASE r = q
      <4>1. k+1 \in 1..Len(gpu[q]) /\ gpu'[q][k] = gpu[q][k+1]
        BY <1>7, <3>1, TakeCommand
      <4>  QED BY <2>1, <2>3, <3>1, <4>1 DEF FenceValues
    <3>2. CASE r # q
      <4>1. gpu'[r] = gpu[r]
        BY <1>7, <3>2, TakeCommand
      <4>  QED BY <2>1, <2>3, <4>1 DEF FenceValues
    <3>  QED BY <3>1, <3>2
  <2>  QED BY <2>1, <2>2, <2>3 DEF FenceValues
<1>8. ASSUME NEW t \in Threads, Start(t) \/ Lock(t) PROVE FenceValues'
  BY <1>1, <1>8 DEF Start, BeginRecording, BeginSignal, BeginFlush, Lock
<1>9. ASSUME NEW t \in Threads, Work(t) PROVE FenceValues'
  <2>1. ASSUME GetCommandList(t) \/ RecordMips(t) PROVE FenceValues'
    BY <1>1, <2>1
       DEF GetCommandList, CreateCommandList, SeeAvailable, TryPop, TryPopFails, RecordMips
  <2>2. ASSUME ExecuteCommandLists(t) PROVE FenceValues'
    BY <1>1, <1>3, <1>4, <1>5, <1>6, <2>2
       DEF ExecuteCommandLists, UnlockMutex, ClearIsLocked, PushInFlight, FinishExecute
  <2>3. ASSUME Flush(t) PROVE FenceValues'
    BY <1>1, <2>3 DEF Flush, FlushEmpty, FlushSleep, FlushReturn
  <2>  QED BY <1>9, <2>1, <2>2, <2>3 DEF Work
<1>10. ASSUME NEW q \in Queues, ProccessInFlightCommandLists(q) \/ Destroy(q)
       PROVE  FenceValues'
  BY <1>1, <1>10
     DEF ProccessInFlightCommandLists, LockInFlight, PopInFlight, Recycle, UnlockInFlight,
         Notify, Destroy
<1>11. CASE UNCHANGED vars
  BY <1>1, <1>11
<1> QED
  BY <1>7, <1>8, <1>9, <1>10, <1>11 DEF Next

-----------------------------------------------------------------------------
(* Awaited.                                                                *)

\* A thread that has lists to queue keeps its claim on them.
Keeps(t) ==
  pc[t] \in InExecute /\ toBeQueued[t] # <<>> =>
    /\ pc'[t] \in InExecute /\ (pc'[t] # "increment" => pc[t] # "increment")
    /\ queue'[t] = queue[t] /\ toBeQueued'[t] = toBeQueued[t] /\ signalled'[t] = signalled[t]

BeforeNext(q, k, f) ==
  /\ fence'[q] < f
  /\ \A j \in 1..(k-1) : gpu'[q][j].op = "signal" => gpu'[q][j].value < f

\* Command k of queue q in the next state is command i of this one, and no
\* signal before it is lost.
Follows(q, k, i) ==
  /\ i \in 1..Len(gpu[q]) /\ gpu'[q][k] = gpu[q][i]
  /\ \A f \in Nat : Before(q, i, f) => BeforeNext(q, k, f)

LEMMA AwaitedFrame ==
  ASSUME TypeOK, Waiting, Awaited,
         UNCHANGED <<inFlight, entry>>,
         \A q \in Queues : worker[q] = "wait" => worker'[q] = "wait",
         \A t \in Threads : Keeps(t),
         \A q \in Queues : \A k \in 1..Len(gpu'[q]) : gpu'[q][k].op = "exec" =>
           \/ \E i \in 1..Len(gpu[q]) : Follows(q, k, i)
           \/ \E t \in Threads : QueuedBy(t, q, k)'
  PROVE  Awaited'
<1> SUFFICES ASSUME NEW q \in Queues, NEW k \in 1..Len(gpu'[q]), gpu'[q][k].op = "exec",
                    NEW i \in 1..Len(gpu[q]), Follows(q, k, i)
             PROVE  \/ \E t \in Threads : QueuedBy(t, q, k)'
                    \/ \E n \in 1..Len(inFlight'[q]) : InFlightAt(n, q, k)'
                    \/ EntryOf(q, k)'
    BY DEF Awaited
<1>1. gpu[q][i].op = "exec" /\ gpu'[q][k] = gpu[q][i]
  BY DEF Follows
<1>2. CASE \E t \in Threads : QueuedBy(t, q, i)
  <2>1. PICK t \in Threads : QueuedBy(t, q, i)
    BY <1>2
  <2>2. signalled[t] \in Nat /\ toBeQueued[t] \in Seq(CommandLists)
    BY DEF TypeOK
  <2>3. pc[t] \in InExecute /\ toBeQueued[t] # <<>>
    BY <2>1, <2>2, EmptySeq DEF QueuedBy
  <2>4. /\ pc'[t] \in InExecute /\ (pc'[t] # "increment" => pc[t] # "increment")
        /\ queue'[t] = queue[t] /\ toBeQueued'[t] = toBeQueued[t] /\ signalled'[t] = signalled[t]
    BY <2>3 DEF Keeps
  <2>5. pc'[t] # "increment" => BeforeNext(q, k, signalled'[t])
    BY <2>1, <2>2, <2>4 DEF QueuedBy, Follows
  <2>  QED BY <1>1, <2>1, <2>4, <2>5 DEF QueuedBy, Before, BeforeNext
<1>3. CASE \E n \in 1..Len(inFlight[q]) : InFlightAt(n, q, i)
  <2>1. PICK n \in 1..Len(inFlight[q]) : InFlightAt(n, q, i)
    BY <1>3
  <2>2. inFlight[q][n].fence \in Nat
    <3>1. inFlight[q][n] \in Entries
      BY ElementOfSeq DEF TypeOK
    <3>  QED BY <3>1 DEF Entries
  <2>  QED BY <1>1, <2>1, <2>2 DEF InFlightAt, Follows, Before, BeforeNext
<1>4. CASE EntryOf(q, i)
  <2>1. entry[q].fence \in Nat
    BY <1>4 DEF EntryOf, Waiting, Entries
  <2>  QED BY <1>1, <1>4, <2>1 DEF EntryOf, Follows, Before, BeforeNext
<1>  QED BY <1>1, <1>2, <1>3, <1>4 DEF Awaited

LEMMA AwaitedStep ==
  TypeOK /\ Control /\ Waiting /\ FenceValues /\ Awaited /\ [Next]_vars => Awaited'
<1> SUFFICES ASSUME TypeOK, Control, Waiting, FenceValues, Awaited, [Next]_vars
             PROVE  Awaited'
    OBVIOUS
<1>0. /\ fence \in [Queues -> Nat] /\ fenceValue \in [Queues -> Nat]
      /\ signalled \in [Threads -> Nat] /\ toBeQueued \in [Threads -> Seq(CommandLists)]
      /\ pc \in [Threads -> States] /\ queue \in [Threads -> Queues \cup {NoQueue}]
      /\ worker \in [Queues -> {"lock", "drain", "wait", "notify", "exited"}]
      /\ inFlight \in [Queues -> Seq(Entries)] /\ entry \in [Queues -> Entries \cup {NoEntry}]
    BY DEF TypeOK
<1> USE <1>0
<1>1. ASSUME UNCHANGED <<gpu, fence>>, NEW q \in Queues, NEW k \in 1..Len(gpu'[q])
      PROVE  Follows(q, k, k)
  BY <1>1 DEF Follows, Before, BeforeNext
\* Steps that leave the GPU alone.
<1>2. ASSUME UNCHANGED <<gpu, fence, inFlight, entry>>,
             \A q \in Queues : worker[q] = "wait" => worker'[q] = "wait",
             \A t \in Threads : Keeps(t)
      PROVE  Awaited'
  <2>1. \A q \in Queues : \A k \in 1..Len(gpu'[q]) : \E i \in 1..Len(gpu[q]) : Follows(q, k, i)
    BY <1>1, <1>2
  <2>  QED BY <1>2, <2>1, AwaitedFrame
\* Steps that append commands.
<1>3. ASSUME NEW q \in Queues, NEW k \in 1..Len(gpu[q]), fence'[q] = fence[q],
             \A j \in 1..Len(gpu[q]) : gpu'[q][j] = gpu[q][j]
      PROVE  Follows(q, k, k)
  <2>1. Len(gpu[q]) \in Nat
    BY GpuTypes
  <2>2. \A j \in 1..(k-1) : j \in 1..Len(gpu[q])
    BY <2>1
  <2>  QED BY <1>3, <2>2 DEF Follows, Before, BeforeNext
<1>4. ASSUME NEW t \in Threads, NEW b \in BOOLEAN, Submit(t, b) PROVE Awaited'
  <2> DEFINE q == queue[t]
  <2>1. /\ toBeQueued' = [toBeQueued EXCEPT ![t] = <<held[t]["pending"], held[t]["main"]>>]
        /\ pc[t] = "close" /\ pc' = [pc EXCEPT ![t] = "increment"]
        /\ UNCHANGED <<fence, inFlight, entry, worker, queue, signalled>>
    BY <1>4 DEF Submit
  <2>2. \A u \in Threads : Keeps(u)
    BY <2>1 DEF Keeps, InExecute
  <2>3. ASSUME NEW r \in Queues, NEW k \in 1..Len(gpu'[r]), gpu'[r][k].op = "exec"
        PROVE  \/ \E i \in 1..Len(gpu[r]) : Follows(r, k, i)
               \/ \E u \in Threads : QueuedBy(u, r, k)'
    <3>1. CASE k \in 1..Len(gpu[r])
      <4>1. \A j \in 1..Len(gpu[r]) : gpu'[r][j] = gpu[r][j]
        BY <1>4, SubmitCommands
      <4>  QED BY <1>3, <2>1, <3>1, <4>1
    <3>2. CASE k \notin 1..Len(gpu[r])
      <4>1. r = q
        BY <1>4, <3>2, SubmitCommands
      <4>2. gpu'[r][k] \in {ExecCmd(held[t]["main"]), ExecCmd(held[t]["pending"])}
        BY <1>4, <3>2, <4>1, SubmitCommands
      <4>3. toBeQueued'[t] = <<held[t]["pending"], held[t]["main"]>>
        BY <2>1
      <4>4. \E n \in 1..Len(toBeQueued'[t]) : toBeQueued'[t][n] = gpu'[r][k].list
        BY <4>2, <4>3 DEF ExecCmd
      <4>5. QueuedBy(t, r, k)'
        BY <2>1, <4>1, <4>4 DEF QueuedBy, InExecute
      <4>  QED BY <4>5
    <3>  QED BY <3>1, <3>2
  <2>  QED BY <2>1, <2>2, <2>3, AwaitedFrame
<1>5. ASSUME NEW t \in Threads, Signal(t) PROVE Awaited'
  <2> DEFINE q == queue[t]
  <2>1. q \in Queues
    BY <1>5 DEF Signal, Control, ControlOf, InExecute
  <2>2. /\ gpu' = [gpu EXCEPT ![q] = Append(@, SignalCmd(signalled[t]))]
        /\ UNCHANGED <<fence, inFlight, entry, worker>>
    BY <1>5 DEF Signal
  <2>3. \A u \in Threads : Keeps(u)
    BY <1>5 DEF Signal, Keeps, InExecute
  <2>4. SignalCmd(signalled[t]) \in Commands /\ SignalCmd(signalled[t]).op = "signal"
    BY DEF SignalCmd, Commands
  <2>5. ASSUME NEW r \in Queues, NEW k \in 1..Len(gpu'[r]), gpu'[r][k].op = "exec"
        PROVE  \E i \in 1..Len(gpu[r]) : Follows(r, k, i)
    <3>1. k \in 1..Len(gpu[r]) /\ \A j \in 1..Len(gpu[r]) : gpu'[r][j] = gpu[r][j]
      BY <2>1, <2>2, <2>4, <2>5, AppendCommand
    <3>  QED BY <1>3, <2>2, <3>1
  <2>  QED BY <2>2, <2>3, <2>5, AwaitedFrame
<1>6. ASSUME NEW t \in Threads, ExecuteMips(t) PROVE Awaited'
  <2>1. /\ Compute \in Queues
        /\ WaitCmd(Copy, fenceValue[Copy]) \in Commands
        /\ WaitCmd(Copy, fenceValue[Copy]).op = "wait"
    BY <1>6 DEF ExecuteMips, Control, ControlOf, WaitCmd, Commands
  <2>2. /\ gpu' = [gpu EXCEPT ![Compute] = Append(@, WaitCmd(Copy, fenceValue[Copy]))]
        /\ UNCHANGED <<fence, inFlight, entry, worker>>
    BY <1>6 DEF ExecuteMips
  <2>3. \A u \in Threads : Keeps(u)
    BY <1>6 DEF ExecuteMips, Keeps, InExecute
  <2>4. ASSUME NEW r \in Queues, NEW k \in 1..Len(gpu'[r]), gpu'[r][k].op = "exec"
        PROVE  \E i \in 1..Len(gpu[r]) : Follows(r, k, i)
    <3>1. k \in 1..Len(gpu[r]) /\ \A j \in 1..Len(gpu[r]) : gpu'[r][j] = gpu[r][j]
      BY <2>1, <2>2, <2>4, AppendCommand
    <3>  QED BY <1>3, <2>2, <3>1
  <2>  QED BY <2>2, <2>3, <2>4, AwaitedFrame
\* What the GPU has not executed is still behind the same signals; a signal
\* it has executed was smaller.
<1>7. ASSUME NEW q \in Queues, Gpu(q) PROVE Awaited'
  <2>1. UNCHANGED <<inFlight, entry, worker, pc, queue, toBeQueued, signalled>>
    BY <1>7 DEF Gpu, GpuExecute, GpuSignal, GpuWait
  <2>2. \A u \in Threads : Keeps(u)
    BY <2>1 DEF Keeps
  <2>3. ASSUME NEW r \in Queues, NEW k \in 1..Len(gpu'[r])
        PROVE  \E i \in 1..Len(gpu[r]) : Follows(r, k, i)
    <3>1. CASE r # q
      <4>1. gpu'[r] = gpu[r] /\ fence'[r] = fence[r]
        BY <1>7, <3>1, TakeCommand
      <4>  QED BY <1>3, <4>1
    <3>2. CASE r = q
      <4>1. /\ k+1 \in 1..Len(gpu[q]) /\ gpu'[q][k] = gpu[q][k+1]
            /\ \A j \in 1..(k-1) : gpu'[q][j] = gpu[q][j+1]
        BY <1>7, <3>2, TakeCommand
      <4>2. ASSUME NEW f \in Nat, Before(q, k+1, f) PROVE BeforeNext(q, k, f)
        <5>1. 1 \in 1..((k+1)-1) /\ \A j \in 1..(k-1) : j+1 \in 1..((k+1)-1)
          BY <4>1
        <5>2. fence'[q] < f
          BY <1>7, <4>2, <5>1, TakeCommand DEF Before
        <5>3. \A j \in 1..(k-1) : gpu'[q][j].op = "signal" => gpu'[q][j].value < f
          BY <4>1, <4>2, <5>1 DEF Before
        <5>  QED BY <5>2, <5>3 DEF BeforeNext
      <4>  QED BY <3>2, <4>1, <4>2 DEF Follows
    <3>  QED BY <3>1, <3>2
  <2>  QED BY <2>1, <2>2, <2>3, AwaitedFrame
\* Steps that change who is to queue what.
<1>8. ASSUME NEW t \in Threads, IncrementFence(t) PROVE Awaited'
  <2> DEFINE r == queue[t]
  <2>1. r \in Queues
    BY <1>8 DEF IncrementFence, Control, ControlOf, InExecute
  <2>2. /\ pc[t] = "increment" /\ pc' = [pc EXCEPT ![t] = "signal"]
        /\ signalled' = [signalled EXCEPT ![t] = fenceValue[r] + 1]
        /\ UNCHANGED <<gpu, fence, inFlight, entry, worker, queue, toBeQueued>>
    BY <1>8 DEF IncrementFence
  <2>3. ASSUME NEW k \in 1..Len(gpu[r]) PROVE Before(r, k, fenceValue[r] + 1)
    <3>1. fence[r] < fenceValue[r] + 1
      BY <2>1 DEF FenceValues
    <3>2. \A j \in 1..(k-1) : j \in 1..Len(gpu[r])
      BY <2>1, GpuTypes
    <3>3. ASSUME NEW j \in 1..(k-1), gpu[r][j].op = "signal"
          PROVE  gpu[r][j].value < fenceValue[r] + 1
      <4>1. gpu[r][j].value \in Nat /\ gpu[r][j].value <= fenceValue[r]
        BY <2>1, <3>2, <3>3, GpuTypes DEF FenceValues
      <4>  QED BY <2>1, <4>1
    <3>  QED BY <3>1, <3>3 DEF Before
  <2>4. ASSUME NEW q \in Queues, NEW k \in 1..Len(gpu[q]), NEW u \in Threads, QueuedBy(u, q, k)
        PROVE  QueuedBy(u, q, k)'
    <3>1. CASE u # t
      BY <2>2, <2>4, <3>1 DEF QueuedBy, Before
    <3>2. CASE u = t
      <4>1. q = r /\ signalled'[t] = fenceValue[r] + 1 /\ pc'[t] = "signal"
        BY <2>2, <2>4, <3>2 DEF QueuedBy
      <4>2. Before(q, k, signalled[t])'
        BY <2>2, <2>3, <4>1 DEF Before
      <4>  QED BY <2>2, <2>4, <3>2, <4>1, <4>2 DEF QueuedBy, InExecute
    <3>  QED BY <3>1, <3>2
  <2>5. \A q \in Queues : \A k \in 1..Len(gpu[q]) :
          /\ EntryOf(q, k) => EntryOf(q, k)'
          /\ \A n \in 1..Len(inFlight[q]) : InFlightAt(n, q, k) => InFlightAt(n, q, k)'
    BY <2>2 DEF EntryOf, InFlightAt, Before
  <2>  QED BY <2>2, <2>4, <2>5 DEF Awaited
<1>9. ASSUME NEW t \in Threads, PushInFlight(t) PROVE Awaited'
  <2> DEFINE r == queue[t]
             s == toBeQueued[t]
             e == [fence |-> signalled[t], list |-> Head(s)]
  <2>1. r \in Queues
    BY <1>9 DEF PushInFlight, Control, ControlOf, InExecute
  <2>2. /\ pc[t] = "push" /\ s # <<>>
        /\ inFlight' = [inFlight EXCEPT ![r] = Append(@, e)]
        /\ toBeQueued' = [toBeQueued EXCEPT ![t] = Tail(@)]
        /\ UNCHANGED <<gpu, fence, entry, worker, queue, pc, signalled>>
    BY <1>9 DEF PushInFlight
  <2>3. /\ Head(s) \in CommandLists /\ Head(s) = s[1]
        /\ Len(s) \in Nat \ {0} /\ Len(Tail(s)) = Len(s) - 1
        /\ \A n \in 1..Len(Tail(s)) : Tail(s)[n] = s[n+1]
    BY <2>2, HeadTailProperties, EmptySeq
  <2>4. /\ Len(inFlight[r]) \in Nat
        /\ Len(inFlight'[r]) = Len(inFlight[r]) + 1
        /\ \A n \in 1..Len(inFlight[r]) : inFlight'[r][n] = inFlight[r][n]
        /\ inFlight'[r][Len(inFlight[r]) + 1] = e
        /\ \A q \in Queues : q # r => inFlight'[q] = inFlight[q]
    <3>1. e \in Entries
      BY <2>3 DEF Entries
    <3>2. inFlight'[r] = Append(inFlight[r], e)
      BY <2>1, <2>2
    <3>  QED BY <2>1, <2>2, <3>1, <3>2, AppendProperties, LenProperties
  <2>5. ASSUME NEW q \in Queues, NEW k \in 1..Len(gpu[q]), NEW u \in Threads, QueuedBy(u, q, k)
        PROVE  \/ QueuedBy(u, q, k)'
               \/ \E n \in 1..Len(inFlight'[q]) : InFlightAt(n, q, k)'
    <3>1. CASE u # t
      BY <2>2, <2>5, <3>1 DEF QueuedBy, Before
    <3>2. CASE u = t
      <4>1. q = r /\ Before(q, k, signalled[t])
        BY <2>2, <2>5, <3>2 DEF QueuedBy
      <4>2. PICK n \in 1..Len(s) : s[n] = gpu[q][k].list
        BY <2>5, <3>2 DEF QueuedBy
      <4>3. CASE n = 1
        <5>1. PICK m \in 1..Len(inFlight'[r]) : m = Len(inFlight[r]) + 1
          BY <2>4
        <5>2. e.list = gpu[q][k].list /\ e.fence = signalled[t]
          BY <2>3, <4>2, <4>3
        <5>3. /\ inFlight'[q][m].list = gpu[q][k].list
              /\ inFlight'[q][m].fence = signalled[t]
          BY <2>4, <4>1, <5>1, <5>2
        <5>4. InFlightAt(m, q, k)'
          BY <2>2, <4>1, <5>3 DEF InFlightAt, Before
        <5>  QED BY <4>1, <5>1, <5>4
      <4>4. CASE n # 1
        <5>1. n - 1 \in 1..Len(Tail(s)) /\ Tail(s)[n - 1] = s[n]
          BY <2>3, <4>4
        <5>2. toBeQueued'[t] = Tail(s)
          BY <2>2
        <5>3. \E m \in 1..Len(toBeQueued'[t]) : toBeQueued'[t][m] = gpu'[q][k].list
          BY <2>2, <4>2, <5>1, <5>2
        <5>  QED BY <2>2, <2>5, <3>2, <4>1, <5>3 DEF QueuedBy, Before
      <4>  QED BY <4>3, <4>4
    <3>  QED BY <3>1, <3>2
  <2>6. ASSUME NEW q \in Queues, NEW k \in 1..Len(gpu[q]), NEW n \in 1..Len(inFlight[q]),
               InFlightAt(n, q, k)
        PROVE  n \in 1..Len(inFlight'[q]) /\ InFlightAt(n, q, k)'
    <3>1. n \in 1..Len(inFlight'[q]) /\ inFlight'[q][n] = inFlight[q][n]
      <4>1. CASE q = r
        BY <2>4, <4>1
      <4>2. CASE q # r
        BY <2>4, <4>2
      <4>  QED BY <4>1, <4>2
    <3>  QED BY <2>2, <2>6, <3>1 DEF InFlightAt, Before
  <2>7. \A q \in Queues : \A k \in 1..Len(gpu[q]) : EntryOf(q, k) => EntryOf(q, k)'
    BY <2>2 DEF EntryOf, Before
  <2>8. UNCHANGED gpu
    BY <2>2
  <2>  QED BY <2>5, <2>6, <2>7, <2>8 DEF Awaited
\* Steps of the recycling thread: it keeps the fence value with the list.
<1>10. ASSUME NEW r \in Queues, PopInFlight(r) PROVE Awaited'
  <2> DEFINE s == inFlight[r]
  <2>1. /\ worker[r] = "drain" /\ worker' = [worker EXCEPT ![r] = "wait"]
        /\ s # <<>> /\ inFlight' = [inFlight EXCEPT ![r] = Tail(@)]
        /\ entry' = [entry EXCEPT ![r] = Head(s)]
        /\ UNCHANGED <<gpu, fence, pc, queue, toBeQueued, signalled>>
    BY <1>10 DEF PopInFlight
  <2>2. /\ Head(s) = s[1] /\ Len(s) \in Nat \ {0} /\ Len(Tail(s)) = Len(s) - 1
        /\ \A n \in 1..Len(Tail(s)) : Tail(s)[n] = s[n+1]
    BY <2>1, HeadTailProperties, EmptySeq
  <2>3. \A q \in Queues : \A k \in 1..Len(gpu[q]) : \A u \in Threads :
          QueuedBy(u, q, k) => QueuedBy(u, q, k)'
    BY <2>1 DEF QueuedBy, Before
  <2>4. ASSUME NEW q \in Queues, NEW k \in 1..Len(gpu[q]), NEW n \in 1..Len(inFlight[q]),
               InFlightAt(n, q, k)
        PROVE  \/ \E m \in 1..Len(inFlight'[q]) : InFlightAt(m, q, k)'
               \/ EntryOf(q, k)'
    <3>1. CASE q # r
      <4>1. inFlight'[q] = inFlight[q]
        BY <2>1, <3>1
      <4>  QED BY <2>1, <2>4, <4>1 DEF InFlightAt, Before
    <3>2. CASE q = r /\ n = 1
      <4>1. entry'[r] = s[1] /\ worker'[r] = "wait"
        BY <2>1, <2>2
      <4>  QED BY <2>1, <2>4, <3>2, <4>1 DEF InFlightAt, EntryOf, Before
    <3>3. CASE q = r /\ n # 1
      <4>1. inFlight'[r] = Tail(s)
        BY <2>1
      <4>2. n - 1 \in 1..Len(Tail(s)) /\ Tail(s)[n - 1] = s[n]
        BY <2>2, <3>3
      <4>3. n - 1 \in 1..Len(inFlight'[q]) /\ inFlight'[q][n - 1] = inFlight[q][n]
        BY <3>3, <4>1, <4>2
      <4>4. InFlightAt(n - 1, q, k)'
        BY <2>1, <2>4, <4>3 DEF InFlightAt, Before
      <4>  QED BY <4>3, <4>4
    <3>  QED BY <3>1, <3>2, <3>3
  <2>5. ASSUME NEW q \in Queues, NEW k \in 1..Len(gpu[q]), EntryOf(q, k) PROVE EntryOf(q, k)'
    <3>1. q # r
      BY <2>1, <2>5 DEF EntryOf
    <3>  QED BY <2>1, <2>5, <3>1 DEF EntryOf, Before
  <2>6. UNCHANGED gpu
    BY <2>1
  <2>  QED BY <2>3, <2>4, <2>5, <2>6 DEF Awaited
<1>11. ASSUME NEW r \in Queues, Recycle(r) PROVE Awaited'
  <2>1. /\ worker[r] = "wait" /\ worker' = [worker EXCEPT ![r] = "drain"]
        /\ fence[r] >= entry[r].fence /\ entry' = [entry EXCEPT ![r] = NoEntry]
        /\ UNCHANGED <<gpu, fence, inFlight, pc, queue, toBeQueued, signalled>>
    BY <1>11 DEF Recycle
  <2>2. \A q \in Queues : \A k \in 1..Len(gpu[q]) :
          /\ \A u \in Threads : QueuedBy(u, q, k) => QueuedBy(u, q, k)'
          /\ \A n \in 1..Len(inFlight[q]) : InFlightAt(n, q, k) => InFlightAt(n, q, k)'
    BY <2>1 DEF QueuedBy, InFlightAt, Before
  <2>3. ASSUME NEW q \in Queues, NEW k \in 1..Len(gpu[q]), EntryOf(q, k) PROVE EntryOf(q, k)'
    <3>1. q # r
      <4>1. entry[r].fence \in Nat
        BY <2>1 DEF Waiting, Entries
      <4>  QED BY <2>1, <2>3, <4>1 DEF EntryOf, Before
    <3>  QED BY <2>1, <2>3, <3>1 DEF EntryOf, Before
  <2>4. UNCHANGED <<gpu, inFlight>>
    BY <2>1
  <2>  QED BY <2>2, <2>3, <2>4 DEF Awaited
<1>12. ASSUME NEW t \in Threads, Start(t) \/ Lock(t) PROVE Awaited'
  <2>1. \A u \in Threads : Keeps(u)
    BY <1>12 DEF Start, BeginRecording, BeginSignal, BeginFlush, Lock, Keeps, InExecute
  <2>  QED BY <1>2, <1>12, <2>1 DEF Start, BeginRecording, BeginSignal, BeginFlush, Lock
<1>13. ASSUME NEW t \in Threads, GetCommandList(t) \/ RecordMips(t) PROVE Awaited'
  <2>1. \A u \in Threads : Keeps(u)
    BY <1>13 DEF GetCommandList, CreateCommandList, SeeAvailable, TryPop, TryPopFails,
                 RecordMips, Keeps, InExecute
  <2>  QED
    BY <1>2, <1>13, <2>1
       DEF GetCommandList, CreateCommandList, SeeAvailable, TryPop, TryPopFails, RecordMips
<1>14. ASSUME NEW t \in Threads, UnlockMutex(t) \/ ClearIsLocked(t) \/ FinishExecute(t)
       PROVE  Awaited'
  <2>1. \A u \in Threads : Keeps(u)
    BY <1>14 DEF UnlockMutex, ClearIsLocked, FinishExecute, Keeps, InExecute
  <2>  QED BY <1>2, <1>14, <2>1 DEF UnlockMutex, ClearIsLocked, FinishExecute
<1>15. ASSUME NEW t \in Threads, Flush(t) PROVE Awaited'
  <2>1. \A u \in Threads : Keeps(u)
    BY <1>15 DEF Flush, FlushEmpty, FlushSleep, FlushReturn, Keeps, InExecute
  <2>  QED BY <1>2, <1>15, <2>1 DEF Flush, FlushEmpty, FlushSleep, FlushReturn
<1>16. ASSUME NEW q \in Queues, LockInFlight(q) \/ UnlockInFlight(q) \/ Notify(q) \/ Destroy(q)
       PROVE  Awaited'
  <2>1. \A u \in Threads : Keeps(u)
    BY <1>16 DEF LockInFlight, UnlockInFlight, Notify, Destroy, Sleeping, Keeps, InExecute
  <2>2. \A r \in Queues : worker[r] = "wait" => worker'[r] = "wait"
    BY <1>16 DEF LockInFlight, UnlockInFlight, Notify, Destroy
  <2>  QED BY <1>2, <1>16, <2>1, <2>2 DEF LockInFlight, UnlockInFlight, Notify, Destroy
<1>17. CASE UNCHANGED vars
  <2>1. \A u \in Threads : Keeps(u)
    BY <1>17 DEF Keeps
  <2>  QED BY <1>2, <1>17, <2>1
<1>18. ASSUME NEW t \in Threads, Work(t) PROVE Awaited'
  BY <1>4, <1>5, <1>6, <1>8, <1>9, <1>13, <1>14, <1>15, <1>18 DEF Work, ExecuteCommandLists
<1> QED
  BY <1>7, <1>10, <1>11, <1>12, <1>16, <1>17, <1>18 DEF Next, ProccessInFlightCommandLists

-----------------------------------------------------------------------------
(* The invariant holds in every state, and what follows from it.           *)

LEMMA InvariantStep == IInv /\ [Next]_vars => IInv'
  BY TypeStep, ControlStep, WaitingStep, HolderStep, FenceValuesStep, AwaitedStep DEF IInv

THEOREM Invariance == Spec => []IInv
<1>1. Init => IInv
  BY InitInvariant
<1>2. IInv /\ [Next]_vars => IInv'
  BY InvariantStep
<1>  QED BY <1>1, <1>2, PTL DEF Spec

\* Every variable keeps its type, whatever the threads and the GPU do: in
\* particular what is submitted, queued for reuse and recycled is always a
\* command list, never a null pointer.
THEOREM TypeCorrect == Spec => []TypeOK
<1>1. IInv => TypeOK
  BY DEF IInv
<1>  QED BY <1>1, Invariance, PTL

\* A command list is always in exactly one hand: GetCommandList, the in-flight
\* queue and the recycling thread never give it to two (CommandQueue.cpp:143,
\* 215, 256-265).
THEOREM ListsHaveOneHolder == Spec => []OneHolder
<1>1. IInv => OneHolder
  BY DEF IInv
<1>  QED BY <1>1, Invariance, PTL

\* The list of a command that a GPU queue still has is claimed (Awaited), and so
\* in no hand that may touch it.
LEMMA NoReuse == IInv => NoReuseWhileExecuting
<1> SUFFICES ASSUME IInv, NEW l \in CommandLists,
                    place[l][1] \in Slots \cup {"new", "available"},
                    NEW q \in Queues, NEW i \in 1..Len(gpu[q]), gpu[q][i] = ExecCmd(l)
             PROVE  FALSE
  BY DEF NoReuseWhileExecuting, Executing
<1>1. gpu[q][i].op = "exec" /\ gpu[q][i].list = l
  BY DEF ExecCmd
<1>2. PICK k \in {"queued", "inFlight", "entry"} : place[l][1] = k
  <2>1. CASE \E t \in Threads : QueuedBy(t, q, i)
    <3>1. PICK t \in Threads : QueuedBy(t, q, i)
      BY <2>1
    <3>2. place[l] = <<"queued", t>>
      <4>1. PICK n \in 1..Len(toBeQueued[t]) : toBeQueued[t][n] = l
        BY <1>1, <3>1 DEF QueuedBy
      <4>2. \A m \in 1..Len(toBeQueued[t]) : place[toBeQueued[t][m]] = <<"queued", t>>
        BY DEF IInv, OneHolder, ToBeQueuedHolds
      <4>  QED BY <4>1, <4>2
    <3>  QED BY <3>2
  <2>2. CASE \E k \in 1..Len(inFlight[q]) : InFlightAt(k, q, i)
    <3>1. place[l] = <<"inFlight", q>>
      BY <1>1, <2>2 DEF IInv, InFlightAt, OneHolder, InFlightHolds
    <3>  QED BY <3>1
  <2>3. CASE EntryOf(q, i)
    <3>1. place[l] = <<"entry", q>>
      BY <1>1, <2>3 DEF IInv, EntryOf, OneHolder, EntryHolds
    <3>  QED BY <3>1
  <2>  QED BY <1>1, <2>1, <2>2, <2>3 DEF IInv, Awaited
<1>  QED BY <1>2 DEF Slots

\* No list is available, or held by a thread that records into it, while a
\* command of it is still on a GPU queue: the fence value a list is queued
\* with is signalled after the list (CommandQueue.cpp:208-218, 256-264).
THEOREM ListsAreNotReused == Spec => []NoReuseWhileExecuting
<1>1. IInv => NoReuseWhileExecuting
  BY NoReuse
<1>  QED BY <1>1, Invariance, PTL

=============================================================================
