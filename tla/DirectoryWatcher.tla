-------------------------- MODULE DirectoryWatcher --------------------------
(***************************************************************************)
(* GameFramework's notifications of changed files.  The worker thread of a *)
(* CReadDirectoryChanges runs what is queued for it (asynchronous          *)
(* procedure calls) and pushes notifications to a bounded queue            *)
(* (CThreadSafeQueue: a list with a lock, and a semaphore that counts what *)
(* is in it).  The thread of GameFramework::CheckFileChanges pops them and *)
(* raises events.  The main thread registers directories and in the end    *)
(* destroys the framework.                                                 *)
(*                                                                         *)
(* m_DirectoryChangeMutex belongs to the listener unless it is at the top  *)
(* of its loop, or to the main thread for one step (Register).             *)
(***************************************************************************)
EXTENDS Integers, Sequences, FiniteSets, SequencesExt

CONSTANTS
  Directories,
  MaxCount,          \* nMaxCount: the semaphore's maximum
  MaxChanges,        \* bound on the changes
  MaxRegistrations   \* bound on the calls of RegisterDirectoryChangeListener

ASSUME WatcherAssumption ==
  /\ IsFiniteSet(Directories)
  /\ MaxCount \in Nat \ {0} /\ MaxChanges \in Nat /\ MaxRegistrations \in Nat

VARIABLES
  main,           \* what the main thread does: run, join, terminate, end
  listener,       \* the listener: top, signalled, clear, pop, rest, end
  worker,         \* the worker: none, sleep, push, pushed, full, takenBack, end, crashed
  registrations,  \* how often a directory was registered
  stopListener,   \* m_bTerminateDirectoryChangeThread
  apcs,           \* what is queued for the worker
  toPush,         \* the notifications in m_BackupBuffer that are left
  blocks,         \* m_pBlocks, by directory
  outstanding,    \* m_nOutstandingRequests
  terminated,     \* m_bTerminate
  reading,        \* the directories with a read that is pending
  changes,        \* how many changes the reads have reported
  queue,          \* the list of m_Notifications
  semaphore,      \* the count of m_hSemaphore
  overflow,       \* m_bOverflow
  raised,         \* the last change an event was raised for
  known,          \* the changes an event was raised for or an overflow has told of
  surplus         \* entries that were cleared before the semaphore counted them

mainVars   == <<main, registrations, stopListener>>
workerVars == <<worker, apcs, toPush, blocks, outstanding, terminated, reading>>
queueVars  == <<queue, semaphore, overflow>>
told       == <<raised, known, surplus>>
vars == <<mainVars, listener, workerVars, changes, queueVars, told>>

\* The process, which a crash of the worker ends.
Alive == worker # "crashed"

Init ==
  /\ main = "run" /\ listener = "top" /\ worker = "none"
  /\ registrations = 0 /\ stopListener = FALSE
  /\ apcs = <<>> /\ toPush = <<>> /\ blocks = {} /\ outstanding = 0 /\ terminated = FALSE
  /\ reading = {} /\ changes = 0
  /\ queue = <<>> /\ semaphore = 0 /\ overflow = FALSE
  /\ raised = 0 /\ known = {} /\ surplus = 0

-----------------------------------------------------------------------------
(* The main thread.                                                        *)

Add(d)       == [call |-> "add", dir |-> d]
Terminate    == [call |-> "terminate"]
Aborted(d)   == [call |-> "aborted", dir |-> d]
Completed(d, s) == [call |-> "completed", dir |-> d, changes |-> s]

\* RegisterDirectoryChangeListener.  The first one starts the worker.
Register(d) ==
  /\ Alive /\ main = "run" /\ registrations < MaxRegistrations
  /\ listener \in {"top", "end"}
  /\ registrations' = registrations + 1
  /\ worker' = IF worker = "none" THEN "sleep" ELSE worker
  /\ apcs' = Append(apcs, Add(d))
  /\ UNCHANGED <<main, stopListener, listener, toPush, blocks, outstanding, terminated,
                 reading, changes, queueVars, told>>

\* The destructor.
Destroy ==
  /\ Alive /\ main = "run"
  /\ main' = "join" /\ stopListener' = TRUE
  /\ UNCHANGED <<registrations, listener, workerVars, changes, queueVars, told>>

\* The listener has been joined, m_DirectoryChanges is destroyed.
Join ==
  /\ Alive /\ main = "join" /\ listener = "end"
  /\ IF worker = "none"
     THEN main' = "end" /\ UNCHANGED apcs
     ELSE main' = "terminate" /\ apcs' = Append(apcs, Terminate)
  /\ UNCHANGED <<registrations, stopListener, listener, worker, toPush, blocks, outstanding,
                 terminated, reading, changes, queueVars, told>>

\* Ten seconds are enough for whatever the worker still has to do.
TimedOut_mutant == FALSE
TimedOut == worker = "sleep" /\ apcs = <<>> /\ ~(terminated /\ outstanding = 0)

TerminateReturns ==
  /\ Alive /\ main = "terminate"
  /\ worker = "end" \/ TimedOut
  /\ main' = "end"
  /\ UNCHANGED <<registrations, stopListener, listener, workerVars, changes, queueVars, told>>

-----------------------------------------------------------------------------
(* The worker: what is queued for it.                                      *)

\* BeginRead, which fails if the request has closed its directory.
BeginRead(d) == reading' = reading \cup ({d} \cap blocks')

\* A directory that is watched already, or cannot be opened, is forgotten.
AddDirectory(d) ==
  \/ /\ d \notin blocks
     /\ blocks' = blocks \cup {d}
     /\ outstanding' = outstanding + 1
     /\ BeginRead(d)
     /\ UNCHANGED <<worker, toPush, terminated>>
  \/ UNCHANGED <<worker, toPush, blocks, outstanding, terminated, reading>>

RequestTermination_mutant ==
  /\ terminated' = TRUE
  /\ blocks' = {}
  /\ UNCHANGED <<worker, toPush, outstanding, reading>>

RequestTermination ==
  /\ terminated' = TRUE
  /\ blocks' = {} /\ reading' = {}
  /\ UNCHANGED <<worker, toPush, outstanding>>

\* What the worker's queue becomes: CancelIo aborts the reads that are pending,
\* not one that has completed.
Cancelled == SetToSeq({Aborted(d) : d \in reading})

NotificationCompletion(d, s) ==
  /\ UNCHANGED <<blocks, outstanding, terminated>>
  /\ IF s = <<>>
     THEN UNCHANGED <<worker, toPush, reading>>
     ELSE worker' = "push" /\ toPush' = s /\ BeginRead(d)

RunApc ==
  /\ worker = "sleep" /\ apcs # <<>>
  /\ apcs' = Tail(apcs) \o (IF Head(apcs) = Terminate THEN Cancelled ELSE <<>>)
  /\ LET a == Head(apcs) IN
     \/ a.call = "add" /\ AddDirectory(a.dir)
     \/ a.call = "terminate" /\ RequestTermination
     \/ a.call = "completed" /\ NotificationCompletion(a.dir, a.changes)
     \/ /\ a.call = "aborted"
        /\ outstanding' = outstanding - 1
        /\ UNCHANGED <<worker, toPush, blocks, terminated, reading>>
  /\ UNCHANGED <<mainVars, listener, changes, queueVars, told>>

RunReturns ==
  /\ worker = "sleep" /\ apcs = <<>>
  /\ terminated /\ outstanding = 0
  /\ worker' = "end"
  /\ UNCHANGED <<mainVars, listener, apcs, toPush, blocks, outstanding, terminated, reading,
                 changes, queueVars, told>>

PerRead == 2  \* bound on the changes of one read

\* A read completes with n changes; with none, and what there was is lost, if there
\* was too much of it.
Complete(d, n) ==
  /\ Alive /\ d \in reading /\ changes + n <= MaxChanges
  /\ reading' = reading \ {d}
  /\ changes' = changes + n
  /\ apcs' = Append(apcs, Completed(d, [i \in 1..n |-> changes + i]))
  /\ UNCHANGED <<mainVars, listener, worker, toPush, blocks, outstanding, terminated,
                 queueVars, told>>

-----------------------------------------------------------------------------
(* The worker: CThreadSafeQueue::push, for one notification after the other. *)

Pushed(next) ==
  /\ worker' = next
  /\ UNCHANGED <<mainVars, listener, apcs, blocks, outstanding, terminated, reading,
                 changes, raised, known, surplus>>

NextOf(rest) == IF rest = <<>> THEN "sleep" ELSE "push"

PushBack ==
  /\ worker = "push"
  /\ queue' = Append(queue, Head(toPush))
  /\ Pushed("pushed")
  /\ UNCHANGED <<toPush, semaphore, overflow>>

ReleaseSemaphore ==
  /\ worker = "pushed"
  /\ IF semaphore < MaxCount
     THEN /\ semaphore' = semaphore + 1
          /\ toPush' = Tail(toPush)
          /\ Pushed(NextOf(Tail(toPush)))
     ELSE UNCHANGED <<semaphore, toPush>> /\ Pushed("full")
  /\ UNCHANGED <<queue, overflow>>

\* The lock is not held.  To take an entry from an empty list, or while the listener
\* takes one, is undefined: the list may be damaged, and the program ends with it.
TakenBack == Front(queue)

TakeBack ==
  /\ worker = "full"
  /\ \/ /\ queue # <<>>
        /\ queue' = TakenBack
        /\ Pushed("takenBack")
     \/ /\ queue = <<>> \/ listener \in {"clear", "pop"}
        /\ Pushed("crashed")
        /\ UNCHANGED queue
  /\ UNCHANGED <<toPush, semaphore, overflow>>

SetsOverflow_mutant == FALSE
SetsOverflow == TRUE

SetOverflow ==
  /\ worker = "takenBack"
  /\ overflow' = SetsOverflow
  /\ toPush' = Tail(toPush)
  /\ Pushed(NextOf(Tail(toPush)))
  /\ UNCHANGED <<queue, semaphore>>

-----------------------------------------------------------------------------
(* The listener.                                                           *)

Listens(next) ==
  /\ Alive
  /\ listener' = next
  /\ UNCHANGED <<mainVars, workerVars, changes>>

CheckFileChanges ==
  /\ listener = "top"
  /\ \/ stopListener /\ Listens("end") /\ UNCHANGED semaphore
     \/ ~stopListener /\ semaphore > 0 /\ semaphore' = semaphore - 1 /\ Listens("signalled")
     \/ ~stopListener /\ semaphore = 0 /\ Listens("rest") /\ UNCHANGED semaphore
  /\ UNCHANGED <<queue, overflow, told>>

CheckOverflow_mutant ==
  /\ listener = "signalled"
  /\ Listens(IF overflow THEN "rest" ELSE "pop")
  /\ UNCHANGED <<queueVars, told>>

CheckOverflow ==
  /\ listener = "signalled"
  /\ Listens(IF overflow THEN "clear" ELSE "pop")
  /\ UNCHANGED <<queueVars, told>>

\* The count goes down once for every entry, as far as it can.
Drained_mutant == semaphore
Drained == IF semaphore > Len(queue) THEN semaphore - Len(queue) ELSE 0

\* An entry of a push that has not come to an end.
InPush == IF worker \in {"pushed", "full"} THEN 1 ELSE 0

\* What has not reached the queue: the rest of the worker's buffer, and what the
\* completed reads among its calls have brought.
Brought(calls) ==
  UNION {ToSet(calls[a].changes) : a \in {b \in DOMAIN calls : calls[b].call = "completed"}}

OnTheWay == ToSet(toPush) \cup Brought(apcs)

\* The changes that have been dropped, but for those an overflow has told of.
Missing == (1..changes) \ (known \cup ToSet(queue) \cup OnTheWay)

\* Then the overflow is told, of what is cleared and of what was dropped before.
Clear ==
  /\ listener = "clear"
  /\ semaphore' = Drained
  /\ queue' = <<>> /\ overflow' = FALSE
  /\ known' = known \cup ToSet(queue) \cup Missing
  /\ surplus' = surplus + InPush
  /\ Listens("rest")
  /\ UNCHANGED raised

Popped_mutant == [change |-> Last(queue), left |-> Front(queue)]
Popped == [change |-> Head(queue), left |-> Tail(queue)]

\* An empty queue puts the semaphore right.  The event is raised all the same, with
\* what happens to be in the variables.
Pop ==
  /\ listener = "pop"
  /\ IF queue = <<>>
     THEN semaphore' = 0 /\ surplus' = 0 /\ UNCHANGED <<queue, raised, known>>
     ELSE /\ queue' = Popped.left /\ raised' = Popped.change
          /\ known' = known \cup {Popped.change}
          /\ UNCHANGED <<semaphore, surplus>>
  /\ Listens("rest")
  /\ UNCHANGED overflow

\* The pause of a millisecond, with the mutex held.
Rest ==
  /\ listener = "rest"
  /\ Listens("top")
  /\ UNCHANGED <<queueVars, told>>

-----------------------------------------------------------------------------
Worker == RunApc \/ RunReturns \/ PushBack \/ ReleaseSemaphore \/ TakeBack \/ SetOverflow
Listener == CheckFileChanges \/ CheckOverflow \/ Clear \/ Pop \/ Rest

Next ==
  \/ \E d \in Directories : Register(d)
  \/ Destroy \/ Join \/ TerminateReturns
  \/ Worker
  \/ Listener
  \/ \E d \in Directories, n \in 0..PerRead : Complete(d, n)

Spec == Init /\ [][Next]_vars

\* Both threads go on, and so does the main thread once it destroys the framework.
\* Nothing need change, and nobody need quit.
FairSpec ==
  /\ Spec
  /\ WF_vars(Worker)
  /\ WF_vars(Listener)
  /\ WF_vars(Join \/ TerminateReturns)

-----------------------------------------------------------------------------
(* Properties.                                                             *)

\* The types; a read is pending only for a watched directory, which is counted once,
\* and the queue holds at most the entries of the semaphore, one that the listener was
\* let through for and one of a push.
TypeOK ==
  /\ main \in {"run", "join", "terminate", "end"}
  /\ listener \in {"top", "signalled", "clear", "pop", "rest", "end"}
  /\ worker \in {"none", "sleep", "push", "pushed", "full", "takenBack", "end", "crashed"}
  /\ blocks \subseteq Directories /\ reading \subseteq blocks
  /\ outstanding \in 0..Cardinality(Directories)
  /\ semaphore \in 0..MaxCount
  /\ Len(queue) <= MaxCount + 2
  /\ queue \in Seq(1..MaxChanges) /\ toPush \in Seq(1..MaxChanges)

InPop  == IF listener \in {"signalled", "clear", "pop"} THEN 1 ELSE 0

\* Between them the semaphore, the listener that it has let through and a push that
\* is under way account for what is in the queue - unless the queue was cleared
\* under a push, which then counts an entry that is gone (CThreadSafeQueue.h:54-56
\* knows of one other way for them to get out of step).
CountMatches == Alive /\ surplus = 0 => semaphore + InPop = Len(queue) - InPush

\* Events come in the order of the changes, each at most once: what is queued is
\* later than what was raised, and in order.
InOrder ==
  /\ \A i \in DOMAIN queue : raised < queue[i]
  /\ \A i, j \in DOMAIN queue : i < j => queue[i] < queue[j]

\* No change that a read has reported gets lost unnoticed, wherever on its way to the
\* event it is dropped: it has been raised, is on its way, or belongs to an overflow
\* that was told (GameFramework.cpp:369) or that the listener will find flagged when
\* it is let through.  What a read that completes without data loses was never
\* reported: nobody is told of it (ReadDirectoryChangesPrivate.cpp:105-107), and this
\* does not speak of it.
NoSilentLoss == Missing # {} => overflow

\* What is in the queue gets out of it, unless the listener has been stopped or the
\* program has crashed.
NotificationsGetOut ==
  \A n \in 1..MaxChanges :
    (\E i \in DOMAIN queue : queue[i] = n)
      ~> \/ \A i \in DOMAIN queue : queue[i] # n
         \/ listener = "end" \/ ~Alive

\* Destroying the framework ends, whatever the worker is doing, and even if a
\* request will never be counted down.
DestroyReturns == (main = "join") ~> (main = "end" \/ ~Alive)

=============================================================================
