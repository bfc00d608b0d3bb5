----------------------- MODULE DirectoryWatcher_proofs -----------------------
(***************************************************************************)
(* Proofs about DirectoryWatcher, for any directories, any size of the     *)
(* queue of notifications and any number of changes and registrations.     *)
(***************************************************************************)
EXTENDS DirectoryWatcher, SequenceTheorems, FiniteSetTheorems, TLAPS

-----------------------------------------------------------------------------
(* The inductive invariant.                                                *)

Notifications == Seq(1..MaxChanges)

Apcs ==
  [call : {"add", "aborted"}, dir : Directories] \cup [call : {"terminate"}]
    \cup [call : {"completed"}, dir : Directories, changes : Notifications]

\* Every variable has its type, and only a worker that pushes has something to push.
Types ==
  /\ main \in {"run", "join", "terminate", "end"}
  /\ listener \in {"top", "signalled", "clear", "pop", "rest", "end"}
  /\ worker \in {"none", "sleep", "push", "pushed", "full", "takenBack", "end", "crashed"}
  /\ worker \in {"push", "pushed", "full", "takenBack"} => toPush # <<>>
  /\ worker \in {"none", "sleep", "end"} => toPush = <<>>
  /\ apcs \in Seq(Apcs)
  /\ blocks \subseteq Directories /\ reading \subseteq blocks
  /\ outstanding \in 0..Cardinality(Directories)
  /\ terminated \in BOOLEAN
  /\ changes \in 0..MaxChanges
  /\ queue \in Notifications /\ toPush \in Notifications
  /\ semaphore \in 0..MaxCount
  /\ raised \in Nat /\ surplus \in Nat

\* The semaphore, the listener and the worker account for the queue, but for
\* one at most, which they count too often once the queue was cleared under a push.
Counted(excess) ==
  /\ excess \in 0..1
  /\ surplus = 0 => excess = 0

Excess == semaphore + InPop + InPush - Len(queue)

Count == Len(queue) <= MaxCount + 2 /\ (Alive => Counted(Excess))

\* Sequence s increases, and goes on where t has ended.
Increasing(s) == \A i, j \in 1..Len(s) : i < j => s[i] < s[j]
Follows(s, t) == \A i \in 1..Len(s), j \in 1..Len(t) : t[j] < s[i]

\* What is left of a push: the first entry is in the queue when it has begun.
Rest1 == IF worker = "push" THEN 1 ELSE 2

IsCompleted(a) == a.call = "completed"

\* Changes are in order wherever they are on their way: raised, in the queue, in
\* the worker's buffer, with its calls, and still to come.
Order ==
  /\ Increasing(queue) /\ Increasing(toPush)
  /\ raised <= changes
  /\ \A i \in 1..Len(queue) : raised < queue[i] /\ queue[i] <= changes
  /\ \A i \in 1..Len(toPush) : toPush[i] <= changes
  /\ \A i \in Rest1..Len(toPush) :
       raised < toPush[i] /\ \A j \in 1..Len(queue) : queue[j] < toPush[i]

CallsInOrder(calls, queued, left, last, now) ==
  /\ \A a \in 1..Len(calls) : IsCompleted(calls[a]) =>
       /\ Increasing(calls[a].changes)
       /\ Follows(calls[a].changes, queued) /\ Follows(calls[a].changes, left)
       /\ \A k \in 1..Len(calls[a].changes) :
            last < calls[a].changes[k] /\ calls[a].changes[k] <= now
  /\ \A a, b \in 1..Len(calls) :
       a < b /\ IsCompleted(calls[a]) /\ IsCompleted(calls[b]) =>
         Follows(calls[b].changes, calls[a].changes)

CallOrder == CallsInOrder(apcs, queue, toPush, raised, changes)

\* Where calls of a kind are.
At(kind) == {a \in 1..Len(apcs) : apcs[a].call = kind}

\* The worker is told once to terminate, and nothing is added after that.
Ending ==
  /\ main \in {"run", "join"} => At("terminate") = {} /\ ~terminated
  /\ terminated => At("terminate") = {} /\ At("add") = {} /\ blocks = {}
  /\ \A a \in At("terminate") : \A b \in At("terminate") \cup At("add") : b <= a

\* Every aborted read is of a request of its own that is outstanding.
Outstanding ==
  /\ ~terminated => At("aborted") = {} /\ outstanding = Cardinality(blocks)
  /\ \A a, b \in At("aborted") : apcs[a].dir = apcs[b].dir => a = b
  /\ Cardinality({apcs[a].dir : a \in At("aborted")}) <= outstanding

\* While it is being pushed an entry is the last of the queue, or it has left it and is known.
Held ==
  worker \in {"pushed", "full"} =>
    IF queue = <<>> THEN toPush[1] \in known ELSE queue[Len(queue)] = toPush[1]

IInv == Types /\ Count /\ Order /\ CallOrder /\ Ending /\ Outstanding /\ Held

-----------------------------------------------------------------------------
(* Sequences.                                                              *)

LEMMA AppendFacts ==
  ASSUME NEW S, NEW s \in Seq(S), NEW x \in S
  PROVE  /\ Append(s, x) \in Seq(S)
         /\ Len(s) \in Nat /\ Len(Append(s, x)) = Len(s) + 1
         /\ \A i \in 1..Len(s) : Append(s, x)[i] = s[i]
         /\ Append(s, x)[Len(s) + 1] = x
         /\ 1..Len(Append(s, x)) = 1..Len(s) \cup {Len(s) + 1}
BY AppendProperties

LEMMA TailFacts ==
  ASSUME NEW S, NEW s \in Seq(S), s # <<>>
  PROVE  /\ Tail(s) \in Seq(S)
         /\ Len(s) \in Nat /\ Len(s) > 0
         /\ Len(Tail(s)) = Len(s) - 1
         /\ Head(s) = s[1] /\ Head(s) \in S
         /\ \A i \in 1..Len(Tail(s)) : i + 1 \in 1..Len(s) /\ Tail(s)[i] = s[i + 1]
<1>1. Tail(s) \in Seq(S) /\ Head(s) \in S /\ Len(Tail(s)) = Len(s) - 1
      /\ \A i \in 1..Len(Tail(s)) : Tail(s)[i] = s[i + 1]
  BY HeadTailProperties
<1>2. Len(s) \in Nat /\ Len(s) > 0 /\ Head(s) = s[1]
  BY EmptySeq
<1>3. \A i \in 1..Len(Tail(s)) : i + 1 \in 1..Len(s)
  BY <1>1, <1>2
<1>  QED BY <1>1, <1>2, <1>3

LEMMA FrontFacts ==
  ASSUME NEW S, NEW s \in Seq(S), s # <<>>
  PROVE  /\ Front(s) \in Seq(S)
         /\ Len(s) \in Nat /\ Len(s) > 0
         /\ Len(Front(s)) = Len(s) - 1
         /\ \A i \in 1..Len(Front(s)) : i \in 1..Len(s) /\ Front(s)[i] = s[i]
<1>1. Len(s) \in Nat /\ Len(s) > 0
  BY EmptySeq
<1>2. \A i \in 1..(Len(s) - 1) : s[i] \in S
  BY <1>1, ElementOfSeq
<1> DEFINE n == Len(s) - 1
<1>a. n \in Int /\ \A i \in 1..n : s[i] \in S
  BY <1>1, <1>2
<1>b. Front(s) = SubSeq(s, 1, n)
  BY DEF Front
<1> HIDE DEF n
<1>c. /\ SubSeq(s, 1, n) \in Seq(S)
      /\ Len(SubSeq(s, 1, n)) = IF 1 <= n THEN n - 1 + 1 ELSE 0
      /\ \A i \in 1..(n - 1 + 1) : SubSeq(s, 1, n)[i] = s[1 + i - 1]
  BY <1>a, SubSeqProperties
<1>d. n \in Nat /\ 1..(n - 1 + 1) = 1..n
  BY <1>1 DEF n
<1>3. Len(Front(s)) = n
  BY <1>b, <1>c, <1>d
<1>4. ASSUME NEW i \in 1..n PROVE i \in 1..Len(s) /\ Front(s)[i] = s[i]
  <2>1. 1 + i - 1 = i /\ i \in 1..Len(s)
    BY <1>1, <1>4 DEF n
  <2>  QED BY <1>b, <1>c, <1>d, <2>1
<1>  QED BY <1>1, <1>b, <1>c, <1>3, <1>4 DEF n

-----------------------------------------------------------------------------
(* The count.                                                              *)

\* A step that has nothing to do with the queue.
LEMMA CountFrame ==
  ASSUME Count, UNCHANGED <<semaphore, queue, surplus>>,
         InPop' = InPop, InPush' = InPush, Alive' => Alive
  PROVE  Count'
BY DEF Count, Counted, Excess

LEMMA CountStep ==
  ASSUME WatcherAssumption, Types, Count, Next
  PROVE  Count'
<1> USE DEF InPop, InPush
<1>0. /\ Len(queue) \in Nat /\ semaphore \in Nat /\ surplus \in Nat /\ MaxCount \in Nat
      /\ InPop \in 0..1 /\ InPush \in 0..1
  BY LenProperties DEF Types, Notifications, WatcherAssumption
<1>1. CASE \E d \in Directories : Register(d)
  BY <1>1, CountFrame DEF Register, queueVars, told, Alive
<1>2. CASE Destroy \/ Join \/ TerminateReturns
  BY <1>2, CountFrame DEF Destroy, Join, TerminateReturns, workerVars, queueVars, told, Alive
<1>3. CASE RunApc
  <2>1. worker = "sleep" /\ worker' \in {"sleep", "push"}
    BY <1>3 DEF RunApc, AddDirectory, RequestTermination, NotificationCompletion
  <2>  QED BY <1>3, <2>1, CountFrame DEF RunApc, queueVars, told, Alive
<1>4. CASE RunReturns
  BY <1>4, CountFrame DEF RunReturns, queueVars, told, Alive
<1>5. CASE SetOverflow
  BY <1>5, CountFrame DEF SetOverflow, Pushed, NextOf, Alive
<1>6. CASE CheckOverflow \/ Rest
  BY <1>6, CountFrame DEF CheckOverflow, Rest, Listens, workerVars, queueVars, told, Alive
<1>7. CASE \E d \in Directories, n \in 0..PerRead : Complete(d, n)
  BY <1>7, CountFrame DEF Complete, queueVars, told, Alive
<1>8. CASE PushBack
  <2>1. Head(toPush) \in 1..MaxChanges
    BY <1>8, TailFacts DEF PushBack, Types, Notifications
  <2>2. Len(queue') = Len(queue) + 1
    BY <1>8, <2>1, AppendFacts DEF PushBack, Types, Notifications
  <2>3. worker = "push" /\ worker' = "pushed" /\ UNCHANGED <<listener, semaphore, surplus>>
    BY <1>8 DEF PushBack, Pushed
  <2>4. Excess' = Excess /\ Excess = semaphore + InPop - Len(queue)
    BY <1>0, <2>2, <2>3 DEF Excess
  <2>5. Counted(Excess)
    BY <2>3 DEF Count, Alive
  <2>6. Len(queue) <= semaphore + 1 /\ semaphore <= MaxCount
    BY <1>0, <2>4, <2>5 DEF Counted, Types
  <2>  QED BY <1>0, <2>2, <2>3, <2>4, <2>5, <2>6 DEF Count, Counted
<1>9. CASE ReleaseSemaphore
  <2>1. worker' # "pushed" /\ worker = "pushed" /\ queue' = queue /\ surplus' = surplus
        /\ listener' = listener
    BY <1>9 DEF ReleaseSemaphore, Pushed, NextOf
  <2>2. CASE semaphore < MaxCount
    <3>1. semaphore' = semaphore + 1 /\ worker' \in {"sleep", "push"}
      BY <1>9, <2>2 DEF ReleaseSemaphore, Pushed, NextOf
    <3>2. Excess' = Excess
      BY <1>0, <2>1, <3>1 DEF Excess
    <3>  QED BY <2>1, <3>2 DEF Count, Counted, Alive
  <2>3. CASE ~(semaphore < MaxCount)
    <3>1. semaphore' = semaphore /\ worker' = "full"
      BY <1>9, <2>3 DEF ReleaseSemaphore, Pushed
    <3>2. Excess' = Excess
      BY <1>0, <2>1, <3>1 DEF Excess
    <3>  QED BY <2>1, <3>2 DEF Count, Counted, Alive
  <2>  QED BY <2>2, <2>3
<1>10. CASE TakeBack
  <2>1. CASE queue # <<>> /\ queue' = Front(queue) /\ worker' = "takenBack"
    <3>1. Len(queue') = Len(queue) - 1
      BY <2>1, FrontFacts DEF Types, Notifications
    <3>  QED BY <1>0, <1>10, <2>1, <3>1 DEF TakeBack, Pushed, Count, Counted, Excess, Alive
  <2>2. CASE worker' = "crashed" /\ queue' = queue
    BY <2>2 DEF Count, Alive
  <2>  QED BY <1>10, <2>1, <2>2 DEF TakeBack, Pushed, TakenBack
<1>11. CASE CheckFileChanges
  <2>1. /\ UNCHANGED <<worker, queue, surplus>> /\ listener = "top"
        /\ \/ listener' = "signalled" /\ semaphore > 0 /\ semaphore' = semaphore - 1
           \/ listener' \in {"end", "rest"} /\ semaphore' = semaphore
    BY <1>11 DEF CheckFileChanges, Listens, workerVars, told
  <2>2. Excess' = Excess
    BY <1>0, <2>1 DEF Excess
  <2>  QED BY <2>1, <2>2 DEF Count, Counted, Alive
<1>12. CASE Clear
  <2>1. queue' = <<>> /\ Len(queue') = 0
    BY <1>12 DEF Clear
  <2>2. worker' = worker /\ listener = "clear" /\ listener' = "rest" /\ surplus' = surplus + InPush
    BY <1>12 DEF Clear, Listens, workerVars
  <2>3. semaphore' = IF semaphore > Len(queue) THEN semaphore - Len(queue) ELSE 0
    BY <1>12 DEF Clear, Drained
  <2>4. Counted(Excess)
    BY <1>12 DEF Clear, Listens, Alive, Count
  <2>5. InPop = 1 /\ InPop' = 0 /\ InPush' = InPush
    BY <2>2
  <2>6. Excess \in 0..1 /\ Excess = semaphore + 1 + InPush - Len(queue)
    BY <2>4, <2>5 DEF Excess, Counted
  <2>7. semaphore' = 0
    BY <1>0, <2>3, <2>6
  <2>8. Excess' = InPush
    BY <1>0, <2>1, <2>5, <2>7 DEF Excess
  <2>9. Counted(Excess)'
    BY <1>0, <2>2, <2>8 DEF Counted
  <2>  QED BY <1>0, <2>1, <2>9 DEF Count
<1>13. CASE Pop
  <2>1. worker' = worker /\ worker # "crashed" /\ listener = "pop" /\ listener' = "rest"
    BY <1>13 DEF Pop, Listens, workerVars, Alive
  <2>2. CASE queue = <<>>
    <3>1. queue' = <<>> /\ Len(queue) = 0 /\ semaphore' = 0 /\ surplus' = 0
      BY <1>13, <2>2 DEF Pop
    <3>  QED BY <1>0, <2>1, <2>2, <3>1 DEF Count, Counted, Excess, Alive
  <2>3. CASE queue # <<>>
    <3>1. Len(queue') = Len(queue) - 1 /\ UNCHANGED <<semaphore, surplus>>
      BY <1>13, <2>3, TailFacts DEF Pop, Popped, Types, Notifications
    <3>  QED BY <1>0, <2>1, <3>1 DEF Count, Counted, Excess, Alive
  <2>  QED BY <2>2, <2>3
<1>  QED BY <1>1, <1>2, <1>3, <1>4, <1>5, <1>6, <1>7, <1>8, <1>9, <1>10, <1>11, <1>12, <1>13
     DEF Next, Worker, Listener

-----------------------------------------------------------------------------
(* The worker's calls.                                                     *)

LEMMA ApcFacts ==
  /\ \A d \in Directories : Add(d) \in Apcs /\ Aborted(d) \in Apcs
  /\ Terminate \in Apcs
  /\ \A d \in Directories, s \in Notifications : Completed(d, s) \in Apcs
  /\ \A a \in Apcs :
       /\ a.call \in {"add", "aborted", "terminate", "completed"}
       /\ a.call = "terminate" <=> a = Terminate
       /\ a.call # "terminate" => a.dir \in Directories
       /\ IsCompleted(a) => a.changes \in Notifications
<1>1. \A a \in Apcs : a.call = "terminate" => a = Terminate
  <2> SUFFICES ASSUME NEW a \in Apcs, a.call = "terminate" PROVE a = Terminate
    OBVIOUS
  <2>1. a \in [call : {"terminate"}]
    BY DEF Apcs
  <2>  QED BY <2>1 DEF Terminate
<1>  QED BY <1>1 DEF Apcs, Add, Aborted, Terminate, Completed, IsCompleted

\* Aborting every pending read queues one call for each.
LEMMA CancelledFacts ==
  ASSUME WatcherAssumption, Types
  PROVE  /\ Cancelled \in Seq(Apcs)
         /\ \A i \in 1..Len(Cancelled) :
              Cancelled[i].call = "aborted" /\ Cancelled[i].dir \in reading
         /\ \A i, j \in 1..Len(Cancelled) : Cancelled[i].dir = Cancelled[j].dir => i = j
<1> DEFINE S == {Aborted(d) : d \in reading}
           n == Cardinality(S)
           f == [d \in reading |-> Aborted(d)]
<1>1. IsFiniteSet(reading) /\ reading \subseteq Directories
  BY FS_Subset DEF WatcherAssumption, Types
<1>2. f \in Surjection(reading, S)
  BY DEF Surjection
<1>3. IsFiniteSet(S)
  BY <1>1, <1>2, FS_Surjection
<1>4. n \in Nat /\ ExistsBijection(1..n, S)
  BY <1>3, FS_CardinalityType
<1>5. \E g \in [1..n -> S] : IsInjective(g)
  BY <1>4 DEF ExistsBijection, Bijection, Injection
<1>6. Cancelled \in [1..n -> S] /\ IsInjective(Cancelled)
  BY <1>5 DEF Cancelled, SetToSeq
<1>7. Cancelled \in Seq(S) /\ Len(Cancelled) = n /\ DOMAIN Cancelled = 1..n
  <2> HIDE DEF S, n
  <2>1. Cancelled \in Seq(S) /\ DOMAIN Cancelled = 1..n
    BY <1>4, <1>6, SeqDef
  <2>2. Len(Cancelled) \in Nat /\ 1..Len(Cancelled) = 1..n
    BY <2>1, LenProperties
  <2>  QED BY <2>1, <2>2, <1>4
<1>8. \A x \in S : x \in Apcs /\ x.call = "aborted" /\ x.dir \in reading /\ x = Aborted(x.dir)
  BY <1>1, ApcFacts DEF Aborted
<1> HIDE DEF n, S
<1>9. Cancelled \in Seq(Apcs)
  BY <1>7, <1>8, SeqMonotonic
<1>10. \A i \in 1..n : Cancelled[i] \in S
  BY <1>6
<1>11. ASSUME NEW i \in 1..n, NEW j \in 1..n, Cancelled[i].dir = Cancelled[j].dir PROVE i = j
  <2>1. Cancelled[i] = Cancelled[j]
    BY <1>8, <1>10, <1>11
  <2>  QED BY <2>1, <1>6, <1>7 DEF IsInjective
<1>  QED BY <1>7, <1>8, <1>9, <1>10, <1>11

\* When the worker has run its first call, the others are left, and aborted reads
\* if it was to terminate.
LEMMA RunFacts ==
  ASSUME WatcherAssumption, Types, RunApc
  PROVE  /\ apcs[1] \in Apcs /\ apcs[1] = Head(apcs) /\ Len(apcs) \in Nat /\ Len(apcs) > 0
         /\ apcs' \in Seq(Apcs)
         /\ \A a \in 1..Len(apcs') :
              \/ a + 1 \in 1..Len(apcs) /\ apcs'[a] = apcs[a + 1]
              \/ /\ a + 1 > Len(apcs) /\ apcs[1].call = "terminate"
                 /\ apcs'[a].call = "aborted" /\ apcs'[a].dir \in reading
         /\ \A a, b \in 1..Len(apcs') :
              a + 1 > Len(apcs) /\ b + 1 > Len(apcs) /\ apcs'[a].dir = apcs'[b].dir => a = b
         /\ \A a \in 1..(Len(apcs) - 1) : a \in 1..Len(apcs') /\ apcs'[a] = apcs[a + 1]
<1> DEFINE C == IF Head(apcs) = Terminate THEN Cancelled ELSE <<>>
           T == Tail(apcs)
<1>1. apcs \in Seq(Apcs) /\ apcs # <<>> /\ apcs' = T \o C
  BY DEF Types, RunApc
<1>2. /\ T \in Seq(Apcs) /\ Len(T) = Len(apcs) - 1 /\ Len(apcs) \in Nat /\ Len(apcs) > 0
      /\ apcs[1] \in Apcs /\ apcs[1] = Head(apcs)
      /\ \A a \in 1..Len(T) : a + 1 \in 1..Len(apcs) /\ T[a] = apcs[a + 1]
  BY <1>1, TailFacts
<1>3. /\ C \in Seq(Apcs)
      /\ \A a \in 1..Len(C) : apcs[1].call = "terminate" /\ C[a].call = "aborted" /\ C[a].dir \in reading
      /\ \A a, b \in 1..Len(C) : C[a].dir = C[b].dir => a = b
  <2>1. CASE apcs[1] = Terminate
    <3>1. C = Cancelled /\ apcs[1].call = "terminate"
      BY <1>2, <2>1 DEF Terminate
    <3>  QED BY <3>1, CancelledFacts
  <2>2. CASE apcs[1] # Terminate
    <3>1. C = <<>>
      BY <1>2, <2>2
    <3>2. C \in Seq(Apcs) /\ Len(C) = 0
      BY <3>1, EmptySeq
    <3> HIDE DEF C
    <3>  QED BY <3>2
  <2>  QED BY <2>1, <2>2
<1> HIDE DEF T, C
<1>a. T \in Seq(Apcs) /\ C \in Seq(Apcs)
  BY <1>2, <1>3
<1>4. /\ T \o C \in Seq(Apcs) /\ Len(T \o C) = Len(T) + Len(C)
      /\ \A a \in 1..(Len(T) + Len(C)) : (T \o C)[a] = IF a <= Len(T) THEN T[a] ELSE C[a - Len(T)]
  BY <1>a, ConcatProperties
<1>5. Len(T) \in Nat /\ Len(C) \in Nat
  BY <1>2, <1>3, LenProperties
<1>6. ASSUME NEW a \in 1..Len(apcs')
      PROVE  \/ a \in 1..Len(T) /\ apcs'[a] = T[a]
             \/ a > Len(T) /\ a - Len(T) \in 1..Len(C) /\ apcs'[a] = C[a - Len(T)]
  BY <1>1, <1>4, <1>5, <1>6
<1>7. ASSUME NEW a \in 1..Len(apcs')
      PROVE  \/ a + 1 \in 1..Len(apcs) /\ apcs'[a] = apcs[a + 1]
             \/ /\ a + 1 > Len(apcs) /\ apcs[1].call = "terminate"
                /\ apcs'[a].call = "aborted" /\ apcs'[a].dir \in reading
  <2>1. CASE a \in 1..Len(T) /\ apcs'[a] = T[a]
    BY <1>2, <2>1
  <2>2. CASE a > Len(T) /\ a - Len(T) \in 1..Len(C) /\ apcs'[a] = C[a - Len(T)]
    <3>1. a + 1 > Len(apcs)
      BY <1>2, <1>5, <2>2
    <3>  QED BY <1>3, <2>2, <3>1
  <2>  QED BY <1>6, <2>1, <2>2
<1>8. ASSUME NEW a \in 1..Len(apcs'), NEW b \in 1..Len(apcs'),
             a + 1 > Len(apcs), b + 1 > Len(apcs), apcs'[a].dir = apcs'[b].dir
      PROVE  a = b
  <2>1. /\ a - Len(T) \in 1..Len(C) /\ apcs'[a] = C[a - Len(T)]
        /\ b - Len(T) \in 1..Len(C) /\ apcs'[b] = C[b - Len(T)]
    <3>1. ~(a \in 1..Len(T)) /\ ~(b \in 1..Len(T))
      BY <1>2, <1>5, <1>8
    <3>  QED BY <1>6, <3>1
  <2>2. a - Len(T) = b - Len(T)
    BY <1>3, <1>8, <2>1
  <2>  QED BY <2>2, <1>5
<1>9. \A a \in 1..(Len(apcs) - 1) : a \in 1..Len(apcs') /\ apcs'[a] = apcs[a + 1]
  <2> SUFFICES ASSUME NEW a \in 1..(Len(apcs) - 1)
               PROVE  a \in 1..Len(apcs') /\ apcs'[a] = apcs[a + 1]
    OBVIOUS
  <2>1. a \in 1..Len(T) /\ a \in 1..(Len(T) + Len(C)) /\ a <= Len(T)
    BY <1>2, <1>5
  <2>  QED BY <1>1, <1>2, <1>4, <2>1
<1>  QED BY <1>1, <1>2, <1>4, <1>7, <1>8, <1>9

-----------------------------------------------------------------------------
(* The calls that are queued for the worker, and the requests they end.    *)

LEMMA DirectoriesFinite ==
  ASSUME WatcherAssumption, NEW S \in SUBSET Directories
  PROVE  /\ IsFiniteSet(S) /\ Cardinality(S) \in Nat
         /\ Cardinality(S) <= Cardinality(Directories) /\ Cardinality(Directories) \in Nat
BY FS_Subset, FS_CardinalityType DEF WatcherAssumption

AbortedDirs == {apcs[a].dir : a \in At("aborted")}

\* A call that is neither aborted nor comes too late is queued.
LEMMA QueueCall ==
  ASSUME WatcherAssumption, Types, Ending, Outstanding,
         NEW c \in Apcs, apcs' = Append(apcs, c), UNCHANGED <<blocks, outstanding, terminated>>,
         c.call # "aborted",
         \/ c.call = "add" /\ main = "run" /\ main' = "run"
         \/ c.call = "terminate" /\ main = "join" /\ main' = "terminate"
         \/ c.call = "completed" /\ main' = main
  PROVE  Ending' /\ Outstanding'
<1>1. /\ apcs \in Seq(Apcs) /\ apcs' \in Seq(Apcs) /\ Len(apcs) \in Nat
      /\ \A a \in 1..Len(apcs) : apcs'[a] = apcs[a]
      /\ apcs'[Len(apcs) + 1] = c
      /\ 1..Len(apcs') = 1..Len(apcs) \cup {Len(apcs) + 1}
  BY AppendFacts DEF Types
<1>2. At("aborted")' = At("aborted")
  BY <1>1 DEF At
<1>3. \A kind : c.call # kind => At(kind)' = At(kind)
  BY <1>1 DEF At
<1>4. At(c.call)' = At(c.call) \cup {Len(apcs) + 1}
  BY <1>1 DEF At
<1>5. \A kind : At(kind) \subseteq 1..Len(apcs)
  BY DEF At
<1>6. Ending'
  <2>1. CASE c.call = "add"
    BY <1>1, <1>3, <1>4, <1>5, <2>1 DEF Ending
  <2>2. CASE c.call = "terminate"
    <3>1. At("terminate") = {} /\ ~terminated /\ main' = "terminate"
      BY <2>2 DEF Ending
    <3>2. At("terminate")' = {Len(apcs) + 1} /\ At("add")' = At("add")
      BY <1>3, <1>4, <2>2, <3>1
    <3>3. \A b \in At("add") : b <= Len(apcs) + 1
      BY <1>1, <1>5
    <3>  QED BY <1>1, <3>1, <3>2, <3>3 DEF Ending
  <2>3. CASE c.call = "completed"
    BY <1>3, <2>3 DEF Ending
  <2>  QED BY <2>1, <2>2, <2>3
<1>7. Outstanding'
  <2>1. \A a \in At("aborted") : apcs'[a] = apcs[a]
    BY <1>1, <1>5
  <2>2. {apcs[a].dir : a \in At("aborted")}' = {apcs[a].dir : a \in At("aborted")}
    BY <1>2, <2>1
  <2>3. Cardinality({apcs[a].dir : a \in At("aborted")}') <= outstanding'
    BY <2>2 DEF Outstanding
  <2>4. \A a, b \in At("aborted")' : apcs'[a].dir = apcs'[b].dir => a = b
    <3> SUFFICES ASSUME NEW a \in At("aborted"), NEW b \in At("aborted"),
                        apcs'[a].dir = apcs'[b].dir
                 PROVE  a = b
      BY <1>2
    <3>1. apcs[a].dir = apcs[b].dir
      BY <2>1
    <3>  QED BY <3>1 DEF Outstanding
  <2>  QED BY <1>2, <2>3, <2>4 DEF Outstanding
<1>  QED BY <1>6, <1>7

LEMMA RunCall ==
  ASSUME WatcherAssumption, Types, Ending, Outstanding, RunApc
  PROVE  /\ Ending' /\ Outstanding'
         /\ blocks' \subseteq Directories /\ reading' \subseteq blocks'
         /\ outstanding' \in 0..Cardinality(Directories)
<1> DEFINE n == Len(apcs)
<1>1. /\ apcs[1] \in Apcs /\ apcs[1] = Head(apcs) /\ n \in Nat /\ n > 0
      /\ \A a \in 1..Len(apcs') :
           \/ a + 1 \in 1..n /\ apcs'[a] = apcs[a + 1]
           \/ /\ a + 1 > n /\ apcs[1].call = "terminate"
              /\ apcs'[a].call = "aborted" /\ apcs'[a].dir \in reading
  BY RunFacts
<1>2. Len(apcs') \in Nat /\ main' = main
  BY RunFacts, LenProperties DEF RunApc, mainVars
<1> HIDE DEF n
<1>3. \A kind : kind # "aborted" => \A a \in At(kind)' : a \in Nat \ {0} /\ a + 1 \in At(kind)
  BY <1>1, <1>2 DEF At, n
<1>4. apcs[1].call = "terminate" => 1 \in At("terminate") /\ apcs[1] = Terminate
  BY <1>1, ApcFacts DEF At, n
<1>5. \A kind : At(kind) \in SUBSET Nat
  BY <1>1 DEF At, n
<1>6. CASE apcs[1].call = "terminate"
  <2>1. terminated' /\ blocks' = {} /\ reading' = {} /\ outstanding' = outstanding
    BY <1>1, <1>6 DEF RunApc, RequestTermination
  <2>2. \A b \in At("terminate") \cup At("add") : b <= 1
    BY <1>4, <1>6 DEF Ending
  <2>3. At("terminate")' = {} /\ At("add")' = {}
    BY <1>3, <1>5, <2>2
  <2>4. ~terminated /\ main \notin {"run", "join"}
    BY <1>4, <1>6 DEF Ending
  <2>5. Ending'
    BY <1>2, <2>1, <2>3, <2>4 DEF Ending
  <2>6. At("aborted") = {} /\ outstanding = Cardinality(blocks)
    BY <2>4 DEF Outstanding
  <2>7. \A a \in At("aborted")' : a \in 1..Len(apcs') /\ a + 1 > n /\ apcs'[a].dir \in reading
    BY <1>1, <1>2, <2>6 DEF At, n
  <2>8. \A a, b \in At("aborted")' : apcs'[a].dir = apcs'[b].dir => a = b
    BY <2>7, RunFacts DEF n
  <2>9. Cardinality({apcs[a].dir : a \in At("aborted")}') <= outstanding'
    <3>1. {apcs[a].dir : a \in At("aborted")}' \subseteq blocks
      BY <2>7 DEF Types
    <3>2. IsFiniteSet(blocks)
      BY DirectoriesFinite DEF Types
    <3>  QED BY <2>1, <2>6, <3>1, <3>2, FS_Subset
  <2>10. Outstanding'
    BY <2>1, <2>8, <2>9 DEF Outstanding
  <2>  QED BY <2>1, <2>5, <2>10 DEF Types
<1>7. CASE apcs[1].call # "terminate"
  <2>1. \A a \in 1..Len(apcs') : a + 1 \in 1..n /\ apcs'[a] = apcs[a + 1]
    BY <1>1, <1>7
  <2>2. \A kind : \A a \in At(kind)' : a \in Nat /\ a + 1 \in At(kind) /\ apcs'[a] = apcs[a + 1]
    BY <2>1 DEF At, n
  <2>3. terminated' = terminated
    BY <1>1, <1>7, ApcFacts DEF RunApc, AddDirectory, NotificationCompletion, Terminate
  <2>4. \A a, b \in At("aborted")' : apcs'[a].dir = apcs'[b].dir => a = b
    <3> SUFFICES ASSUME NEW a \in At("aborted")', NEW b \in At("aborted")',
                        apcs'[a].dir = apcs'[b].dir
                 PROVE  a = b
      OBVIOUS
    <3>1. a + 1 = b + 1
      BY <2>2 DEF Outstanding
    <3>  QED BY <2>2, <3>1
  <2>5. {apcs[a].dir : a \in At("aborted")}' \subseteq AbortedDirs
    BY <2>2 DEF AbortedDirs
  <2>6. AbortedDirs \subseteq Directories
    BY ApcFacts, ElementOfSeq DEF AbortedDirs, At, Types
  <2>7. /\ IsFiniteSet(AbortedDirs) /\ Cardinality(AbortedDirs) \in Nat
        /\ Cardinality(AbortedDirs) <= outstanding
    BY <2>6, DirectoriesFinite DEF AbortedDirs, Outstanding
  <2>8. ASSUME blocks' = {} \/ ~terminated PROVE Ending'
    <3>1. \A kind : At(kind) = {} => At(kind)' = {}
      BY <2>2
    <3>2. ASSUME NEW a \in At("terminate")', NEW b \in (At("terminate") \cup At("add"))'
          PROVE  b <= a
      <4>1. b + 1 <= a + 1 /\ a \in Nat /\ b \in Nat
        BY <2>2, <3>2 DEF Ending
      <4>  QED BY <4>1
    <3>  QED BY <1>2, <2>3, <2>8, <3>1, <3>2 DEF Ending
  <2>9. CASE apcs[1].call = "aborted"
    <3>1. outstanding' = outstanding - 1 /\ UNCHANGED <<blocks, reading>>
      BY <1>1, <2>9 DEF RunApc, Terminate
    <3>2. 1 \in At("aborted")
      BY <1>1, <2>9 DEF At, n
    <3>3. terminated
      BY <3>2 DEF Outstanding
    <3>4. apcs[1].dir \in AbortedDirs
      BY <3>2 DEF AbortedDirs
    <3>5. \A a \in At("aborted")' : apcs'[a].dir # apcs[1].dir
      <4> SUFFICES ASSUME NEW a \in At("aborted")', apcs'[a].dir = apcs[1].dir PROVE FALSE
        OBVIOUS
      <4>1. a \in Nat /\ a + 1 = 1 /\ a \in 1..Len(apcs')
        BY <2>2, <3>2 DEF Outstanding, At
      <4>  QED BY <4>1
    <3>6. {apcs[a].dir : a \in At("aborted")}' \subseteq AbortedDirs \ {apcs[1].dir}
      BY <2>5, <3>5
    <3>7. Cardinality(AbortedDirs \ {apcs[1].dir}) = Cardinality(AbortedDirs) - 1
          /\ IsFiniteSet(AbortedDirs \ {apcs[1].dir})
      BY <2>7, <3>4, FS_RemoveElement
    <3>8. /\ Cardinality({apcs[a].dir : a \in At("aborted")}') <= Cardinality(AbortedDirs) - 1
          /\ Cardinality(AbortedDirs) - 1 \in Nat
      BY <3>6, <3>7, FS_Subset, FS_CardinalityType
    <3>9. Cardinality({apcs[a].dir : a \in At("aborted")}') \in Nat
      BY <3>6, <3>7, FS_Subset, FS_CardinalityType
    <3>10. Outstanding'
      BY <2>3, <2>4, <2>7, <3>1, <3>3, <3>8, <3>9 DEF Outstanding, Types
    <3>11. blocks = {}
      BY <3>3 DEF Ending
    <3>  QED BY <2>7, <2>8, <3>1, <3>8, <3>10, <3>11, DirectoriesFinite DEF Types
  <2>10. CASE apcs[1].call # "aborted"
    <3>1. Cardinality({apcs[a].dir : a \in At("aborted")}') <= outstanding
          /\ Cardinality({apcs[a].dir : a \in At("aborted")}') \in Nat
      BY <2>5, <2>7, FS_Subset, FS_CardinalityType DEF Types
    <3>2. ~terminated => At("aborted")' = {}
      BY <2>2 DEF Outstanding
    <3>3. CASE UNCHANGED <<blocks, outstanding>> /\ reading' \subseteq blocks'
      <4>1. Outstanding'
        BY <2>3, <2>4, <3>1, <3>2, <3>3 DEF Outstanding
      <4>  QED BY <2>8, <3>3, <4>1 DEF Types, Ending
    <3>4. CASE \E d \in Directories :
                 /\ d \notin blocks /\ blocks' = blocks \cup {d}
                 /\ outstanding' = outstanding + 1 /\ reading' \subseteq blocks'
                 /\ apcs[1].call = "add"
      <4>1. ~terminated
        BY <1>1, <3>4 DEF Ending, At, n
      <4>2. blocks' \subseteq Directories /\ outstanding' = Cardinality(blocks')
        BY <3>4, <4>1, FS_AddElement, DirectoriesFinite DEF Outstanding, Types
      <4>3. outstanding' \in 0..Cardinality(Directories)
        BY <4>2, DirectoriesFinite
      <4>4. Outstanding'
        BY <2>3, <2>4, <3>1, <3>2, <3>4, <4>1, <4>2 DEF Outstanding, Types
      <4>  QED BY <2>8, <3>4, <4>1, <4>2, <4>3, <4>4
    <3>5. CASE apcs[1].call = "add" /\ AddDirectory(apcs[1].dir)
      <4>1. apcs[1].dir \in Directories /\ reading \subseteq blocks
        BY <1>1, <3>5, ApcFacts DEF Types
      <4>  QED BY <3>3, <3>4, <3>5, <4>1 DEF AddDirectory, BeginRead
    <3>6. CASE apcs[1].call = "completed" /\ NotificationCompletion(apcs[1].dir, apcs[1].changes)
      BY <3>3, <3>6 DEF NotificationCompletion, BeginRead, Types
    <3>  QED BY <1>1, <1>7, <2>10, <3>5, <3>6 DEF RunApc
  <2>  QED BY <2>9, <2>10
<1>  QED BY <1>6, <1>7

\* The steps that leave the worker's calls and requests alone.
LEMMA RequestsFrame ==
  ASSUME Ending, Outstanding, UNCHANGED <<apcs, blocks, outstanding, terminated>>,
         main' \in {"run", "join"} => main \in {"run", "join"}
  PROVE  Ending' /\ Outstanding'
BY DEF Ending, Outstanding, At

\* The changes of a read.
LEMMA NewChanges ==
  ASSUME WatcherAssumption, Types, NEW d, NEW n \in 0..PerRead, Complete(d, n)
  PROVE  /\ n \in Nat /\ changes \in Nat
         /\ changes' = changes + n /\ changes' \in 0..MaxChanges
         /\ [i \in 1..n |-> changes + i] \in Notifications
<1> DEFINE s == [i \in 1..n |-> changes + i]
<1>1. /\ changes + n <= MaxChanges /\ changes \in Nat /\ MaxChanges \in Nat /\ n \in Nat
      /\ changes' = changes + n
  BY DEF Complete, Types, WatcherAssumption, PerRead
<1>2. s \in [1..n -> 1..MaxChanges]
  BY <1>1
<1>3. s \in Notifications
  BY <1>1, <1>2, SeqDef DEF Notifications
<1>  QED BY <1>1, <1>3

LEMMA RequestsStep ==
  ASSUME WatcherAssumption, Types, Ending, Outstanding, Next
  PROVE  Ending' /\ Outstanding'
<1>1. ASSUME NEW d \in Directories, Register(d) PROVE Ending' /\ Outstanding'
  BY <1>1, ApcFacts, QueueCall DEF Register, Add
<1>2. CASE Destroy \/ TerminateReturns
  BY <1>2, RequestsFrame DEF Destroy, TerminateReturns, workerVars
<1>3. CASE Join
  <2>1. CASE worker = "none"
    BY <1>3, <2>1, RequestsFrame DEF Join
  <2>2. CASE worker # "none"
    BY <1>3, <2>2, ApcFacts, QueueCall DEF Join, Terminate
  <2>  QED BY <2>1, <2>2
<1>4. CASE RunApc
  BY <1>4, RunCall
<1>5. CASE RunReturns \/ PushBack \/ ReleaseSemaphore \/ TakeBack \/ SetOverflow
  BY <1>5, RequestsFrame
     DEF RunReturns, PushBack, ReleaseSemaphore, TakeBack, SetOverflow, Pushed, mainVars
<1>6. CASE Listener
  BY <1>6, RequestsFrame
     DEF Listener, CheckFileChanges, CheckOverflow, Clear, Pop, Rest, Listens, mainVars, workerVars
<1>7. ASSUME NEW d \in Directories, NEW n \in 0..PerRead, Complete(d, n)
      PROVE  Ending' /\ Outstanding'
  <2> DEFINE s == [i \in 1..n |-> changes + i]
  <2>1. s \in Notifications
    BY <1>7, NewChanges
  <2>2. Completed(d, s) \in Apcs /\ Completed(d, s).call = "completed"
    BY <2>1, ApcFacts DEF Completed
  <2>  QED BY <1>7, <2>2, QueueCall DEF Complete, mainVars
<1>  QED BY <1>1, <1>2, <1>3, <1>4, <1>5, <1>6, <1>7 DEF Next, Worker

-----------------------------------------------------------------------------
(* Types.                                                                  *)

\* What is not taken over from RequestsStep.
LEMMA TypesStep ==
  ASSUME WatcherAssumption, Types, Ending, Outstanding, Next
  PROVE  Types'
<1>0. /\ MaxCount \in Nat /\ MaxChanges \in Nat /\ 1..MaxChanges \subseteq Nat
  BY DEF WatcherAssumption
<1>1. CASE \E d \in Directories : Register(d)
  <2>1. PICK d \in Directories : Register(d)
    BY <1>1
  <2>2. apcs' \in Seq(Apcs)
    BY <2>1, ApcFacts, AppendFacts DEF Register, Types
  <2>3. worker' \in {worker, "sleep"} /\ (worker' # worker => worker = "none")
    BY <2>1 DEF Register
  <2>  QED BY <2>1, <2>2, <2>3 DEF Register, queueVars, told, Types
<1>2. CASE Destroy \/ TerminateReturns
  BY <1>2 DEF Destroy, TerminateReturns, workerVars, queueVars, told, Types
<1>3. CASE Join
  <2>1. apcs' \in Seq(Apcs)
    BY <1>3, ApcFacts, AppendFacts DEF Join, Types
  <2>  QED BY <1>3, <2>1 DEF Join, queueVars, told, Types
<1>4. CASE RunApc
  <2>1. apcs[1] \in Apcs /\ apcs[1] = Head(apcs) /\ apcs' \in Seq(Apcs)
    BY <1>4, RunFacts
  <2>2. /\ blocks' \subseteq Directories /\ reading' \subseteq blocks'
        /\ outstanding' \in 0..Cardinality(Directories)
    BY <1>4, RunCall
  <2>3. /\ terminated' \in BOOLEAN /\ toPush' \in Notifications
        /\ \/ worker' = "sleep" /\ toPush' = toPush
           \/ worker' = "push" /\ toPush' # <<>>
    <3>1. CASE apcs[1].call = "add" /\ AddDirectory(apcs[1].dir)
      BY <1>4, <3>1 DEF RunApc, AddDirectory, Types
    <3>2. CASE RequestTermination
      BY <1>4, <3>2 DEF RunApc, RequestTermination, Types
    <3>3. CASE apcs[1].call = "completed" /\ NotificationCompletion(apcs[1].dir, apcs[1].changes)
      <4>1. apcs[1].changes \in Notifications
        BY <2>1, <3>3, ApcFacts DEF IsCompleted
      <4>  QED BY <1>4, <3>3, <4>1 DEF RunApc, NotificationCompletion, Types
    <3>4. CASE UNCHANGED <<worker, toPush, terminated>>
      BY <1>4, <3>4 DEF RunApc, Types
    <3>  QED BY <1>4, <2>1, <3>1, <3>2, <3>3, <3>4 DEF RunApc
  <2>4. worker = "sleep" /\ UNCHANGED <<mainVars, listener, changes, queueVars, told>>
    BY <1>4 DEF RunApc
  <2>  QED BY <2>1, <2>2, <2>3, <2>4 DEF mainVars, queueVars, told, Types
<1>5. CASE RunReturns
  BY <1>5 DEF RunReturns, mainVars, queueVars, told, Types
<1>6. CASE PushBack
  <2>1. queue' \in Notifications
    BY <1>6, TailFacts, AppendFacts DEF PushBack, Types, Notifications
  <2>  QED BY <1>6, <2>1 DEF PushBack, Pushed, mainVars, Types
<1>7. CASE ReleaseSemaphore
  <2>1. toPush # <<>> /\ Tail(toPush) \in Notifications
    BY <1>7, TailFacts DEF ReleaseSemaphore, Types, Notifications
  <2>2. /\ semaphore' \in 0..MaxCount
        /\ \/ worker' = "full" /\ toPush' = toPush
           \/ worker' = "sleep" /\ toPush' = <<>>
           \/ worker' = "push" /\ toPush' = Tail(toPush) /\ toPush' # <<>>
    <3>1. CASE semaphore < MaxCount
      <4>1. semaphore' = semaphore + 1 /\ semaphore \in Nat
        BY <1>7, <3>1 DEF ReleaseSemaphore, Types
      <4>2. toPush' = Tail(toPush) /\ worker' = NextOf(Tail(toPush))
        BY <1>7, <3>1 DEF ReleaseSemaphore, Pushed
      <4>3. semaphore' \in 0..MaxCount
        BY <1>0, <3>1, <4>1
      <4>  QED BY <4>2, <4>3 DEF NextOf
    <3>2. CASE ~(semaphore < MaxCount)
      BY <1>7, <3>2 DEF ReleaseSemaphore, Pushed, Types
    <3>  QED BY <3>1, <3>2
  <2>3. <<>> \in Notifications
    BY DEF Notifications
  <2>  QED BY <1>7, <2>1, <2>2, <2>3 DEF ReleaseSemaphore, Pushed, mainVars, Types
<1>8. CASE TakeBack
  <2>1. queue' \in Notifications
    BY <1>8, FrontFacts DEF TakeBack, TakenBack, Types, Notifications
  <2>  QED BY <1>8, <2>1 DEF TakeBack, Pushed, mainVars, Types
<1>9. CASE SetOverflow
  <2>1. toPush # <<>> /\ Tail(toPush) \in Notifications
    BY <1>9, TailFacts DEF SetOverflow, Types, Notifications
  <2>  QED BY <1>9, <2>1 DEF SetOverflow, Pushed, NextOf, mainVars, Types
<1>10. CASE CheckFileChanges
  BY <1>0, <1>10 DEF CheckFileChanges, Listens, mainVars, workerVars, told, Types
<1>11. CASE CheckOverflow \/ Rest
  BY <1>11 DEF CheckOverflow, Rest, Listens, mainVars, workerVars, queueVars, told, Types
<1>12. CASE Clear
  <2>1. Len(queue) \in Nat /\ semaphore \in Nat /\ semaphore <= MaxCount
    BY <1>0, LenProperties DEF Types, Notifications
  <2>2. semaphore' \in 0..MaxCount
    BY <1>0, <1>12, <2>1 DEF Clear, Drained
  <2>3. queue' \in Notifications
    BY <1>12, EmptySeq DEF Clear, Notifications
  <2>4. surplus' \in Nat
    BY <1>12 DEF Clear, InPush, Types
  <2>  QED BY <1>12, <2>2, <2>3, <2>4 DEF Clear, Listens, mainVars, workerVars, Types
<1>13. CASE Pop
  <2>1. queue # <<>> => Tail(queue) \in Notifications /\ Head(queue) \in Nat
    BY <1>0, TailFacts DEF Types, Notifications
  <2>2. semaphore' \in 0..MaxCount /\ queue' \in Notifications /\ raised' \in Nat /\ surplus' \in Nat
    <3>1. CASE queue = <<>>
      BY <1>0, <1>13, <3>1 DEF Pop, Types
    <3>2. CASE queue # <<>>
      <4>1. queue' = Tail(queue) /\ raised' = Head(queue) /\ UNCHANGED <<semaphore, surplus>>
        BY <1>13, <3>2 DEF Pop, Popped
      <4>  QED BY <2>1, <3>2, <4>1 DEF Types
    <3>  QED BY <3>1, <3>2
  <2>  QED BY <1>13, <2>2 DEF Pop, Listens, mainVars, workerVars, Types
<1>14. CASE \E d \in Directories, n \in 0..PerRead : Complete(d, n)
  <2>1. PICK d \in Directories, n \in 0..PerRead : Complete(d, n)
    BY <1>14
  <2>2. /\ apcs' = Append(apcs, Completed(d, [i \in 1..n |-> changes + i]))
        /\ [i \in 1..n |-> changes + i] \in Notifications /\ changes' \in 0..MaxChanges
    BY <2>1, NewChanges DEF Complete
  <2>3. apcs' \in Seq(Apcs)
    BY <2>2, ApcFacts, AppendFacts DEF Types
  <2>  QED BY <2>1, <2>2, <2>3 DEF Complete, mainVars, queueVars, told, Types
<1>  QED BY <1>1, <1>2, <1>3, <1>4, <1>5, <1>6, <1>7, <1>8, <1>9, <1>10, <1>11, <1>12, <1>13, <1>14
     DEF Next, Worker, Listener

-----------------------------------------------------------------------------
(* The order of the changes.                                               *)

LEMMA ValueFacts ==
  ASSUME WatcherAssumption, Types
  PROVE  /\ Len(queue) \in Nat /\ \A i \in 1..Len(queue) : queue[i] \in Nat
         /\ Len(toPush) \in Nat /\ \A i \in 1..Len(toPush) : toPush[i] \in Nat
         /\ Len(apcs) \in Nat
         /\ \A a \in 1..Len(apcs) : IsCompleted(apcs[a]) =>
              /\ apcs[a].changes \in Notifications /\ Len(apcs[a].changes) \in Nat
              /\ \A k \in 1..Len(apcs[a].changes) : apcs[a].changes[k] \in Nat
         /\ raised \in Nat /\ changes \in Nat
<1>1. \A s \in Notifications : Len(s) \in Nat /\ \A i \in 1..Len(s) : s[i] \in Nat
  <2> SUFFICES ASSUME NEW s \in Notifications
               PROVE  Len(s) \in Nat /\ \A i \in 1..Len(s) : s[i] \in Nat
    OBVIOUS
  <2>1. \A i \in 1..Len(s) : s[i] \in 1..MaxChanges
    BY ElementOfSeq DEF Notifications
  <2>2. Len(s) \in Nat
    BY LenProperties DEF Notifications
  <2>  QED BY <2>1, <2>2 DEF WatcherAssumption
<1>2. \A a \in 1..Len(apcs) : IsCompleted(apcs[a]) => apcs[a].changes \in Notifications
  BY ApcFacts, ElementOfSeq DEF Types
<1>3. Len(apcs) \in Nat
  BY LenProperties DEF Types
<1>4. queue \in Notifications /\ toPush \in Notifications /\ raised \in Nat /\ changes \in Nat
  BY DEF Types, WatcherAssumption
<1>  QED BY <1>1, <1>2, <1>3, <1>4

LEMMA OrderFrame ==
  ASSUME Order, UNCHANGED <<queue, toPush, raised, changes>>, Rest1' = Rest1
  PROVE  Order'
BY DEF Order, Increasing

LEMMA CallOrderFrame ==
  ASSUME CallOrder, UNCHANGED <<queue, toPush, raised, changes, apcs>>
  PROVE  CallOrder'
BY DEF CallOrder, CallsInOrder

\* A call that brings no changes is queued.
LEMMA CallOrderQueue ==
  ASSUME Types, CallOrder, UNCHANGED <<queue, toPush, raised, changes>>,
         NEW c \in Apcs, ~IsCompleted(c), apcs' = Append(apcs, c)
  PROVE  CallOrder'
<1>1. /\ Len(apcs) \in Nat
      /\ \A a \in 1..Len(apcs) : apcs'[a] = apcs[a]
      /\ apcs'[Len(apcs) + 1] = c
      /\ 1..Len(apcs') = 1..Len(apcs) \cup {Len(apcs) + 1}
  BY AppendFacts DEF Types
<1>2. \A a \in 1..Len(apcs') : IsCompleted(apcs'[a]) => a \in 1..Len(apcs) /\ apcs'[a] = apcs[a]
  BY <1>1
<1>  QED BY <1>2 DEF CallOrder, CallsInOrder

LEMMA OrderRun ==
  ASSUME WatcherAssumption, Types, Order, CallOrder, RunApc
  PROVE  Order' /\ CallOrder'
<1>1. /\ apcs[1] \in Apcs /\ apcs[1] = Head(apcs) /\ 1 \in 1..Len(apcs)
      /\ worker = "sleep" /\ toPush = <<>> /\ UNCHANGED <<queue, raised, changes>>
  BY RunFacts DEF RunApc, Types, queueVars, told
<1>2. \A a \in 1..Len(apcs') : IsCompleted(apcs'[a]) =>
        a \in Nat \ {0} /\ a + 1 \in 1..Len(apcs) /\ apcs'[a] = apcs[a + 1]
  BY RunFacts, LenProperties DEF IsCompleted
<1>3. \A a \in 1..Len(apcs') : IsCompleted(apcs'[a]) =>
        /\ Increasing(apcs'[a].changes) /\ Follows(apcs'[a].changes, queue')
        /\ \A k \in 1..Len(apcs'[a].changes) :
             raised' < apcs'[a].changes[k] /\ apcs'[a].changes[k] <= changes'
  BY <1>1, <1>2 DEF CallOrder, CallsInOrder
<1>4. \A a, b \in 1..Len(apcs') :
        a < b /\ IsCompleted(apcs'[a]) /\ IsCompleted(apcs'[b]) =>
          Follows(apcs'[b].changes, apcs'[a].changes)
  <2> SUFFICES ASSUME NEW a \in 1..Len(apcs'), NEW b \in 1..Len(apcs'),
                      a < b, IsCompleted(apcs'[a]), IsCompleted(apcs'[b])
               PROVE  Follows(apcs'[b].changes, apcs'[a].changes)
    OBVIOUS
  <2>1. a + 1 < b + 1
    BY <1>2
  <2>  QED BY <1>2, <2>1 DEF CallOrder, CallsInOrder
<1>5. ASSUME \A a \in 1..Len(apcs') : IsCompleted(apcs'[a]) => Follows(apcs'[a].changes, toPush')
      PROVE  CallOrder'
  BY <1>3, <1>4, <1>5 DEF CallOrder, CallsInOrder
<1>6. CASE UNCHANGED <<toPush, worker>>
  <2>1. Order'
    BY <1>1, <1>6, OrderFrame DEF Rest1
  <2>2. \A a \in 1..Len(apcs') : Follows(apcs'[a].changes, toPush')
    BY <1>1, <1>6 DEF Follows
  <2>  QED BY <1>5, <2>1, <2>2
<1>7. CASE apcs[1].call = "completed" /\ toPush' = apcs[1].changes /\ worker' = "push"
  <2>1. /\ Increasing(apcs[1].changes) /\ Follows(apcs[1].changes, queue)
        /\ \A k \in 1..Len(apcs[1].changes) : raised < apcs[1].changes[k] /\ apcs[1].changes[k] <= changes
    BY <1>1, <1>7 DEF CallOrder, CallsInOrder, IsCompleted
  <2>2. Order'
    BY <1>1, <1>7, <2>1 DEF Order, Increasing, Follows, Rest1
  <2>3. ASSUME NEW a \in 1..Len(apcs'), IsCompleted(apcs'[a])
        PROVE  Follows(apcs'[a].changes, toPush')
    <3>1. a + 1 \in 1..Len(apcs) /\ apcs'[a] = apcs[a + 1] /\ 1 < a + 1
      BY <1>2, <2>3
    <3>  QED BY <1>1, <1>7, <2>3, <3>1 DEF CallOrder, CallsInOrder, IsCompleted
  <2>  QED BY <1>5, <2>2, <2>3
<1>  QED BY <1>1, <1>6, <1>7 DEF RunApc, AddDirectory, RequestTermination, NotificationCompletion

\* The first entry of the buffer is taken out of it.
LEMMA OrderNext ==
  ASSUME WatcherAssumption, Types, Order, CallOrder, UNCHANGED <<queue, raised, changes, apcs>>,
         toPush # <<>>, worker # "push", toPush' = Tail(toPush)
  PROVE  Order' /\ CallOrder'
<1>1. /\ Len(toPush') = Len(toPush) - 1 /\ Len(toPush) \in Nat
      /\ \A i \in 1..Len(toPush') : i + 1 \in 1..Len(toPush) /\ toPush'[i] = toPush[i + 1]
  BY TailFacts DEF Types, Notifications
<1>2. Rest1 = 2 /\ Rest1' \in {1, 2}
  BY DEF Rest1
<1>3. Increasing(toPush)'
  BY <1>1 DEF Order, Increasing
<1>4. \A i \in 1..Len(toPush') : /\ toPush'[i] <= changes /\ raised < toPush'[i]
                                 /\ \A j \in 1..Len(queue) : queue[j] < toPush'[i]
  BY <1>1, <1>2 DEF Order
<1>5. Order'
  BY <1>1, <1>2, <1>3, <1>4 DEF Order, Increasing
<1>6. \A a \in 1..Len(apcs) : IsCompleted(apcs[a]) => Follows(apcs[a].changes, toPush')
  BY <1>1 DEF CallOrder, CallsInOrder, Follows
<1>7. CallOrder'
  BY <1>6 DEF CallOrder, CallsInOrder
<1>  QED BY <1>5, <1>7

\* Entries leave the queue, from either end.
LEMMA OrderLess ==
  ASSUME WatcherAssumption, Types, Order, CallOrder, UNCHANGED <<toPush, changes, apcs>>,
         Rest1' = Rest1, NEW k \in 0..1,
         \A i \in 1..Len(queue') : i + k \in 1..Len(queue) /\ queue'[i] = queue[i + k],
         Len(queue') \in Nat,
         \/ raised' = raised
         \/ k = 1 /\ queue # <<>> /\ raised' = queue[1]
  PROVE  Order' /\ CallOrder'
<1>1. /\ Len(queue) \in Nat /\ \A i \in 1..Len(queue) : queue[i] \in Nat
      /\ Len(toPush) \in Nat /\ \A i \in 1..Len(toPush) : toPush[i] \in Nat
      /\ raised \in Nat /\ changes \in Nat
  BY ValueFacts
<1>2. \A i, j \in 1..Len(queue') : i < j => i + k < j + k
  BY <1>1
<1>3. Increasing(queue)'
  BY <1>2 DEF Order, Increasing
<1>4. \A i \in 1..Len(queue') : raised' < queue'[i]
  <2>1. CASE raised' = raised
    BY <2>1 DEF Order
  <2>2. CASE k = 1 /\ queue # <<>> /\ raised' = queue[1]
    <3> SUFFICES ASSUME NEW i \in 1..Len(queue') PROVE raised' < queue'[i]
      OBVIOUS
    <3>1. 1 < i + 1 /\ i + 1 \in 1..Len(queue) /\ 1 \in 1..Len(queue)
      BY <1>1, <2>2
    <3>  QED BY <2>2, <3>1 DEF Order, Increasing
  <2>  QED BY <2>1, <2>2
<1>5. raised' = raised \/ \E i \in 1..Len(queue) : raised' = queue[i]
  BY <1>1, EmptySeq DEF Types, Notifications
<1>6. Order'
  <2>1. raised' <= changes
    BY <1>5 DEF Order
  <2>2. \A i \in Rest1..Len(toPush) : raised' < toPush[i]
    BY <1>5 DEF Order
  <2>  QED BY <1>3, <1>4, <2>1, <2>2 DEF Order, Increasing
<1>7. CallOrder'
  <2>1. \A a \in 1..Len(apcs) : IsCompleted(apcs[a]) =>
          \A m \in 1..Len(apcs[a].changes) : raised' < apcs[a].changes[m]
    BY <1>5 DEF CallOrder, CallsInOrder, Follows
  <2>2. \A a \in 1..Len(apcs) : IsCompleted(apcs[a]) => Follows(apcs[a].changes, queue')
    BY DEF CallOrder, CallsInOrder, Follows
  <2>  QED BY <2>1, <2>2 DEF CallOrder, CallsInOrder
<1>  QED BY <1>6, <1>7

\* The steps that are nothing but one of the above.
LEMMA OrderFrames ==
  ASSUME Order, CallOrder, UNCHANGED <<queue, toPush, raised, changes, apcs>>, Rest1' = Rest1
  PROVE  Order' /\ CallOrder'
BY OrderFrame, CallOrderFrame

LEMMA OrderPushBack ==
  ASSUME WatcherAssumption, Types, Order, CallOrder, PushBack
  PROVE  Order' /\ CallOrder'
<1>1. /\ Len(toPush) \in Nat /\ 1 \in 1..Len(toPush) /\ Head(toPush) = toPush[1]
      /\ toPush[1] \in 1..MaxChanges
  BY TailFacts DEF PushBack, Types, Notifications
<1>2. /\ Len(queue) \in Nat /\ Len(queue') \in Nat
      /\ \A i \in 1..Len(queue) : queue'[i] = queue[i]
      /\ queue'[Len(queue) + 1] = toPush[1]
      /\ 1..Len(queue') = 1..Len(queue) \cup {Len(queue) + 1}
  BY <1>1, AppendFacts DEF PushBack, Types, Notifications
<1>3. worker = "push" /\ worker' = "pushed" /\ UNCHANGED <<toPush, raised, changes, apcs>>
  BY DEF PushBack, Pushed
<1>4. Rest1 = 1 /\ Rest1' = 2
  BY <1>3 DEF Rest1
<1>5. /\ toPush[1] <= changes /\ raised < toPush[1]
      /\ \A j \in 1..Len(queue) : queue[j] < toPush[1]
  BY <1>1, <1>4 DEF Order
<1>6. Increasing(queue)'
  <2> SUFFICES ASSUME NEW i \in 1..Len(queue'), NEW j \in 1..Len(queue'), i < j
               PROVE  queue'[i] < queue'[j]
    BY DEF Increasing
  <2>1. i \in 1..Len(queue)
    BY <1>2
  <2>2. CASE j \in 1..Len(queue)
    BY <1>2, <2>1, <2>2 DEF Order, Increasing
  <2>3. CASE j = Len(queue) + 1
    BY <1>2, <1>5, <2>1, <2>3
  <2>  QED BY <1>2, <2>2, <2>3
<1>7. \A i \in 1..Len(queue') : raised < queue'[i] /\ queue'[i] <= changes
  BY <1>2, <1>5 DEF Order
<1>8. \A i \in 2..Len(toPush) : raised < toPush[i] /\ \A j \in 1..Len(queue') : queue'[j] < toPush[i]
  <2>1. \A i \in 2..Len(toPush) : i \in 1..Len(toPush) /\ 1 < i
    OBVIOUS
  <2>  QED BY <1>1, <1>2, <1>4, <2>1 DEF Order, Increasing
<1>9. Order'
  BY <1>3, <1>4, <1>6, <1>7, <1>8 DEF Order, Increasing
<1>10. \A a \in 1..Len(apcs) : IsCompleted(apcs[a]) => Follows(apcs[a].changes, queue')
  <2> SUFFICES ASSUME NEW a \in 1..Len(apcs), IsCompleted(apcs[a])
               PROVE  Follows(apcs[a].changes, queue')
    OBVIOUS
  <2>1. Follows(apcs[a].changes, queue) /\ Follows(apcs[a].changes, toPush)
    BY DEF CallOrder, CallsInOrder
  <2>  QED BY <1>1, <1>2, <2>1 DEF Follows
<1>11. CallOrder'
  BY <1>3, <1>10 DEF CallOrder, CallsInOrder
<1>  QED BY <1>9, <1>11

LEMMA OrderComplete ==
  ASSUME WatcherAssumption, Types, Order, CallOrder,
         NEW d \in Directories, NEW n \in 0..PerRead, Complete(d, n)
  PROVE  Order' /\ CallOrder'
<1> DEFINE s == [i \in 1..n |-> changes + i]
           c == Completed(d, s)
<1>1. /\ n \in Nat /\ changes \in Nat /\ changes' = changes + n /\ s \in Notifications
      /\ apcs' = Append(apcs, c) /\ UNCHANGED <<queue, toPush, raised, worker>>
  BY NewChanges DEF Complete, queueVars, told
<1>2. Len(s) = n /\ \A i \in 1..n : s[i] = changes + i
  BY <1>1, LenProperties DEF Notifications
<1>3. c.changes = s /\ c \in Apcs
  BY <1>1, ApcFacts DEF Completed
<1> HIDE DEF s, c
<1>4. /\ Len(apcs) \in Nat
      /\ \A a \in 1..Len(apcs) : apcs'[a] = apcs[a]
      /\ apcs'[Len(apcs) + 1] = c
      /\ 1..Len(apcs') = 1..Len(apcs) \cup {Len(apcs) + 1}
  BY <1>1, <1>3, AppendFacts DEF Types
<1>5. /\ \A i \in 1..Len(queue) : queue[i] \in Nat
      /\ \A i \in 1..Len(toPush) : toPush[i] \in Nat
      /\ \A a \in 1..Len(apcs) : IsCompleted(apcs[a]) =>
           \A k \in 1..Len(apcs[a].changes) : apcs[a].changes[k] \in Nat
      /\ raised \in Nat
  BY ValueFacts
<1>6. Order'
  <2>1. Rest1' = Rest1
    BY <1>1 DEF Rest1
  <2>2. raised <= changes' /\ \A i \in 1..Len(queue) : queue[i] <= changes'
    BY <1>1, <1>5 DEF Order
  <2>3. \A i \in 1..Len(toPush) : toPush[i] <= changes'
    BY <1>1, <1>5 DEF Order
  <2>  QED BY <1>1, <2>1, <2>2, <2>3 DEF Order, Increasing
<1>7. /\ Increasing(s)
      /\ \A k \in 1..Len(s) : changes < s[k] /\ s[k] <= changes'
  BY <1>1, <1>2 DEF Increasing
<1>8. Follows(s, queue) /\ Follows(s, toPush) /\ \A k \in 1..Len(s) : raised < s[k]
  BY <1>1, <1>2, <1>5 DEF Order, Follows
<1>9. \A a \in 1..Len(apcs) : IsCompleted(apcs[a]) => Follows(s, apcs[a].changes)
  <2> SUFFICES ASSUME NEW a \in 1..Len(apcs), IsCompleted(apcs[a])
               PROVE  Follows(s, apcs[a].changes)
    OBVIOUS
  <2>1. \A k \in 1..Len(apcs[a].changes) : apcs[a].changes[k] \in Nat /\ apcs[a].changes[k] <= changes
    BY <1>5 DEF CallOrder, CallsInOrder
  <2>2. ASSUME NEW i \in 1..Len(s), NEW k \in 1..Len(apcs[a].changes)
        PROVE  apcs[a].changes[k] < s[i]
    <3>1. s[i] = changes + i /\ i \in Nat /\ i > 0
      BY <1>1, <1>2
    <3>2. apcs[a].changes[k] \in Nat /\ apcs[a].changes[k] <= changes
      BY <2>1
    <3>3. changes < s[i]
      BY <1>1, <3>1
    <3>4. s[i] \in Nat
      BY <1>1, <3>1
    <3>5. changes \in Nat
      BY <1>1
    <3>  QED BY <3>2, <3>3, <3>4, <3>5
  <2>  QED BY <2>2 DEF Follows
<1>10. \A a \in 1..Len(apcs') : IsCompleted(apcs'[a]) =>
         /\ Increasing(apcs'[a].changes)
         /\ Follows(apcs'[a].changes, queue) /\ Follows(apcs'[a].changes, toPush)
         /\ \A k \in 1..Len(apcs'[a].changes) :
              raised < apcs'[a].changes[k] /\ apcs'[a].changes[k] <= changes'
  <2> SUFFICES ASSUME NEW a \in 1..Len(apcs'), IsCompleted(apcs'[a])
               PROVE  /\ Increasing(apcs'[a].changes)
                      /\ Follows(apcs'[a].changes, queue) /\ Follows(apcs'[a].changes, toPush)
                      /\ \A k \in 1..Len(apcs'[a].changes) :
                           raised < apcs'[a].changes[k] /\ apcs'[a].changes[k] <= changes'
    OBVIOUS
  <2>1. CASE a = Len(apcs) + 1
    BY <1>3, <1>4, <1>7, <1>8, <2>1
  <2>2. CASE a \in 1..Len(apcs)
    <3>1. apcs'[a] = apcs[a]
      BY <1>4, <2>2
    <3>2. \A k \in 1..Len(apcs[a].changes) : apcs[a].changes[k] \in Nat /\ apcs[a].changes[k] <= changes
      BY <1>5, <2>2, <3>1 DEF CallOrder, CallsInOrder
    <3>3. \A k \in 1..Len(apcs[a].changes) : apcs[a].changes[k] <= changes'
      BY <1>1, <3>2
    <3>  QED BY <2>2, <3>1, <3>3 DEF CallOrder, CallsInOrder
  <2>  QED BY <1>4, <2>1, <2>2
<1>11. \A a, b \in 1..Len(apcs') :
         a < b /\ IsCompleted(apcs'[a]) /\ IsCompleted(apcs'[b]) =>
           Follows(apcs'[b].changes, apcs'[a].changes)
  <2> SUFFICES ASSUME NEW a \in 1..Len(apcs'), NEW b \in 1..Len(apcs'),
                      a < b, IsCompleted(apcs'[a]), IsCompleted(apcs'[b])
               PROVE  Follows(apcs'[b].changes, apcs'[a].changes)
    OBVIOUS
  <2>1. a \in 1..Len(apcs) /\ apcs'[a] = apcs[a]
    BY <1>4
  <2>2. CASE b = Len(apcs) + 1
    BY <1>3, <1>4, <1>9, <2>1, <2>2
  <2>3. CASE b \in 1..Len(apcs)
    BY <1>4, <2>1, <2>3 DEF CallOrder, CallsInOrder
  <2>  QED BY <1>4, <2>2, <2>3
<1>12. CallOrder'
  BY <1>1, <1>10, <1>11 DEF CallOrder, CallsInOrder
<1>  QED BY <1>6, <1>12

LEMMA OrderStep ==
  ASSUME WatcherAssumption, Types, Order, CallOrder, Next
  PROVE  Order' /\ CallOrder'
<1>1. ASSUME NEW d \in Directories, Register(d) PROVE Order' /\ CallOrder'
  <2>1. Add(d) \in Apcs /\ ~IsCompleted(Add(d)) /\ apcs' = Append(apcs, Add(d))
    BY <1>1, ApcFacts DEF Register, Add, IsCompleted
  <2>2. UNCHANGED <<queue, toPush, raised, changes>> /\ Rest1' = Rest1
    BY <1>1 DEF Register, queueVars, told, Rest1
  <2>  QED BY <2>1, <2>2, OrderFrame, CallOrderQueue
<1>2. CASE Destroy \/ TerminateReturns
  BY <1>2, OrderFrames DEF Destroy, TerminateReturns, workerVars, queueVars, told, Rest1
<1>3. CASE Join
  <2>1. UNCHANGED <<queue, toPush, raised, changes>> /\ Rest1' = Rest1
    BY <1>3 DEF Join, queueVars, told, Rest1
  <2>2. CASE worker = "none"
    BY <1>3, <2>1, <2>2, OrderFrames DEF Join
  <2>3. CASE worker # "none"
    <3>1. Terminate \in Apcs /\ ~IsCompleted(Terminate) /\ apcs' = Append(apcs, Terminate)
      BY <1>3, <2>3, ApcFacts DEF Join, Terminate, IsCompleted
    <3>  QED BY <2>1, <3>1, OrderFrame, CallOrderQueue
  <2>  QED BY <2>2, <2>3
<1>4. CASE RunApc
  BY <1>4, OrderRun
<1>5. CASE RunReturns
  BY <1>5, OrderFrames DEF RunReturns, queueVars, told, Rest1
<1>6. CASE PushBack
  BY <1>6, OrderPushBack
<1>7. CASE ReleaseSemaphore
  <2>1. worker = "pushed" /\ toPush # <<>> /\ UNCHANGED <<queue, raised, changes, apcs>>
    BY <1>7 DEF ReleaseSemaphore, Pushed, Types
  <2>2. CASE semaphore < MaxCount
    BY <1>7, <2>1, <2>2, OrderNext DEF ReleaseSemaphore
  <2>3. CASE ~(semaphore < MaxCount)
    BY <1>7, <2>1, <2>3, OrderFrames DEF ReleaseSemaphore, Pushed, Rest1
  <2>  QED BY <2>2, <2>3
<1>8. CASE TakeBack
  <2>1. worker = "full" /\ UNCHANGED <<toPush, raised, changes, apcs>> /\ Rest1' = Rest1
    BY <1>8 DEF TakeBack, Pushed, Rest1
  <2>2. CASE queue # <<>> /\ queue' = Front(queue)
    <3>a. /\ Len(queue) \in Nat /\ Len(queue') = Len(queue) - 1 /\ Len(queue) > 0
          /\ \A i \in 1..Len(queue') : i \in 1..Len(queue) /\ queue'[i] = queue[i]
      BY <2>2, FrontFacts DEF Types, Notifications
    <3>b. \A i \in 1..Len(queue') : i + 0 = i
      OBVIOUS
    <3>1. /\ Len(queue') \in Nat
          /\ \A i \in 1..Len(queue') : i + 0 \in 1..Len(queue) /\ queue'[i] = queue[i + 0]
      BY <3>a, <3>b
    <3>2. 0 \in 0..1
      OBVIOUS
    <3>  QED BY <2>1, <3>1, <3>2, OrderLess
  <2>3. CASE queue' = queue
    BY <2>1, <2>3, OrderFrames
  <2>  QED BY <1>8, <2>2, <2>3 DEF TakeBack, TakenBack
<1>9. CASE SetOverflow
  BY <1>9, OrderNext DEF SetOverflow, Pushed, Types
<1>10. CASE CheckFileChanges \/ CheckOverflow \/ Rest
  BY <1>10, OrderFrames
     DEF CheckFileChanges, CheckOverflow, Rest, Listens, workerVars, queueVars, told, Rest1
<1>11. CASE Clear
  <2>1. UNCHANGED <<toPush, raised, changes, apcs>> /\ Rest1' = Rest1 /\ queue' = <<>>
    BY <1>11 DEF Clear, Listens, workerVars, Rest1
  <2>2. /\ Len(queue') \in Nat
        /\ \A i \in 1..Len(queue') : i + 0 \in 1..Len(queue) /\ queue'[i] = queue[i + 0]
    BY <2>1
  <2>3. 0 \in 0..1
    OBVIOUS
  <2>  QED BY <2>1, <2>2, <2>3, OrderLess
<1>12. CASE Pop
  <2>1. UNCHANGED <<toPush, changes, apcs>> /\ Rest1' = Rest1
    BY <1>12 DEF Pop, Listens, workerVars, Rest1
  <2>2. CASE queue = <<>>
    BY <1>12, <2>1, <2>2, OrderFrames DEF Pop
  <2>3. CASE queue # <<>>
    <3>1. queue' = Tail(queue) /\ raised' = Head(queue)
      BY <1>12, <2>3 DEF Pop, Popped
    <3>2. /\ Len(queue') \in Nat /\ raised' = queue[1]
          /\ \A i \in 1..Len(queue') : i + 1 \in 1..Len(queue) /\ queue'[i] = queue[i + 1]
      BY <2>3, <3>1, TailFacts, LenProperties DEF Types, Notifications
    <3>3. 1 \in 0..1
      OBVIOUS
    <3>  QED BY <2>1, <2>3, <3>2, <3>3, OrderLess
  <2>  QED BY <2>2, <2>3
<1>13. CASE \E d \in Directories, n \in 0..PerRead : Complete(d, n)
  BY <1>13, OrderComplete
<1>  QED BY <1>1, <1>2, <1>3, <1>4, <1>5, <1>6, <1>7, <1>8, <1>9, <1>10, <1>11, <1>12, <1>13
     DEF Next, Worker, Listener

-----------------------------------------------------------------------------
(* What becomes of the changes.                                            *)

LEMMA HeldStep ==
  ASSUME WatcherAssumption, Types, Held, Next
  PROVE  Held'
<1>1. CASE UNCHANGED <<queue, toPush, known>> /\ (worker' \in {"pushed", "full"} => worker \in {"pushed", "full"})
  BY <1>1 DEF Held
<1>2. CASE worker' \notin {"pushed", "full"}
  BY <1>2 DEF Held
<1>3. CASE \E d \in Directories : Register(d)
  BY <1>1, <1>3 DEF Register, queueVars, told
<1>4. CASE Destroy \/ Join \/ TerminateReturns
  BY <1>1, <1>4 DEF Destroy, Join, TerminateReturns, workerVars, queueVars, told
<1>5. CASE RunApc
  BY <1>2, <1>5 DEF RunApc, AddDirectory, RequestTermination, NotificationCompletion
<1>6. CASE RunReturns \/ TakeBack \/ SetOverflow
  BY <1>2, <1>6 DEF RunReturns, TakeBack, SetOverflow, Pushed, NextOf
<1>7. CASE PushBack
  <2>1. toPush # <<>> /\ Head(toPush) = toPush[1] /\ toPush[1] \in 1..MaxChanges
    BY <1>7, TailFacts DEF PushBack, Types, Notifications
  <2>2. queue' # <<>> /\ queue'[Len(queue')] = toPush[1] /\ toPush' = toPush
    BY <1>7, <2>1, AppendFacts DEF PushBack, Types, Notifications
  <2>  QED BY <2>2 DEF Held
<1>8. CASE ReleaseSemaphore
  <2>1. CASE semaphore < MaxCount
    BY <1>2, <1>8, <2>1 DEF ReleaseSemaphore, Pushed, NextOf
  <2>2. CASE ~(semaphore < MaxCount)
    BY <1>1, <1>8, <2>2 DEF ReleaseSemaphore, Pushed, told
  <2>  QED BY <2>1, <2>2
<1>9. CASE CheckFileChanges \/ CheckOverflow \/ Rest
  BY <1>1, <1>9 DEF CheckFileChanges, CheckOverflow, Rest, Listens, workerVars, queueVars, told
<1>10. CASE Clear
  <2>1. queue' = <<>> /\ worker' = worker /\ toPush' = toPush
        /\ known \subseteq known' /\ ToSet(queue) \subseteq known'
    BY <1>10 DEF Clear, Listens, workerVars
  <2>2. queue # <<>> => queue[Len(queue)] \in ToSet(queue)
    BY LenProperties, EmptySeq DEF ToSet, Types, Notifications
  <2>  QED BY <2>1, <2>2 DEF Held
<1>11. CASE Pop
  <2>1. worker' = worker /\ toPush' = toPush
    BY <1>11 DEF Pop, Listens, workerVars
  <2>2. CASE queue = <<>>
    BY <1>1, <1>11, <2>1, <2>2 DEF Pop
  <2>3. CASE queue # <<>>
    <3>1. queue' = Tail(queue) /\ known' = known \cup {Head(queue)}
      BY <1>11, <2>3 DEF Pop, Popped
    <3>2. /\ Len(queue) \in Nat /\ Len(queue) > 0 /\ Len(queue') = Len(queue) - 1
          /\ Head(queue) = queue[1] /\ queue' \in Notifications
          /\ \A i \in 1..Len(queue') : queue'[i] = queue[i + 1]
      BY <2>3, <3>1, TailFacts DEF Types, Notifications
    <3>3. CASE Len(queue) = 1
      <4>1. queue' = <<>>
        BY <3>2, <3>3, EmptySeq DEF Notifications
      <4>  QED BY <2>1, <2>3, <3>1, <3>2, <3>3, <4>1 DEF Held
    <3>4. CASE Len(queue) # 1
      <4>1. Len(queue') \in 1..Len(queue') /\ Len(queue') + 1 = Len(queue) /\ Len(queue') # 0
        BY <3>2, <3>4
      <4>2. queue'[Len(queue')] = queue[Len(queue)] /\ queue' # <<>>
        BY <3>2, <4>1, EmptySeq
      <4>  QED BY <2>1, <2>3, <4>2 DEF Held
    <3>  QED BY <3>3, <3>4
  <2>  QED BY <2>2, <2>3
<1>12. CASE \E d \in Directories, n \in 0..PerRead : Complete(d, n)
  BY <1>1, <1>12 DEF Complete, queueVars, told
<1>  QED BY <1>3, <1>4, <1>5, <1>6, <1>7, <1>8, <1>9, <1>10, <1>11, <1>12 DEF Next, Worker, Listener

\* What is in a sequence.
LEMMA SetOfSequence ==
  ASSUME NEW S, NEW s \in Seq(S)
  PROVE  /\ ToSet(s) = {s[i] : i \in 1..Len(s)}
         /\ s # <<>> => ToSet(s) = {s[1]} \cup ToSet(Tail(s)) /\ s[1] \in ToSet(s)
         /\ s # <<>> => ToSet(s) = ToSet(Front(s)) \cup {s[Len(s)]}
         /\ \A x \in S : ToSet(Append(s, x)) = ToSet(s) \cup {x}
<1>1. DOMAIN s = 1..Len(s) /\ Len(s) \in Nat
  BY LenProperties
<1>2. ToSet(s) = {s[i] : i \in 1..Len(s)}
  BY <1>1 DEF ToSet
<1>3. ASSUME s # <<>>
      PROVE  ToSet(s) = {s[1]} \cup ToSet(Tail(s)) /\ s[1] \in ToSet(s)
  <2>1. /\ Tail(s) \in Seq(S) /\ Len(s) > 0 /\ Len(Tail(s)) = Len(s) - 1
        /\ \A i \in 1..Len(Tail(s)) : i + 1 \in 1..Len(s) /\ Tail(s)[i] = s[i + 1]
    BY <1>3, TailFacts
  <2>2. ToSet(Tail(s)) = {Tail(s)[i] : i \in 1..Len(Tail(s))}
    BY <2>1, LenProperties DEF ToSet
  <2>3. ASSUME NEW i \in 1..Len(s), i # 1 PROVE s[i] \in ToSet(Tail(s))
    <3>1. i - 1 \in 1..Len(Tail(s)) /\ Tail(s)[i - 1] = s[(i - 1) + 1] /\ (i - 1) + 1 = i
      BY <1>1, <2>1, <2>3
    <3>  QED BY <2>2, <3>1
  <2>4. ToSet(Tail(s)) \subseteq ToSet(s)
    BY <1>2, <2>1, <2>2
  <2>5. s[1] \in ToSet(s)
    BY <1>1, <1>2, <2>1
  <2>6. ToSet(s) \subseteq {s[1]} \cup ToSet(Tail(s))
    BY <1>2, <2>3
  <2>  QED BY <2>4, <2>5, <2>6
<1>4. ASSUME s # <<>>
      PROVE  ToSet(s) = ToSet(Front(s)) \cup {s[Len(s)]}
  <2>1. /\ Front(s) \in Seq(S) /\ Len(s) > 0 /\ Len(Front(s)) = Len(s) - 1
        /\ \A i \in 1..Len(Front(s)) : i \in 1..Len(s) /\ Front(s)[i] = s[i]
    BY <1>4, FrontFacts
  <2>2. ToSet(Front(s)) = {Front(s)[i] : i \in 1..Len(Front(s))}
    BY <2>1, LenProperties DEF ToSet
  <2>3. ASSUME NEW i \in 1..Len(s), i # Len(s) PROVE i \in 1..Len(Front(s))
    <3>1. Len(s) \in Nat
      BY <1>1
    <3>2. i \in 1..(Len(s) - 1)
      BY <2>3, <3>1
    <3>  QED BY <2>1, <3>2
  <2>4. Len(s) \in 1..Len(s)
    BY <1>1, <2>1
  <2>  QED BY <1>2, <2>1, <2>2, <2>3, <2>4
<1>5. ASSUME NEW x \in S PROVE ToSet(Append(s, x)) = ToSet(s) \cup {x}
  <2>1. /\ Append(s, x) \in Seq(S)
        /\ \A i \in 1..Len(s) : Append(s, x)[i] = s[i]
        /\ Append(s, x)[Len(s) + 1] = x
        /\ 1..Len(Append(s, x)) = 1..Len(s) \cup {Len(s) + 1}
    BY AppendFacts
  <2>2. ToSet(Append(s, x)) = {Append(s, x)[i] : i \in 1..Len(Append(s, x))}
    BY <2>1, LenProperties DEF ToSet
  <2>  QED BY <1>2, <2>1, <2>2
<1>  QED BY <1>2, <1>3, <1>4, <1>5

\* What the completed reads among the worker's calls have brought.
LEMMA BroughtFacts ==
  ASSUME NEW calls \in Seq(Apcs)
  PROVE  \A x : x \in Brought(calls) <=>
                \E a \in 1..Len(calls) : IsCompleted(calls[a]) /\ x \in ToSet(calls[a].changes)
BY LenProperties DEF Brought, IsCompleted

LEMMA BroughtAppend ==
  ASSUME NEW calls \in Seq(Apcs), NEW c \in Apcs
  PROVE  /\ Brought(calls) \subseteq Brought(Append(calls, c))
         /\ IsCompleted(c) => ToSet(c.changes) \subseteq Brought(Append(calls, c))
<1>1. /\ Append(calls, c) \in Seq(Apcs)
      /\ \A i \in 1..Len(calls) : Append(calls, c)[i] = calls[i]
      /\ Append(calls, c)[Len(calls) + 1] = c
      /\ 1..Len(Append(calls, c)) = 1..Len(calls) \cup {Len(calls) + 1}
  BY AppendFacts
<1>  QED BY <1>1, BroughtFacts

Accounted == known \cup ToSet(queue) \cup OnTheWay

\* Nothing that was accounted for is missing, nor any new change.
LEMMA NothingLost ==
  ASSUME NoSilentLoss, Accounted \subseteq Accounted', overflow => overflow',
         (1..changes') \ (1..changes) \subseteq Accounted'
  PROVE  NoSilentLoss'
<1>1. Missing' \subseteq Missing
  BY DEF Missing, Accounted
<1>  QED BY <1>1 DEF NoSilentLoss

LEMMA LossStep ==
  ASSUME WatcherAssumption, Types, Held, NoSilentLoss, Next
  PROVE  NoSilentLoss'
<1> USE DEF Accounted, OnTheWay
<1>0. queue \in Notifications /\ toPush \in Notifications /\ apcs \in Seq(Apcs)
  BY DEF Types
<1>1. CASE UNCHANGED <<queue, toPush, apcs, known, changes, overflow>>
  BY <1>1, NothingLost
<1>2. ASSUME NEW c \in Apcs, apcs' = Append(apcs, c), UNCHANGED <<queue, toPush, known, changes, overflow>>
      PROVE  NoSilentLoss'
  BY <1>0, <1>2, BroughtAppend, NothingLost
<1>3. ASSUME NEW d \in Directories, Register(d) PROVE NoSilentLoss'
  BY <1>2, <1>3, ApcFacts DEF Register, queueVars, told
<1>4. CASE Destroy \/ TerminateReturns
  BY <1>1, <1>4 DEF Destroy, TerminateReturns, workerVars, queueVars, told
<1>5. CASE Join
  BY <1>1, <1>2, <1>5, ApcFacts DEF Join, queueVars, told
<1>6. CASE RunApc
  <2>1. /\ apcs[1] \in Apcs /\ apcs[1] = Head(apcs) /\ Len(apcs) \in Nat /\ Len(apcs) > 0
        /\ apcs' \in Seq(Apcs)
        /\ \A a \in 1..(Len(apcs) - 1) : a \in 1..Len(apcs') /\ apcs'[a] = apcs[a + 1]
    BY <1>6, RunFacts
  <2>2. UNCHANGED <<queue, known, changes, overflow>> /\ toPush = <<>> /\ ToSet(toPush) = {}
    BY <1>6 DEF RunApc, queueVars, told, Types, ToSet
  <2>3. IsCompleted(apcs[1]) => ToSet(apcs[1].changes) \subseteq ToSet(toPush')
    <3> SUFFICES ASSUME IsCompleted(apcs[1])
                 PROVE  ToSet(apcs[1].changes) \subseteq ToSet(toPush')
      OBVIOUS
    <3>1. NotificationCompletion(apcs[1].dir, apcs[1].changes)
      BY <1>6, <2>1 DEF RunApc, IsCompleted
    <3>2. CASE apcs[1].changes = <<>>
      BY <3>2 DEF ToSet
    <3>3. CASE apcs[1].changes # <<>>
      BY <3>1, <3>3 DEF NotificationCompletion
    <3>  QED BY <3>2, <3>3
  <2>4. Brought(apcs) \subseteq ToSet(toPush') \cup Brought(apcs')
    <3> SUFFICES ASSUME NEW x \in Brought(apcs), x \notin ToSet(toPush')
                 PROVE  x \in Brought(apcs')
      OBVIOUS
    <3>1. PICK a \in 1..Len(apcs) : IsCompleted(apcs[a]) /\ x \in ToSet(apcs[a].changes)
      BY <1>0, BroughtFacts
    <3>2. a # 1
      BY <2>3, <3>1
    <3>3. a - 1 \in 1..(Len(apcs) - 1) /\ (a - 1) + 1 = a
      BY <2>1, <3>2
    <3>4. a - 1 \in 1..Len(apcs') /\ apcs'[a - 1] = apcs[a]
      BY <2>1, <3>3
    <3>  QED BY <2>1, <3>1, <3>4, BroughtFacts
  <2>  QED BY <2>2, <2>4, NothingLost
<1>7. CASE RunReturns
  BY <1>1, <1>7 DEF RunReturns, queueVars, told
<1>8. CASE PushBack
  <2>1. Head(toPush) \in 1..MaxChanges
    BY <1>8, TailFacts DEF PushBack, Types, Notifications
  <2>2. ToSet(queue) \subseteq ToSet(queue')
    BY <1>0, <1>8, <2>1, SetOfSequence DEF PushBack, Notifications
  <2>  QED BY <1>8, <2>2, NothingLost DEF PushBack, Pushed, told
<1>9. CASE ReleaseSemaphore
  <2>1. worker = "pushed" /\ toPush # <<>> /\ UNCHANGED <<queue, apcs, known, changes, overflow>>
    BY <1>9 DEF ReleaseSemaphore, Pushed, told, Types
  <2>2. toPush[1] \in known \cup ToSet(queue)
    <3>1. queue # <<>> => queue[Len(queue)] \in ToSet(queue)
      BY <1>0, SetOfSequence DEF Notifications
    <3>  QED BY <2>1, <3>1 DEF Held
  <2>3. ToSet(toPush) = {toPush[1]} \cup ToSet(Tail(toPush))
    BY <1>0, <2>1, SetOfSequence DEF Notifications
  <2>4. toPush' \in {toPush, Tail(toPush)}
    BY <1>9 DEF ReleaseSemaphore
  <2>  QED BY <2>1, <2>2, <2>3, <2>4, NothingLost
<1>10. CASE TakeBack
  <2>1. worker = "full" /\ toPush # <<>> /\ UNCHANGED <<toPush, apcs, known, changes, overflow>>
    BY <1>10 DEF TakeBack, Pushed, told, Types
  <2>2. CASE queue # <<>> /\ queue' = Front(queue)
    <3>1. ToSet(queue) = ToSet(queue') \cup {queue[Len(queue)]}
      BY <1>0, <2>2, SetOfSequence DEF Notifications
    <3>2. queue[Len(queue)] \in ToSet(toPush)
      BY <1>0, <2>1, <2>2, SetOfSequence DEF Held, Notifications
    <3>  QED BY <2>1, <3>1, <3>2, NothingLost
  <2>3. CASE queue' = queue
    BY <1>1, <2>1, <2>3
  <2>  QED BY <1>10, <2>2, <2>3 DEF TakeBack, TakenBack
<1>11. CASE SetOverflow
  BY <1>11 DEF SetOverflow, SetsOverflow, NoSilentLoss
<1>12. CASE CheckFileChanges \/ CheckOverflow \/ Rest
  BY <1>1, <1>12 DEF CheckFileChanges, CheckOverflow, Rest, Listens, workerVars, queueVars, told
<1>13. CASE Clear
  <2>1. UNCHANGED <<toPush, apcs, changes>> /\ known' = known \cup ToSet(queue) \cup Missing
    BY <1>13 DEF Clear, Listens, workerVars
  <2>2. Missing' = {}
    BY <2>1 DEF Missing
  <2>  QED BY <2>2 DEF NoSilentLoss
<1>14. CASE Pop
  <2>1. UNCHANGED <<toPush, apcs, changes, overflow>>
    BY <1>14 DEF Pop, Listens, workerVars
  <2>2. CASE queue = <<>>
    BY <1>1, <1>14, <2>1, <2>2 DEF Pop
  <2>3. CASE queue # <<>>
    <3>1. queue' = Tail(queue) /\ known' = known \cup {Head(queue)} /\ Head(queue) = queue[1]
      BY <1>0, <1>14, <2>3, TailFacts DEF Pop, Popped, Notifications
    <3>2. ToSet(queue) = {queue[1]} \cup ToSet(queue')
      BY <1>0, <2>3, <3>1, SetOfSequence DEF Notifications
    <3>  QED BY <2>1, <3>1, <3>2, NothingLost
  <2>  QED BY <2>2, <2>3
<1>15. ASSUME NEW d \in Directories, NEW n \in 0..PerRead, Complete(d, n)
       PROVE  NoSilentLoss'
  <2> DEFINE s == [i \in 1..n |-> changes + i]
             c == Completed(d, s)
  <2>1. /\ n \in Nat /\ changes \in Nat /\ changes' = changes + n /\ s \in Notifications
        /\ apcs' = Append(apcs, c) /\ UNCHANGED <<queue, toPush, known, overflow>>
    BY <1>15, NewChanges DEF Complete, queueVars, told
  <2>2. c \in Apcs /\ IsCompleted(c) /\ c.changes = s
    BY <2>1, ApcFacts DEF Completed, IsCompleted
  <2>3. (1..changes') \ (1..changes) \subseteq ToSet(s)
    <3> SUFFICES ASSUME NEW x \in 1..changes', x \notin 1..changes PROVE x \in ToSet(s)
      OBVIOUS
    <3>1. x - changes \in 1..n /\ changes + (x - changes) = x
      BY <2>1
    <3>  QED BY <3>1 DEF ToSet
  <2> HIDE DEF s, c
  <2>4. Brought(apcs) \subseteq Brought(apcs') /\ ToSet(s) \subseteq Brought(apcs')
    BY <1>0, <2>1, <2>2, BroughtAppend
  <2>  QED BY <2>1, <2>3, <2>4, NothingLost
<1>  QED BY <1>3, <1>4, <1>5, <1>6, <1>7, <1>8, <1>9, <1>10, <1>11, <1>12, <1>13, <1>14, <1>15
     DEF Next, Worker, Listener

-----------------------------------------------------------------------------
(* The invariant, and the properties it implies.                           *)

LEMMA InitInv ==
  ASSUME WatcherAssumption, Init
  PROVE  IInv
<1>1. Types
  <2>1. /\ main = "run" /\ listener = "top" /\ worker = "none"
        /\ apcs = <<>> /\ toPush = <<>> /\ queue = <<>>
        /\ blocks = {} /\ reading = {} /\ outstanding = 0 /\ terminated = FALSE
        /\ changes = 0 /\ semaphore = 0 /\ raised = 0 /\ surplus = 0
    BY DEF Init
  <2>2. <<>> \in Seq(Apcs) /\ <<>> \in Notifications
    BY DEF Notifications
  <2>3. 0 \in 0..MaxChanges /\ 0 \in 0..MaxCount
    BY DEF WatcherAssumption
  <2>4. 0 \in 0..Cardinality(Directories)
    BY DirectoriesFinite
  <2>  QED BY <2>1, <2>2, <2>3, <2>4 DEF Types
<1>2. Count
  BY DEF Init, Count, Counted, Excess, InPop, InPush, Alive, WatcherAssumption
<1>3. Order /\ CallOrder
  BY DEF Init, Order, CallOrder, CallsInOrder, Increasing, Follows, Rest1
<1>4. Ending /\ Outstanding
  BY FS_EmptySet DEF Init, Ending, Outstanding, At
<1>5. Held
  BY DEF Init, Held
<1>  QED BY <1>1, <1>2, <1>3, <1>4, <1>5 DEF IInv

LEMMA NextInv ==
  ASSUME WatcherAssumption, IInv, [Next]_vars
  PROVE  IInv'
<1>1. CASE Next
  BY <1>1, TypesStep, CountStep, OrderStep, RequestsStep, HeldStep DEF IInv
<1>2. CASE UNCHANGED vars
  BY <1>2 DEF vars, mainVars, workerVars, queueVars, told, IInv, Types, Count, Counted, Excess,
       InPop, InPush, Alive, Order, CallOrder, CallsInOrder, Increasing, Follows, Rest1, Ending, Outstanding, At,
       Held
<1>  QED BY <1>1, <1>2

\* The inductive invariant holds in every state of the watcher.
THEOREM Invariance == Spec => []IInv
<1>1. Init => IInv
  BY InitInv, WatcherAssumption
<1>2. IInv /\ [Next]_vars => IInv'
  BY NextInv, WatcherAssumption
<1>  QED BY <1>1, <1>2, PTL DEF Spec

\* The variables have their types: a read is pending only for a watched directory,
\* the requests are at most as many as the directories - never less than none,
\* although every aborted read is counted down - and the queue has at most two
\* entries more than the semaphore counts (CReadDirectoryChanges.cpp, CThreadSafeQueue.h).
THEOREM TypeCorrect == Spec => []TypeOK
<1>1. IInv => TypeOK
  BY DEF IInv, Types, Count, TypeOK, Notifications
<1>  QED BY <1>1, Invariance, PTL

\* The semaphore counts what is in the queue, but for the entry that the listener was
\* let through for and that of a push that is under way, unless the queue was cleared
\* under a push (CThreadSafeQueue::push, pop, clear).
THEOREM CountAlwaysMatches == Spec => []CountMatches
<1>1. IInv => CountMatches
  <2> SUFFICES ASSUME IInv, Alive, surplus = 0 PROVE semaphore + InPop = Len(queue) - InPush
    BY DEF CountMatches
  <2>1. Excess = 0
    BY DEF IInv, Count, Counted
  <2>2. Len(queue) \in Nat /\ semaphore \in Nat
    BY LenProperties DEF IInv, Types, Notifications, WatcherAssumption
  <2>  QED BY <2>1, <2>2 DEF Excess, InPop, InPush
<1>  QED BY <1>1, Invariance, PTL

\* Events are raised in the order of the changes and each at most once, whatever was
\* taken back or cleared in between (CheckFileChanges, PushNotification).
THEOREM EventsInOrder == Spec => []InOrder
<1>1. IInv => InOrder
  <2> SUFFICES ASSUME IInv PROVE InOrder
    OBVIOUS
  <2>1. DOMAIN queue = 1..Len(queue)
    BY LenProperties DEF IInv, Types, Notifications
  <2>  QED BY <2>1 DEF IInv, Order, Increasing, InOrder
<1>  QED BY <1>1, Invariance, PTL

\* No change that a read has reported is lost unnoticed: it was raised, it is on its
\* way, or an overflow has told of it or is flagged (ProcessNotification,
\* CThreadSafeQueue::push, pop, clear and overflow).
THEOREM LossIsNeverSilent == Spec => []NoSilentLoss
<1>1. Init => NoSilentLoss
  BY DEF Init, NoSilentLoss, Missing
<1>2. IInv /\ NoSilentLoss /\ [Next]_vars => NoSilentLoss'
  <2>1. CASE UNCHANGED vars
    BY <2>1 DEF vars, workerVars, queueVars, told, NoSilentLoss, Missing, OnTheWay
  <2>  QED BY <2>1, LossStep, WatcherAssumption DEF IInv
<1>  QED BY <1>1, <1>2, Invariance, PTL DEF Spec

=============================================================================
