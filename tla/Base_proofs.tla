---------------------------- MODULE Base_proofs -----------------------------
(***************************************************************************)
(* The parts of base/, for every finite set of threads: no worker of a     *)
(* ThreadPool sleeps on a task or through stop(); MutexLock's holder_ is   *)
(* right but around a wait; BlockingQueue loses and swaps no element and   *)
(* wakes who must take it; AsyncLogging's buffers have one owner each; a   *)
(* number in a LogStream's line reads as it was put; and the circular      *)
(* buffer of any capacity is never full.                                   *)
(***************************************************************************)
EXTENDS ThreadPool, BaseThreads, AsyncLogging, LogStream, BoundedQueue,
        FiniteSetTheorems, SequenceTheorems, WellFoundedInduction, TLAPS

(* ThreadPool. *)

LEMMA TypeStep == TypeOK /\ [Next]_vars => TypeOK'
<1> SUFFICES ASSUME TypeOK, [Next]_vars PROVE TypeOK'
  OBVIOUS
<1> USE DEF TypeOK, Waiting
<1>1. CASE Start
  BY <1>1 DEF Start
<1>2. ASSUME NEW w \in Workers, StartThread(w)
      PROVE  TypeOK'
  BY <1>2 DEF StartThread
<1>3. CASE StartReturns
  BY <1>3 DEF StartReturns
<1>4. CASE Stop
  BY <1>4 DEF Stop
<1>5. CASE JoinsReturn
  BY <1>5 DEF JoinsReturn
<1>6. ASSUME NEW t \in Tasks, Run(t)
      PROVE  TypeOK'
  <2>1. dequeue_' \in Seq(Tasks)
    BY <1>6, AppendProperties DEF Run
  <2>2. CASE Waiting = {}
    BY <1>6, <2>1, <2>2 DEF Run
  <2>3. CASE Waiting # {}
    <3>1. PICK w \in Waiting : pc' = [pc EXCEPT ![w] = "take"]
      BY <1>6, <2>3 DEF Run
    <3>2. QED
      BY <1>6, <2>1, <3>1 DEF Run
  <2>4. QED
    BY <2>2, <2>3
<1>7. ASSUME NEW w \in Workers, WorkerStep(w)
      PROVE  TypeOK'
  <2>1. CASE TestRunning(w)
    BY <2>1 DEF TestRunning
  <2>2. CASE Wait(w)
    BY <2>2 DEF Wait
  <2>3. CASE Take(w)
    <3>1. Head(dequeue_) \in Tasks /\ Tail(dequeue_) \in Seq(Tasks)
      BY <2>3, HeadTailProperties DEF Take
    <3>2. QED
      BY <2>3, <3>1 DEF Take
  <2>4. CASE TakeNothing(w)
    BY <2>4 DEF TakeNothing
  <2>5. CASE TaskReturns(w)
    BY <2>5 DEF TaskReturns
  <2>6. QED
    BY <1>7, <2>1, <2>2, <2>3, <2>4, <2>5 DEF WorkerStep
<1>8. ASSUME NEW w \in Workers, WakesUp(w)
      PROVE  TypeOK'
  BY <1>8 DEF WakesUp
<1>9. CASE UNCHANGED vars
  BY <1>9 DEF vars
<1>10. QED
  BY <1>1, <1>2, <1>3, <1>4, <1>5, <1>6, <1>7, <1>8, <1>9 DEF Next

(* TypeOK is inductive as it stands. *)
THEOREM TypeCorrect == Spec => []TypeOK
<1>1. Init => TypeOK
  <2>1. <<>> \in Seq(Tasks)
    OBVIOUS
  <2>2. QED
    BY <2>1 DEF Init, TypeOK
<1>2. QED
  BY <1>1, TypeStep, PTL DEF Spec

----------------------------------------------------------------------------
(* A worker that joins a set of workers, or leaves it, counts for one. *)
LEMMA WorkersAreFinite ==
  ASSUME NEW S \in SUBSET Workers
  PROVE  IsFiniteSet(S) /\ Cardinality(S) \in Nat
BY ThreadPoolAssumption, FS_Subset, FS_CardinalityType

LEMMA OneMore ==
  ASSUME NEW S \in SUBSET Workers, NEW w \in Workers \ S
  PROVE  Cardinality(S \union {w}) = Cardinality(S) + 1
BY WorkersAreFinite, FS_AddElement

LEMMA OneLess ==
  ASSUME NEW S \in SUBSET Workers, NEW w \in S
  PROVE  Cardinality(S \ {w}) = Cardinality(S) - 1
BY WorkersAreFinite, FS_RemoveElement

----------------------------------------------------------------------------
(* Its two parts need each other: a worker leaves the pool by the test of    *)
(* running_ and takes nothing with it.                                       *)
LEMMA WaitInvStep == TypeOK /\ NoWorkerSleepsInVain /\ [Next]_vars => NoWorkerSleepsInVain'
<1> SUFFICES ASSUME TypeOK, NoWorkerSleepsInVain, [Next]_vars PROVE NoWorkerSleepsInVain'
  OBVIOUS
<1> USE DEF NoWorkerSleepsInVain
<1>a. Ready \in SUBSET Workers /\ Cardinality(Ready) \in Nat
  BY WorkersAreFinite DEF Ready
<1>b. Len(dequeue_) \in Nat
  BY LenProperties DEF TypeOK
<1>1. CASE Start
  <2>1. Waiting' = Waiting /\ Ready' = Ready
    BY <1>1 DEF Start, Waiting, Ready
  <2>2. QED
    BY <1>1, <2>1 DEF Start
<1>2. ASSUME NEW w \in Workers, StartThread(w)
      PROVE  NoWorkerSleepsInVain'
  <2>1. w \notin Ready /\ Ready' = Ready \union {w} /\ Waiting' = Waiting
    BY <1>2 DEF StartThread, TypeOK, Waiting, Ready
  <2>2. Cardinality(Ready') = Cardinality(Ready) + 1
    BY <1>a, <2>1, OneMore
  <2>3. QED
    BY <1>2, <1>a, <1>b, <2>1, <2>2 DEF StartThread
<1>3. CASE StartReturns
  <2>1. Waiting' = Waiting /\ Ready' = Ready
    BY <1>3 DEF StartReturns, Waiting, Ready
  <2>2. QED
    BY <1>3, <2>1 DEF StartReturns
<1>4. CASE Stop
  <2>1. Waiting' = {}
    BY <1>4 DEF Stop, Waiting, TypeOK
  <2>2. QED
    BY <2>1
<1>5. CASE JoinsReturn
  <2>1. Waiting' = Waiting /\ Ready' = Ready
    BY <1>5 DEF JoinsReturn, Waiting, Ready
  <2>2. QED
    BY <1>5, <2>1 DEF JoinsReturn
<1>6. ASSUME NEW t \in Tasks, Run(t)
      PROVE  NoWorkerSleepsInVain'
  <2>1. CASE Waiting = {}
    <3>1. Waiting' = {}
      BY <1>6, <2>1 DEF Run, Waiting
    <3>2. QED
      BY <3>1
  <2>2. CASE Waiting # {}
    <3>1. PICK w \in Waiting : pc' = [pc EXCEPT ![w] = "take"]
      BY <1>6, <2>2 DEF Run
    <3>2. w \in Workers /\ w \notin Ready /\ Ready' = Ready \union {w}
      BY <3>1 DEF Waiting, Ready, TypeOK
    <3>3. Len(dequeue_') = Len(dequeue_) + 1
      BY <1>6, AppendProperties DEF Run, TypeOK
    <3>4. Cardinality(Ready') = Cardinality(Ready) + 1
      BY <1>a, <3>2, OneMore
    <3>5. owner' \notin {"joining", "stopped"}
      BY <1>6, <2>2 DEF Run
    <3>6. QED
      BY <1>a, <1>b, <2>2, <3>3, <3>4, <3>5
  <2>3. QED
    BY <2>1, <2>2
<1>7. ASSUME NEW w \in Workers, TestRunning(w)
      PROVE  NoWorkerSleepsInVain'
  <2>1. Waiting' = Waiting
    BY <1>7 DEF TestRunning, Waiting, TypeOK
  <2>2. CASE running_
    <3>1. Ready' = Ready
      BY <1>7, <2>2 DEF TestRunning, Ready, TypeOK
    <3>2. QED
      BY <1>7, <2>1, <3>1 DEF TestRunning
  <2>3. CASE ~running_
    (* w was started, so the pool has been: it is the stopped one. *)
    <3>1. owner \in {"joining", "stopped"}
      BY <1>7, <2>3 DEF TestRunning, TypeOK
    <3>2. QED
      BY <2>1, <3>1
  <2>4. QED
    BY <2>2, <2>3
<1>8. ASSUME NEW w \in Workers, Wait(w)
      PROVE  NoWorkerSleepsInVain'
  <2>1. Len(dequeue_') = 0
    BY <1>8 DEF Wait
  <2>2. Cardinality(Ready') \in Nat
    <3>1. Ready' \in SUBSET Workers
      BY DEF Ready
    <3>2. QED
      BY <3>1, WorkersAreFinite
  <2>3. owner' \notin {"joining", "stopped"}
    BY <1>8 DEF Wait, TypeOK
  <2>4. QED
    BY <2>1, <2>2, <2>3
<1>9. ASSUME NEW w \in Workers, WakesUp(w)
      PROVE  NoWorkerSleepsInVain'
  <2>1. w \notin Ready /\ Ready' = Ready \union {w} /\ w \in Waiting
    BY <1>9 DEF WakesUp, Waiting, Ready, TypeOK
  <2>2. Cardinality(Ready') = Cardinality(Ready) + 1
    BY <1>a, <2>1, OneMore
  <2>3. QED
    BY <1>9, <1>a, <1>b, <2>1, <2>2 DEF WakesUp
<1>10. ASSUME NEW w \in Workers, Take(w)
       PROVE  NoWorkerSleepsInVain'
  <2>1. w \in Ready /\ Ready' = Ready \ {w} /\ Waiting' = Waiting
    BY <1>10 DEF Take, Waiting, Ready, TypeOK
  <2>2. Len(dequeue_') = Len(dequeue_) - 1
    BY <1>10, HeadTailProperties DEF Take, TypeOK
  <2>3. Cardinality(Ready') = Cardinality(Ready) - 1
    BY <1>a, <2>1, OneLess
  <2>4. QED
    BY <1>10, <1>a, <1>b, <2>1, <2>2, <2>3 DEF Take
<1>11. ASSUME NEW w \in Workers, TakeNothing(w)
       PROVE  NoWorkerSleepsInVain'
  <2>1. Waiting' = Waiting /\ Ready' = Ready
    BY <1>11 DEF TakeNothing, Waiting, Ready, TypeOK
  <2>2. QED
    BY <1>11, <2>1 DEF TakeNothing
<1>12. ASSUME NEW w \in Workers, TaskReturns(w)
       PROVE  NoWorkerSleepsInVain'
  <2>1. w \notin Ready /\ Ready' = Ready \union {w} /\ Waiting' = Waiting
    BY <1>12 DEF TaskReturns, Waiting, Ready, TypeOK
  <2>2. Cardinality(Ready') = Cardinality(Ready) + 1
    BY <1>a, <2>1, OneMore
  <2>3. QED
    BY <1>12, <1>a, <1>b, <2>1, <2>2 DEF TaskReturns
<1>13. CASE UNCHANGED vars
  <2>1. Waiting' = Waiting /\ Ready' = Ready
    BY <1>13 DEF vars, Waiting, Ready
  <2>2. QED
    BY <1>13, <2>1 DEF vars
<1>14. QED
  BY <1>1, <1>2, <1>3, <1>4, <1>5, <1>6, <1>7, <1>8, <1>9, <1>10, <1>11,
     <1>12, <1>13 DEF Next, WorkerStep

(* No notification is lost: a worker waits only while each task has another  *)
(* worker coming for it (ThreadPool.cpp:60-62, 86-90), and none waits once   *)
(* stop() has lowered running_ (ThreadPool.cpp:46-49).                       *)
THEOREM NoWorkerSleepsInVainCorrect == Spec => []NoWorkerSleepsInVain
<1>1. Init => NoWorkerSleepsInVain
  <2>1. Init => Waiting = {}
    BY DEF Init, Waiting
  <2>2. QED
    BY <2>1 DEF NoWorkerSleepsInVain
<1>2. QED
  BY <1>1, TypeCorrect, WaitInvStep, PTL DEF Spec

-----------------------------------------------------------------------------
(* BoundedBlockingQueue. *)

LEMMA FollowingIsIndex ==
  ASSUME NEW q, IsQueue(q), NEW i \in 0 .. q.capacity_
  PROVE  /\ Following(q, i) \in 0 .. q.capacity_
         /\ Following(q, i) # i
         /\ Following(q, Following(q, i)) # i
BY DEF IsQueue, Following

(* A new queue is empty and not full. *)
LEMMA NewQueueIsEmpty ==
  ASSUME NEW capacity \in Nat \ {0}
  PROVE  /\ IsQueue(NewQueue(capacity))
         /\ EmptyQueue(NewQueue(capacity)) /\ ~FullQueue(NewQueue(capacity))
BY DEF NewQueue, IsQueue, EmptyQueue, FullQueue, Following

(* A queue that is not full is not full after push_back() either, for the   *)
(* oldest element is given up, nor after pop_front(): so put() never waits  *)
(* (BoundedBlockingQueue.h:126-129, 141-144), and the queue, which is meant *)
(* to block whoever would overrun it, loses elements instead.              *)
THEOREM PutNeverWaits ==
  ASSUME NEW q, IsQueue(q), ~PutWaits(q), NEW value
  PROVE  /\ IsQueue(PushBack(q, value)) /\ ~PutWaits(PushBack(q, value))
         /\ ~TakeWaits(PushBack(q, value))
         /\ ~TakeWaits(q) => IsQueue(PopFront(q)) /\ ~PutWaits(PopFront(q))
<1> DEFINE c == q.capacity_
           f == q.front_
           r == q.rear_
           e == q.data_
           n == Following(q, r)
           d == [i \in DOMAIN e \cup {r} |-> IF i = r THEN value ELSE e[i]]
           s == [q EXCEPT !.data_ = d]
           p == [s EXCEPT !.rear_ = n]
<1>1. c \in Nat /\ 2 <= c /\ f \in 0 .. c /\ r \in 0 .. c /\ n \in 0 .. c
  BY FollowingIsIndex DEF IsQueue
<1>2. f # n
  BY DEF PutWaits, FullQueue
<1>3. q = [capacity_ |-> c, data_ |-> e, front_ |-> f, rear_ |-> r]
  BY DEF IsQueue
<1>4. n = IF r = c THEN 0 ELSE r + 1
  BY DEF Following
<1> HIDE DEF c, f, r, e, n, d
<1>5. p = [capacity_ |-> c, data_ |-> d, front_ |-> f, rear_ |-> n]
  <2>1. s = [capacity_ |-> c, data_ |-> d, front_ |-> f, rear_ |-> r]
    BY <1>3
  <2> HIDE DEF s
  <2> QED
    BY <2>1
<1>6. PushBack(q, value) = IF FullQueue(p) THEN PopFront(p) ELSE p
  BY DEF PushBack, d, e, n, r
<1> HIDE DEF p
<1>7. ASSUME FullQueue(p)
      PROVE  IsQueue(PushBack(q, value)) /\ ~PutWaits(PushBack(q, value)) /\ ~TakeWaits(PushBack(q, value))
  <2> DEFINE g == IF f = c THEN 0 ELSE f + 1
             x == [capacity_ |-> c, data_ |-> d, front_ |-> g, rear_ |-> n]
  <2>1. PopFront(p) = x
    BY <1>5 DEF PopFront, Following
  <2>2. f = IF n = c THEN 0 ELSE n + 1
    BY <1>5, <1>7 DEF FullQueue, Following
  <2>3. g \in 0 .. c /\ g # n /\ g # (IF n = c THEN 0 ELSE n + 1)
    BY <1>1, <2>2
  <2>4. IsQueue(x) /\ ~FullQueue(x) /\ ~EmptyQueue(x)
    BY <1>1, <2>3 DEF IsQueue, FullQueue, EmptyQueue, Following
  <2> HIDE DEF x
  <2>5. PushBack(q, value) = x
    BY <1>6, <1>7, <2>1
  <2> QED
    BY <2>4, <2>5 DEF PutWaits, TakeWaits
<1>8. ASSUME ~FullQueue(p)
      PROVE  IsQueue(PushBack(q, value)) /\ ~PutWaits(PushBack(q, value)) /\ ~TakeWaits(PushBack(q, value))
  <2>1. PushBack(q, value) = p
    BY <1>6, <1>8
  <2>2. IsQueue(p)
    BY <1>1, <1>5 DEF IsQueue
  <2>3. ~EmptyQueue(p)
    BY <1>2, <1>5 DEF EmptyQueue
  <2> QED
    BY <1>8, <2>1, <2>2, <2>3 DEF PutWaits, TakeWaits
<1>9. ASSUME ~TakeWaits(q)
      PROVE  IsQueue(PopFront(q)) /\ ~PutWaits(PopFront(q))
  <2> DEFINE g == IF f = c THEN 0 ELSE f + 1
             x == [capacity_ |-> c, data_ |-> e, front_ |-> g, rear_ |-> r]
  <2>1. PopFront(q) = x
    BY <1>3 DEF PopFront, Following
  <2>2. f # r
    BY <1>9 DEF TakeWaits, EmptyQueue, f, r
  <2>3. g \in 0 .. c /\ g # (IF r = c THEN 0 ELSE r + 1)
    BY <1>1, <2>2
  <2>4. IsQueue(x) /\ ~FullQueue(x)
    BY <1>1, <2>3 DEF IsQueue, FullQueue, Following
  <2> HIDE DEF x
  <2> QED
    BY <2>1, <2>4 DEF PutWaits
<1>10. IsQueue(PushBack(q, value)) /\ ~PutWaits(PushBack(q, value)) /\ ~TakeWaits(PushBack(q, value))
  BY <1>7, <1>8
<1> QED
  BY <1>9, <1>10
-----------------------------------------------------------------------------
(* Monitors, and the threads that call BlockingQueue and CountDownLatch. *)

Calls == {"put", "take", "wait", "countDown"}
Places == {"none", "lock", "body", "waiting", "unlock"}

ThreadsTypeOK ==
  /\ mutex_ \in [Monitors -> Threads \union {Nobody}]
  /\ holder_ \in [Monitors -> Threads \union {Nobody}]
  /\ cond_ \in [Monitors -> SUBSET Threads]
  /\ thread \in [Threads -> {"new", "started", "failed", "ended", "joined"}]
  /\ call \in [Threads -> Calls \union {"none"}]
  /\ at \in [Threads -> Places]
  /\ \A t \in Threads : at[t] = "none" <=> call[t] = "none"
  /\ waited \subseteq Threads
  /\ calls \in [Threads -> Nat]
  /\ queue_ \in Seq(Nat) /\ put \in Nat /\ took \in Seq(Nat)
  /\ count_ \in Int

(* Where a thread is in its critical section, pthread agrees. *)
Inside ==
  \A m \in Monitors, t \in Threads :
    /\ mutex_[m] = t <=> at[t] \in {"body", "unlock"} /\ MonitorOf(call[t]) = m
    /\ t \in cond_[m] => at[t] = "waiting" /\ MonitorOf(call[t]) = m

Sleepers ==
  \A t \in Threads :
    at[t] = "waiting" => t \in waited /\ call[t] \in {"take", "wait"}

ThreadsInv == ThreadsTypeOK /\ Inside /\ Sleepers /\ HolderHasTheMutexOrWaits

USE DEF monitorVars, callVars, dataVars

LEMMA MonitorTypes ==
  /\ \A c : MonitorOf(c) \in Monitors
  /\ "queue" \in Monitors /\ "latch" \in Monitors
  /\ \A t \in Threads : t # Nobody
BY BaseThreadsAssumption, MonitorAssumption DEF MonitorOf

LEMMA NotifyWakes ==
  ASSUME ThreadsTypeOK, NEW m \in Monitors, Notify(m) \/ NotifyAll(m)
  PROVE  /\ cond_' \in [Monitors -> SUBSET Threads]
         /\ \A n \in Monitors : cond_'[n] \subseteq cond_[n]
         /\ \A n \in Monitors : n # m => cond_'[n] = cond_[n]
         /\ UNCHANGED <<mutex_, holder_>>
<1>1. cond_ \in [Monitors -> SUBSET Threads]
  BY DEF ThreadsTypeOK
<1>2. PICK s : s \subseteq cond_[m] /\ cond_' = [cond_ EXCEPT ![m] = s]
  <2>1. CASE NotifyAll(m)
    BY <1>1, <2>1 DEF NotifyAll
  <2>2. CASE Notify(m) /\ cond_[m] = {}
    <3>1. cond_' = [cond_ EXCEPT ![m] = {}]
      BY <1>1, <2>2 DEF Notify
    <3>2. QED
      BY <3>1
  <2>3. CASE Notify(m) /\ cond_[m] # {}
    <3>1. PICK t \in cond_[m] : cond_' = [cond_ EXCEPT ![m] = @ \ {t}]
      BY <2>3 DEF Notify
    <3>2. QED
      BY <3>1
  <2>4. QED
    BY <2>1, <2>2, <2>3
<1>3. UNCHANGED <<mutex_, holder_>>
  BY DEF Notify, NotifyAll
<1>4. QED
  BY <1>1, <1>2, <1>3

LEMMA ThreadsTypeStep == ThreadsTypeOK /\ [ThreadsNext]_threadsVars => ThreadsTypeOK'
<1> SUFFICES ASSUME ThreadsTypeOK, [ThreadsNext]_threadsVars PROVE ThreadsTypeOK'
  OBVIOUS
<1> USE MonitorTypes DEF Calls, Places
<1>1. ASSUME NEW t \in Threads, ThreadStarts(t) PROVE ThreadsTypeOK'
  BY <1>1 DEF ThreadStarts, ThreadsTypeOK
<1>2. ASSUME NEW t \in Threads, ThreadEnds(t) PROVE ThreadsTypeOK'
  BY <1>2 DEF ThreadEnds, ThreadsTypeOK
<1>3. ASSUME NEW t \in Threads, ThreadIsJoined(t) PROVE ThreadsTypeOK'
  BY <1>3 DEF ThreadIsJoined, ThreadsTypeOK
<1>4. ASSUME NEW t \in Threads, NEW c \in Calls, Begins(t, c) PROVE ThreadsTypeOK'
  BY <1>4 DEF Begins, ThreadsTypeOK
<1>5. ASSUME NEW t \in Threads, Locks(t) PROVE ThreadsTypeOK'
  BY <1>5 DEF Locks, Lock, ThreadsTypeOK
<1>6. ASSUME NEW t \in Threads, Unlocks(t) PROVE ThreadsTypeOK'
  BY <1>6 DEF Unlocks, Unlock, ThreadsTypeOK
<1>7. ASSUME NEW t \in Threads, Waits(t) PROVE ThreadsTypeOK'
  BY <1>7 DEF Waits, CondWait, ThreadsTypeOK
<1>8. ASSUME NEW t \in Threads, Relocks(t) PROVE ThreadsTypeOK'
  BY <1>8 DEF Relocks, CondReturns, ThreadsTypeOK
<1>9. ASSUME NEW t \in Threads, Wakes(t) PROVE ThreadsTypeOK'
  BY <1>9 DEF Wakes, CondWakes, ThreadsTypeOK
<1>10. ASSUME NEW t \in Threads, PutElement(t) PROVE ThreadsTypeOK'
  <2>1. put' \in Nat /\ queue_' \in Seq(Nat)
    <3>1. put' = put + 1 /\ put + 1 \in Nat /\ queue_' = Append(queue_, put + 1)
      BY <1>10 DEF PutElement, ThreadsTypeOK
    <3>2. Append(queue_, put + 1) \in Seq(Nat)
      BY <3>1, AppendProperties DEF ThreadsTypeOK
    <3>3. QED
      BY <3>1, <3>2
  <2>2. cond_' \in [Monitors -> SUBSET Threads] /\ UNCHANGED <<mutex_, holder_>>
    BY <1>10, NotifyWakes DEF PutElement
  <2>3. QED
    BY <1>10, <2>1, <2>2 DEF PutElement, BodyEnds, ThreadsTypeOK
<1>11. ASSUME NEW t \in Threads, TakeElement(t) PROVE ThreadsTypeOK'
  <2>1. Head(queue_) \in Nat /\ queue_' \in Seq(Nat)
    BY <1>11, HeadTailProperties DEF TakeElement, ThreadsTypeOK
  <2>2. took' \in Seq(Nat)
    BY <1>11, <2>1, AppendProperties DEF TakeElement, ThreadsTypeOK
  <2>3. QED
    BY <1>11, <2>1, <2>2 DEF TakeElement, BodyEnds, ThreadsTypeOK
<1>12. ASSUME NEW t \in Threads, WaitEnds(t) PROVE ThreadsTypeOK'
  BY <1>12 DEF WaitEnds, BodyEnds, ThreadsTypeOK
<1>13. ASSUME NEW t \in Threads, CountDown(t) PROVE ThreadsTypeOK'
  <2>1. count_' \in Int
    BY <1>13 DEF CountDown, ThreadsTypeOK
  <2>2. cond_' \in [Monitors -> SUBSET Threads] /\ UNCHANGED <<mutex_, holder_>>
    BY <1>13, NotifyWakes DEF CountDown, ThreadsTypeOK
  <2>3. QED
    BY <1>13, <2>1, <2>2 DEF CountDown, BodyEnds, ThreadsTypeOK
<1>14. CASE UNCHANGED threadsVars
  BY <1>14 DEF threadsVars, ThreadsTypeOK
<1>15. QED
  BY <1>1, <1>2, <1>3, <1>4, <1>5, <1>6, <1>7, <1>8, <1>9, <1>10, <1>11, <1>12, <1>13, <1>14
     DEF ThreadsNext, ThreadStep

LEMMA ThreadsInvStep == ThreadsInv /\ [ThreadsNext]_threadsVars => ThreadsInv'
<1> SUFFICES ASSUME ThreadsTypeOK, Inside, Sleepers, HolderHasTheMutexOrWaits,
                    [ThreadsNext]_threadsVars
             PROVE  Inside' /\ Sleepers' /\ HolderHasTheMutexOrWaits'
  BY ThreadsTypeStep DEF ThreadsInv
<1> USE MonitorTypes DEF Calls, Places
<1>1. ASSUME NEW t \in Threads, ThreadStarts(t) \/ ThreadEnds(t) \/ ThreadIsJoined(t)
      PROVE  Inside' /\ Sleepers' /\ HolderHasTheMutexOrWaits'
  BY <1>1 DEF ThreadStarts, ThreadEnds, ThreadIsJoined, Inside, Sleepers,
              HolderHasTheMutexOrWaits, IsLockedByThisThread
<1>2. ASSUME NEW t \in Threads, NEW c \in Calls, Begins(t, c)
      PROVE  Inside' /\ Sleepers' /\ HolderHasTheMutexOrWaits'
  BY <1>2 DEF Begins, ThreadsTypeOK, Inside, Sleepers, HolderHasTheMutexOrWaits,
              IsLockedByThisThread
<1>3. ASSUME NEW t \in Threads, Locks(t)
      PROVE  Inside' /\ Sleepers' /\ HolderHasTheMutexOrWaits'
  BY <1>3 DEF Locks, Lock, ThreadsTypeOK, Inside, Sleepers, HolderHasTheMutexOrWaits,
              IsLockedByThisThread
<1>4. ASSUME NEW t \in Threads, Unlocks(t)
      PROVE  Inside' /\ Sleepers' /\ HolderHasTheMutexOrWaits'
  BY <1>4 DEF Unlocks, Unlock, ThreadsTypeOK, Inside, Sleepers, HolderHasTheMutexOrWaits,
              IsLockedByThisThread
<1>5. ASSUME NEW t \in Threads, Waits(t)
      PROVE  Inside' /\ Sleepers' /\ HolderHasTheMutexOrWaits'
  BY <1>5 DEF Waits, CondWait, ThreadsTypeOK, Inside, Sleepers, HolderHasTheMutexOrWaits,
              IsLockedByThisThread
<1>6. ASSUME NEW t \in Threads, Wakes(t)
      PROVE  Inside' /\ Sleepers' /\ HolderHasTheMutexOrWaits'
  BY <1>6 DEF Wakes, CondWakes, ThreadsTypeOK, Inside, Sleepers, HolderHasTheMutexOrWaits,
              IsLockedByThisThread
<1>7. ASSUME NEW t \in Threads, Relocks(t)
      PROVE  Inside' /\ Sleepers' /\ HolderHasTheMutexOrWaits'
  BY <1>7 DEF Relocks, CondReturns, ThreadsTypeOK, Inside, Sleepers,
              HolderHasTheMutexOrWaits, IsLockedByThisThread
<1>8. ASSUME NEW t \in Threads, at[t] = "body", BodyEnds(t), UNCHANGED <<mutex_, holder_>>,
             cond_' \in [Monitors -> SUBSET Threads],
             \A m \in Monitors : cond_'[m] \subseteq cond_[m]
      PROVE  Inside' /\ Sleepers' /\ HolderHasTheMutexOrWaits'
  BY <1>8 DEF BodyEnds, ThreadsTypeOK, Inside, Sleepers, HolderHasTheMutexOrWaits,
              IsLockedByThisThread
<1>9. ASSUME NEW t \in Threads,
             PutElement(t) \/ TakeElement(t) \/ WaitEnds(t) \/ CountDown(t)
      PROVE  Inside' /\ Sleepers' /\ HolderHasTheMutexOrWaits'
  <2>1. at[t] = "body" /\ BodyEnds(t) /\ UNCHANGED <<mutex_, holder_>>
    BY <1>9, NotifyWakes DEF PutElement, TakeElement, WaitEnds, CountDown
  <2>2. /\ cond_' \in [Monitors -> SUBSET Threads]
        /\ \A m \in Monitors : cond_'[m] \subseteq cond_[m]
    BY <1>9, NotifyWakes DEF PutElement, TakeElement, WaitEnds, CountDown, ThreadsTypeOK
  <2>3. QED
    BY <1>8, <2>1, <2>2
<1>10. CASE UNCHANGED threadsVars
  BY <1>10 DEF threadsVars, Inside, Sleepers, HolderHasTheMutexOrWaits, IsLockedByThisThread
<1>11. QED
  BY <1>1, <1>2, <1>3, <1>4, <1>5, <1>6, <1>7, <1>9, <1>10 DEF ThreadsNext, ThreadStep

(* Monitors and critical sections agree, through waits that wake for no      *)
(* reason, notifications and the calls of any number of threads.             *)
THEOREM ThreadsInvCorrect == ThreadsSpec => []ThreadsInv
<1>1. ThreadsInit => ThreadsInv
  <2> SUFFICES ASSUME ThreadsInit PROVE ThreadsInv
    OBVIOUS
  <2>1. ThreadsTypeOK
    <3>1. queue_ \in Seq(Nat) /\ took \in Seq(Nat) /\ put \in Nat /\ count_ \in Int
      BY BaseThreadsAssumption DEF ThreadsInit
    <3>2. /\ mutex_ \in [Monitors -> Threads \union {Nobody}]
          /\ holder_ \in [Monitors -> Threads \union {Nobody}]
          /\ cond_ \in [Monitors -> SUBSET Threads]
      BY DEF ThreadsInit, MonitorInit
    <3>3. /\ thread \in [Threads -> {"new", "started", "failed", "ended", "joined"}]
          /\ call \in [Threads -> Calls \union {"none"}]
          /\ at \in [Threads -> Places] /\ calls \in [Threads -> Nat]
          /\ \A t \in Threads : at[t] = "none" <=> call[t] = "none"
          /\ waited \subseteq Threads
      BY DEF ThreadsInit, Calls, Places
    <3>4. QED
      BY <3>1, <3>2, <3>3 DEF ThreadsTypeOK
  <2>2. Inside /\ Sleepers /\ HolderHasTheMutexOrWaits
    BY MonitorTypes DEF ThreadsInit, MonitorInit, Inside, Sleepers,
       HolderHasTheMutexOrWaits, IsLockedByThisThread
  <2>3. QED
    BY <2>1, <2>2 DEF ThreadsInv
<1>2. QED
  BY <1>1, ThreadsInvStep, PTL DEF ThreadsSpec

(* A thread that has the mutex is its holder_ unless it has waited since,    *)
(* and a holder_ has it or waits (HolderHasTheMutexOrWaits).                 *)
THEOREM HolderCorrect == ThreadsSpec => []HolderHasTheMutexOrWaits
<1>1. ThreadsInv => HolderHasTheMutexOrWaits
  BY DEF ThreadsInv
<1>2. QED
  BY <1>1, ThreadsInvCorrect, PTL

-----------------------------------------------------------------------------
(* The elements of a BlockingQueue. *)

(* Those who will take one: they are awake inside take().                    *)
Takers ==
  {t \in Threads \ cond_["queue"] : call[t] = "take" /\ at[t] \in {"body", "waiting"}}

InOrder == took \o queue_ = [i \in 1..put |-> i]
Attended == cond_["queue"] # {} => Len(queue_) <= Cardinality(Takers)

LEMMA Numbered ==
  ASSUME NEW n \in Nat
  PROVE  Append([i \in 1..n |-> i], n + 1) = [i \in 1..n + 1 |-> i]
<1> DEFINE s == [i \in 1..n |-> i]
           r == [i \in 1..n + 1 |-> i]
<1>1. s \in Seq(Nat) /\ Len(s) = n /\ r \in Seq(Nat) /\ Len(r) = n + 1
  OBVIOUS
<1>2. /\ Append(s, n + 1) \in Seq(Nat) /\ Len(Append(s, n + 1)) = n + 1
      /\ \A i \in 1..n : Append(s, n + 1)[i] = s[i]
      /\ Append(s, n + 1)[n + 1] = n + 1
  BY <1>1, AppendProperties
<1>3. ASSUME NEW i \in 1..n + 1 PROVE Append(s, n + 1)[i] = r[i]
  <2>1. i = n + 1 \/ i \in 1..n
    OBVIOUS
  <2>2. QED
    BY <1>2, <2>1
<1>4. QED
  BY <1>1, <1>2, <1>3, SeqEqual

LEMMA AppendConcatenation ==
  ASSUME NEW s \in Seq(Nat), NEW r \in Seq(Nat), NEW e \in Nat
  PROVE  s \o Append(r, e) = Append(s \o r, e)
OBVIOUS

LEMMA HeadMoves ==
  ASSUME NEW s \in Seq(Nat), NEW r \in Seq(Nat), r # <<>>
  PROVE  Append(s, Head(r)) \o Tail(r) = s \o r
OBVIOUS

LEMMA InOrderStep == ThreadsTypeOK /\ InOrder /\ [ThreadsNext]_threadsVars => InOrder'
<1> SUFFICES ASSUME ThreadsTypeOK, InOrder, [ThreadsNext]_threadsVars PROVE InOrder'
  OBVIOUS
<1>1. CASE UNCHANGED <<queue_, put, took>>
  BY <1>1 DEF InOrder
<1>2. ASSUME NEW t \in Threads, PutElement(t) PROVE InOrder'
  <2>1. put' = put + 1 /\ queue_' = Append(queue_, put + 1) /\ took' = took
    BY <1>2 DEF PutElement
  <2>2. took \o Append(queue_, put + 1) = Append(took \o queue_, put + 1)
    BY AppendConcatenation DEF ThreadsTypeOK
  <2>3. Append(took \o queue_, put + 1) = [i \in 1..put + 1 |-> i]
    BY Numbered DEF InOrder, ThreadsTypeOK
  <2>4. QED
    BY <2>1, <2>2, <2>3 DEF InOrder
<1>3. ASSUME NEW t \in Threads, TakeElement(t) PROVE InOrder'
  <2>1. /\ put' = put /\ queue_ # <<>> /\ queue_' = Tail(queue_)
        /\ took' = Append(took, Head(queue_))
    BY <1>3 DEF TakeElement
  <2>2. Append(took, Head(queue_)) \o Tail(queue_) = took \o queue_
    BY <2>1, HeadMoves DEF ThreadsTypeOK
  <2>3. QED
    BY <2>1, <2>2 DEF InOrder
<1>4. QED
  BY <1>1, <1>2, <1>3
     DEF ThreadsNext, ThreadStep, ThreadStarts, ThreadEnds, ThreadIsJoined, Begins, Locks,
         Unlocks, Waits, Wakes, Relocks, WaitEnds, CountDown, threadsVars

LEMMA AttendedStep == ThreadsInv /\ Attended /\ [ThreadsNext]_threadsVars => Attended'
<1> SUFFICES ASSUME ThreadsTypeOK, ThreadsTypeOK', Inside, Sleepers, Attended,
                    [ThreadsNext]_threadsVars
             PROVE  Attended'
  BY ThreadsTypeStep DEF ThreadsInv
<1> USE MonitorTypes DEF Calls, Places
<1>1. /\ IsFiniteSet(Takers) /\ Cardinality(Takers) \in Nat /\ Len(queue_) \in Nat
      /\ IsFiniteSet(Takers') /\ Cardinality(Takers') \in Nat
  <2>1. Takers \subseteq Threads /\ Takers' \subseteq Threads
    BY DEF Takers
  <2>2. QED
    BY <2>1, MonitorAssumption, FS_Subset, FS_CardinalityType DEF ThreadsTypeOK
<1>2. ASSUME cond_'["queue"] \subseteq cond_["queue"], Takers \subseteq Takers',
             UNCHANGED queue_
      PROVE  Attended'
  <2>1. Cardinality(Takers) <= Cardinality(Takers')
    BY <1>1, <1>2, FS_Subset
  <2>2. QED
    BY <1>1, <1>2, <2>1 DEF Attended
<1>3. ASSUME NEW t \in Threads,
             ThreadStarts(t) \/ ThreadEnds(t) \/ ThreadIsJoined(t)
               \/ \E c \in Calls : Begins(t, c)
      PROVE  Attended'
  BY <1>2, <1>3 DEF ThreadStarts, ThreadEnds, ThreadIsJoined, Begins, Takers, ThreadsTypeOK
<1>4. ASSUME NEW t \in Threads, Locks(t) PROVE Attended'
  BY <1>2, <1>4 DEF Locks, Lock, Takers, ThreadsTypeOK
<1>5. ASSUME NEW t \in Threads, Unlocks(t) PROVE Attended'
  BY <1>2, <1>5 DEF Unlocks, Unlock, Takers, ThreadsTypeOK
<1>6. ASSUME NEW t \in Threads, Wakes(t) PROVE Attended'
  BY <1>2, <1>6 DEF Wakes, CondWakes, Takers, ThreadsTypeOK
<1>7. ASSUME NEW t \in Threads, Relocks(t) PROVE Attended'
  BY <1>2, <1>7 DEF Relocks, CondReturns, Takers, ThreadsTypeOK
<1>8. ASSUME NEW t \in Threads, WaitEnds(t) \/ CountDown(t) PROVE Attended'
  <2>1. cond_'["queue"] = cond_["queue"] /\ UNCHANGED <<call, queue_>>
    BY <1>8, NotifyWakes DEF WaitEnds, CountDown, BodyEnds
  <2>2. /\ call[t] # "take"
        /\ \A r \in Threads : r # t => at'[r] = at[r]
    BY <1>8 DEF WaitEnds, CountDown, BodyEnds, ThreadsTypeOK
  <2>3. QED
    BY <1>2, <2>1, <2>2 DEF Takers
<1>9. ASSUME NEW t \in Threads, Waits(t) PROVE Attended'
  <2>1. CASE call[t] = "take"
    <3>1. queue_' = <<>>
      BY <1>9, <2>1 DEF Waits
    <3>2. QED
      BY <1>1, <3>1 DEF Attended
  <2>2. CASE call[t] # "take"
    <3>1. MonitorOf(call[t]) = "latch" /\ UNCHANGED <<call, queue_>>
      BY <1>9, <2>2 DEF Waits, MonitorOf
    <3>2. cond_'["queue"] = cond_["queue"]
      BY <1>9, <3>1 DEF Waits, CondWait, ThreadsTypeOK
    <3>3. Takers \subseteq Takers'
      BY <1>9, <2>2, <3>1, <3>2 DEF Waits, Takers, ThreadsTypeOK
    <3>4. QED
      BY <1>2, <3>1, <3>2, <3>3
  <2>3. QED
    BY <2>1, <2>2
<1>10. ASSUME NEW t \in Threads, PutElement(t) PROVE Attended'
  <2>1. CASE cond_["queue"] = {}
    BY <1>10, <2>1 DEF PutElement, Notify, Attended
  <2>2. CASE cond_["queue"] # {}
    <3>1. PICK s \in cond_["queue"] : cond_' = [cond_ EXCEPT !["queue"] = @ \ {s}]
      BY <1>10, <2>2 DEF PutElement, Notify
    <3>2. /\ s \in Threads /\ at[s] = "waiting" /\ call[s] = "take"
      BY <3>1, ZenonT(30) DEF ThreadsTypeOK, Inside, Sleepers, MonitorOf
    <3>3. cond_'["queue"] = cond_["queue"] \ {s}
      BY <3>1 DEF ThreadsTypeOK
    <3>4. /\ call[t] = "put" /\ call' = call
          /\ \A r \in Threads : r # t => at'[r] = at[r]
      BY <1>10 DEF PutElement, BodyEnds, ThreadsTypeOK
    <3>5. s \notin Takers /\ Takers \union {s} \subseteq Takers'
      BY <3>1, <3>2, <3>3, <3>4 DEF Takers
    <3>6. Cardinality(Takers \union {s}) = Cardinality(Takers) + 1
      BY <1>1, <3>5, FS_AddElement
    <3>7. Cardinality(Takers \union {s}) <= Cardinality(Takers')
      BY <1>1, <3>5, FS_Subset
    <3>8. Len(queue_') = Len(queue_) + 1
      BY <1>10 DEF PutElement, ThreadsTypeOK
    <3>9. Len(queue_) <= Cardinality(Takers)
      BY <2>2 DEF Attended
    <3>10. QED
      BY <1>1, <3>6, <3>7, <3>8, <3>9 DEF Attended
  <2>3. QED
    BY <2>1, <2>2
<1>11. ASSUME NEW t \in Threads, TakeElement(t) PROVE Attended'
  <2>1. /\ call[t] = "take" /\ at[t] = "body" /\ call' = call /\ cond_' = cond_
        /\ \A r \in Threads : r # t => at'[r] = at[r]
    BY <1>11 DEF TakeElement, BodyEnds, ThreadsTypeOK
  <2>2. t \in Takers /\ Takers \ {t} \subseteq Takers'
    BY <2>1 DEF Takers, Inside
  <2>3. Cardinality(Takers \ {t}) = Cardinality(Takers) - 1 /\ IsFiniteSet(Takers \ {t})
    BY <1>1, <2>2, FS_RemoveElement
  <2>4. Cardinality(Takers \ {t}) <= Cardinality(Takers')
    BY <1>1, <2>2, <2>3, FS_Subset
  <2>5. Len(queue_') = Len(queue_) - 1
    BY <1>11 DEF TakeElement, ThreadsTypeOK
  <2>6. QED
    BY <1>1, <2>1, <2>3, <2>4, <2>5 DEF Attended
<1>12. CASE UNCHANGED threadsVars
  BY <1>12 DEF threadsVars, Attended, Takers
<1>13. QED
  BY <1>3, <1>4, <1>5, <1>6, <1>7, <1>8, <1>9, <1>10, <1>11, <1>12
     DEF ThreadsNext, ThreadStep, Calls

(* Elements of a BlockingQueue leave it in the order in which they came,     *)
(* each once, and no taker sleeps on one, for any number of threads that put *)
(* and take (ElementsAreTakenInOrder).                                       *)
THEOREM ElementsCorrect == ThreadsSpec => []ElementsAreTakenInOrder
<1>1. ThreadsInit => InOrder /\ Attended
  <2> SUFFICES ASSUME ThreadsInit PROVE InOrder /\ Attended
    OBVIOUS
  <2>1. took \o queue_ = <<>> /\ put = 0 /\ cond_["queue"] = {}
    BY MonitorTypes DEF ThreadsInit, MonitorInit
  <2>2. [i \in 1..0 |-> i] = <<>>
    OBVIOUS
  <2>3. QED
    BY <2>1, <2>2 DEF InOrder, Attended
<1>2. InOrder /\ Attended => ElementsAreTakenInOrder
  BY DEF InOrder, Attended, Takers, ElementsAreTakenInOrder
<1>3. ThreadsInv => ThreadsTypeOK
  BY DEF ThreadsInv
<1>4. QED
  BY <1>1, <1>2, <1>3, ThreadsInvCorrect, InOrderStep, AttendedStep, PTL DEF ThreadsSpec
-----------------------------------------------------------------------------
(* AsyncLogging. *)

(* Current, next and the two spare buffers, the full ones and those being    *)
(* written are all different; only the current one is always there.          *)
OneEach(c, n, a, b, s, w) ==
  /\ c \in Buffers /\ {n, a, b} \subseteq Buffers \union {Null}
  /\ s \in Seq(Buffers) /\ w \in Seq(Buffers)
  /\ c \notin {n, a, b}
  /\ n # Null => n \notin {a, b}
  /\ a # Null => a # b
  /\ \A i \in 1..Len(s) : s[i] \notin {c, n, a, b}
  /\ \A i \in 1..Len(w) : w[i] \notin {c, n, a, b}
  /\ \A i, j \in 1..Len(s) : s[i] = s[j] => i = j
  /\ \A i, j \in 1..Len(w) : w[i] = w[j] => i = j
  /\ \A i \in 1..Len(s), j \in 1..Len(w) : s[i] # w[j]

LEMMA NullIsNoBuffer == Null \notin Buffers
BY DEF Null, Buffers

LEMMA AppendedBuffer ==
  ASSUME NEW s \in Seq(Buffers), NEW c \in Buffers
  PROVE  /\ Append(s, c) \in Seq(Buffers)
         /\ Len(Append(s, c)) = Len(s) + 1 /\ Len(s) \in Nat
         /\ \A i \in 1..Len(s) + 1 :
              \/ i = Len(s) + 1 /\ Append(s, c)[i] = c
              \/ i \in 1..Len(s) /\ Append(s, c)[i] = s[i]
<1>1. /\ Append(s, c) \in Seq(Buffers) /\ Len(Append(s, c)) = Len(s) + 1
      /\ \A i \in 1..Len(s) : Append(s, c)[i] = s[i]
      /\ Append(s, c)[Len(s) + 1] = c
  BY AppendProperties
<1>2. Len(s) \in Nat
  OBVIOUS
<1>3. \A i \in 1..Len(s) + 1 : i = Len(s) + 1 \/ i \in 1..Len(s)
  BY <1>2
<1>4. QED
  BY <1>1, <1>2, <1>3

(* append(): the current buffer is full, another takes its place. *)
LEMMA FullBuffer ==
  ASSUME NEW c, NEW n, NEW a, NEW b, NEW s, NEW w, OneEach(c, n, a, b, s, w),
         NEW d \in Buffers,
         \/ d = n
         \/ /\ d \notin {c, n, a, b}
            /\ \A i \in 1..Len(s) : s[i] # d
            /\ \A i \in 1..Len(w) : w[i] # d
  PROVE  OneEach(d, Null, a, b, Append(s, c), w)
<1> DEFINE r == Append(s, c)
<1>1. /\ s \in Seq(Buffers) /\ c \in Buffers
      /\ d # Null /\ d # c /\ d \notin {a, b}
      /\ \A i \in 1..Len(s) : s[i] # d
      /\ \A i \in 1..Len(w) : w[i] # d
  BY NullIsNoBuffer DEF OneEach
<1>2. /\ r \in Seq(Buffers) /\ Len(r) = Len(s) + 1
      /\ \A i \in 1..Len(s) + 1 : \/ i = Len(s) + 1 /\ r[i] = c
                                  \/ i \in 1..Len(s) /\ r[i] = s[i]
  BY <1>1, AppendedBuffer
<1> HIDE DEF r
<1>3. \A i \in 1..Len(w) : w[i] \in Buffers
  BY ElementOfSeq DEF OneEach
<1>4. \A i \in 1..Len(s) : s[i] \in Buffers
  BY ElementOfSeq DEF OneEach
<1>5. \A i \in 1..Len(r) : r[i] \notin {d, Null, a, b}
  BY <1>1, <1>2, <1>4, NullIsNoBuffer DEF OneEach
<1>6. \A i \in 1..Len(w) : w[i] \notin {d, Null, a, b}
  BY <1>1, <1>3, NullIsNoBuffer DEF OneEach
<1>7. \A i, j \in 1..Len(r) : r[i] = r[j] => i = j
  BY <1>2 DEF OneEach
<1>8. \A i \in 1..Len(r), j \in 1..Len(w) : r[i] # w[j]
  BY <1>2 DEF OneEach
<1>9. QED
  BY <1>1, <1>2, <1>5, <1>6, <1>7, <1>8 DEF OneEach, r

(* threadFunction() begins with two new ones. *)
LEMMA SpareBuffers ==
  ASSUME NEW c, NEW n, NEW s, OneEach(c, n, Null, Null, s, <<>>),
         NEW d \in Buffers, NEW e \in Buffers, d # e, d \notin {c, n}, e \notin {c, n},
         \A i \in 1..Len(s) : s[i] \notin {d, e}
  PROVE  OneEach(c, n, d, e, s, <<>>)
<1>1. Len(<<>>) = 0 /\ <<>> \in Seq(Buffers)
  OBVIOUS
<1>2. \A i \in 1..Len(s) : s[i] \notin {c, n, d, e}
  BY DEF OneEach
<1>3. c \notin {n, d, e} /\ (n # Null => n \notin {d, e})
  BY DEF OneEach
<1>4. QED
  BY <1>1, <1>2, <1>3 DEF OneEach

(* The critical section: the full ones and the current one are taken. *)
LEMMA SwappedBuffers ==
  ASSUME NEW c, NEW n, NEW a \in Buffers, NEW b \in Buffers, NEW s,
         OneEach(c, n, a, b, s, <<>>)
  PROVE  /\ n # Null => OneEach(a, n, Null, b, <<>>, Append(s, c))
         /\ OneEach(a, b, Null, Null, <<>>, Append(s, c))
<1> DEFINE r == Append(s, c)
<1>1. s \in Seq(Buffers) /\ c \in Buffers /\ a # Null /\ b # Null
  BY NullIsNoBuffer DEF OneEach
<1>2. /\ r \in Seq(Buffers) /\ Len(r) = Len(s) + 1
      /\ \A i \in 1..Len(s) + 1 : \/ i = Len(s) + 1 /\ r[i] = c
                                  \/ i \in 1..Len(s) /\ r[i] = s[i]
  BY <1>1, AppendedBuffer
<1> HIDE DEF r
<1>3. \A i \in 1..Len(s) : s[i] \in Buffers
  BY ElementOfSeq DEF OneEach
<1>4. Len(<<>>) = 0 /\ <<>> \in Seq(Buffers)
  OBVIOUS
<1>5. \A i \in 1..Len(r) : r[i] # Null /\ r[i] \notin {a, b, n}
  BY <1>1, <1>2, <1>3, NullIsNoBuffer DEF OneEach
<1>6. \A i, j \in 1..Len(r) : r[i] = r[j] => i = j
  BY <1>2 DEF OneEach
<1>7. a # n /\ a # b /\ (n # Null => n # b) /\ n \in Buffers \union {Null}
  BY <1>1 DEF OneEach
<1>8. n # Null => OneEach(a, n, Null, b, <<>>, r)
  BY <1>1, <1>2, <1>4, <1>5, <1>6, <1>7 DEF OneEach
<1>9. OneEach(a, b, Null, Null, <<>>, r)
  BY <1>1, <1>2, <1>4, <1>5, <1>6, <1>7 DEF OneEach
<1>10. QED
  BY <1>8, <1>9 DEF r

(* The first one is dropped. *)
LEMMA DroppedBuffer ==
  ASSUME NEW c, NEW n, NEW a, NEW b, NEW s, NEW w, OneEach(c, n, a, b, s, w), w # <<>>
  PROVE  OneEach(c, n, a, b, s, Tail(w)) /\ Len(Tail(w)) = Len(w) - 1
<1> DEFINE r == Tail(w)
<1>1. w \in Seq(Buffers) /\ Len(w) \in Nat \ {0}
  BY EmptySeq DEF OneEach
<1>2. /\ r \in Seq(Buffers) /\ Len(r) = Len(w) - 1
      /\ \A i \in 1..Len(r) : r[i] = w[i + 1]
  BY <1>1, HeadTailProperties
<1> HIDE DEF r
<1>3. \A i \in 1..Len(r) : i + 1 \in 1..Len(w) /\ r[i] = w[i + 1]
  BY <1>1, <1>2
<1>4. \A i, j \in 1..Len(r) : r[i] = r[j] => i = j
  <2> TAKE i, j \in 1..Len(r)
  <2>1. r[i] = r[j] => i + 1 = j + 1
    BY <1>3 DEF OneEach
  <2>2. QED
    BY <2>1
<1>5. QED
  BY <1>2, <1>3, <1>4 DEF OneEach, r

(* One or two of those written become the spare ones. *)
LEMMA RecycledBuffers ==
  ASSUME NEW c, NEW n, NEW b, NEW s, NEW w, OneEach(c, n, Null, b, s, w)
  PROVE  /\ \A k \in 1..Len(w) : b # Null => OneEach(c, n, w[k], b, s, <<>>)
         /\ \A j, k \in 1..Len(w) : j # k => OneEach(c, n, w[k], w[j], s, <<>>)
<1>1. Len(<<>>) = 0 /\ <<>> \in Seq(Buffers)
  OBVIOUS
<1>2. \A k \in 1..Len(w) : w[k] \in Buffers
  BY ElementOfSeq DEF OneEach
<1>3. \A k \in 1..Len(w) : b # Null => OneEach(c, n, w[k], b, s, <<>>)
  BY <1>1, <1>2 DEF OneEach
<1>4. \A j, k \in 1..Len(w) : j # k => OneEach(c, n, w[k], w[j], s, <<>>)
  BY <1>1, <1>2 DEF OneEach
<1>5. QED
  BY <1>3, <1>4

(* There is always a Buffer that nobody owns. *)
LEMMA RangeOfSequence ==
  ASSUME NEW s \in Seq(Buffers)
  PROVE  /\ IsFiniteSet(ToSet(s)) /\ Cardinality(ToSet(s)) \in Nat
         /\ Cardinality(ToSet(s)) <= Len(s)
         /\ \A i \in 1..Len(s) : s[i] \in ToSet(s)
<1>1. Len(s) \in Nat /\ DOMAIN s = 1..Len(s)
  OBVIOUS
<1>2. ToSet(s) = {s[i] : i \in 1..Len(s)}
  BY <1>1 DEF ToSet
<1>3. s \in [1..Len(s) -> ToSet(s)]
  <2>1. s = [i \in 1..Len(s) |-> s[i]]
    OBVIOUS
  <2>2. QED
    BY <1>2, <2>1
<1>4. s \in Surjection(1..Len(s), ToSet(s))
  BY <1>2, <1>3 DEF Surjection
<1>5. IsFiniteSet(1..Len(s)) /\ Cardinality(1..Len(s)) = Len(s)
  BY <1>1, FS_Interval
<1>6. QED
  BY <1>2, <1>4, <1>5, FS_Surjection, FS_CardinalityType

LEMMA FreshIsNew ==
  ASSUME NEW taken, IsFiniteSet(taken), Cardinality(taken) < 2 * MaxFull + 5
  PROVE  Fresh(taken) \in Buffers /\ Fresh(taken) \notin taken
<1>1. MaxFull \in Nat
  BY AsyncLoggingAssumption
<1>2. IsFiniteSet(Buffers) /\ Cardinality(Buffers) = 2 * MaxFull + 5
  BY <1>1, FS_Interval DEF Buffers
<1>3. ~(Buffers \subseteq taken)
  <2>1. Cardinality(taken) \in Nat
    BY FS_CardinalityType
  <2>2. Buffers \subseteq taken => Cardinality(Buffers) <= Cardinality(taken)
    BY FS_Subset
  <2>3. QED
    BY <1>1, <1>2, <2>1, <2>2
<1>4. QED
  BY <1>3 DEF Fresh

LEMMA FewOwned ==
  ASSUME NEW c, NEW a, NEW b, NEW d, NEW s \in Seq(Buffers), NEW w \in Seq(Buffers)
  PROVE  LET owned == {c, a, b, d} \union ToSet(s) \union ToSet(w)
         IN  /\ IsFiniteSet(owned) /\ Cardinality(owned) \in Nat
             /\ Cardinality(owned) <= 4 + Len(s) + Len(w)
             /\ b = d => Cardinality(owned) <= 3 + Len(s) + Len(w)
<1> DEFINE few == {c, a, b, d}
           owned == few \union ToSet(s) \union ToSet(w)
<1>1. /\ IsFiniteSet(few) /\ Cardinality(few) \in Nat /\ Cardinality(few) <= 4
      /\ b = d => Cardinality(few) <= 3
  <2>1. ASSUME NEW S, NEW x, IsFiniteSet(S)
        PROVE  /\ IsFiniteSet(S \union {x})
               /\ Cardinality(S) \in Nat /\ Cardinality(S \union {x}) \in Nat
               /\ Cardinality(S \union {x}) <= Cardinality(S) + 1
    <3>1. /\ IsFiniteSet(S \union {x})
          /\ \/ Cardinality(S \union {x}) = Cardinality(S)
             \/ Cardinality(S \union {x}) = Cardinality(S) + 1
      BY <2>1, FS_AddElement
    <3>2. Cardinality(S) \in Nat
      BY <2>1, FS_CardinalityType
    <3>3. QED
      BY <3>1, <3>2
  <2> DEFINE e1 == {c}
             e2 == e1 \union {a}
             e3 == e2 \union {b}
             e4 == e3 \union {d}
  <2>2. e4 = few /\ (b = d => e3 = few)
    OBVIOUS
  <2>3. IsFiniteSet(e1) /\ Cardinality(e1) = 1
    BY FS_Singleton
  <2> HIDE DEF e1, few
  <2>4. IsFiniteSet(e2) /\ Cardinality(e2) \in 0..2
    <3>1. /\ IsFiniteSet(e2)
          /\ Cardinality(e1) \in Nat /\ Cardinality(e2) \in Nat
          /\ Cardinality(e2) <= Cardinality(e1) + 1
      BY <2>1, <2>3, Zenon
    <3> HIDE DEF e2
    <3>2. QED
      BY <2>3, <3>1
  <2> HIDE DEF e2
  <2>5. IsFiniteSet(e3) /\ Cardinality(e3) \in 0..3
    <3>1. /\ IsFiniteSet(e3)
          /\ Cardinality(e2) \in Nat /\ Cardinality(e3) \in Nat
          /\ Cardinality(e3) <= Cardinality(e2) + 1
      BY <2>1, <2>4, Zenon
    <3> HIDE DEF e3
    <3>2. QED
      BY <2>4, <3>1
  <2> HIDE DEF e3
  <2>6. IsFiniteSet(e4) /\ Cardinality(e4) \in 0..4
    <3>1. /\ IsFiniteSet(e4)
          /\ Cardinality(e3) \in Nat /\ Cardinality(e4) \in Nat
          /\ Cardinality(e4) <= Cardinality(e3) + 1
      BY <2>1, <2>5, Zenon
    <3> HIDE DEF e4
    <3>2. QED
      BY <2>5, <3>1
  <2> HIDE DEF e4
  <2>7. QED
    BY <2>2, <2>5, <2>6, FS_CardinalityType
<1>2. /\ IsFiniteSet(ToSet(s)) /\ Cardinality(ToSet(s)) \in Nat
      /\ Cardinality(ToSet(s)) <= Len(s) /\ Len(s) \in Nat
      /\ IsFiniteSet(ToSet(w)) /\ Cardinality(ToSet(w)) \in Nat
      /\ Cardinality(ToSet(w)) <= Len(w) /\ Len(w) \in Nat
  BY RangeOfSequence
<1> HIDE DEF few
<1>3. ASSUME NEW S, IsFiniteSet(S), NEW T, IsFiniteSet(T)
      PROVE  /\ IsFiniteSet(S \union T)
             /\ Cardinality(S \union T) \in Nat
             /\ Cardinality(S \union T) <= Cardinality(S) + Cardinality(T)
  <2>1. /\ IsFiniteSet(S \union T) /\ IsFiniteSet(S \intersect T)
        /\ Cardinality(S \union T) = Cardinality(S) + Cardinality(T) - Cardinality(S \intersect T)
    BY <1>3, FS_Union, FS_Intersection
  <2>2. /\ Cardinality(S) \in Nat /\ Cardinality(T) \in Nat
        /\ Cardinality(S \intersect T) \in Nat /\ Cardinality(S \union T) \in Nat
    BY <1>3, <2>1, FS_CardinalityType
  <2>3. QED
    BY <2>1, <2>2
<1>4. /\ IsFiniteSet(few \union ToSet(s)) /\ Cardinality(few \union ToSet(s)) \in Nat
      /\ Cardinality(few \union ToSet(s)) <= Cardinality(few) + Cardinality(ToSet(s))
  BY <1>1, <1>2, <1>3, Zenon
<1>5. /\ IsFiniteSet(owned) /\ Cardinality(owned) \in Nat
      /\ Cardinality(owned) <= Cardinality(few \union ToSet(s)) + Cardinality(ToSet(w))
  BY <1>2, <1>3, <1>4, Zenon
<1>6. /\ Cardinality(owned) <= 4 + Len(s) + Len(w)
      /\ b = d => Cardinality(owned) <= 3 + Len(s) + Len(w)
  <2> DEFINE f == Cardinality(few)
             g == Cardinality(few \union ToSet(s))
             h == Cardinality(owned)
             y == Cardinality(ToSet(s))
             z == Cardinality(ToSet(w))
  <2>1. /\ f \in Nat /\ g \in Nat /\ h \in Nat /\ y \in Nat /\ z \in Nat
        /\ f <= 4 /\ g <= f + y /\ h <= g + z
        /\ y <= Len(s) /\ z <= Len(w) /\ Len(s) \in Nat /\ Len(w) \in Nat
    BY <1>1, <1>2, <1>4, <1>5
  <2>2. b = d => f <= 3
    BY <1>1
  <2> HIDE DEF f, g, h, y, z
  <2>3. h <= 4 + Len(s) + Len(w) /\ (f <= 3 => h <= 3 + Len(s) + Len(w))
    BY <2>1
  <2>4. QED
    BY <2>2, <2>3 DEF h
<1>7. QED
  BY <1>5, <1>6 DEF few

OwnersInv ==
  OneEach(currentBuffer_, nextBuffer_, newBuffer1, newBuffer2, buffers_, buffersToWrite)

(* How many buffers there are where, as far as threadFunction() has come.    *)
PhaseInv ==
  /\ Len(buffers_) <= MaxFull /\ Len(buffersToWrite) <= MaxFull + 1
  /\ nextBuffer_ = Null => buffers_ # <<>>
  /\ loggingThread \in {"new", "started", "aborted", "test", "swap", "write", "recycle", "ended"}
  /\ user = "constructed" => loggingThread = "new"
  /\ loggingThread \in {"new", "started", "aborted"} =>
       newBuffer1 = Null /\ newBuffer2 = Null /\ buffersToWrite = <<>>
  /\ loggingThread \in {"test", "swap", "ended"} =>
       newBuffer1 # Null /\ newBuffer2 # Null /\ buffersToWrite = <<>>
  /\ loggingThread \in {"write", "recycle"} =>
       /\ newBuffer1 = Null /\ buffersToWrite # <<>>
       /\ newBuffer2 = Null => 2 <= Len(buffersToWrite)

LoggingInv == OwnersInv /\ PhaseInv

LEMMA LoggingTypes ==
  ASSUME OwnersInv
  PROVE  /\ buffers_ \in Seq(Buffers) /\ Len(buffers_) \in Nat
         /\ buffersToWrite \in Seq(Buffers) /\ Len(buffersToWrite) \in Nat
         /\ currentBuffer_ \in Buffers /\ currentBuffer_ # Null
         /\ {nextBuffer_, newBuffer1, newBuffer2} \subseteq Buffers \union {Null}
         /\ MaxFull \in Nat /\ MaxToWrite \in Nat /\ 2 <= MaxToWrite
BY NullIsNoBuffer, AsyncLoggingAssumption DEF OwnersInv, OneEach

LEMMA OwnedOnes ==
  ASSUME OwnersInv
  PROVE  /\ {currentBuffer_, nextBuffer_, newBuffer1, newBuffer2} \subseteq Owned
         /\ \A i \in 1..Len(buffers_) : buffers_[i] \in Owned
         /\ \A i \in 1..Len(buffersToWrite) : buffersToWrite[i] \in Owned
         /\ IsFiniteSet(Owned) /\ Cardinality(Owned) \in Nat
         /\ Cardinality(Owned) <= 4 + Len(buffers_) + Len(buffersToWrite)
         /\ newBuffer1 = newBuffer2 =>
              Cardinality(Owned) <= 3 + Len(buffers_) + Len(buffersToWrite)
<1>1. buffers_ \in Seq(Buffers) /\ buffersToWrite \in Seq(Buffers)
  BY LoggingTypes
<1>2. /\ \A i \in 1..Len(buffers_) : buffers_[i] \in ToSet(buffers_)
      /\ \A i \in 1..Len(buffersToWrite) : buffersToWrite[i] \in ToSet(buffersToWrite)
  BY <1>1, RangeOfSequence
<1>3. /\ IsFiniteSet(Owned) /\ Cardinality(Owned) \in Nat
      /\ Cardinality(Owned) <= 4 + Len(buffers_) + Len(buffersToWrite)
      /\ newBuffer1 = newBuffer2 =>
           Cardinality(Owned) <= 3 + Len(buffers_) + Len(buffersToWrite)
  BY <1>1, FewOwned DEF Owned
<1>4. QED
  BY <1>2, <1>3 DEF Owned

LEMMA AppendLineKeeps ==
  ASSUME LoggingInv, NEW len, AppendLine(len)
  PROVE  LoggingInv'
<1> USE DEF sharedBuffers, threadBuffers
<1> DEFINE d == IF nextBuffer_ # Null THEN nextBuffer_ ELSE Fresh(Owned)
<1>1. /\ OwnersInv /\ PhaseInv /\ Len(buffers_) < MaxFull
      /\ buffers_' = Append(buffers_, currentBuffer_)
      /\ currentBuffer_' = d
      /\ nextBuffer_' = Null
      /\ UNCHANGED <<newBuffer1, newBuffer2, buffersToWrite, loggingThread, user>>
  BY DEF LoggingInv, AppendLine
<1>2. /\ Len(buffers_) \in Nat /\ Len(buffersToWrite) \in Nat /\ MaxFull \in Nat
      /\ Len(buffersToWrite) <= MaxFull + 1
      /\ buffers_ \in Seq(Buffers) /\ currentBuffer_ \in Buffers
      /\ nextBuffer_ \in Buffers \union {Null}
  BY <1>1, LoggingTypes DEF PhaseInv
<1>3. ASSUME nextBuffer_ = Null
      PROVE  OneEach(d, Null, newBuffer1, newBuffer2, Append(buffers_, currentBuffer_),
                     buffersToWrite)
  <2>1. Cardinality(Owned) < 2 * MaxFull + 5 /\ IsFiniteSet(Owned)
    BY <1>1, <1>2, OwnedOnes
  <2>2. d \in Buffers /\ d \notin Owned
    BY <1>3, <2>1, FreshIsNew
  <2> HIDE DEF d
  <2>3. /\ d \notin {currentBuffer_, nextBuffer_, newBuffer1, newBuffer2}
        /\ \A i \in 1..Len(buffers_) : buffers_[i] # d
        /\ \A i \in 1..Len(buffersToWrite) : buffersToWrite[i] # d
    BY <1>1, <2>2, OwnedOnes
  <2>4. QED
    BY <1>1, <2>2, <2>3, FullBuffer DEF OwnersInv
<1>4. ASSUME nextBuffer_ # Null
      PROVE  OneEach(d, Null, newBuffer1, newBuffer2, Append(buffers_, currentBuffer_),
                     buffersToWrite)
  <2>1. d = nextBuffer_ /\ d \in Buffers
    BY <1>2, <1>4
  <2> HIDE DEF d
  <2>2. QED
    BY <1>1, <2>1, FullBuffer DEF OwnersInv
<1>5. OneEach(d, Null, newBuffer1, newBuffer2, Append(buffers_, currentBuffer_),
              buffersToWrite)
  BY <1>3, <1>4
<1>6. OwnersInv'
  BY <1>1, <1>5 DEF OwnersInv
<1>7. Len(buffers_') = Len(buffers_) + 1 /\ buffers_' # <<>>
  BY <1>1, <1>2, AppendProperties
<1>8. Len(buffers_') <= MaxFull
  BY <1>1, <1>2, <1>7
<1>9. PhaseInv'
  BY <1>1, <1>7, <1>8 DEF PhaseInv
<1>10. QED
  BY <1>6, <1>9 DEF LoggingInv

LEMMA ThreadBeginsKeeps ==
  ASSUME LoggingInv, ThreadBegins
  PROVE  LoggingInv'
<1> USE DEF sharedBuffers, threadBuffers
<1>1. /\ OwnersInv /\ PhaseInv /\ loggingThread = "started"
      /\ newBuffer1 = Null /\ newBuffer2 = Null /\ buffersToWrite = <<>>
      /\ UNCHANGED <<currentBuffer_, nextBuffer_, buffers_, user>>
  BY DEF LoggingInv, PhaseInv, ThreadBegins
<1>2. CASE loggingThread' = "aborted" /\ UNCHANGED threadBuffers
  BY <1>1, <1>2 DEF LoggingInv, OwnersInv, PhaseInv
<1>3. CASE /\ loggingThread' = "test"
           /\ newBuffer1' = Fresh(Owned)
           /\ newBuffer2' = Fresh(Owned \union {newBuffer1'})
           /\ UNCHANGED buffersToWrite
  <2> DEFINE d == Fresh(Owned)
             e == Fresh(Owned \union {d})
  <2>1. /\ Len(buffers_) \in Nat /\ MaxFull \in Nat /\ Len(buffers_) <= MaxFull
        /\ Len(buffersToWrite) = 0
    BY <1>1, LoggingTypes DEF PhaseInv
  <2>2. /\ IsFiniteSet(Owned) /\ Cardinality(Owned) \in Nat
        /\ Cardinality(Owned) <= MaxFull + 3
    BY <1>1, <2>1, OwnedOnes
  <2>3. d \in Buffers /\ d \notin Owned
    BY <2>1, <2>2, FreshIsNew
  <2>4. e \in Buffers /\ e \notin Owned /\ e # d
    <3> HIDE DEF d
    <3>1. IsFiniteSet(Owned \union {d}) /\ Cardinality(Owned \union {d}) = Cardinality(Owned) + 1
      BY <2>2, <2>3, FS_AddElement
    <3>2. Cardinality(Owned \union {d}) < 2 * MaxFull + 5
      BY <2>1, <2>2, <3>1
    <3>3. e \in Buffers /\ e \notin Owned \union {d}
      BY <3>1, <3>2, FreshIsNew
    <3>4. QED
      BY <3>3
  <2>5. newBuffer1' = d /\ newBuffer2' = e
    BY <1>3
  <2> HIDE DEF d, e
  <2>6. /\ d \notin {currentBuffer_, nextBuffer_} /\ e \notin {currentBuffer_, nextBuffer_}
        /\ \A i \in 1..Len(buffers_) : buffers_[i] \notin {d, e}
    BY <1>1, <2>3, <2>4, OwnedOnes
  <2>7. OneEach(currentBuffer_, nextBuffer_, d, e, buffers_, <<>>)
    BY <1>1, <2>3, <2>4, <2>6, SpareBuffers DEF OwnersInv
  <2>8. OwnersInv'
    BY <1>1, <1>3, <2>5, <2>7 DEF OwnersInv
  <2>9. PhaseInv'
    BY <1>1, <1>3, <2>3, <2>4, <2>5, NullIsNoBuffer DEF PhaseInv
  <2>10. QED
    BY <2>8, <2>9 DEF LoggingInv
<1>4. QED
  BY <1>2, <1>3 DEF ThreadBegins

LEMMA SwapsBuffersKeeps ==
  ASSUME LoggingInv, SwapsBuffers
  PROVE  LoggingInv'
<1> DEFINE r == Append(buffers_, currentBuffer_)
<1>1. /\ OwnersInv /\ PhaseInv
      /\ newBuffer1 \in Buffers /\ newBuffer2 \in Buffers /\ buffersToWrite = <<>>
      /\ newBuffer1 # Null /\ newBuffer2 # Null
  BY LoggingTypes DEF LoggingInv, PhaseInv, SwapsBuffers
<1>2. /\ buffersToWrite' = r /\ buffers_' = <<>>
      /\ currentBuffer_' = newBuffer1 /\ newBuffer1' = Null
      /\ loggingThread' = "write" /\ loggingThread = "swap" /\ UNCHANGED user
      /\ IF nextBuffer_ = Null
         THEN nextBuffer_' = newBuffer2 /\ newBuffer2' = Null
         ELSE UNCHANGED <<nextBuffer_, newBuffer2>>
  BY DEF SwapsBuffers
<1>3. /\ nextBuffer_ # Null => OneEach(newBuffer1, nextBuffer_, Null, newBuffer2, <<>>, r)
      /\ OneEach(newBuffer1, newBuffer2, Null, Null, <<>>, r)
  BY <1>1, SwappedBuffers DEF OwnersInv
<1>4. /\ Len(r) = Len(buffers_) + 1 /\ r # <<>> /\ Len(buffers_) \in Nat
      /\ MaxFull \in Nat /\ Len(buffers_) <= MaxFull
      /\ nextBuffer_ = Null => Len(buffers_) # 0
  BY <1>1, LoggingTypes, AppendProperties, EmptySeq DEF PhaseInv
<1> HIDE DEF r
<1>5. /\ Len(r) <= MaxFull + 1 /\ r # <<>> /\ 0 <= MaxFull
      /\ nextBuffer_ = Null => 2 <= Len(r)
  BY <1>4
<1>6. OwnersInv'
  BY <1>2, <1>3 DEF OwnersInv
<1>7. Len(<<>>) = 0
  OBVIOUS
<1>8. PhaseInv'
  BY <1>1, <1>2, <1>5, <1>7 DEF PhaseInv
<1>9. QED
  BY <1>6, <1>8 DEF LoggingInv

LEMMA WritesBuffersKeeps ==
  ASSUME LoggingInv, WritesBuffers
  PROVE  LoggingInv'
<1> USE DEF sharedBuffers
<1>1. /\ OwnersInv /\ PhaseInv /\ loggingThread = "write"
      /\ loggingThread' = "recycle"
      /\ UNCHANGED <<sharedBuffers, newBuffer1, newBuffer2, user>>
      /\ buffersToWrite # <<>>
  BY DEF LoggingInv, PhaseInv, WritesBuffers
<1>2. /\ Len(buffersToWrite) \in Nat /\ MaxFull \in Nat
      /\ Len(buffersToWrite) <= MaxFull + 1
      /\ MaxToWrite \in Nat /\ 2 <= MaxToWrite
  BY <1>1, LoggingTypes DEF PhaseInv
<1>3. CASE Len(buffersToWrite) > MaxToWrite
  <2>1. buffersToWrite' = Tail(buffersToWrite)
    BY <1>3 DEF WritesBuffers
  <2>2. /\ OneEach(currentBuffer_, nextBuffer_, newBuffer1, newBuffer2, buffers_,
                   Tail(buffersToWrite))
        /\ Len(Tail(buffersToWrite)) = Len(buffersToWrite) - 1
    BY <1>1, DroppedBuffer DEF OwnersInv
  <2>3. 2 <= Len(buffersToWrite') /\ Len(buffersToWrite') <= MaxFull + 1
    BY <1>2, <1>3, <2>1, <2>2
  <2>4. buffersToWrite' # <<>>
    <3>1. Len(<<>>) = 0
      OBVIOUS
    <3>2. QED
      BY <2>3, <3>1
  <2>5. OwnersInv'
    BY <1>1, <2>1, <2>2 DEF OwnersInv
  <2>6. PhaseInv'
    BY <1>1, <2>3, <2>4 DEF PhaseInv
  <2>7. QED
    BY <2>5, <2>6 DEF LoggingInv
<1>4. CASE ~(Len(buffersToWrite) > MaxToWrite)
  <2>1. buffersToWrite' = buffersToWrite
    BY <1>4 DEF WritesBuffers
  <2>2. QED
    BY <1>1, <2>1 DEF LoggingInv, OwnersInv, PhaseInv
<1>5. QED
  BY <1>3, <1>4

(* The resize() to two, and the two pop_back() after it. *)
LEMMA LastTwo ==
  ASSUME NEW w \in Seq(Buffers), Len(w) \in Nat \ {0}
  PROVE  LET left == IF Len(w) > 2 THEN SubSeq(w, 1, 2) ELSE w
         IN  \E k \in 1..Len(w) : /\ Last(left) = w[k]
                                  /\ 2 <= Len(w) => k = 2 /\ Last(Front(left)) = w[1]
<1>0. Len(w) = 1 \/ Len(w) = 2 \/ Len(w) > 2
  <2>1. ASSUME NEW n \in Nat, n # 0 PROVE n = 1 \/ n = 2 \/ n > 2
    BY <2>1
  <2>2. Len(w) \in Nat /\ Len(w) # 0
    OBVIOUS
  <2>3. QED
    BY <2>1, <2>2, Zenon
<1> DEFINE left == IF Len(w) > 2 THEN SubSeq(w, 1, 2) ELSE w
<1>1. CASE Len(w) = 1
  <2>1. left = w
    BY <1>1
  <2>2. Last(w) = w[1]
    BY <1>1 DEF Last
  <2>3. 1 \in 1..Len(w) /\ ~(2 <= Len(w))
    BY <1>1
  <2> HIDE DEF left
  <2>4. Last(left) = w[1]
    BY <2>1, <2>2
  <2>5. QED
    BY <2>3, <2>4 DEF left
<1>2. CASE Len(w) = 2 \/ Len(w) > 2
  <2>1. left \in Seq(Buffers) /\ Len(left) = 2 /\ left[1] = w[1] /\ left[2] = w[2]
    <3>1. CASE Len(w) > 2
      <4>1. \A i \in 1..2 : w[i] \in Buffers
        BY <3>1, ElementOfSeq
      <4>2. /\ SubSeq(w, 1, 2) \in Seq(Buffers) /\ Len(SubSeq(w, 1, 2)) = 2
            /\ \A i \in 1..2 : SubSeq(w, 1, 2)[i] = w[i]
        BY <4>1, SubSeqProperties
      <4>3. left = SubSeq(w, 1, 2)
        BY <3>1
      <4>4. QED
        BY <4>2, <4>3, SMTT(30)
    <3>2. CASE Len(w) = 2
      BY <3>2
    <3>3. QED
      BY <1>0, <1>2, <3>1, <3>2
  <2> HIDE DEF left
  <2>2. Last(left) = w[2]
    BY <2>1 DEF Last
  <2>3. Front(left) \in Seq(Buffers) /\ Len(Front(left)) = 1 /\ Front(left)[1] = w[1]
    <3>1. 1 \in 1..1 /\ \A i \in 1..1 : left[i] \in Buffers
      BY <2>1, ElementOfSeq
    <3>2. /\ SubSeq(left, 1, 1) \in Seq(Buffers) /\ Len(SubSeq(left, 1, 1)) = 1
          /\ \A i \in 1..1 : SubSeq(left, 1, 1)[i] = left[i]
      BY <3>1, SubSeqProperties
    <3>3. Front(left) = SubSeq(left, 1, 1)
      BY <2>1 DEF Front
    <3>4. QED
      BY <2>1, <3>1, <3>2, <3>3
  <2>4. Last(Front(left)) = w[1]
    BY <2>3 DEF Last
  <2>5. 2 \in 1..Len(w)
    BY <1>2
  <2>6. QED
    BY <2>2, <2>4, <2>5 DEF left
<1>3. QED
  BY <1>0, <1>1, <1>2

LEMMA RecyclesBuffersKeeps ==
  ASSUME LoggingInv, RecyclesBuffers
  PROVE  LoggingInv'
<1> USE DEF sharedBuffers
<1> DEFINE w == buffersToWrite
           left == IF Len(w) > 2 THEN SubSeq(w, 1, 2) ELSE w
<1>1. /\ OwnersInv /\ PhaseInv /\ newBuffer1 = Null /\ w # <<>>
      /\ newBuffer2 = Null => 2 <= Len(w)
  BY DEF LoggingInv, PhaseInv, RecyclesBuffers
<1>2. /\ newBuffer1' = Last(left)
      /\ newBuffer2' = IF newBuffer2 = Null THEN Last(Front(left)) ELSE newBuffer2
      /\ buffersToWrite' = <<>>
      /\ loggingThread' = "test" /\ loggingThread = "recycle"
      /\ UNCHANGED <<sharedBuffers, user>>
  BY DEF RecyclesBuffers
<1>3. w \in Seq(Buffers) /\ Len(w) \in Nat \ {0}
  BY <1>1, LoggingTypes, EmptySeq
<1>4. PICK k \in 1..Len(w) : /\ Last(left) = w[k]
                             /\ 2 <= Len(w) => k = 2 /\ Last(Front(left)) = w[1]
  BY <1>3, LastTwo
<1> HIDE DEF left
<1>5. OneEach(currentBuffer_, nextBuffer_, Null, newBuffer2, buffers_, w)
  BY <1>1 DEF OwnersInv
<1>6. CASE newBuffer2 = Null
  <2>1. newBuffer1' = w[2] /\ newBuffer2' = w[1] /\ 1 \in 1..Len(w) /\ 2 \in 1..Len(w)
    BY <1>1, <1>2, <1>3, <1>4, <1>6
  <2>2. OneEach(currentBuffer_, nextBuffer_, w[2], w[1], buffers_, <<>>)
    BY <1>5, <2>1, RecycledBuffers
  <2>3. newBuffer1' # Null /\ newBuffer2' # Null
    BY <1>3, <2>1, NullIsNoBuffer, ElementOfSeq
  <2>4. OwnersInv'
    BY <1>2, <2>1, <2>2 DEF OwnersInv
  <2>5. PhaseInv'
    <3>1. Len(buffersToWrite') = 0 /\ 0 <= MaxFull + 1
      BY <1>2, AsyncLoggingAssumption
    <3>2. QED
      BY <1>1, <1>2, <2>3, <3>1 DEF PhaseInv
  <2>6. QED
    BY <2>4, <2>5 DEF LoggingInv
<1>7. CASE newBuffer2 # Null
  <2>1. newBuffer1' = w[k] /\ newBuffer2' = newBuffer2
    BY <1>2, <1>4, <1>7
  <2>2. OneEach(currentBuffer_, nextBuffer_, w[k], newBuffer2, buffers_, <<>>)
    BY <1>5, <1>7, RecycledBuffers
  <2>3. newBuffer1' # Null
    BY <1>3, <2>1, NullIsNoBuffer, ElementOfSeq
  <2>4. OwnersInv'
    BY <1>2, <2>1, <2>2 DEF OwnersInv
  <2>5. PhaseInv'
    <3>1. Len(buffersToWrite') = 0 /\ 0 <= MaxFull + 1
      BY <1>2, AsyncLoggingAssumption
    <3>2. QED
      BY <1>1, <1>2, <1>7, <2>1, <2>3, <3>1 DEF PhaseInv
  <2>6. QED
    BY <2>4, <2>5 DEF LoggingInv
<1>8. QED
  BY <1>6, <1>7

LEMMA LoggingStep == LoggingInv /\ [LoggingNext]_loggingVars => LoggingInv'
<1> SUFFICES ASSUME LoggingInv, [LoggingNext]_loggingVars PROVE LoggingInv'
  OBVIOUS
<1> USE DEF sharedBuffers, threadBuffers
<1>1. CASE LoggingStart
  BY <1>1 DEF LoggingStart, LoggingInv, OwnersInv, PhaseInv
<1>2. CASE LoggingStarted \/ LoggingStop \/ LoggingJoined
  BY <1>2 DEF LoggingStarted, LoggingStop, LoggingJoined, LoggingInv, OwnersInv, PhaseInv
<1>3. CASE TestsRunning
  BY <1>3 DEF TestsRunning, LoggingInv, OwnersInv, PhaseInv
<1>4. CASE UNCHANGED loggingVars
  BY <1>4 DEF loggingVars, LoggingInv, OwnersInv, PhaseInv
<1>5. QED
  BY <1>1, <1>2, <1>3, <1>4, AppendLineKeeps, ThreadBeginsKeeps, SwapsBuffersKeeps,
     WritesBuffersKeeps, RecyclesBuffersKeeps DEF LoggingNext, ThreadFunction

(* So none is held at two places. *)
LEMMA HeldOnce ==
  ASSUME NEW c, NEW n, NEW a, NEW b, NEW s, NEW w, OneEach(c, n, a, b, s, w)
  PROVE  LET held == <<c, n, a, b>> \o s \o w
         IN  \A i, j \in DOMAIN held : i # j /\ held[i] = held[j] => held[i] = Null
<1> DEFINE Either == Buffers \union {Null}
           four == <<c, n, a, b>>
           full == four \o s
           held == full \o w
<1>1. /\ four \in Seq(Either) /\ Len(four) = 4
      /\ four[1] = c /\ four[2] = n /\ four[3] = a /\ four[4] = b
  BY DEF OneEach
<1>2. s \in Seq(Either) /\ w \in Seq(Either) /\ Len(s) \in Nat /\ Len(w) \in Nat
  BY DEF OneEach
<1>3. /\ c # Null
      /\ \A i \in 1..Len(s) : s[i] \in Buffers /\ s[i] # Null
      /\ \A i \in 1..Len(w) : w[i] \in Buffers /\ w[i] # Null
  BY NullIsNoBuffer, ElementOfSeq DEF OneEach
<1> HIDE DEF Either, four
<1>4. /\ full \in Seq(Either) /\ Len(full) = 4 + Len(s)
      /\ \A i \in 1..4 : full[i] = four[i]
      /\ \A i \in 1..4 + Len(s) : i > 4 => full[i] = s[i - 4]
  <2>1. /\ full \in Seq(Either) /\ Len(full) = Len(four) + Len(s)
        /\ \A i \in 1..Len(four) + Len(s) :
             full[i] = IF i <= Len(four) THEN four[i] ELSE s[i - Len(four)]
    BY <1>1, <1>2, ConcatProperties
  <2> HIDE DEF full
  <2>2. /\ full \in Seq(Either) /\ Len(full) = 4 + Len(s)
        /\ \A i \in 1..4 + Len(s) :
             full[i] = IF i <= 4 THEN four[i] ELSE s[i - 4]
    BY <1>1, <2>1
  <2>3. /\ 1..4 \subseteq 1..4 + Len(s)
        /\ \A i \in 1..4 + Len(s) : i > 4 => ~(i <= 4)
    BY <1>2
  <2>4. \A i \in 1..4 : full[i] = four[i]
    BY <2>2, <2>3
  <2>5. \A i \in 1..4 + Len(s) : i > 4 => full[i] = s[i - 4]
    BY <2>2, <2>3
  <2>6. QED
    BY <2>2, <2>4, <2>5
<1> HIDE DEF full
<1>5. /\ held \in Seq(Either) /\ Len(held) = 4 + Len(s) + Len(w)
      /\ \A i \in 1..4 + Len(s) : held[i] = full[i]
      /\ \A i \in 1..4 + Len(s) + Len(w) : i > 4 + Len(s) => held[i] = w[i - (4 + Len(s))]
  <2>1. /\ held \in Seq(Either) /\ Len(held) = Len(full) + Len(w)
        /\ \A i \in 1..Len(full) + Len(w) :
             held[i] = IF i <= Len(full) THEN full[i] ELSE w[i - Len(full)]
    BY <1>2, <1>4, ConcatProperties
  <2> HIDE DEF held
  <2>2. QED
    BY <1>2, <1>4, <2>1
<1>6. DOMAIN held = 1..4 + Len(s) + Len(w)
  BY <1>5
<1> HIDE DEF held
<1>7. ASSUME NEW i \in DOMAIN held
      PROVE  \/ i \in 1..4 /\ held[i] = four[i]
             \/ i - 4 \in 1..Len(s) /\ held[i] = s[i - 4]
             \/ i - (4 + Len(s)) \in 1..Len(w) /\ held[i] = w[i - (4 + Len(s))]
  BY <1>2, <1>4, <1>5, <1>6, SMTT(30)
<1>8. /\ \A i \in 1..4 : four[i] \in {c, n, a, b}
      /\ \A i, j \in 1..4 : i # j /\ four[i] = four[j] => four[i] = Null
  BY <1>1, <1>3 DEF OneEach
<1>9. /\ \A i \in 1..Len(s) : s[i] \notin {c, n, a, b}
      /\ \A i \in 1..Len(w) : w[i] \notin {c, n, a, b}
      /\ \A i, j \in 1..Len(s) : s[i] = s[j] => i = j
      /\ \A i, j \in 1..Len(w) : w[i] = w[j] => i = j
      /\ \A i \in 1..Len(s), j \in 1..Len(w) : s[i] # w[j]
  BY DEF OneEach
<1>10. ASSUME NEW i \in DOMAIN held, NEW j \in DOMAIN held, i # j, held[i] = held[j]
       PROVE  held[i] = Null
  <2>1. i \in Nat /\ j \in Nat /\ Len(s) \in Nat
    BY <1>2, <1>6
  <2>2. CASE i \in 1..4 /\ held[i] = four[i]
    BY <1>7, <1>8, <1>9, <1>10, <2>2, ZenonT(30)
  <2>3. CASE i - 4 \in 1..Len(s) /\ held[i] = s[i - 4]
    <3>1. i - 4 # j - 4
      BY <1>10, <2>1
    <3>2. QED
      BY <1>7, <1>8, <1>9, <1>10, <2>3, <3>1, ZenonT(30)
  <2>4. CASE i - (4 + Len(s)) \in 1..Len(w) /\ held[i] = w[i - (4 + Len(s))]
    <3>1. i - (4 + Len(s)) # j - (4 + Len(s))
      BY <1>10, <2>1
    <3>2. QED
      BY <1>7, <1>8, <1>9, <1>10, <2>4, <3>1, ZenonT(30)
  <2>5. QED
    BY <1>7, <2>2, <2>3, <2>4
<1>11. \A i, j \in DOMAIN held : i # j /\ held[i] = held[j] => held[i] = Null
  BY <1>10
<1>12. QED
  BY <1>11 DEF held, full, four

LEMMA LoggingInvSuffices == LoggingInv => BuffersHaveOneOwner
<1> SUFFICES ASSUME LoggingInv PROVE BuffersHaveOneOwner
  OBVIOUS
<1>1. OwnersInv /\ PhaseInv
  BY DEF LoggingInv
<1>2. Null \notin {currentBuffer_} \union ToSet(buffers_) \union ToSet(buffersToWrite)
  <2>1. /\ buffers_ \in Seq(Buffers) /\ buffersToWrite \in Seq(Buffers)
        /\ currentBuffer_ # Null
    BY <1>1, LoggingTypes
  <2>2. ASSUME NEW s \in Seq(Buffers) PROVE Null \notin ToSet(s)
    <3>1. ToSet(s) = {s[i] : i \in 1..Len(s)}
      BY DEF ToSet
    <3>2. \A i \in 1..Len(s) : s[i] # Null
      BY NullIsNoBuffer, ElementOfSeq
    <3>3. QED
      BY <3>1, <3>2
  <2>3. QED
    BY <2>1, <2>2
<1>3. loggingThread \in {"test", "swap"} =>
        newBuffer1 # Null /\ newBuffer2 # Null /\ buffersToWrite = <<>>
  BY <1>1 DEF PhaseInv
<1>4. QED
  BY <1>1, <1>2, <1>3, HeldOnce DEF BuffersHaveOneOwner, OwnersInv

(* No Buffer of the asynchronous log has two owners, however many lines fill *)
(* one while the thread writes: append() moves nextBuffer_ out of its place, *)
(* the critical section of threadFunction() takes the full buffers and       *)
(* leaves its own spare ones, and what was written becomes spare again       *)
(* before the next round (AsyncLogging.cpp:36-51, 76-127).                   *)
THEOREM BuffersCorrect == LoggingSpec => []BuffersHaveOneOwner
<1>1. LoggingInit => LoggingInv
  <2> SUFFICES ASSUME LoggingInit PROVE LoggingInv
    OBVIOUS
  <2>1. MaxFull \in Nat /\ Len(<<>>) = 0 /\ <<>> \in Seq(Buffers)
    BY AsyncLoggingAssumption
  <2>2. 1 \in Buffers /\ 2 \in Buffers /\ Null = 0
    BY <2>1 DEF Buffers, Null
  <2>3. OneEach(1, 2, Null, Null, <<>>, <<>>)
    BY <2>1, <2>2 DEF OneEach
  <2>4. OwnersInv
    BY <2>3 DEF LoggingInit, OwnersInv
  <2>5. PhaseInv
    BY <2>1, <2>2 DEF LoggingInit, PhaseInv
  <2>6. QED
    BY <2>4, <2>5 DEF LoggingInv
<1>2. QED
  BY <1>1, LoggingStep, LoggingInvSuffices, PTL DEF LoggingSpec

-----------------------------------------------------------------------------
(* LogStream.  Induction and recursion first: the library's theorems take a  *)
(* predicate or an operator; these take a set and a function.                *)

(* Induction, for the set of the naturals of which something holds. *)
LEMMA AllNaturals ==
  ASSUME NEW T \in SUBSET Nat, 0 \in T, \A n \in T : n + 1 \in T
  PROVE  T = Nat
<1> DEFINE less == {p \in Nat \X Nat : p[1] < p[2]}
           out  == Nat \ T
<1>1. IsWellFoundedOn(less, Nat)
  BY NatLessThanWellFounded, Zenon DEF OpToRel
<1> SUFFICES ASSUME out # {} PROVE FALSE
  OBVIOUS
<1>2. PICK x \in out : \A y \in out : ~(<<y, x>> \in less)
  <2>1. out \in SUBSET Nat /\ out # {}
    OBVIOUS
  <2> HIDE DEF less, out
  <2> QED
    BY <1>1, <2>1, WFMin
<1>3. x \in Nat /\ x # 0 /\ x - 1 \in Nat /\ x \notin T
  OBVIOUS
<1>4. x - 1 \in out
  BY <1>3
<1>5. <<x - 1, x>> \in Nat \X Nat /\ <<x - 1, x>>[1] < <<x - 1, x>>[2]
  BY <1>3
<1> QED
  BY <1>2, <1>4, <1>5

(* f iterates step from a on, everywhere or in its first m steps. *)
Iterates(f, a, step) == f[0] = a /\ \A n \in Nat : f[n + 1] = step[<<n + 1, f[n]>>]
IteratesTo(f, a, step, m) ==
  f[0] = a /\ \A n \in Nat : n < m => f[n + 1] = step[<<n + 1, f[n]>>]

(* Every step can be iterated for ever: the finite iterations agree as far   *)
(* as they go, so what each ends with is an iteration.                       *)
LEMMA IteratesExist ==
  ASSUME NEW S, NEW a \in S, NEW step \in [(Nat \ {0}) \X S -> S]
  PROVE  \E f \in [Nat -> S] : Iterates(f, a, step)
<1> DEFINE ok(f, m) == f \in [Nat -> S] /\ IteratesTo(f, a, step, m)
           T == {m \in Nat : \E f : ok(f, m)}
<1>1. 0 \in T
  <2> DEFINE f == [n \in Nat |-> a]
  <2>1. f \in [Nat -> S] /\ f[0] = a
    OBVIOUS
  <2>2. ok(f, 0)
    BY <2>1 DEF IteratesTo
  <2> QED
    BY <2>2
<1>2. ASSUME NEW m \in T PROVE m + 1 \in T
  <2>1. PICK f : ok(f, m)
    OBVIOUS
  <2> DEFINE g == [n \in Nat |-> IF n = m + 1 THEN step[<<m + 1, f[m]>>] ELSE f[n]]
  <2>2. m \in Nat /\ step[<<m + 1, f[m]>>] \in S
    BY <2>1
  <2>3. g \in [Nat -> S]
    BY <2>1, <2>2
  <2>4. \A n \in Nat : n <= m => g[n] = f[n]
    BY <2>2
  <2>5. g[m + 1] = step[<<m + 1, f[m]>>]
    BY <2>2
  <2> HIDE DEF g
  <2>6. g[0] = a
    BY <2>1, <2>2, <2>4 DEF IteratesTo
  <2>7. ASSUME NEW n \in Nat, n < m + 1 PROVE g[n + 1] = step[<<n + 1, g[n]>>]
    <3>1. CASE n = m
      BY <2>2, <2>4, <2>5, <3>1
    <3>2. CASE n < m
      <4>1. n + 1 \in Nat /\ n + 1 <= m /\ n <= m
        BY <2>2, <3>2
      <4>2. g[n + 1] = f[n + 1] /\ g[n] = f[n]
        BY <2>4, <4>1
      <4> QED
        BY <2>1, <3>2, <4>2 DEF IteratesTo
    <3> QED
      BY <2>2, <2>7, <3>1, <3>2
  <2>8. ok(g, m + 1)
    BY <2>3, <2>6, <2>7 DEF IteratesTo
  <2> QED
    BY <2>2, <2>8
<1> HIDE DEF T
<1>3. T = Nat
  BY <1>1, <1>2, AllNaturals DEF T
<1> DEFINE h == [m \in Nat |-> CHOOSE f : ok(f, m)]
<1>4. \A m \in Nat : ok(h[m], m)
  BY <1>3, Zenon DEF T
<1> HIDE DEF h
<1>5. ASSUME NEW m \in Nat
      PROVE  \A n \in Nat : n <= m => h[m][n] = h[n][n]
  <2> DEFINE U == {n \in Nat : n <= m => \A k \in Nat : n <= k => h[k][n] = h[n][n]}
  <2>1. 0 \in U
    BY <1>4 DEF IteratesTo
  <2>2. ASSUME NEW n \in U PROVE n + 1 \in U
    <3> SUFFICES ASSUME n + 1 <= m, NEW k \in Nat, n + 1 <= k PROVE h[k][n + 1] = h[n + 1][n + 1]
      OBVIOUS
    <3>1. n \in Nat /\ n < k /\ n < n + 1 /\ n <= m /\ n <= k /\ n <= n + 1 /\ n + 1 \in Nat
      OBVIOUS
    <3>2. h[k][n] = h[n][n] /\ h[n + 1][n] = h[n][n]
      BY <3>1
    <3>3. h[k][n + 1] = step[<<n + 1, h[k][n]>>]
      BY <1>4, <3>1 DEF IteratesTo
    <3>4. h[n + 1][n + 1] = step[<<n + 1, h[n + 1][n]>>]
      BY <1>4, <3>1 DEF IteratesTo
    <3> QED
      BY <3>2, <3>3, <3>4
  <2>3. U = Nat
    <3> HIDE DEF U
    <3>1. U \in SUBSET Nat
      BY DEF U
    <3> QED
      BY <2>1, <2>2, <3>1, AllNaturals
  <2> QED
    BY <2>3
<1> DEFINE d == [n \in Nat |-> h[n][n]]
<1>6. d \in [Nat -> S]
  BY <1>4
<1>7. d[0] = a
  BY <1>4 DEF IteratesTo
<1>8. ASSUME NEW n \in Nat PROVE d[n + 1] = step[<<n + 1, d[n]>>]
  <2>1. n <= n + 1 /\ n + 1 \in Nat /\ n < n + 1
    OBVIOUS
  <2>2. h[n + 1][n] = h[n][n]
    BY <1>5, <2>1
  <2>3. h[n + 1][n + 1] = step[<<n + 1, h[n + 1][n]>>]
    BY <1>4, <2>1 DEF IteratesTo
  <2> QED
    BY <2>1, <2>2, <2>3
<1> HIDE DEF d
<1>9. Iterates(d, a, step)
  BY <1>7, <1>8 DEF Iterates
<1> QED
  BY <1>6, <1>9

(* Power is what its definition says, and positive. *)
LEMMA PowerStep ==
  /\ Power[0] = 1
  /\ \A k \in Nat : Power[k] \in Nat \ {0} /\ Power[k + 1] = Base * Power[k]
<1> DEFINE step == [x \in (Nat \ {0}) \X Nat |-> Base * x[2]]
<1>1. step \in [(Nat \ {0}) \X Nat -> Nat]
  BY LogStreamAssumption
<1>2. \A n \in Nat, m \in Nat : step[<<n + 1, m>>] = Base * m
  OBVIOUS
<1> HIDE DEF step
<1>3. PICK f \in [Nat -> Nat] : Iterates(f, 1, step)
  BY <1>1, IteratesExist
<1>4. f[0] = 1 /\ \A n \in Nat : f[n + 1] = Base * f[n]
  BY <1>2, <1>3 DEF Iterates
<1>5. f = [k \in Nat |-> IF k = 0 THEN 1 ELSE Base * f[k - 1]]
  <2>1. ASSUME NEW k \in Nat PROVE f[k] = IF k = 0 THEN 1 ELSE Base * f[k - 1]
    <3>1. CASE k = 0
      BY <1>4, <3>1
    <3>2. CASE k # 0
      <4>1. k - 1 \in Nat /\ k = (k - 1) + 1
        BY <3>2
      <4>2. f[(k - 1) + 1] = Base * f[k - 1]
        BY <1>4, <4>1
      <4> QED
        BY <3>2, <4>1, <4>2
    <3> QED
      BY <3>1, <3>2
  <2> QED
    BY <2>1
<1>6. Power = [k \in Nat |-> IF k = 0 THEN 1 ELSE Base * Power[k - 1]]
  BY <1>5, Zenon DEF Power
<1> HIDE DEF Power
<1>7. Power[0] = 1 /\ \A k \in Nat : Power[k + 1] = Base * Power[k]
  <2>1. \A k \in Nat : Power[k] = IF k = 0 THEN 1 ELSE Base * Power[k - 1]
    BY <1>6
  <2>2. ASSUME NEW k \in Nat PROVE k + 1 \in Nat /\ k + 1 # 0 /\ (k + 1) - 1 = k
    OBVIOUS
  <2>3. ASSUME NEW k \in Nat PROVE Power[k + 1] = Base * Power[(k + 1) - 1]
    BY <2>1, <2>2
  <2> QED
    BY <2>1, <2>2, <2>3
<1> DEFINE T == {k \in Nat : Power[k] \in Nat \ {0}}
<1>8. 0 \in T
  BY <1>7
<1>9. ASSUME NEW k \in T PROVE k + 1 \in T
  <2>1. Power[k] \in Nat \ {0} /\ Base \in Nat \ {0}
    BY LogStreamAssumption
  <2> DEFINE p == Power[k]
  <2>2. Base * p \in Nat \ {0}
    <3> HIDE DEF p
    <3>1. p \in Nat \ {0}
      BY <2>1 DEF p
    <3> QED
      BY <2>1, <3>1
  <2>3. k \in Nat /\ Power[k + 1] = Base * p
    BY <1>7
  <2> QED
    BY <2>2, <2>3
<1>10. T = Nat
  <2> HIDE DEF T
  <2>1. T \in SUBSET Nat
    BY DEF T
  <2> QED
    BY <1>8, <1>9, <2>1, AllNaturals
<1>11. \A k \in Nat : Power[k] \in Nat \ {0}
  BY <1>10
<1> QED
  BY <1>7, <1>11, Zenon

(* A number without its sign. *)
Mag(i) == IF i < 0 THEN -i ELSE i

(* Division by the base, of what is not negative. *)
LEMMA Division ==
  ASSUME NEW q \in Nat
  PROVE  /\ q \div Base \in Nat
         /\ q - Base * (q \div Base) \in 0 .. Base - 1
         /\ q # 0 => q \div Base < q
<1>1. Base \in Nat \ {0, 1}
  BY LogStreamAssumption
<1> DEFINE b == Base
<1>2. b \in Nat \ {0, 1}
  BY <1>1
<1> HIDE DEF b
<1>3. q \div b \in Int /\ b * (q \div b) <= q /\ q < b * (q \div b) + b
  BY <1>2, SMTT(30)
<1> DEFINE r == q \div b
<1>4. r \in Int /\ b * r <= q /\ q < b * r + b
  BY <1>3
<1> HIDE DEF r
<1>5. r \in Nat
  BY <1>2, <1>4, SMTT(30)
<1>6. q # 0 => r < q
  BY <1>2, <1>4, <1>5, SMTT(30)
<1>7. b * r \in Int
  BY <1>2, <1>5
<1>8. q - b * r \in 0 .. b - 1
  BY <1>2, <1>4, <1>7
<1> QED
  BY <1>5, <1>6, <1>8 DEF b, r

(* C's division rounds to zero, and its remainder has the dividend's sign:   *)
(* either way the digit and the quotient are those of the magnitude.         *)
LEMMA DigitOf ==
  ASSUME NEW i \in Int
  PROVE  /\ Mag(i) \in Nat /\ Quotient(i) \in Int
         /\ Mag(Quotient(i)) = Mag(i) \div Base
         /\ Digit(Remainder(i)) = Mag(i) - Base * (Mag(i) \div Base)
         /\ Digit(Remainder(i)) \in 0 .. Base - 1
         /\ Quotient(i) # 0 => Mag(Quotient(i)) < Mag(i)
         /\ Quotient(i) = 0 => Mag(Quotient(i)) = 0
<1>1. Mag(i) \in Nat /\ Base \in Nat
  BY LogStreamAssumption DEF Mag
<1> DEFINE m == Mag(i)
           r == m \div Base
           c == Base * r
<1>2. m \in Nat /\ r \in Nat /\ m - c \in 0 .. Base - 1 /\ (m # 0 => r < m)
  BY <1>1, Division
<1>3. c \in Nat /\ Base * (-r) = -c
  <2> HIDE DEF r
  <2> QED
    BY <1>1, <1>2
<1>4. Quotient(i) = IF i < 0 THEN -r ELSE r
  BY DEF Mag, Quotient
<1>5. m = IF i < 0 THEN -i ELSE i
  BY DEF Mag
<1>6. Remainder(i) = i - Base * Quotient(i)
  BY DEF Remainder
<1> HIDE DEF m, r, c
<1>7. Remainder(i) = i - IF i < 0 THEN -c ELSE c
  BY <1>3, <1>4, <1>6 DEF c
<1>8. Digit(Remainder(i)) = m - c
  BY <1>1, <1>2, <1>3, <1>5, <1>7 DEF Digit
<1>9. Quotient(i) \in Int /\ Mag(Quotient(i)) = r /\ (Quotient(i) # 0 => m # 0 /\ r < m) /\ (Quotient(i) = 0 => r = 0)
  <2>1. r = 0 \/ m # 0
    BY <1>1, <1>2, <1>3 DEF c
  <2> QED
    BY <1>2, <1>4, <1>5, <2>1 DEF Mag
<1> QED
  BY <1>2, <1>8, <1>9 DEF m, r, c

(* Backwards exists: of the functions in reach, each takes one digit more  *)
(* than the one before, and as many as a number has are enough.            *)
LEMMA BackwardsIs ==
  ASSUME NEW i \in Int
  PROVE  Backwards[i] = <<Digit(Remainder(i))>>
           \o IF Quotient(i) = 0 THEN <<>> ELSE Backwards[Quotient(i)]
<1> DEFINE S == [Int -> Seq(Int)]
           body(g, j) == <<Digit(Remainder(j))>> \o IF Quotient(j) = 0 THEN <<>> ELSE g[Quotient(j)]
           step == [x \in (Nat \ {0}) \X S |-> [j \in Int |-> body(x[2], j)]]
           none == [j \in Int |-> <<>>]
<1>1. \A g \in S, j \in Int : body(g, j) \in Seq(Int)
  <2> SUFFICES ASSUME NEW g \in S, NEW j \in Int PROVE body(g, j) \in Seq(Int)
    OBVIOUS
  <2>1. Quotient(j) \in Int /\ Digit(Remainder(j)) \in Int
    BY DigitOf
  <2>2. <<Digit(Remainder(j))>> \in Seq(Int) /\ g[Quotient(j)] \in Seq(Int) /\ <<>> \in Seq(Int)
    BY <2>1
  <2>3. (IF Quotient(j) = 0 THEN <<>> ELSE g[Quotient(j)]) \in Seq(Int)
    BY <2>2
  <2> QED
    BY <2>2, <2>3, ConcatProperties
<1> HIDE DEF body
<1>2. step \in [(Nat \ {0}) \X S -> S]
  BY <1>1
<1>3. none \in S
  OBVIOUS
<1>4. ASSUME NEW n \in Nat, NEW g \in S, NEW j \in Int
      PROVE  step[<<n + 1, g>>][j] = body(g, j)
  <2>1. n + 1 \in Nat \ {0}
    OBVIOUS
  <2> HIDE DEF S
  <2>2. <<n + 1, g>> \in (Nat \ {0}) \X S /\ <<n + 1, g>>[2] = g
    BY <2>1
  <2>3. step[<<n + 1, g>>] = [k \in Int |-> body(g, k)]
    BY <2>2, Zenon
  <2> QED
    BY <2>3
<1> HIDE DEF step, none
<1> HIDE DEF S
<1>5. PICK h \in [Nat -> S] : Iterates(h, none, step)
  BY <1>2, <1>3, IteratesExist
<1>6. \A n \in Nat, j \in Int : h[n + 1][j] = body(h[n], j)
  <2> SUFFICES ASSUME NEW n \in Nat, NEW j \in Int PROVE h[n + 1][j] = body(h[n], j)
    OBVIOUS
  <2>1. h[n + 1] = step[<<n + 1, h[n]>>] /\ h[n] \in S
    BY <1>5 DEF Iterates
  <2> QED
    BY <1>4, <2>1
<1>7. \A n \in Nat, j \in Int : Mag(j) < n => h[n][j] = h[n + 1][j]
  <2> DEFINE T == {n \in Nat : \A j \in Int : Mag(j) < n => h[n][j] = h[n + 1][j]}
  <2>1. 0 \in T
    BY DigitOf
  <2>2. ASSUME NEW n \in T PROVE n + 1 \in T
    <3> SUFFICES ASSUME NEW j \in Int, Mag(j) < n + 1 PROVE h[n + 1][j] = h[(n + 1) + 1][j]
      OBVIOUS
    <3>1. n \in Nat /\ n + 1 \in Nat
      OBVIOUS
    <3>2. h[n + 1][j] = body(h[n], j) /\ h[(n + 1) + 1][j] = body(h[n + 1], j)
      BY <1>6, <3>1
    <3>3. Mag(j) \in Nat /\ Quotient(j) \in Int /\ Mag(Quotient(j)) \in Nat
          /\ (Quotient(j) # 0 => Mag(Quotient(j)) < Mag(j))
      BY DigitOf
    <3>4. Quotient(j) # 0 => h[n][Quotient(j)] = h[n + 1][Quotient(j)]
      BY <3>1, <3>3
    <3> QED
      BY <3>2, <3>4, Zenon DEF body
  <2>3. T = Nat
    <3> HIDE DEF T
    <3>1. T \in SUBSET Nat
      BY DEF T
    <3> QED
      BY <2>1, <2>2, <3>1, AllNaturals
  <2> QED
    BY <2>3
<1>8. \A n \in Nat, j \in Int : Mag(j) < n => h[n][j] = h[Mag(j) + 1][j]
  <2> SUFFICES ASSUME NEW j \in Int PROVE \A n \in Nat : Mag(j) < n => h[n][j] = h[Mag(j) + 1][j]
    OBVIOUS
  <2>1. Mag(j) \in Nat
    BY DigitOf
  <2> DEFINE T == {n \in Nat : Mag(j) < n => h[n][j] = h[Mag(j) + 1][j]}
  <2>2. 0 \in T
    BY <2>1
  <2>3. ASSUME NEW n \in T PROVE n + 1 \in T
    <3>1. n \in Nat /\ n + 1 \in Nat
      OBVIOUS
    <3>2. CASE n = Mag(j)
      BY <3>1, <3>2
    <3>3. CASE Mag(j) < n
      BY <1>7, <3>1, <3>3
    <3>4. CASE n < Mag(j)
      BY <2>1, <3>1, <3>4
    <3> QED
      BY <2>1, <3>1, <3>2, <3>3, <3>4
  <2>4. T = Nat
    <3> HIDE DEF T
    <3>1. T \in SUBSET Nat
      BY DEF T
    <3> QED
      BY <2>2, <2>3, <3>1, AllNaturals
  <2> QED
    BY <2>4
<1> DEFINE f == [j \in Int |-> h[Mag(j) + 1][j]]
<1>9. \A j \in Int : f[j] = body(f, j)
  <2> SUFFICES ASSUME NEW j \in Int PROVE f[j] = body(f, j)
    OBVIOUS
  <2>1. Mag(j) \in Nat /\ Quotient(j) \in Int /\ Mag(Quotient(j)) \in Nat
        /\ (Quotient(j) # 0 => Mag(Quotient(j)) < Mag(j))
    BY DigitOf
  <2>2. f[j] = body(h[Mag(j)], j)
    BY <1>6, <2>1
  <2>3. Quotient(j) # 0 => h[Mag(j)][Quotient(j)] = f[Quotient(j)]
    BY <1>8, <2>1
  <2> HIDE DEF f
  <2>4. body(h[Mag(j)], j) = body(f, j)
    BY <2>3, Zenon DEF body
  <2> QED
    BY <2>2, <2>4
<1>10. f = [j \in Int |-> <<Digit(Remainder(j))>> \o IF Quotient(j) = 0 THEN <<>> ELSE f[Quotient(j)]]
  <2>1. f = [j \in Int |-> f[j]]
    OBVIOUS
  <2> HIDE DEF f
  <2> QED
    BY <1>9, <2>1, Zenon DEF body
<1> HIDE DEF f
<1>11. Backwards = [j \in Int |-> <<Digit(Remainder(j))>>
                      \o IF Quotient(j) = 0 THEN <<>> ELSE Backwards[Quotient(j)]]
  BY <1>10, Zenon DEF Backwards
<1> QED
  BY <1>11

(* The values of a numeral's beginnings. *)
Rows(digits, value) ==
  /\ value \in [0 .. Len(digits) -> Int]
  /\ value[0] = 0
  /\ \A k \in 0 .. Len(digits) : k # 0 => value[k] = Base * value[k - 1] + digits[k]

(* There are such values, and Value is the last of them. *)
LEMMA ValueIs ==
  ASSUME NEW digits \in Seq(Int)
  PROVE  \E value : Rows(digits, value) /\ Value(digits) = value[Len(digits)]
<1> DEFINE L == Len(digits)
           step == [x \in (Nat \ {0}) \X Int |-> Base * x[2] + IF x[1] <= L THEN digits[x[1]] ELSE 0]
<1>1. L \in Nat /\ Base \in Int
  BY LogStreamAssumption
<1>2. ASSUME NEW n \in Nat, NEW v \in Int
      PROVE  Base * v + (IF n + 1 <= L THEN digits[n + 1] ELSE 0) \in Int
  <2>1. Base * v \in Int
    BY <1>1
  <2>2. (IF n + 1 <= L THEN digits[n + 1] ELSE 0) \in Int
    BY <1>1
  <2> QED
    BY <2>1, <2>2
<1>3. step \in [(Nat \ {0}) \X Int -> Int]
  <2> SUFFICES ASSUME NEW n \in Nat \ {0}, NEW v \in Int
               PROVE  Base * v + (IF n <= L THEN digits[n] ELSE 0) \in Int
    OBVIOUS
  <2>1. n - 1 \in Nat /\ (n - 1) + 1 = n
    OBVIOUS
  <2> QED
    BY <1>2, <2>1
<1>4. ASSUME NEW n \in Nat, NEW v \in Int
      PROVE  step[<<n + 1, v>>] = Base * v + (IF n + 1 <= L THEN digits[n + 1] ELSE 0)
  <2>1. <<n + 1, v>> \in (Nat \ {0}) \X Int
    OBVIOUS
  <2> QED
    BY <2>1
<1> HIDE DEF step
<1>5. PICK h \in [Nat -> Int] : Iterates(h, 0, step)
  <2>1. 0 \in Int
    OBVIOUS
  <2> QED
    BY <1>3, <2>1, IteratesExist, Zenon
<1> DEFINE f == [k \in 0 .. L |-> h[k]]
<1>6. f \in [0 .. L -> Int] /\ f[0] = 0
  BY <1>1, <1>5 DEF Iterates
<1>7. ASSUME NEW k \in 0 .. L, k # 0
      PROVE  f[k] = Base * f[k - 1] + digits[k]
  <2>1. k - 1 \in Nat /\ (k - 1) + 1 = k /\ k - 1 \in 0 .. L /\ k <= L
    BY <1>1, <1>7
  <2>2. h[(k - 1) + 1] = step[<<(k - 1) + 1, h[k - 1]>>] /\ h[k - 1] \in Int
    BY <1>5, <2>1 DEF Iterates
  <2>3. h[k] = Base * h[k - 1] + digits[k]
    BY <1>4, <2>1, <2>2
  <2> QED
    BY <2>1, <2>3
<1> HIDE DEF f
<1>8. f = [k \in 0 .. L |-> IF k = 0 THEN 0 ELSE Base * f[k - 1] + digits[k]]
  <2>1. f = [k \in 0 .. L |-> f[k]]
    BY <1>6
  <2>2. \A k \in 0 .. L : f[k] = IF k = 0 THEN 0 ELSE Base * f[k - 1] + digits[k]
    BY <1>6, <1>7, Zenon
  <2> QED
    BY <2>1, <2>2, Zenon
<1> DEFINE P(g) == g = [k \in 0 .. L |-> IF k = 0 THEN 0 ELSE Base * g[k - 1] + digits[k]]
           value == CHOOSE g : P(g)
<1>9. P(value)
  BY <1>8, Zenon
<1>10. Value(digits) = value[L]
  BY Zenon DEF Value
<1> HIDE DEF value
<1>11. \A k \in 0 .. L : value[k] = IF k = 0 THEN 0 ELSE Base * value[k - 1] + digits[k]
  BY <1>9
<1>12. 0 \in 0 .. L
  BY <1>1
<1>13. value[0] = 0 /\ \A k \in 0 .. L : k # 0 => value[k] = Base * value[k - 1] + digits[k]
  BY <1>11, <1>12, Zenon
<1>14. \A k \in 0 .. L : value[k] \in Int
  <2> DEFINE T == {k \in Nat : k <= L => value[k] \in Int}
  <2>1. 0 \in T
    BY <1>13
  <2>2. ASSUME NEW k \in T PROVE k + 1 \in T
    <3> SUFFICES ASSUME k + 1 <= L PROVE value[k + 1] \in Int
      OBVIOUS
    <3>1. k \in Nat /\ k <= L /\ k + 1 \in 0 .. L /\ k + 1 # 0 /\ (k + 1) - 1 = k
      BY <1>1
    <3>2. value[k + 1] = Base * value[k] + digits[k + 1]
      BY <1>13, <3>1
    <3>3. Base * value[k] + (IF k + 1 <= L THEN digits[k + 1] ELSE 0) \in Int
      BY <1>2, <3>1
    <3> QED
      BY <3>2, <3>3
  <2>3. T = Nat
    <3> HIDE DEF T
    <3>1. T \in SUBSET Nat
      BY DEF T
    <3> QED
      BY <2>1, <2>2, <3>1, AllNaturals
  <2>4. ASSUME NEW k \in 0 .. L PROVE value[k] \in Int
    <3>1. k \in Nat /\ k <= L
      BY <1>1
    <3>2. k \in T
      BY <2>3, <3>1, Zenon
    <3> QED
      BY <3>1, <3>2
  <2> QED
    BY <2>4
<1>15. value \in [0 .. L -> Int]
  BY <1>9, <1>14
<1>16. Rows(digits, value)
  BY <1>13, <1>15 DEF Rows
<1> QED
  BY <1>10, <1>16

(* A numeral that goes on begins with the same values. *)
LEMMA RowsAgree ==
  ASSUME NEW c \in Seq(Int), NEW d \in Seq(Int), NEW v, NEW w,
         Rows(c, v), Rows(d, w), Len(c) <= Len(d),
         \A k \in 1 .. Len(c) : c[k] = d[k]
  PROVE  \A k \in 0 .. Len(c) : v[k] = w[k]
<1> DEFINE T == {k \in Nat : k <= Len(c) => v[k] = w[k]}
<1>1. 0 \in T
  BY Zenon DEF Rows
<1>2. ASSUME NEW k \in T PROVE k + 1 \in T
  <2> SUFFICES ASSUME k + 1 <= Len(c) PROVE v[k + 1] = w[k + 1]
    OBVIOUS
  <2>1. /\ k \in Nat /\ k <= Len(c) /\ k + 1 # 0 /\ (k + 1) - 1 = k
        /\ k + 1 \in 0 .. Len(c) /\ k + 1 \in 0 .. Len(d) /\ k + 1 \in 1 .. Len(c)
    OBVIOUS
  <2>2. v[k + 1] = Base * v[k] + c[k + 1] /\ w[k + 1] = Base * w[k] + d[k + 1]
    BY <2>1 DEF Rows
  <2>3. v[k] = w[k]
    BY <2>1
  <2> QED
    BY <2>1, <2>2, <2>3, Zenon
<1>3. T = Nat
  <2> HIDE DEF T
  <2>1. T \in SUBSET Nat
    BY DEF T
  <2> QED
    BY <1>1, <1>2, <2>1, AllNaturals
<1> QED
  BY <1>3

(* The value of no digits, and that of one more. *)
LEMMA ValueStep ==
  /\ Value(<<>>) = 0
  /\ \A d \in Seq(Int), x \in Int : Value(d) \in Int /\ Value(d \o <<x>>) = Base * Value(d) + x
<1>1. Value(<<>>) = 0
  <2>1. <<>> \in Seq(Int) /\ Len(<<>>) = 0
    OBVIOUS
  <2>2. PICK v : Rows(<<>>, v) /\ Value(<<>>) = v[Len(<<>>)]
    BY <2>1, ValueIs
  <2> QED
    BY <2>1, <2>2 DEF Rows
<1>2. ASSUME NEW d \in Seq(Int), NEW x \in Int
      PROVE  Value(d) \in Int /\ Value(d \o <<x>>) = Base * Value(d) + x
  <2> DEFINE e == d \o <<x>>
             L == Len(d)
  <2>1. e \in Seq(Int) /\ Len(e) = L + 1 /\ e[L + 1] = x /\ L \in Nat
        /\ \A k \in 1 .. L : d[k] = e[k]
    <3>1. <<x>> \in Seq(Int) /\ Len(<<x>>) = 1
      OBVIOUS
    <3> QED
      BY <3>1, ConcatProperties
  <2> HIDE DEF e
  <2>2. PICK v : Rows(d, v) /\ Value(d) = v[L]
    BY ValueIs
  <2>3. PICK w : Rows(e, w) /\ Value(e) = w[Len(e)]
    BY <2>1, ValueIs
  <2>4. v[L] = w[L]
    BY <2>1, <2>2, <2>3, RowsAgree
  <2>5. L \in 0 .. L /\ L + 1 \in 0 .. Len(e) /\ L + 1 # 0 /\ (L + 1) - 1 = L
    BY <2>1
  <2>6. v[L] \in Int
    BY <2>2, <2>5 DEF Rows
  <2>7. w[L + 1] = Base * w[L] + e[L + 1]
    BY <2>3, <2>5 DEF Rows
  <2> QED
    BY <2>1, <2>2, <2>3, <2>4, <2>6, <2>7, Zenon DEF e
<1> QED
  BY <1>1, <1>2

(* Reversing puts the first element last and the last one first. *)
LEMMA ReversedIs ==
  ASSUME NEW S, NEW s \in Seq(S), NEW x \in S
  PROVE  /\ Reversed(s) \in Seq(S) /\ Len(Reversed(s)) = Len(s)
         /\ Reversed(<<x>> \o s) = Reversed(s) \o <<x>>
         /\ Reversed(s \o <<x>>) = <<x>> \o Reversed(s)
<1> DEFINE r == Reversed(s)
           L == Len(s)
           a == <<x>> \o s
           b == s \o <<x>>
           ra == Reversed(a)
           rb == Reversed(b)
           ar == r \o <<x>>
           br == <<x>> \o r
<1>1. <<x>> \in Seq(S) /\ Len(<<x>>) = 1 /\ <<x>>[1] = x /\ L \in Nat
  OBVIOUS
<1>2. r \in Seq(S) /\ Len(r) = L /\ \A k \in 1 .. L : r[k] = s[L + 1 - k]
  BY <1>1 DEF Reversed
<1> HIDE DEF r
<1>3. a \in Seq(S) /\ Len(a) = L + 1 /\ a[1] = x /\ \A k \in 1 .. L : a[k + 1] = s[k]
  BY <1>1, ConcatProperties
<1>4. b \in Seq(S) /\ Len(b) = L + 1 /\ b[L + 1] = x /\ \A k \in 1 .. L : b[k] = s[k]
  BY <1>1, ConcatProperties
<1>5. ar \in Seq(S) /\ Len(ar) = L + 1 /\ ar[L + 1] = x /\ \A k \in 1 .. L : ar[k] = r[k]
  BY <1>1, <1>2, ConcatProperties
<1>6. br \in Seq(S) /\ Len(br) = L + 1 /\ br[1] = x /\ \A k \in 1 .. L : br[k + 1] = r[k]
  BY <1>1, <1>2, ConcatProperties
<1> HIDE DEF a, b, ar, br
<1>7. ra \in Seq(S) /\ Len(ra) = L + 1 /\ \A k \in 1 .. L + 1 : ra[k] = a[L + 2 - k]
  BY <1>1, <1>3 DEF Reversed
<1>8. rb \in Seq(S) /\ Len(rb) = L + 1 /\ \A k \in 1 .. L + 1 : rb[k] = b[L + 2 - k]
  BY <1>1, <1>4 DEF Reversed
<1> HIDE DEF ra, rb
<1>9. ASSUME NEW k \in 1 .. L + 1 PROVE ra[k] = ar[k]
  <2>1. CASE k = L + 1
    BY <1>1, <1>3, <1>5, <1>7, <2>1
  <2>2. CASE k # L + 1
    <3>1. k \in 1 .. L /\ L + 1 - k \in 1 .. L /\ (L + 1 - k) + 1 = L + 2 - k
      BY <1>1, <2>2
    <3>2. a[(L + 1 - k) + 1] = s[L + 1 - k]
      BY <1>3, <3>1
    <3> QED
      BY <1>2, <1>5, <1>7, <3>1, <3>2
  <2> QED
    BY <2>1, <2>2
<1>10. ASSUME NEW k \in 1 .. L + 1 PROVE rb[k] = br[k]
  <2>1. CASE k = 1
    BY <1>1, <1>4, <1>6, <1>8, <2>1
  <2>2. CASE k # 1
    <3>1. k - 1 \in 1 .. L /\ (k - 1) + 1 = k /\ L + 2 - k \in 1 .. L /\ L + 1 - (k - 1) = L + 2 - k
      BY <1>1, <2>2
    <3>2. br[(k - 1) + 1] = r[k - 1]
      BY <1>6, <3>1
    <3>3. r[k - 1] = s[L + 1 - (k - 1)]
      BY <1>2, <3>1
    <3> QED
      BY <1>4, <1>8, <3>1, <3>2, <3>3
  <2> QED
    BY <2>1, <2>2
<1>11. ra = ar
  BY <1>5, <1>7, <1>9, SeqEqual
<1>12. rb = br
  BY <1>6, <1>8, <1>10, SeqEqual
<1> QED
  BY <1>2, <1>11, <1>12 DEF a, b, r, ra, rb, ar, br

(* The digits, and what is to be shown of those of a number. *)
Numeral == 0 .. Base - 1

GoodNumeral(i) ==
  /\ Backwards[i] \in Seq(Numeral)
  /\ Len(Backwards[i]) >= 1
  /\ Value(Reversed(Backwards[i])) = Mag(i)

(* A sequence over a set is one over a larger set. *)
LEMMA SeqOfMore ==
  ASSUME NEW S, NEW R, S \subseteq R, NEW s \in Seq(S)
  PROVE  s \in Seq(R)
<1>1. Len(s) \in Nat /\ s \in [1 .. Len(s) -> R]
  OBVIOUS
<1> DEFINE n == Len(s)
<1>2. n \in Nat /\ s \in [1 .. n -> R]
  BY <1>1
<1> HIDE DEF n
<1> QED
  BY <1>2

(* The digits that convert() finds are those of the number, for every        *)
(* integer, whatever its sign.                                               *)
LEMMA BackwardsIsGood == \A i \in Int : GoodNumeral(i)
<1> DEFINE T == {n \in Nat : \A i \in Int : Mag(i) < n => GoodNumeral(i)}
<1>1. 0 \in T
  BY DigitOf
<1>2. ASSUME NEW n \in T PROVE n + 1 \in T
  <2> SUFFICES ASSUME NEW i \in Int, Mag(i) < n + 1 PROVE GoodNumeral(i)
    OBVIOUS
  <2> DEFINE q == Quotient(i)
             x == Digit(Remainder(i))
             s == IF q = 0 THEN <<>> ELSE Backwards[q]
             c == Base * Mag(q)
  <2>1. /\ n \in Nat /\ Mag(i) \in Nat /\ q \in Int /\ Mag(q) \in Nat
        /\ x = Mag(i) - c /\ x \in Numeral
        /\ (q # 0 => Mag(q) < Mag(i)) /\ (q = 0 => Mag(q) = 0)
    BY DigitOf DEF Numeral
  <2>2. q # 0 => GoodNumeral(q)
    <3> HIDE DEF q
    <3> QED
      BY <2>1
  <2>3. Backwards[i] = <<x>> \o s
    BY BackwardsIs
  <2> HIDE DEF q, x
  <2>4. Numeral \subseteq Int /\ Base \in Nat
    BY LogStreamAssumption DEF Numeral
  <2>5. s \in Seq(Numeral) /\ Value(Reversed(s)) = Mag(q)
    <3>1. CASE q = 0
      <4>1. s = <<>> /\ Reversed(<<>>) = <<>>
        BY <3>1 DEF Reversed
      <4> QED
        BY <2>1, <3>1, <4>1, ValueStep
    <3>2. CASE q # 0
      BY <2>2, <3>2 DEF GoodNumeral
    <3> QED
      BY <3>1, <3>2
  <2> HIDE DEF s
  <2>6. <<x>> \in Seq(Numeral) /\ Len(<<x>>) = 1
    BY <2>1
  <2>7. Backwards[i] \in Seq(Numeral) /\ Len(Backwards[i]) >= 1
    BY <2>3, <2>5, <2>6, ConcatProperties
  <2>8. Reversed(s) \in Seq(Numeral) /\ Reversed(<<x>> \o s) = Reversed(s) \o <<x>>
    BY <2>1, <2>5, ReversedIs
  <2>9. Reversed(s) \in Seq(Int) /\ x \in Int
    BY <2>1, <2>4, <2>8, SeqOfMore
  <2>10. Value(Reversed(s) \o <<x>>) = Base * Value(Reversed(s)) + x
    BY <2>9, ValueStep
  <2>11. c \in Int
    BY <2>1, <2>4
  <2>12. Value(Reversed(s) \o <<x>>) = c + x
    BY <2>5, <2>10
  <2> HIDE DEF c
  <2>13. c + x = Mag(i)
    BY <2>1, <2>11
  <2> QED
    BY <2>3, <2>7, <2>8, <2>12, <2>13, Zenon DEF GoodNumeral
<1>3. T = Nat
  <2> HIDE DEF T
  <2>1. T \in SUBSET Nat
    BY DEF T
  <2> QED
    BY <1>1, <1>2, <2>1, AllNaturals
<1> SUFFICES ASSUME NEW i \in Int PROVE GoodNumeral(i)
  OBVIOUS
<1>4. Mag(i) \in Nat
  BY DigitOf
<1>5. Mag(i) + 1 \in T
  BY <1>3, <1>4
<1> QED
  BY <1>4, <1>5

(* A number below Base^(k + 1) has at most k + 1 digits. *)
LEMMA BackwardsIsShort ==
  \A k \in Nat, i \in Int : Mag(i) < Power[k + 1] => Len(Backwards[i]) <= k + 1
<1> DEFINE T == {k \in Nat : \A i \in Int : Mag(i) < Power[k + 1] => Len(Backwards[i]) <= k + 1}
<1>1. ASSUME NEW k \in Nat, NEW i \in Int, Mag(i) < Power[k + 1]
      PROVE  /\ Mag(Quotient(i)) < Power[k]
             /\ Len(Backwards[i]) \in Nat
             /\ Len(Backwards[i]) = 1 + IF Quotient(i) = 0 THEN 0 ELSE Len(Backwards[Quotient(i)])
             /\ Quotient(i) \in Int /\ Mag(Quotient(i)) \in Nat
  <2> DEFINE q == Quotient(i)
             x == Digit(Remainder(i))
             r == Mag(q)
             p == Power[k]
             b == Base
  <2>1. /\ Mag(i) \in Nat /\ q \in Int /\ r \in Nat
        /\ x = Mag(i) - b * r /\ x \in Numeral
    BY DigitOf DEF Numeral
  <2>2. p \in Nat /\ Mag(i) < b * p /\ b \in Nat \ {0, 1}
    BY <1>1, PowerStep, LogStreamAssumption
  <2>3. b * r <= Mag(i)
    <3> DEFINE c == b * r
    <3>1. c \in Int
      <4> HIDE DEF b, r
      <4> QED
        BY <2>1, <2>2
    <3>2. x >= 0 /\ x \in Int
      BY <2>1, <2>2 DEF Numeral
    <3>3. x = Mag(i) - c
      BY <2>1
    <3> HIDE DEF c, x
    <3>4. c <= Mag(i)
      BY <2>1, <3>1, <3>2, <3>3
    <3> QED
      BY <3>4 DEF c
  <2>4. b * r < b * p => r < p
    <3> HIDE DEF b, r, p
    <3> QED
      BY <2>1, <2>2, SMTT(30)
  <2>5. r < p
    <3> DEFINE c == b * r
               d == b * p
    <3>1. c \in Int /\ d \in Int
      <4> HIDE DEF b, r, p
      <4> QED
        BY <2>1, <2>2
    <3>2. c <= Mag(i) /\ Mag(i) < d /\ (c < d => r < p)
      BY <2>2, <2>3, <2>4
    <3> HIDE DEF c, d, r, p
    <3> QED
      BY <2>1, <3>1, <3>2
  <2>6. Backwards[i] = <<x>> \o IF q = 0 THEN <<>> ELSE Backwards[q]
    BY BackwardsIs
  <2>7. Backwards[q] \in Seq(Numeral) /\ <<x>> \in Seq(Numeral) /\ <<>> \in Seq(Numeral)
        /\ Len(<<x>>) = 1 /\ Len(<<>>) = 0
    BY <2>1, BackwardsIsGood DEF GoodNumeral
  <2>8. Len(Backwards[i]) \in Nat /\ Len(Backwards[i]) = 1 + IF q = 0 THEN 0 ELSE Len(Backwards[q])
    <3> HIDE DEF q, x
    <3> QED
      BY <2>6, <2>7, ConcatProperties
  <2> QED
    BY <2>1, <2>5, <2>8
<1>2. 0 \in T
  <2> SUFFICES ASSUME NEW i \in Int, Mag(i) < Power[0 + 1] PROVE Len(Backwards[i]) <= 0 + 1
    OBVIOUS
  <2>1. Mag(Quotient(i)) < 1 /\ Quotient(i) \in Int
    BY <1>1, PowerStep
  <2>2. Quotient(i) = 0
    BY <2>1 DEF Mag
  <2> QED
    BY <1>1, <2>2
<1>3. ASSUME NEW k \in T PROVE k + 1 \in T
  <2> SUFFICES ASSUME NEW i \in Int, Mag(i) < Power[(k + 1) + 1] PROVE Len(Backwards[i]) <= (k + 1) + 1
    OBVIOUS
  <2>1. k \in Nat /\ k + 1 \in Nat
    OBVIOUS
  <2>2. /\ Mag(Quotient(i)) < Power[k + 1] /\ Quotient(i) \in Int
        /\ Len(Backwards[i]) = 1 + IF Quotient(i) = 0 THEN 0 ELSE Len(Backwards[Quotient(i)])
    BY <1>1, <2>1
  <2>3. Len(Backwards[Quotient(i)]) <= k + 1
    BY <2>2
  <2>4. Len(Backwards[Quotient(i)]) \in Nat
    BY <2>2, BackwardsIsGood DEF GoodNumeral
  <2> QED
    BY <2>1, <2>2, <2>3, <2>4
<1>4. T = Nat
  <2> HIDE DEF T
  <2>1. T \in SUBSET Nat
    BY DEF T
  <2> QED
    BY <1>2, <1>3, <2>1, AllNaturals
<1> QED
  BY <1>4

(* What convert() writes for an integer that has at most Digits digits: no   *)
(* more than that and a sign, and it reads as that integer.                  *)
LEMMA ConvertIs ==
  ASSUME NEW n \in Integer
  PROVE  /\ n \in Int
         /\ Convert(n) \in Seq(Int)
         /\ Len(Convert(n)) \in 1 .. Digits + 1
         /\ ValueOf(Convert(n)) = n
<1> DEFINE s == Backwards[n]
           r == Reversed(s)
<1>1. n \in Int /\ Mag(n) \in Nat /\ Mag(n) < Power[Digits]
  <2>1. Power[Digits] \in Nat
    BY PowerStep, LogStreamAssumption
  <2> QED
    BY <2>1 DEF Integer, Mag
<1>2. Numeral \subseteq Int /\ Base \in Nat /\ Digits \in Nat
  BY LogStreamAssumption DEF Numeral
<1>3. s \in Seq(Numeral) /\ Len(s) >= 1 /\ Value(r) = Mag(n)
  BY <1>1, BackwardsIsGood DEF GoodNumeral
<1>4. Len(s) \in Nat /\ Len(s) <= Digits
  <2>1. Digits - 1 \in Nat /\ (Digits - 1) + 1 = Digits
    BY LogStreamAssumption
  <2>2. Mag(n) < Power[(Digits - 1) + 1] => Len(Backwards[n]) <= (Digits - 1) + 1
    BY <1>1, <2>1, BackwardsIsShort
  <2> QED
    BY <1>1, <1>3, <2>1, <2>2
<1> HIDE DEF s
<1>5. s \in Seq(Int)
  BY <1>2, <1>3, SeqOfMore
<1>6. Minus \in Int /\ <<Minus>> \in Seq(Int) /\ Len(<<Minus>>) = 1
  BY DEF Minus
<1>7. r \in Seq(Numeral)
  <2>1. 0 \in Numeral
    BY LogStreamAssumption DEF Numeral
  <2> QED
    BY <1>3, <2>1, ReversedIs
<1>8. /\ r \in Seq(Int) /\ Len(r) = Len(s)
      /\ Reversed(s \o <<Minus>>) = <<Minus>> \o r
      /\ s \o <<>> = s
  <2>1. s \o <<>> = s
    BY <1>5, ConcatEmptySeq
  <2>2. Reversed(s) \in Seq(Int) /\ Len(Reversed(s)) = Len(s)
        /\ Reversed(s \o <<Minus>>) = <<Minus>> \o Reversed(s)
    BY <1>5, <1>6, ReversedIs
  <2> QED
    BY <2>1, <2>2
<1>9. CASE n < 0
  <2>1. Convert(n) = <<Minus>> \o r
    BY <1>8, <1>9 DEF Convert, s
  <2> HIDE DEF r
  <2> DEFINE t == <<Minus>> \o r
  <2>2. /\ t \in Seq(Int) /\ Len(t) = Len(r) + 1 /\ t[1] = Minus
        /\ \A k \in 1 .. Len(r) : t[k + 1] = r[k]
    BY <1>6, <1>8, ConcatProperties
  <2> HIDE DEF t
  <2>3. t # <<>>
    BY <1>4, <1>8, <2>2
  <2>4. Tail(t) = r
    <3>1. Tail(t) \in Seq(Int) /\ Len(Tail(t)) = Len(r)
          /\ \A k \in 1 .. Len(r) : Tail(t)[k] = t[k + 1]
      BY <1>4, <1>8, <2>2, <2>3, HeadTailProperties
    <3>2. \A k \in 1 .. Len(r) : Tail(t)[k] = r[k]
      BY <2>2, <3>1
    <3> QED
      BY <1>8, <3>1, <3>2, SeqEqual
  <2>5. ValueOf(t) = -Mag(n)
    BY <1>3, <2>2, <2>3, <2>4 DEF ValueOf
  <2>6. -Mag(n) = n
    BY <1>1, <1>9 DEF Mag
  <2>7. Len(t) \in 1 .. Digits + 1
    BY <1>2, <1>4, <1>8, <2>2
  <2> QED
    BY <1>1, <2>1, <2>2, <2>5, <2>6, <2>7 DEF t
<1>10. CASE ~(n < 0)
  <2>1. Convert(n) = r
    BY <1>8, <1>10 DEF Convert, s
  <2> HIDE DEF r
  <2>2. r[1] # Minus
    <3>1. Len(r) >= 1 /\ Len(r) \in Nat
      BY <1>3, <1>4, <1>8
    <3>2. r[1] \in Numeral
      BY <1>7, <3>1
    <3> QED
      BY <1>2, <3>2 DEF Numeral, Minus
  <2>3. ValueOf(r) = Mag(n)
    BY <1>3, <2>2 DEF ValueOf
  <2>4. Mag(n) = n
    BY <1>1, <1>10 DEF Mag
  <2>5. Len(r) \in 1 .. Digits + 1
    BY <1>2, <1>3, <1>4, <1>8
  <2> QED
    BY <1>1, <1>8, <2>1, <2>3, <2>4, <2>5
<1> QED
  BY <1>9, <1>10

(* The last number is in the line, where it was put. *)
LastIsThere(data, number) ==
  /\ number.value \in Int /\ number.from \in Nat \ {0} /\ number.to \in Nat
  /\ number.to <= Len(data)
  /\ ValueOf(SubSeq(data, number.from, number.to)) = number.value

LineInv ==
  /\ data_ \in Seq(Int)
  /\ beyond \in Nat /\ beyond <= kSmallBuffer
  /\ LastIsThere(data_, last)

(* Where a number was put, it is read. *)
LEMMA ReadBack ==
  ASSUME NEW data \in Seq(Int), NEW head \in Seq(Int), NEW text \in Seq(Int), Len(text) >= 1
  PROVE  /\ data \o (head \o text) \in Seq(Int)
         /\ Len(data \o (head \o text)) = Len(data) + Len(head) + Len(text)
         /\ SubSeq(data \o (head \o text), Len(data) + Len(head) + 1,
                   Len(data \o (head \o text))) = text
<1> DEFINE front == data \o head
           all == data \o (head \o text)
           L == Len(front)
<1>1. all = front \o text
  <2> DEFINE S == Int
  <2>1. data \in Seq(S) /\ head \in Seq(S) /\ text \in Seq(S)
    OBVIOUS
  <2> HIDE DEF S
  <2>2. (data \o head) \o text = data \o (head \o text)
    BY <2>1, ConcatAssociative, SMTT(30)
  <2> QED
    BY <2>2
<1>2. front \in Seq(Int) /\ L = Len(data) + Len(head) /\ L \in Nat /\ Len(text) \in Nat
  BY ConcatProperties
<1> HIDE DEF front, all
<1>3. all \in Seq(Int) /\ Len(all) = L + Len(text)
  BY <1>1, <1>2, ConcatProperties
<1>4. SubSeq(front \o text, L + 1, L + Len(text)) = SubSeq(text, (L + 1) - L, (L + Len(text)) - L)
  <2>1. L + 1 \in L + 1 .. L + Len(text) /\ L + Len(text) \in L + 1 .. L + Len(text)
    BY <1>2
  <2> QED
    BY <1>2, <2>1, SubSeqOfConcat2
<1>5. (L + 1) - L = 1 /\ (L + Len(text)) - L = Len(text)
  BY <1>2
<1>6. SubSeq(text, 1, Len(text)) = text
  BY SubSeqFull
<1> QED
  BY <1>1, <1>2, <1>3, <1>4, <1>5, <1>6 DEF all

LEMMA NothingYet == LastIsThere(<<>>, [value |-> 0, from |-> 1, to |-> 0])
<1> DEFINE none == [value |-> 0, from |-> 1, to |-> 0]
<1>1. none.value = 0 /\ none.from = 1 /\ none.to = 0
  OBVIOUS
<1>2. SubSeq(<<>>, 1, 0) = <<>>
  BY SubSeqEmpty
<1>3. ValueOf(<<>>) = 0
  BY ValueStep, Zenon DEF ValueOf
<1> HIDE DEF none
<1>4. ValueOf(SubSeq(<<>>, none.from, none.to)) = none.value
  BY <1>1, <1>2, <1>3, Zenon
<1>5. none.value \in Int /\ none.from \in Nat \ {0} /\ none.to \in Nat /\ none.to <= Len(<<>>)
  BY <1>1
<1>6. LastIsThere(<<>>, none)
  BY <1>4, <1>5, Zenon DEF LastIsThere
<1> QED
  BY <1>6 DEF none

LEMMA LineStep == LineInv /\ [LineNext]_lineVars => LineInv'
<1> SUFFICES ASSUME LineInv, [LineNext]_lineVars PROVE LineInv'
  OBVIOUS
<1>1. /\ data_ \in Seq(Int) /\ Len(data_) \in Nat /\ beyond \in Nat /\ beyond <= kSmallBuffer
      /\ LastIsThere(data_, last)
  BY DEF LineInv
<1>2. /\ kSmallBuffer \in Nat /\ kMaxNumericSize \in Nat /\ Digits \in Nat /\ DoubleSize \in Nat
      /\ Digits + 3 <= kMaxNumericSize /\ DoubleSize < kMaxNumericSize
  BY LogStreamAssumption
<1>3. ASSUME NEW n \in Integer, FormatInteger(n) PROVE LineInv'
  <2> DEFINE text == Convert(n)
             L == Len(data_)
  <2>1. n \in Int /\ text \in Seq(Int) /\ Len(text) \in 1 .. Digits + 1 /\ ValueOf(text) = n
    BY ConvertIs
  <2>2. /\ kSmallBuffer - L >= kMaxNumericSize
        /\ data_' = data_ \o text
        /\ beyond' = IF Len(data_') + 1 > beyond THEN Len(data_') + 1 ELSE beyond
        /\ last' = [value |-> n, from |-> L + 1, to |-> Len(data_')]
    BY <1>3 DEF FormatInteger, Put, Avail
  <2> HIDE DEF text
  <2>3. <<>> \in Seq(Int) /\ Len(<<>>) = 0 /\ <<>> \o text = text /\ Len(text) >= 1
    BY <1>2, <2>1, ConcatEmptySeq
  <2>4. /\ data_' \in Seq(Int) /\ Len(data_') = L + Len(text)
        /\ SubSeq(data_', L + 1, Len(data_')) = text
    <3>1. /\ data_ \o (<<>> \o text) \in Seq(Int)
          /\ Len(data_ \o (<<>> \o text)) = L + Len(<<>>) + Len(text)
          /\ SubSeq(data_ \o (<<>> \o text), L + Len(<<>>) + 1, Len(data_ \o (<<>> \o text))) = text
      BY <1>1, <2>1, <2>3, ReadBack
    <3>2. L + Len(<<>>) = L
      BY <1>1, <2>3
    <3> QED
      BY <2>2, <2>3, <3>1, <3>2
  <2>5. Len(data_') \in Nat /\ Len(data_') + 1 <= kSmallBuffer
    BY <1>1, <1>2, <2>1, <2>2, <2>4
  <2>6. beyond' \in Nat /\ beyond' <= kSmallBuffer
    BY <1>1, <2>2, <2>5
  <2>7. last'.value = n /\ last'.from = L + 1 /\ last'.to = Len(data_')
    BY <2>2
  <2>8. ValueOf(SubSeq(data_', last'.from, last'.to)) = last'.value
    BY <2>1, <2>4, <2>7, Zenon
  <2>9. /\ last'.value \in Int /\ last'.from \in Nat \ {0} /\ last'.to \in Nat
        /\ last'.to <= Len(data_')
    BY <1>1, <2>1, <2>5, <2>7
  <2>10. LastIsThere(data_', last')
    BY <2>8, <2>9, Zenon DEF LastIsThere
  <2> QED
    BY <2>4, <2>6, <2>10 DEF LineInv
<1>4. ASSUME NEW n \in Integer \intersect Nat, FormatPointer(n) PROVE LineInv'
  <2> DEFINE text == Convert(n)
             head == <<0, LetterX>>
             L == Len(data_)
  <2>1. n \in Int /\ text \in Seq(Int) /\ Len(text) \in 1 .. Digits + 1 /\ ValueOf(text) = n
    BY ConvertIs
  <2>2. /\ kSmallBuffer - L > kMaxNumericSize
        /\ data_' = data_ \o (head \o text)
        /\ beyond' = IF Len(data_') + 1 > beyond THEN Len(data_') + 1 ELSE beyond
        /\ last' = [value |-> n, from |-> L + 3, to |-> Len(data_')]
    BY <1>4 DEF FormatPointer, Put, Avail
  <2>3. head \in Seq(Int) /\ Len(head) = 2
    BY DEF LetterX
  <2> HIDE DEF text, head
  <2>4. /\ data_' \in Seq(Int) /\ Len(data_') = L + 2 + Len(text)
        /\ SubSeq(data_', L + 3, Len(data_')) = text
    <3>1. Len(text) >= 1
      BY <1>2, <2>1
    <3>2. /\ data_ \o (head \o text) \in Seq(Int)
          /\ Len(data_ \o (head \o text)) = L + Len(head) + Len(text)
          /\ SubSeq(data_ \o (head \o text), L + Len(head) + 1, Len(data_ \o (head \o text))) = text
      BY <1>1, <2>1, <2>3, <3>1, ReadBack
    <3>3. L + Len(head) + 1 = L + 3 /\ L + Len(head) = L + 2
      BY <1>1, <2>3
    <3> QED
      BY <2>2, <3>2, <3>3
  <2>5. Len(data_') \in Nat /\ Len(data_') + 1 <= kSmallBuffer
    <3> DEFINE size == Len(text)
    <3>1. size \in 1 .. Digits + 1 /\ Len(data_') = L + 2 + size
      BY <2>1, <2>4
    <3>2. kSmallBuffer - L > kMaxNumericSize /\ L \in Nat
      BY <1>1, <2>2
    <3> HIDE DEF size, L
    <3> QED
      BY <1>2, <3>1, <3>2
  <2>6. beyond' \in Nat /\ beyond' <= kSmallBuffer
    BY <1>1, <2>2, <2>5
  <2>7. last'.value = n /\ last'.from = L + 3 /\ last'.to = Len(data_')
    BY <2>2
  <2>8. ValueOf(SubSeq(data_', last'.from, last'.to)) = last'.value
    BY <2>1, <2>4, <2>7, Zenon
  <2>9. /\ last'.value \in Int /\ last'.from \in Nat \ {0} /\ last'.to \in Nat
        /\ last'.to <= Len(data_')
    BY <1>1, <2>1, <2>5, <2>7
  <2>10. LastIsThere(data_', last')
    BY <2>8, <2>9, Zenon DEF LastIsThere
  <2> QED
    BY <2>4, <2>6, <2>10 DEF LineInv
<1>5. ASSUME NEW length \in 1 .. DoubleSize, FormatDouble(length) PROVE LineInv'
  <2> DEFINE text == [i \in 1 .. length |-> Other]
             L == Len(data_)
  <2>1. length \in Nat /\ text \in Seq(Int) /\ Len(text) = length
    BY <1>2 DEF Other
  <2>2. /\ kSmallBuffer - L > kMaxNumericSize
        /\ data_' = data_ \o text
        /\ beyond' = IF Len(data_') + 1 > beyond THEN Len(data_') + 1 ELSE beyond
        /\ last' = last
    BY <1>5 DEF FormatDouble, Put, Avail
  <2> HIDE DEF text
  <2>3. data_' \in Seq(Int) /\ Len(data_') = L + length
    BY <1>1, <2>1, <2>2, ConcatProperties
  <2>4. Len(data_') \in Nat /\ Len(data_') + 1 <= kSmallBuffer
    BY <1>1, <1>2, <1>5, <2>1, <2>2, <2>3
  <2>5. beyond' \in Nat /\ beyond' <= kSmallBuffer
    BY <1>1, <2>2, <2>4
  <2> DEFINE f == last.from
             t == last.to
  <2>6. f \in Nat \ {0} /\ t \in Nat /\ t <= L /\ L \in Nat
    BY <1>1 DEF LastIsThere
  <2> HIDE DEF f, t
  <2>7. SubSeq(data_', f, t) = SubSeq(data_, f, t)
    <3>1. CASE t < f
      BY <2>6, <3>1, SubSeqEmpty
    <3>2. CASE ~(t < f)
      <4>1. f \in 1 .. L /\ t \in 1 .. L
        BY <2>6, <3>2
      <4> QED
        BY <1>1, <2>1, <2>2, <4>1, SubSeqOfConcat1
    <3> QED
      BY <3>1, <3>2
  <2>8. t <= Len(data_')
    BY <2>1, <2>3, <2>6
  <2>9. LastIsThere(data_', last)
    BY <1>1, <2>7, <2>8 DEF LastIsThere, f, t
  <2> QED
    BY <2>2, <2>3, <2>5, <2>9 DEF LineInv
<1>6. CASE ResetBuffer
  <2>1. data_' = <<>> /\ last' = [value |-> 0, from |-> 1, to |-> 0] /\ beyond' = beyond
    BY <1>6 DEF ResetBuffer
  <2> QED
    BY <1>1, <2>1, NothingYet DEF LineInv
<1>7. CASE UNCHANGED lineVars
  BY <1>1, <1>7 DEF lineVars, LineInv
<1> QED
  BY <1>3, <1>4, <1>5, <1>6, <1>7 DEF LineNext

LEMMA LineInvSuffices == LineInv => LineHoldsTheNumber
BY DEF LineInv, LastIsThere, LineHoldsTheNumber

(* Nothing is ever written behind the buffer, and the last integer of the    *)
(* line reads as the one that was put, whatever the base, the width and the  *)
(* room, as long as a numeral of that width fits kMaxNumericSize; the least  *)
(* integer too (LogStream.cpp:12-30, 92-127, 177-183).                       *)
THEOREM LineCorrect == LineSpec => []LineHoldsTheNumber
<1>1. LineInit => LineInv
  <2>1. <<>> \in Seq(Int) /\ 0 \in Nat /\ 0 <= kSmallBuffer
    BY LogStreamAssumption
  <2> QED
    BY <2>1, NothingYet DEF LineInit, LineInv
<1> QED
  BY <1>1, LineStep, LineInvSuffices, PTL DEF LineSpec
=============================================================================
