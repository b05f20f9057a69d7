------------------------- MODULE TimerQueue_proofs --------------------------
(***************************************************************************)
(* For any number of timers, every interval and however time passes: the   *)
(* two sets of TimerQueue agree, a cancelled timer never comes back, and   *)
(* while callbacks take no time the timerfd is set for what is pending.    *)
(***************************************************************************)
EXTENDS TimerQueue, SequenceTheorems, TLAPS

TypeOK ==
  /\ slow \in BOOLEAN /\ calling \in BOOLEAN /\ failed \in BOOLEAN
  /\ clock \in Nat /\ armed \in Nat /\ now \in Nat
  /\ expiredTime \in [Timer -> Nat]
  /\ interval \in [Timer -> Nat]
  /\ timers_ \subseteq Nat \X Timer
  /\ expired \subseteq Nat \X Timer
  /\ toRun \subseteq Nat \X Timer
  /\ created \subseteq Timer
  /\ activeTimers_ \subseteq Timer
  /\ cancelingTimers_ \subseteq Timer
  /\ cancelled \subseteq Timer
  /\ queue \in Seq(Functor)

(* The sets are two views of the same timers, none of them being handled;    *)
(* reset() leaves out the cancelled timers of the batch.                     *)
Sets ==
  /\ timers_ = {<<expiredTime[t], t>> : t \in activeTimers_}
  /\ activeTimers_ \intersect TimersOf(expired) = {}
  /\ cancelled \intersect activeTimers_ = {}
  /\ cancelled \intersect TimersOf(expired) \subseteq cancelingTimers_
  /\ ~calling => expired = {}
  /\ toRun \subseteq expired

(* A functor adds a timer that is nowhere else, and no other one adds it.    *)
Used == activeTimers_ \union TimersOf(expired) \union cancelled
Adds(i) == queue[i].run = "addTimerInLoop"

Queued ==
  /\ Used \subseteq created
  /\ \A i \in 1..Len(queue) : Adds(i) => queue[i].timer \in created \ Used
  /\ \A i, j \in 1..Len(queue) :
       Adds(i) /\ Adds(j) /\ queue[i].timer = queue[j].timer => i = j

SetsInv == TypeOK /\ Sets /\ Queued

(* The timerfd is set for the entry in time, or as soon as it can be.        *)
Armed(e) == armed # 0 /\ (armed <= e[1] \/ armed <= clock + 1)

(* While callbacks run the timerfd may be unset for the entries after `now': *)
(* reset() sees to them.                                                     *)
Arming ==
  ~slow /\ ~failed =>
    /\ ~calling => \A e \in timers_ : Armed(e)
    /\ calling => /\ clock = now
                  /\ \A e \in timers_ : e[1] <= now => armed # 0 /\ armed <= clock + 1
USE DEF clockVars, timerVars, setVars, handlingVars

LEMMA Durations ==
  /\ \A when \in 1..MaxTime : when \in Nat
  /\ \A every \in Intervals : every \in Nat \ {0}
  /\ 0 \in Nat
BY TimerQueueAssumption

LEMMA TimersOfEntries ==
  /\ \A entries : entries \subseteq Nat \X Timer => TimersOf(entries) \subseteq Timer
  /\ \A a, b : TimersOf(a \union b) = TimersOf(a) \union TimersOf(b)
  /\ \A a, b : a \subseteq b => TimersOf(a) \subseteq TimersOf(b)
  /\ \A entries : \A e \in entries : e[2] \in TimersOf(entries)
BY DEF TimersOf

LEMMA FunctorTypes ==
  \A t \in Timer : /\ [run |-> "addTimerInLoop", timer |-> t] \in Functor
                   /\ [run |-> "cancelInLoop", timer |-> t] \in Functor
BY DEF Functor

LEMMA HeadOfQueue ==
  ASSUME TypeOK, queue # <<>>
  PROVE  /\ Head(queue) \in Functor /\ Head(queue).timer \in Timer
         /\ Tail(queue) \in Seq(Functor)
         /\ Head(queue) = queue[1] /\ 1 \in 1..Len(queue)
         /\ Len(Tail(queue)) = Len(queue) - 1 /\ Len(queue) \in Nat
         /\ \A i \in 1..Len(Tail(queue)) : Tail(queue)[i] = queue[i + 1]
<1>1. queue \in Seq(Functor) /\ Len(queue) \in Nat \ {0}
  BY EmptySeq DEF TypeOK
<1>2. /\ Head(queue) \in Functor /\ Tail(queue) \in Seq(Functor)
      /\ Len(Tail(queue)) = Len(queue) - 1
      /\ \A i \in 1..Len(Tail(queue)) : Tail(queue)[i] = queue[i + 1]
  BY <1>1, HeadTailProperties
<1>3. Head(queue) = queue[1]
  BY <1>1
<1>4. Head(queue).timer \in Timer
  BY <1>2 DEF Functor
<1>5. QED
  BY <1>1, <1>2, <1>3, <1>4

----------------------------------------------------------------------------
(* Types. *)

LEMMA NewTimerTypes ==
  ASSUME TypeOK, NEW t \in Timer, NEW when \in Nat, NEW every \in Nat,
         NewTimer(t, when, every)
  PROVE  /\ created' \subseteq Timer
         /\ expiredTime' \in [Timer -> Nat] /\ interval' \in [Timer -> Nat]
BY DEF TypeOK, NewTimer

LEMMA AddTimerTypes ==
  ASSUME TypeOK, NEW t \in Timer, NEW when \in Nat, AddTimerInLoop(t, when)
  PROVE  /\ timers_' \subseteq Nat \X Timer /\ activeTimers_' \subseteq Timer
         /\ armed' \in Nat
<1>1. timers_' \subseteq Nat \X Timer /\ activeTimers_' \subseteq Timer
  BY DEF TypeOK, AddTimerInLoop
<1>2. armed' \in Nat
  BY DEF TypeOK, AddTimerInLoop, ResetTimerfd
<1>3. QED
  BY <1>1, <1>2

LEMMA CancelTypes ==
  ASSUME TypeOK, NEW t \in Timer, CancelInLoop(t)
  PROVE  /\ timers_' \subseteq Nat \X Timer /\ activeTimers_' \subseteq Timer
         /\ cancelingTimers_' \subseteq Timer /\ cancelled' \subseteq Timer
BY DEF TypeOK, CancelInLoop

LEMMA ResetTypes ==
  ASSUME TypeOK, Reset
  PROVE  /\ expiredTime' \in [Timer -> Nat] /\ armed' \in Nat
         /\ timers_' \subseteq Nat \X Timer /\ activeTimers_' \subseteq Timer
         /\ expired' = {}
<1> DEFINE again == Repeating \ cancelingTimers_
<1>1. again \subseteq Timer
  BY TimersOfEntries DEF TypeOK, Repeating
<1>2. \A t \in Timer : now + interval[t] \in Nat
  BY DEF TypeOK
<1> HIDE DEF again
<1>3. /\ expiredTime' = [t \in Timer |-> IF t \in again THEN now + interval[t]
                                                       ELSE expiredTime[t]]
      /\ timers_' = timers_ \union {<<now + interval[t], t>> : t \in again}
      /\ activeTimers_' = activeTimers_ \union again
      /\ expired' = {}
      /\ SetForEarliest
  BY DEF Reset, Restart, again
<1>4. expiredTime' \in [Timer -> Nat]
  BY <1>2, <1>3 DEF TypeOK
<1>5. timers_' \subseteq Nat \X Timer /\ activeTimers_' \subseteq Timer
  BY <1>1, <1>2, <1>3 DEF TypeOK
<1>6. armed' \in Nat
  <2>1. CASE UNCHANGED armed
    BY <2>1 DEF TypeOK
  <2>2. CASE \E e \in timers_' : ResetTimerfd(e[1])
    BY <1>5, <2>2 DEF TypeOK, ResetTimerfd
  <2>3. QED
    BY <1>3, <2>1, <2>2 DEF SetForEarliest
<1>7. QED
  BY <1>3, <1>4, <1>5, <1>6

LEMMA TypeOKStep == TypeOK /\ [Next]_vars => TypeOK'
<1> SUFFICES ASSUME TypeOK, [Next]_vars PROVE TypeOK'
  OBVIOUS
<1>1. ASSUME NEW t \in Timer, NEW when \in Nat, NEW every \in Nat, AddTimer(t, when, every)
      PROVE  TypeOK'
  <2>1. queue' \in Seq(Functor)
    BY <1>1, FunctorTypes, AppendProperties DEF AddTimer, TypeOK
  <2>2. QED
    BY <1>1, <2>1, NewTimerTypes DEF AddTimer, TypeOK
<1>2. ASSUME NEW t \in Timer, Cancel(t) PROVE TypeOK'
  <2>1. queue' \in Seq(Functor)
    BY <1>2, FunctorTypes, AppendProperties DEF Cancel, TypeOK
  <2>2. QED
    BY <1>2, <2>1 DEF Cancel, TypeOK
<1>3. CASE RunAdd
  <2>1. Head(queue).timer \in Timer /\ queue' \in Seq(Functor)
    BY <1>3, HeadOfQueue DEF RunAdd, RunFunctor
  <2>2. expiredTime[Head(queue).timer] \in Nat
    BY <2>1 DEF TypeOK
  <2>3. QED
    BY <1>3, <2>1, <2>2, AddTimerTypes DEF RunAdd, RunFunctor, TypeOK
<1>4. CASE RunCancel
  <2>1. Head(queue).timer \in Timer /\ queue' \in Seq(Functor)
    BY <1>4, HeadOfQueue DEF RunCancel, RunFunctor
  <2>2. CASE Alive(Head(queue).timer)
    BY <1>4, <2>1, <2>2, CancelTypes DEF RunCancel, RunFunctor, TypeOK
  <2>3. CASE ~Alive(Head(queue).timer)
    BY <1>4, <2>1, <2>3 DEF RunCancel, RunFunctor, TypeOK
  <2>4. QED
    BY <2>2, <2>3
<1>5. CASE HandleRead
  <2>1. CASE \E e \in timers_ : e[1] = clock
    BY <1>5, <2>1 DEF HandleRead, TypeOK
  <2>2. CASE ~\E e \in timers_ : e[1] = clock
    BY <1>5, <2>2 DEF HandleRead, TypeOK
  <2>3. QED
    BY <2>1, <2>2
<1>6. CASE RunTimer
  <2>1. /\ UNCHANGED <<slow, clock, calling, expired, now, queue, failed>>
        /\ toRun' \subseteq Nat \X Timer
    BY <1>6 DEF RunTimer, TypeOK
  <2>2. CASE CallbackReturns
    BY <2>1, <2>2 DEF CallbackReturns, TypeOK
  <2>3. ASSUME NEW t \in Timer, NEW when \in Nat, NEW every \in Nat,
               CallbackAdds(t, when, every)
        PROVE  TypeOK'
    BY <2>1, <2>3, NewTimerTypes, AddTimerTypes DEF CallbackAdds, TypeOK
  <2>4. ASSUME NEW t \in Timer, CallbackCancels(t) PROVE TypeOK'
    BY <2>1, <2>4, CancelTypes DEF CallbackCancels, TypeOK
  <2>5. QED
    BY <1>6, <2>2, <2>3, <2>4, Durations DEF RunTimer, TypeOK
<1>7. CASE EndHandleRead
  BY <1>7, ResetTypes DEF EndHandleRead, TypeOK
<1>8. CASE Tick
  BY <1>8 DEF Tick, TypeOK
<1>9. CASE UNCHANGED vars
  BY <1>9 DEF vars, TypeOK
<1>10. clock \in Nat
  BY DEF TypeOK
<1>11. ASSUME NEW t \in Timer, NEW when \in 1..MaxTime, AddTimer(t, when, 0) PROVE TypeOK'
  BY <1>1, <1>11, Durations
<1>12. ASSUME NEW t \in Timer, NEW every \in Intervals, AddTimer(t, clock, every)
       PROVE  TypeOK'
  BY <1>1, <1>10, <1>12, Durations
<1>13. QED
  BY <1>2, <1>3, <1>4, <1>5, <1>6, <1>7, <1>8, <1>9, <1>11, <1>12 DEF Next, IoStep

LEMMA InitTypeOK == Init => TypeOK
<1> SUFFICES ASSUME Init PROVE TypeOK
  OBVIOUS
<1>1. queue \in Seq(Functor)
  BY DEF Init
<1>2. expiredTime \in [Timer -> Nat] /\ interval \in [Timer -> Nat]
  BY DEF Init
<1>3. slow \in BOOLEAN /\ calling \in BOOLEAN /\ failed \in BOOLEAN
  BY DEF Init
<1>4. QED
  BY <1>1, <1>2, <1>3 DEF Init, TypeOK

(* Every variable of TimerQueue keeps its type for any number of timers.     *)
THEOREM TypeCorrect == Spec => []TypeOK
BY InitTypeOK, TypeOKStep, PTL DEF Spec
----------------------------------------------------------------------------
(* The functors that add timers. *)

LEMMA QueuedKept ==
  ASSUME Queued, UNCHANGED queue, created \subseteq created',
         Used' \subseteq created', Used' \subseteq Used \union (created' \ created)
  PROVE  Queued'
<1>1. ASSUME NEW i \in 1..Len(queue), Adds(i) PROVE queue[i].timer \in created' \ Used'
  BY <1>1 DEF Queued
<1>2. \A i \in 1..Len(queue) : Adds(i)' <=> Adds(i)
  BY DEF Adds
<1>3. QED
  BY <1>1, <1>2 DEF Queued

LEMMA QueuedTail ==
  ASSUME TypeOK, Queued, queue # <<>>, queue' = Tail(queue), UNCHANGED created,
         Used' \subseteq Used \union IF Adds(1) THEN {queue[1].timer} ELSE {}
  PROVE  Queued'
<1>1. /\ Len(queue') = Len(queue) - 1 /\ Len(queue) \in Nat /\ 1 \in 1..Len(queue)
      /\ \A i \in 1..Len(queue') : queue'[i] = queue[i + 1]
  BY HeadOfQueue
<1> DEFINE n == Len(queue')
<1>2. n \in Nat /\ n = Len(queue) - 1
  BY <1>1
<1> HIDE DEF n
<1>3. ASSUME NEW i \in 1..n
      PROVE  /\ i + 1 \in 1..Len(queue) /\ i + 1 # 1
             /\ queue'[i] = queue[i + 1] /\ (Adds(i)' <=> Adds(i + 1))
  <2>1. i + 1 \in 1..Len(queue) /\ i + 1 # 1
    BY <1>1, <1>2
  <2>2. queue'[i] = queue[i + 1]
    BY <1>1 DEF n
  <2>3. QED
    BY <2>1, <2>2 DEF Adds
<1>4. ASSUME NEW i \in 1..n, Adds(i)' PROVE queue'[i].timer \in created' \ Used'
  <2>1. /\ i + 1 \in 1..Len(queue) /\ i + 1 # 1
        /\ Adds(i + 1) /\ queue'[i].timer = queue[i + 1].timer
    BY <1>3, <1>4
  <2>2. queue[i + 1].timer \in created \ Used
    BY <2>1 DEF Queued
  <2>3. Adds(1) => queue[1].timer # queue[i + 1].timer
    BY <1>1, <2>1 DEF Queued
  <2>4. QED
    BY <2>1, <2>2, <2>3
<1>5. ASSUME NEW i \in 1..n, NEW j \in 1..n, Adds(i)', Adds(j)',
             queue'[i].timer = queue'[j].timer
      PROVE  i = j
  <2>1. i + 1 = j + 1
    BY <1>3, <1>5 DEF Queued
  <2>2. i \in Int /\ j \in Int
    OBVIOUS
  <2>3. QED
    BY <2>1, <2>2
<1>6. Used' \subseteq created'
  BY <1>1 DEF Queued
<1>7. QED
  BY <1>4, <1>5, <1>6 DEF Queued, n

LEMMA QueuedAppend ==
  ASSUME TypeOK, Queued, NEW f \in Functor, queue' = Append(queue, f),
         UNCHANGED Used,
         IF f.run = "addTimerInLoop"
         THEN f.timer \notin created /\ created' = created \union {f.timer}
         ELSE UNCHANGED created
  PROVE  Queued'
<1> DEFINE n == Len(queue)
<1>1. /\ Len(queue') = n + 1 /\ n \in Nat
      /\ \A i \in 1..n : queue'[i] = queue[i]
      /\ queue'[n + 1] = f
  BY AppendProperties DEF TypeOK
<1> HIDE DEF n
<1>2. \A i \in 1..n : queue'[i] = queue[i] /\ (Adds(i)' <=> Adds(i))
  BY <1>1 DEF Adds
<1>3. ASSUME NEW i, i = n + 1
      PROVE  queue'[i] = f /\ (Adds(i)' <=> f.run = "addTimerInLoop")
  BY <1>1, <1>3 DEF Adds
<1>4. \A i \in 1..n : Adds(i) => queue[i].timer \in created \ Used
  BY DEF Queued, n
<1>5. Used \subseteq created /\ created \subseteq created'
  BY DEF Queued
<1>6. \A i \in 1..n + 1 : i = n + 1 \/ i \in 1..n
  BY <1>1
<1>7. ASSUME NEW i \in 1..n + 1, Adds(i)' PROVE queue'[i].timer \in created' \ Used'
  <2>1. CASE i = n + 1
    <3>1. f.run = "addTimerInLoop" /\ queue'[i] = f
      BY <1>3, <1>7, <2>1
    <3>2. f.timer \in created' /\ f.timer \notin Used'
      BY <1>5, <3>1
    <3>3. QED
      BY <3>1, <3>2
  <2>2. CASE i \in 1..n
    BY <1>2, <1>4, <1>5, <1>7, <2>2
  <2>3. QED
    BY <1>6, <2>1, <2>2
<1>8. ASSUME NEW i \in 1..n + 1, NEW j \in 1..n + 1, Adds(i)', Adds(j)',
             queue'[i].timer = queue'[j].timer
      PROVE  i = j
  <2>1. CASE i \in 1..n /\ j \in 1..n
    BY <1>2, <1>8, <2>1 DEF Queued, n
  <2>2. CASE i = n + 1 /\ j \in 1..n
    <3>1. f.run = "addTimerInLoop" /\ queue'[i] = f
      BY <1>3, <1>8, <2>2
    <3>2. queue[j].timer \in created /\ queue'[j] = queue[j]
      BY <1>2, <1>4, <1>8, <2>2
    <3>3. QED
      BY <1>8, <3>1, <3>2
  <2>3. CASE j = n + 1 /\ i \in 1..n
    <3>1. f.run = "addTimerInLoop" /\ queue'[j] = f
      BY <1>3, <1>8, <2>3
    <3>2. queue[i].timer \in created /\ queue'[i] = queue[i]
      BY <1>2, <1>4, <1>8, <2>3
    <3>3. QED
      BY <1>8, <3>1, <3>2
  <2>4. QED
    BY <1>6, <2>1, <2>2, <2>3
<1>9. QED
  BY <1>1, <1>5, <1>7, <1>8 DEF Queued

----------------------------------------------------------------------------
(* The sets. *)

LEMMA AddTimerSets ==
  ASSUME TypeOK, Sets, NEW t \in Timer, NEW when, AddTimerInLoop(t, when),
         t \notin Used, when = expiredTime'[t],
         \A s \in activeTimers_ : expiredTime'[s] = expiredTime[s],
         UNCHANGED <<calling, expired, cancelled, cancelingTimers_>>,
         toRun' \subseteq toRun
  PROVE  Sets' /\ Used' = Used \union {t}
<1>1. /\ timers_' = timers_ \union {<<when, t>>}
      /\ activeTimers_' = activeTimers_ \union {t}
  BY DEF AddTimerInLoop
<1>2. timers_' = {<<expiredTime'[s], s>> : s \in activeTimers_'}
  BY <1>1 DEF Sets
<1>3. TimersOf(expired)' = TimersOf(expired)
  BY DEF TimersOf
<1>4. Used' = Used \union {t}
  BY <1>1, <1>3 DEF Used
<1>5. QED
  BY <1>1, <1>2, <1>3, <1>4 DEF Sets, Used

LEMMA CancelSets ==
  ASSUME TypeOK, Sets, NEW t \in Timer, CancelInLoop(t),
         UNCHANGED <<expiredTime, calling, expired>>, toRun' \subseteq toRun
  PROVE  Sets' /\ Used' \subseteq Used
<1>1. TimersOf(expired)' = TimersOf(expired)
  BY DEF TimersOf
<1>2. CASE t \in activeTimers_
  <2>1. /\ timers_' = timers_ \ {<<expiredTime[t], t>>}
        /\ activeTimers_' = activeTimers_ \ {t}
        /\ UNCHANGED cancelingTimers_
        /\ cancelled' = cancelled \union {t}
    BY <1>2 DEF CancelInLoop
  <2>2. timers_' = {<<expiredTime'[s], s>> : s \in activeTimers_'}
    BY <2>1 DEF Sets
  <2>3. QED
    BY <1>1, <1>2, <2>1, <2>2 DEF Sets, Used
<1>3. CASE t \notin activeTimers_
  <2>1. /\ UNCHANGED setVars
        /\ cancelingTimers_' = IF calling THEN cancelingTimers_ \union {t}
                                          ELSE cancelingTimers_
        /\ cancelled' = IF t \in TimersOf(expired) THEN cancelled \union {t} ELSE cancelled
    BY <1>3 DEF CancelInLoop
  <2>2. ~calling => TimersOf(expired) = {}
    BY DEF Sets, TimersOf
  <2>3. cancelled' \intersect TimersOf(expired) \subseteq cancelingTimers_'
    BY <2>1, <2>2 DEF Sets
  <2>4. QED
    BY <1>1, <1>3, <2>1, <2>3 DEF Sets, Used
<1>4. QED
  BY <1>2, <1>3

LEMMA HandleReadSets ==
  ASSUME TypeOK, Sets, HandleRead
  PROVE  Sets' /\ Used' \subseteq Used
<1>1. CASE \E e \in timers_ : e[1] = clock
  BY <1>1 DEF HandleRead, Sets, Used, TimersOf
<1>2. CASE ~\E e \in timers_ : e[1] = clock
  <2>1. /\ expired' = {e \in timers_ : e[1] < clock}
        /\ toRun' = expired'
        /\ timers_' = timers_ \ expired'
        /\ activeTimers_' = activeTimers_ \ TimersOf(expired')
        /\ calling' = TRUE
        /\ UNCHANGED <<expiredTime, cancelled>>
    BY <1>2 DEF HandleRead
  <2>2. timers_ = {<<expiredTime[t], t>> : t \in activeTimers_}
    BY DEF Sets
  <2>3. TimersOf(expired') \subseteq activeTimers_
    BY <2>1, <2>2 DEF TimersOf
  <2>4. \A t \in activeTimers_ : t \in TimersOf(expired') <=> <<expiredTime[t], t>> \in expired'
    BY <2>1, <2>2 DEF TimersOf
  <2>5. timers_' = {<<expiredTime'[t], t>> : t \in activeTimers_'}
    BY <2>1, <2>2, <2>4
  <2>6. TimersOf(expired)' = TimersOf(expired')
    BY DEF TimersOf
  <2>7. cancelled' \intersect TimersOf(expired') = {}
    BY <2>1, <2>3 DEF Sets
  <2>8. Used' \subseteq Used
    BY <2>1, <2>3, <2>6 DEF Used
  <2>9. QED
    BY <2>1, <2>3, <2>5, <2>6, <2>7, <2>8 DEF Sets
<1>3. QED
  BY <1>1, <1>2

LEMMA ResetSets ==
  ASSUME TypeOK, Sets, EndHandleRead
  PROVE  Sets' /\ Used' \subseteq Used
<1> DEFINE again == Repeating \ cancelingTimers_
<1>1. again \subseteq TimersOf(expired) /\ TimersOf(expired) \subseteq Timer
  BY TimersOfEntries DEF TypeOK, Repeating
<1>2. again \intersect cancelled = {} /\ again \intersect activeTimers_ = {}
  BY <1>1 DEF Sets
<1> HIDE DEF again
<1>3. /\ expiredTime' = [t \in Timer |-> IF t \in again THEN now + interval[t]
                                                       ELSE expiredTime[t]]
      /\ timers_' = timers_ \union {<<now + interval[t], t>> : t \in again}
      /\ activeTimers_' = activeTimers_ \union again
      /\ expired' = {} /\ toRun' = {}
      /\ UNCHANGED <<cancelled, cancelingTimers_>>
  BY DEF EndHandleRead, Reset, Restart, again
<1>4. activeTimers_ \subseteq Timer
  BY DEF TypeOK
<1>5. /\ \A t \in again : expiredTime'[t] = now + interval[t]
      /\ \A t \in activeTimers_ : expiredTime'[t] = expiredTime[t]
  BY <1>1, <1>2, <1>3, <1>4
<1>6. timers_' = {<<expiredTime'[t], t>> : t \in activeTimers_'}
  BY <1>3, <1>5 DEF Sets
<1>7. TimersOf(expired)' = {}
  BY <1>3 DEF TimersOf
<1>8. QED
  BY <1>1, <1>2, <1>3, <1>6, <1>7 DEF Sets, Used
LEMMA SetsStep == SetsInv /\ [Next]_vars => Sets' /\ Queued'
<1> SUFFICES ASSUME TypeOK, Sets, Queued, [Next]_vars PROVE Sets' /\ Queued'
  BY DEF SetsInv
<1>1. ASSUME UNCHANGED <<expiredTime, setVars, calling, expired, toRun, cancelled,
                         cancelingTimers_>>
      PROVE  Sets' /\ Used' = Used
  BY <1>1 DEF Sets, Used, TimersOf
<1>2. ASSUME NEW t \in Timer, NEW when, NEW every, AddTimer(t, when, every)
      PROVE  Sets' /\ Queued'
  <2> DEFINE f == [run |-> "addTimerInLoop", timer |-> t]
  <2>1. /\ t \notin created /\ created' = created \union {t}
        /\ expiredTime' = [expiredTime EXCEPT ![t] = when]
        /\ queue' = Append(queue, f)
        /\ UNCHANGED <<setVars, calling, expired, toRun, cancelled, cancelingTimers_>>
    BY <1>2 DEF AddTimer, NewTimer
  <2>2. Used' = Used
    BY <2>1 DEF Used, TimersOf
  <2>3. \A s \in activeTimers_ : expiredTime'[s] = expiredTime[s]
    BY <2>1 DEF TypeOK, Queued, Used
  <2>4. Sets'
    BY <2>1, <2>3 DEF Sets, TimersOf
  <2>5. f \in Functor /\ f.run = "addTimerInLoop" /\ f.timer = t
    BY FunctorTypes
  <2> HIDE DEF f
  <2>6. Queued'
    BY <2>1, <2>2, <2>5, QueuedAppend
  <2>7. QED
    BY <2>4, <2>6
<1>3. ASSUME NEW t \in Timer, Cancel(t) PROVE Sets' /\ Queued'
  <2> DEFINE f == [run |-> "cancelInLoop", timer |-> t]
  <2>1. UNCHANGED <<timerVars, setVars, handlingVars, cancelled>>
    BY <1>3 DEF Cancel
  <2>2. Sets' /\ Used' = Used
    BY <1>1, <2>1
  <2>3. f \in Functor /\ f.run # "addTimerInLoop"
    BY FunctorTypes
  <2>4. CASE queue' = Append(queue, f)
    <3> HIDE DEF f
    <3>1. QED
      BY <2>1, <2>2, <2>3, <2>4, QueuedAppend
  <2>5. CASE UNCHANGED queue
    BY <2>1, <2>2, <2>5, QueuedKept DEF Queued
  <2>6. QED
    BY <1>3, <2>2, <2>4, <2>5 DEF Cancel
<1>4. CASE RunAdd
  <2> DEFINE t == Head(queue).timer
  <2>1. /\ queue # <<>> /\ queue' = Tail(queue)
        /\ UNCHANGED <<created, expiredTime, calling, expired, toRun, cancelled,
                       cancelingTimers_>>
        /\ AddTimerInLoop(t, expiredTime[t])
    BY <1>4 DEF RunAdd, RunFunctor
  <2>2. Adds(1) /\ t = queue[1].timer /\ t \in Timer /\ 1 \in 1..Len(queue)
    BY <1>4, <2>1, HeadOfQueue DEF RunAdd, Adds
  <2> HIDE DEF t
  <2>3. t \notin Used
    BY <2>2 DEF Queued
  <2>4. Sets' /\ Used' = Used \union {t}
    BY <2>1, <2>2, <2>3, AddTimerSets
  <2>5. Queued'
    BY <2>1, <2>2, <2>4, QueuedTail
  <2>6. QED
    BY <2>4, <2>5
<1>5. CASE RunCancel
  <2>1. /\ queue # <<>> /\ queue' = Tail(queue)
        /\ UNCHANGED <<created, expiredTime, calling, expired, toRun>>
    BY <1>5 DEF RunCancel, RunFunctor
  <2>2. Sets' /\ Used' \subseteq Used
    <3>1. CASE Alive(Head(queue).timer)
      BY <1>5, <2>1, <3>1, HeadOfQueue, CancelSets DEF RunCancel
    <3>2. CASE ~Alive(Head(queue).timer)
      BY <1>1, <1>5, <2>1, <3>2 DEF RunCancel
    <3>3. QED
      BY <3>1, <3>2
  <2>3. QED
    BY <2>1, <2>2, QueuedTail
<1>6. CASE HandleRead
  <2>1. Sets' /\ Used' \subseteq Used /\ UNCHANGED <<queue, created>>
    BY <1>6, HandleReadSets DEF HandleRead
  <2>2. QED
    BY <2>1, QueuedKept DEF Queued
<1>7. CASE RunTimer
  <2>1. /\ UNCHANGED <<calling, expired, queue>>
        /\ toRun' \subseteq toRun
    BY <1>7 DEF RunTimer
  <2>2. CASE CallbackReturns
    <3>1. Sets' /\ Used' = Used
      BY <2>1, <2>2 DEF CallbackReturns, Sets, Used, TimersOf
    <3>2. QED
      BY <2>1, <2>2, <3>1, QueuedKept DEF CallbackReturns, Queued
  <2>3. ASSUME NEW t \in Timer, NEW when, NEW every, CallbackAdds(t, when, every)
        PROVE  Sets' /\ Queued'
    <3>1. /\ t \notin created /\ created' = created \union {t}
          /\ expiredTime' = [expiredTime EXCEPT ![t] = when]
          /\ AddTimerInLoop(t, when)
          /\ UNCHANGED <<cancelingTimers_, cancelled>>
      BY <2>3 DEF CallbackAdds, NewTimer
    <3>2. t \notin Used /\ activeTimers_ \subseteq created /\ Used \subseteq created
      BY <3>1 DEF Queued, Used
    <3>3. /\ expiredTime'[t] = when
          /\ \A s \in activeTimers_ : expiredTime'[s] = expiredTime[s]
      BY <3>1, <3>2 DEF TypeOK
    <3>4. Sets' /\ Used' = Used \union {t}
      BY <2>1, <3>1, <3>2, <3>3, AddTimerSets
    <3>5. QED
      BY <2>1, <3>1, <3>2, <3>4, QueuedKept
  <2>4. ASSUME NEW t \in Timer, CallbackCancels(t) PROVE Sets' /\ Queued'
    <3>1. CancelInLoop(t) /\ UNCHANGED timerVars
      BY <2>4 DEF CallbackCancels
    <3>2. Sets' /\ Used' \subseteq Used
      BY <2>1, <3>1, CancelSets
    <3>3. QED
      BY <2>1, <3>1, <3>2, QueuedKept DEF Queued
  <2>5. QED
    BY <1>7, <2>2, <2>3, <2>4 DEF RunTimer
<1>8. CASE EndHandleRead
  <2>1. Sets' /\ Used' \subseteq Used /\ UNCHANGED <<queue, created>>
    BY <1>8, ResetSets DEF EndHandleRead
  <2>2. QED
    BY <2>1, QueuedKept DEF Queued
<1>9. CASE Tick \/ UNCHANGED vars
  <2>1. UNCHANGED <<timerVars, setVars, handlingVars, queue, cancelled>>
    BY <1>9 DEF Tick, vars
  <2>2. Sets' /\ Used' = Used
    BY <1>1, <2>1
  <2>3. QED
    BY <2>1, <2>2, QueuedKept DEF Queued
<1>10. QED
  BY <1>2, <1>3, <1>4, <1>5, <1>6, <1>7, <1>8, <1>9 DEF Next, IoStep

LEMMA InitSets == Init => Sets /\ Queued
<1> SUFFICES ASSUME Init PROVE Sets /\ Queued
  OBVIOUS
<1>1. /\ timers_ = {} /\ activeTimers_ = {} /\ expired = {} /\ cancelled = {}
      /\ toRun = {} /\ queue = <<>> /\ created = {}
  BY DEF Init
<1>2. TimersOf(expired) = {}
  BY <1>1 DEF TimersOf
<1>3. Sets
  BY <1>1, <1>2 DEF Sets
<1>4. \A i \in 1..Len(queue) : FALSE
  BY <1>1
<1>5. QED
  BY <1>1, <1>2, <1>3, <1>4 DEF Queued, Used

(* The inductive invariant of the sets and of the functors that add to them. *)
THEOREM SetsInvCorrect == Spec => []SetsInv
<1>1. Init => SetsInv
  BY InitTypeOK, InitSets DEF SetsInv
<1>2. SetsInv /\ [Next]_vars => SetsInv'
  BY TypeOKStep, SetsStep DEF SetsInv
<1>3. QED
  BY <1>1, <1>2, PTL DEF Spec

(* However many timers there are, wherever they are cancelled from and       *)
(* whatever callbacks do: the two sets agree, none of their timers is being  *)
(* handled, and a cancelled timer is in neither (CancelledStaysOut).         *)
THEOREM CancelledCorrect == Spec => []CancelledStaysOut
<1>1. SetsInv => CancelledStaysOut
  <2> SUFFICES ASSUME SetsInv PROVE CancelledStaysOut
    OBVIOUS
  <2>1. Sets
    BY DEF SetsInv
  <2>2. TimersOf(timers_) = activeTimers_
    <3>1. timers_ = {<<expiredTime[t], t>> : t \in activeTimers_}
      BY <2>1 DEF Sets
    <3>2. ASSUME NEW t \in activeTimers_ PROVE t \in TimersOf(timers_)
      <4>1. <<expiredTime[t], t>> \in timers_
        BY <3>1
      <4>2. QED
        BY <4>1 DEF TimersOf
    <3>3. ASSUME NEW e \in timers_ PROVE e[2] \in activeTimers_
      BY <3>1
    <3>4. QED
      BY <3>2, <3>3 DEF TimersOf
  <2>3. QED
    BY <2>1, <2>2 DEF Sets, CancelledStaysOut
<1>2. QED
  BY <1>1, SetsInvCorrect, PTL

----------------------------------------------------------------------------
(* The timerfd. *)

LEMMA AddTimerArms ==
  ASSUME TypeOK, NEW t \in Timer, NEW when \in Nat, AddTimerInLoop(t, when),
         UNCHANGED clock
  PROVE  /\ (\A e \in timers_ : Armed(e)) => \A e \in timers_' : Armed(e)'
         /\ (\A e \in timers_ : e[1] <= clock => armed # 0 /\ armed <= clock + 1)
              => \A e \in timers_' : e[1] <= clock => armed' # 0 /\ armed' <= clock + 1
<1>1. /\ timers_' = timers_ \union {<<when, t>>}
      /\ IF IsEarliest(when) THEN ResetTimerfd(when) ELSE UNCHANGED armed
  BY DEF AddTimerInLoop
<1>2. /\ clock \in Nat /\ armed \in Nat
      /\ \A e \in timers_ : e[1] \in Nat
  BY DEF TypeOK
<1>3. CASE IsEarliest(when)
  <2>1. \A e \in timers_ : when < e[1]
    BY <1>3 DEF IsEarliest
  <2>2. /\ armed' # 0
        /\ armed' <= when \/ armed' <= clock + 1
        /\ when <= clock => armed' <= clock + 1
    BY <1>1, <1>2, <1>3 DEF ResetTimerfd
  <2>3. armed' \in Nat
    BY AddTimerTypes
  <2>4. \A e \in timers_' : e[1] \in Nat /\ when <= e[1]
    BY <1>1, <1>2, <2>1
  <2>5. \A e \in timers_' : Armed(e)'
    <3> TAKE e \in timers_'
    <3>1. armed' <= e[1] \/ armed' <= clock + 1
      BY <1>2, <2>2, <2>3, <2>4
    <3>2. QED
      BY <2>2, <3>1 DEF Armed
  <2>6. ASSUME NEW e \in timers_', e[1] <= clock PROVE armed' # 0 /\ armed' <= clock + 1
    BY <1>2, <2>2, <2>4, <2>6
  <2>7. QED
    BY <2>5, <2>6
<1>4. CASE ~IsEarliest(when)
  <2>1. PICK f \in timers_ : f[1] <= when
    BY <1>2, <1>4 DEF IsEarliest
  <2>2. UNCHANGED armed
    BY <1>1, <1>4
  <2>3. ASSUME \A e \in timers_ : Armed(e), NEW e \in timers_' PROVE Armed(e)'
    <3>1. CASE e \in timers_
      BY <2>2, <2>3, <3>1 DEF Armed
    <3>2. CASE e[1] = when
      BY <1>2, <2>1, <2>2, <2>3, <3>2 DEF Armed
    <3>3. QED
      BY <1>1, <3>1, <3>2
  <2>4. ASSUME \A e \in timers_ : e[1] <= clock => armed # 0 /\ armed <= clock + 1,
               NEW e \in timers_', e[1] <= clock
        PROVE  armed' # 0 /\ armed' <= clock + 1
    <3>1. CASE e \in timers_
      BY <2>2, <2>4, <3>1
    <3>2. CASE e[1] = when
      <4>1. f[1] <= clock
        BY <1>2, <2>1, <2>4, <3>2
      <4>2. QED
        BY <2>1, <2>2, <2>4, <4>1
    <3>3. QED
      BY <1>1, <3>1, <3>2
  <2>5. QED
    BY <2>3, <2>4
<1>5. QED
  BY <1>3, <1>4

(* reset() sees to the entries after `now', those it has put back among them. *)
LEMMA ResetArms ==
  ASSUME TypeOK, Reset, UNCHANGED clock, clock = now,
         \A e \in timers_ : e[1] <= now => armed # 0 /\ armed <= clock + 1
  PROVE  \A e \in timers_' : Armed(e)'
<1>1. /\ timers_' \subseteq Nat \X Timer /\ armed' \in Nat
      /\ clock \in Nat /\ armed \in Nat /\ SetForEarliest
  BY ResetTypes DEF TypeOK, Reset
<1>2. CASE timers_' # {} /\ \A e \in timers_' : e[1] >= clock
  <2>1. PICK e \in timers_' : (\A f \in timers_' : e[1] <= f[1]) /\ ResetTimerfd(e[1])
    BY <1>1, <1>2 DEF SetForEarliest
  <2>2. e[1] \in Nat
    BY <1>1
  <2>3. armed' # 0 /\ (armed' <= e[1] \/ armed' <= clock + 1)
    BY <1>1, <2>1, <2>2 DEF ResetTimerfd
  <2>4. ASSUME NEW f \in timers_' PROVE Armed(f)'
    <3>1. f[1] \in Nat /\ e[1] <= f[1]
      BY <1>1, <2>1
    <3>2. armed' <= f[1] \/ armed' <= clock + 1
      BY <1>1, <2>2, <2>3, <3>1
    <3>3. QED
      BY <2>3, <3>2 DEF Armed
  <2>5. QED
    BY <2>4
<1>3. CASE ~(timers_' # {} /\ \A e \in timers_' : e[1] >= clock)
  <2>1. UNCHANGED armed
    BY <1>1, <1>3 DEF SetForEarliest
  <2>2. CASE timers_' = {}
    BY <2>2
  <2>3. CASE \E e \in timers_' : ~(e[1] >= clock)
    <3>1. PICK e \in timers_' : ~(e[1] >= clock)
      BY <2>3
    <3>2. e[1] \in Nat /\ e[1] < clock
      BY <1>1, <3>1
    <3>3. e \in timers_
      <4>1. e \in timers_ \/ \E t \in Repeating \ cancelingTimers_ : e = <<now + interval[t], t>>
        BY DEF Reset, Restart
      <4>2. ASSUME NEW t \in Repeating \ cancelingTimers_, e = <<now + interval[t], t>>
            PROVE  FALSE
        <5>1. t \in Timer
          BY TimersOfEntries DEF TypeOK, Repeating
        <5>2. interval[t] \in Nat /\ now \in Nat
          BY <5>1 DEF TypeOK
        <5>3. e[1] = now + interval[t]
          BY <4>2
        <5>4. QED
          BY <3>2, <5>2, <5>3
      <4>3. QED
        BY <4>1, <4>2
    <3>4. armed # 0 /\ armed <= clock + 1
      BY <1>1, <3>2, <3>3
    <3>5. QED
      BY <2>1, <3>4 DEF Armed
  <2>4. QED
    BY <1>3, <2>2, <2>3
<1>4. QED
  BY <1>2, <1>3

LEMMA ArmingStep == SetsInv /\ Arming /\ [Next]_vars => Arming'
<1> SUFFICES ASSUME SetsInv, Arming, [Next]_vars, ~slow', ~failed'
             PROVE  /\ ~calling' => \A e \in timers_' : Armed(e)'
                    /\ calling' =>
                         /\ clock' = now'
                         /\ \A e \in timers_' :
                              e[1] <= now' => armed' # 0 /\ armed' <= clock' + 1
  BY DEF Arming
<1>1. /\ TypeOK /\ Sets /\ clock \in Nat /\ armed \in Nat
      /\ \A e \in timers_ : e[1] \in Nat
  BY DEF SetsInv, TypeOK
<1>2. UNCHANGED slow /\ ~failed
  <2>1. CASE UNCHANGED vars
    <3>1. slow' = slow /\ failed' = failed
      BY <2>1 DEF vars
    <3>2. QED
      BY <3>1
  <2>2. CASE Next
    <3>1. slow' = slow
      BY <2>2 DEF Next, IoStep, AddTimer, Cancel, RunAdd, RunCancel, RunFunctor,
                  HandleRead, RunTimer, EndHandleRead, Tick
    <3>2. ~failed
      BY <2>2 DEF Next, IoStep, AddTimer, Cancel, RunAdd, RunCancel, RunFunctor,
                  HandleRead, RunTimer, EndHandleRead, Tick
    <3>3. QED
      BY <3>1, <3>2
  <2>3. QED
    BY <2>1, <2>2
<1>3. /\ ~calling => \A e \in timers_ : Armed(e)
      /\ calling => /\ clock = now
                    /\ \A e \in timers_ : e[1] <= now => armed # 0 /\ armed <= clock + 1
  BY <1>2 DEF Arming
<1>4. CASE UNCHANGED <<calling, clock, now, armed>> /\ timers_' \subseteq timers_
  BY <1>3, <1>4 DEF Armed
<1>5. CASE \/ \E t \in Timer, when \in 1..MaxTime : AddTimer(t, when, 0)
           \/ \E t \in Timer, every \in Intervals : AddTimer(t, clock, every)
           \/ \E t \in Timer : Cancel(t)
           \/ UNCHANGED vars
  <2>1. UNCHANGED <<clockVars, setVars, handlingVars>>
    BY <1>5 DEF AddTimer, Cancel, vars
  <2>2. QED
    BY <1>4, <2>1
<1>6. ASSUME NEW t, CancelInLoop(t) PROVE timers_' \subseteq timers_
  BY <1>6 DEF CancelInLoop
<1>7. CASE RunAdd
  <2>1. Head(queue).timer \in Timer
    BY <1>1, <1>7, HeadOfQueue DEF RunAdd, RunFunctor
  <2>2. expiredTime[Head(queue).timer] \in Nat
    BY <1>1, <2>1 DEF TypeOK
  <2>3. QED
    BY <1>1, <1>3, <1>7, <2>1, <2>2, AddTimerArms DEF RunAdd, RunFunctor
<1>8. CASE RunCancel
  <2>1. timers_' \subseteq timers_ /\ UNCHANGED <<calling, clock, now, armed>>
    BY <1>6, <1>8 DEF RunCancel, RunFunctor
  <2>2. QED
    BY <1>4, <2>1
<1>9. CASE HandleRead
  <2>1. ~\E e \in timers_ : e[1] = clock
    BY <1>9 DEF HandleRead
  <2>2. /\ now' = clock /\ clock' = clock /\ calling' = TRUE
        /\ timers_' = timers_ \ {e \in timers_ : e[1] < clock}
    BY <1>9, <2>1 DEF HandleRead
  <2>3. \A e \in timers_' : ~(e[1] <= clock)
    BY <1>1, <2>1, <2>2
  <2>4. QED
    BY <2>2, <2>3
<1>10. CASE RunTimer
  <2>1. calling /\ UNCHANGED <<calling, clock, now>>
    BY <1>1, <1>10 DEF RunTimer, Sets
  <2>2. CASE CallbackReturns
    BY <1>4, <2>1, <2>2 DEF CallbackReturns
  <2>3. ASSUME NEW t \in Timer, NEW when \in Nat, NEW every, CallbackAdds(t, when, every)
        PROVE  \A e \in timers_' : e[1] <= now' => armed' # 0 /\ armed' <= clock' + 1
    BY <1>1, <1>3, <2>1, <2>3, AddTimerArms DEF CallbackAdds
  <2>4. ASSUME NEW t \in Timer, CallbackCancels(t)
        PROVE  timers_' \subseteq timers_ /\ UNCHANGED armed
    BY <1>6, <2>4 DEF CallbackCancels
  <2>5. ASSUME NEW t \in Timer, CallbackCancels(t)
        PROVE  /\ ~calling' => \A e \in timers_' : Armed(e)'
               /\ calling' =>
                    /\ clock' = now'
                    /\ \A e \in timers_' :
                         e[1] <= now' => armed' # 0 /\ armed' <= clock' + 1
    BY <1>4, <2>1, <2>4, <2>5
  <2>6. calling' /\ clock' = now'
    BY <1>3, <2>1
  <2>7. \/ CallbackReturns
        \/ \E t \in Timer, when \in 1..MaxTime : CallbackAdds(t, when, 0)
        \/ \E t \in Timer, every \in Intervals : CallbackAdds(t, clock, every)
        \/ \E t \in Timer : CallbackCancels(t)
    BY <1>10 DEF RunTimer
  <2>8. CASE \/ \E t \in Timer, when \in 1..MaxTime : CallbackAdds(t, when, 0)
             \/ \E t \in Timer, every \in Intervals : CallbackAdds(t, clock, every)
    <3>1. PICK t \in Timer, when \in Nat, every \in Nat : CallbackAdds(t, when, every)
      BY <1>1, <2>8, Durations
    <3>2. QED
      BY <2>3, <2>6, <3>1
  <2>9. QED
    BY <2>2, <2>5, <2>7, <2>8
<1>11. CASE EndHandleRead
  <2>1. calling /\ ~calling' /\ Reset /\ UNCHANGED clock
    BY <1>11 DEF EndHandleRead
  <2>2. QED
    BY <1>1, <1>3, <2>1, ResetArms
<1>12. CASE Tick
  <2>1. /\ ~calling /\ UNCHANGED <<calling, armed, timers_>>
        /\ clock' = clock + 1
    BY <1>2, <1>12 DEF Tick
  <2>2. ASSUME NEW e \in timers_ PROVE Armed(e)'
    <3>1. armed # 0 /\ (armed <= e[1] \/ armed <= clock + 1)
      BY <1>3, <2>1 DEF Armed
    <3>2. armed # 0 /\ (armed <= e[1] \/ armed <= clock + 1 + 1)
      BY <1>1, <3>1
    <3>3. QED
      BY <2>1, <3>2 DEF Armed
  <2>3. QED
    BY <2>1, <2>2
<1>13. QED
  BY <1>5, <1>7, <1>8, <1>9, <1>10, <1>11, <1>12 DEF Next, IoStep

(* While callbacks take no time, and whatever they add or cancel, a pending  *)
(* timer finds the timerfd set for it, for an earlier one, or for the next   *)
(* moment (PendingTimerIsArmed).                                             *)
THEOREM ArmingCorrect == Spec => []PendingTimerIsArmed
<1>1. Init => Arming
  BY DEF Init, Arming
<1>2. Arming => PendingTimerIsArmed
  BY DEF Arming, Armed, PendingTimerIsArmed
<1>3. QED
  BY <1>1, <1>2, SetsInvCorrect, ArmingStep, PTL DEF Spec
=============================================================================
