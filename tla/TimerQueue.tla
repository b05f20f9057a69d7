----------------------------- MODULE TimerQueue -----------------------------
(***************************************************************************)
(* net/TimerQueue.cpp: the timers of one EventLoop behind one timerfd.     *)
(*                                                                         *)
(* Actors: the IO thread, which runs functors, handleRead() and inside it  *)
(* the callbacks of the expired timers, which may add and cancel timers;   *)
(* other threads, whose addTimer() and cancel() arrive as functors; time.  *)
(* Time counts in the clock's unit.  A timerfd is never set to less than   *)
(* one unit ahead, which stands for resetTimerfd()'s 100 microseconds.     *)
(***************************************************************************)
EXTENDS Naturals, Sequences, FiniteSets

CONSTANTS
  Timer,      (* the timers that are ever made                             *)
  Intervals,  (* the intervals given to runEvery()                         *)
  MaxTime     (* bound: later the clock moves for an overdue timer only    *)

ASSUME TimerQueueAssumption ==
  /\ Intervals \subseteq Nat \ {0}
  /\ MaxTime \in Nat

VARIABLES
  slow,              (* time may pass while callbacks run                  *)
  clock,             (* Timer::now()                                       *)
  armed,             (* when the timerfd expires; 0 when it is not set     *)
  expiredTime,       (* per timer: expiredTime_                            *)
  interval,          (* per timer: interval_; 0 for a timer that runs once *)
  created,           (* the timers made so far                             *)
  timers_,           (* entries <<time, timer>>                            *)
  activeTimers_,     (* timers                                             *)
  calling,           (* callingExpiredTimers_                              *)
  cancelingTimers_,
  expired,           (* the entries handleRead() has taken                 *)
  toRun,             (* those of them not run yet                          *)
  now,               (* the time handleRead() took them at                 *)
  queue,             (* functors of the loop                               *)
  asked,             (* timers other threads have called cancel() for      *)
  cancelled,         (* history: cancelled while pending or being handled  *)
  failed             (* an assertion failed                                *)

clockVars == <<slow, clock, armed>>
timerVars == <<expiredTime, interval, created>>
setVars == <<timers_, activeTimers_>>
handlingVars == <<calling, cancelingTimers_, expired, toRun, now>>
vars == <<clockVars, timerVars, setVars, handlingVars, queue, asked, cancelled, failed>>

Times == 0..(MaxTime + MaxTime + Cardinality(Timer))
Entries == Times \X Timer
Functor == [run : {"addTimerInLoop", "cancelInLoop"}, timer : Timer]

TimersOf(entries) == {e[2] : e \in entries}
Overdue(t) == \E e \in timers_ : e[2] = t /\ e[1] < clock

Init ==
  /\ slow \in BOOLEAN
  /\ clock = 1 /\ armed = 0
  /\ expiredTime = [t \in Timer |-> 0] /\ interval = [t \in Timer |-> 0]
  /\ created = {}
  /\ timers_ = {} /\ activeTimers_ = {}
  /\ calling = FALSE /\ cancelingTimers_ = {} /\ expired = {} /\ toRun = {} /\ now = 0
  /\ queue = <<>> /\ asked = {} /\ cancelled = {}
  /\ failed = FALSE

(* The shared_ptrs that keep a timer: both sets, handleRead()'s vector,      *)
(* cancelingTimers_, and the functor that will add it.  A TimerId is weak.   *)
Alive(t) ==
  \/ t \in TimersOf(timers_ \union expired)
  \/ t \in cancelingTimers_
  \/ [run |-> "addTimerInLoop", timer |-> t] \in {queue[i] : i \in DOMAIN queue}

----------------------------------------------------------------------------
(* resetTimerfd() *)
ResetTimerfd(when) == armed' = IF when > clock THEN when ELSE clock + 1

(* insert(): whether a timer for `when' would be the earliest. *)
IsEarliest(when) == \A e \in timers_ : when < e[1]

(* Mutant: the timerfd is set for the first timer only. *)
AddTimerInLoopFirstOnly(t, when) ==
  /\ timers_' = timers_ \union {<<when, t>>}
  /\ activeTimers_' = activeTimers_ \union {t}
  /\ IF timers_ = {} THEN ResetTimerfd(when) ELSE UNCHANGED armed

(* addTimerInLoop() *)
AddTimerInLoop(t, when) ==
  /\ timers_' = timers_ \union {<<when, t>>}
  /\ activeTimers_' = activeTimers_ \union {t}
  /\ IF IsEarliest(when) THEN ResetTimerfd(when) ELSE UNCHANGED armed

(* Timer::Timer(), for runAt() and runAfter(), or for runEvery(), which     *)
(* first expires at once.                                                    *)
NewTimer(t, when, every) ==
  /\ t \notin created
  /\ clock < MaxTime
  /\ every # 0 => when = clock
  /\ created' = created \union {t}
  /\ expiredTime' = [expiredTime EXCEPT ![t] = when]
  /\ interval' = [interval EXCEPT ![t] = every]

(* Mutant: only one of the two sets loses the timer. *)
CancelInLoopOneSet(t) ==
  /\ cancelled' = IF t \in activeTimers_ \union TimersOf(expired)
                  THEN cancelled \union {t} ELSE cancelled
  /\ timers_' = timers_ \ {<<expiredTime[t], t>>}
  /\ cancelingTimers_' = IF t \notin activeTimers_ /\ calling
                         THEN cancelingTimers_ \union {t} ELSE cancelingTimers_
  /\ UNCHANGED activeTimers_

(* cancelInLoop() of a timer that is still there. *)
CancelInLoop(t) ==
  /\ cancelled' = IF t \in activeTimers_ \union TimersOf(expired)
                  THEN cancelled \union {t} ELSE cancelled
  /\ IF t \in activeTimers_
     THEN /\ timers_' = timers_ \ {<<expiredTime[t], t>>}
          /\ activeTimers_' = activeTimers_ \ {t}
          /\ UNCHANGED cancelingTimers_
     ELSE /\ cancelingTimers_' = IF calling THEN cancelingTimers_ \union {t}
                                            ELSE cancelingTimers_
          /\ UNCHANGED setVars

----------------------------------------------------------------------------
(* Other threads. *)

(* addTimer() *)
AddTimer(t, when, every) ==
  /\ ~failed
  /\ NewTimer(t, when, every)
  /\ queue' = Append(queue, [run |-> "addTimerInLoop", timer |-> t])
  /\ UNCHANGED <<clockVars, setVars, handlingVars, asked, cancelled, failed>>

(* cancel() *)
Cancel(t) ==
  /\ ~failed
  /\ t \in created \ asked
  /\ asked' = asked \union {t}
  /\ queue' = IF Alive(t) THEN Append(queue, [run |-> "cancelInLoop", timer |-> t])
                          ELSE queue
  /\ UNCHANGED <<clockVars, timerVars, setVars, handlingVars, cancelled, failed>>

----------------------------------------------------------------------------
(* The IO thread. *)

RunFunctor ==
  /\ ~failed /\ ~calling
  /\ queue # <<>>
  /\ queue' = Tail(queue)
  /\ UNCHANGED <<slow, clock, timerVars, calling, expired, toRun, now, asked>>

RunAdd ==
  /\ RunFunctor
  /\ Head(queue).run = "addTimerInLoop"
  /\ LET t == Head(queue).timer IN AddTimerInLoop(t, expiredTime[t])
  /\ UNCHANGED <<cancelingTimers_, cancelled, failed>>

(* cancelInLoop() asserts that the timer has not been freed since cancel(). *)
RunCancel ==
  /\ RunFunctor
  /\ Head(queue).run = "cancelInLoop"
  /\ IF Alive(Head(queue).timer)
     THEN CancelInLoop(Head(queue).timer) /\ UNCHANGED failed
     ELSE failed' = TRUE /\ UNCHANGED <<setVars, cancelingTimers_, cancelled>>
  /\ UNCHANGED armed

(* handleRead() up to the first callback.  getExpired() takes the entries    *)
(* before `now' and asserts that no other entry is for `now' itself.         *)
HandleRead ==
  /\ ~failed /\ ~calling
  /\ armed # 0 /\ armed <= clock
  /\ armed' = 0
  /\ now' = clock
  /\ IF \E e \in timers_ : e[1] = clock
     THEN /\ failed' = TRUE
          /\ UNCHANGED <<setVars, calling, cancelingTimers_, expired, toRun>>
     ELSE /\ expired' = {e \in timers_ : e[1] < clock}
          /\ toRun' = expired'
          /\ timers_' = timers_ \ expired'
          /\ activeTimers_' = activeTimers_ \ TimersOf(expired')
          /\ calling' = TRUE
          /\ cancelingTimers_' = {}
          /\ UNCHANGED failed
  /\ UNCHANGED <<slow, clock, timerVars, queue, asked, cancelled>>

(* What a callback may do: nothing, add a timer, or cancel one, itself even. *)
CallbackReturns == UNCHANGED <<armed, timerVars, setVars, cancelingTimers_, cancelled>>

CallbackAdds(t, when, every) ==
  /\ NewTimer(t, when, every)
  /\ AddTimerInLoop(t, when)
  /\ UNCHANGED <<cancelingTimers_, cancelled>>

CallbackCancels(t) ==
  /\ Alive(t)
  /\ CancelInLoop(t)
  /\ UNCHANGED <<armed, timerVars>>

(* Timer::run() of one of the earliest that are left. *)
RunTimer ==
  /\ ~failed
  /\ \E e \in toRun :
       /\ \A f \in toRun : e[1] <= f[1]
       /\ toRun' = toRun \ {e}
  /\ \/ CallbackReturns
     \/ \E t \in Timer, when \in 1..MaxTime : CallbackAdds(t, when, 0)
     \/ \E t \in Timer, every \in Intervals : CallbackAdds(t, clock, every)
     \/ \E t \in Timer : CallbackCancels(t)
  /\ UNCHANGED <<slow, clock, calling, expired, now, queue, asked, failed>>

(* reset(): the repeating timers not cancelled meanwhile are back, and the   *)
(* timerfd is set for the earliest timer, if that one isValid().             *)
Repeating == {t \in TimersOf(expired) : interval[t] # 0}

Restart(again) ==
  /\ expiredTime' = [t \in Timer |-> IF t \in again THEN now + interval[t]
                                                    ELSE expiredTime[t]]
  /\ timers_' = timers_ \union {<<now + interval[t], t>> : t \in again}
  /\ activeTimers_' = activeTimers_ \union again

SetForEarliest ==
  IF timers_' # {} /\ \A e \in timers_' : e[1] >= clock
  THEN \E e \in timers_' :
         /\ \A f \in timers_' : e[1] <= f[1]
         /\ ResetTimerfd(e[1])
  ELSE UNCHANGED armed

(* Mutants: the timers cancelled in a callback return; the timerfd is left   *)
(* as it is; handleRead()'s vector outlives it.                              *)
ResetForgetsCanceling == expired' = {} /\ Restart(Repeating) /\ SetForEarliest
ResetNoTimerfd == expired' = {} /\ Restart(Repeating \ cancelingTimers_) /\ UNCHANGED armed
ResetKeepsExpired == UNCHANGED expired /\ Restart(Repeating \ cancelingTimers_) /\ SetForEarliest

Reset == expired' = {} /\ Restart(Repeating \ cancelingTimers_) /\ SetForEarliest

(* handleRead() after the last callback. *)
EndHandleRead ==
  /\ ~failed /\ calling /\ toRun = {}
  /\ calling' = FALSE
  /\ Reset
  /\ UNCHANGED <<slow, clock, interval, created, cancelingTimers_, toRun, now,
                 queue, asked, cancelled, failed>>

Tick ==
  /\ ~failed
  /\ clock < MaxTime \/ (armed > clock /\ \E t \in Timer : Overdue(t))
  /\ calling => slow
  /\ clock' = clock + 1
  /\ UNCHANGED <<slow, armed, timerVars, setVars, handlingVars, queue, asked,
                 cancelled, failed>>

----------------------------------------------------------------------------
IoStep == RunAdd \/ RunCancel \/ HandleRead \/ RunTimer \/ EndHandleRead

Next ==
  \/ \E t \in Timer, when \in 1..MaxTime : AddTimer(t, when, 0)
  \/ \E t \in Timer, every \in Intervals : AddTimer(t, clock, every)
  \/ \E t \in Timer : Cancel(t)
  \/ IoStep
  \/ Tick

(* The loop polls and runs its functors again and again, and time passes. *)
Spec == Init /\ [][Next]_vars /\ WF_vars(IoStep) /\ WF_vars(Tick)

----------------------------------------------------------------------------
(* cancelInLoop() and reset(): a timer cancelled while it was pending, or in *)
(* a callback of the batch it belongs to, is in neither set and never comes  *)
(* back; the sets hold the same timers, none of them one being handled.      *)
CancelledStaysOut ==
  /\ cancelled \intersect activeTimers_ = {}
  /\ TimersOf(timers_) = activeTimers_
  /\ activeTimers_ \intersect TimersOf(expired) = {}

(* addTimerInLoop() and reset(): while callbacks take no time, the timerfd   *)
(* is set whenever a timer is pending, and for none later than the earliest. *)
PendingTimerIsArmed ==
  ~slow /\ ~calling /\ ~failed =>
    \A e \in timers_ : armed # 0 /\ (armed <= e[1] \/ armed <= clock + 1)

(* A timer whose time has passed is run or cancelled. *)
PromptTimersRun == \A t \in Timer : ~slow /\ Overdue(t) ~> t \notin activeTimers_ \/ failed

(* TimerQueue.h:87 "when a timer expires the timerfd becomes readable, which *)
(* wakes the IO thread, and the IO thread handles the expired timers".       *)
ExpiredTimersRun == \A t \in Timer : Overdue(t) ~> t \notin activeTimers_ \/ failed
=============================================================================
