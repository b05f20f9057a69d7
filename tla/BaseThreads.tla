---------------------------- MODULE BaseThreads ----------------------------
(***************************************************************************)
(* What base/ builds on its mutexes: Thread, BlockingQueue and             *)
(* CountDownLatch, used together by any number of threads.                 *)
(*                                                                         *)
(* A thread makes its calls one after another; a critical section is three *)
(* steps (lock, body, unlock), so that holder_ is seen by others in        *)
(* between.  Elements of the queue are numbered as they are put.           *)
(***************************************************************************)
EXTENDS Monitor, Integers, Sequences, SequencesExt

CONSTANTS
  Count,     (* what the latch counts down from                            *)
  MaxCalls   (* bound: calls that a thread makes                           *)

ASSUME BaseThreadsAssumption ==
  Monitors = {"queue", "latch"} /\ Count \in Nat /\ MaxCalls \in Nat

VARIABLES
  thread,    (* per Thread: new, started, ended, joined                    *)
  call,      (* per thread: which call it is in, or "none"                 *)
  at,        (* where in it: lock, body, waiting, unlock                   *)
  waited,    (* history: the threads that have waited since they locked    *)
  calls,     (* per thread: calls begun                                    *)
  queue_,    (* BlockingQueue                                              *)
  put, took, (* history: elements put; and taken, in order                 *)
  count_     (* CountDownLatch                                             *)

callVars == <<thread, call, at, waited, calls>>
dataVars == <<queue_, put, took, count_>>
threadsVars == <<monitorVars, callVars, dataVars>>

MonitorOf(c) == IF c \in {"put", "take"} THEN "queue" ELSE "latch"

ThreadsInit ==
  /\ MonitorInit
  /\ thread = [t \in Threads |-> "new"]
  /\ call = [t \in Threads |-> "none"] /\ at = [t \in Threads |-> "none"]
  /\ waited = {} /\ calls = [t \in Threads |-> 0]
  /\ queue_ = <<>> /\ put = 0 /\ took = <<>>
  /\ count_ = Count

----------------------------------------------------------------------------
(* Thread. *)

(* Thread::start(); an error of pthread_create() is only logged. *)
ThreadStarts(t) ==
  /\ thread[t] = "new"
  /\ \E s \in {"started", "failed"} : thread' = [thread EXCEPT ![t] = s]
  /\ UNCHANGED <<monitorVars, call, at, waited, calls, dataVars>>

(* func_, which is some MaxCalls calls, returns. *)
ThreadEnds(t) ==
  /\ thread[t] = "started" /\ call[t] = "none" /\ calls[t] = MaxCalls
  /\ thread' = [thread EXCEPT ![t] = "ended"]
  /\ UNCHANGED <<monitorVars, call, at, waited, calls, dataVars>>

ThreadIsJoined(t) ==
  /\ thread[t] = "ended"
  /\ thread' = [thread EXCEPT ![t] = "joined"]
  /\ UNCHANGED <<monitorVars, call, at, waited, calls, dataVars>>

----------------------------------------------------------------------------
(* A call: its guard object locks, the body runs, the guard unlocks.         *)

Begins(t, c) ==
  /\ thread[t] = "started" /\ call[t] = "none" /\ calls[t] < MaxCalls
  /\ call' = [call EXCEPT ![t] = c]
  /\ at' = [at EXCEPT ![t] = "lock"]
  /\ calls' = [calls EXCEPT ![t] = @ + 1]
  /\ UNCHANGED <<monitorVars, thread, waited, dataVars>>

Locks(t) ==
  /\ at[t] = "lock"
  /\ Lock(MonitorOf(call[t]), t)
  /\ at' = [at EXCEPT ![t] = "body"]
  /\ waited' = waited \ {t}
  /\ UNCHANGED <<thread, call, calls, dataVars>>

Unlocks(t) ==
  /\ at[t] = "unlock"
  /\ Unlock(MonitorOf(call[t]), t)
  /\ at' = [at EXCEPT ![t] = "none"] /\ call' = [call EXCEPT ![t] = "none"]
  /\ UNCHANGED <<thread, waited, calls, dataVars>>

(* The waits in the loops of BlockingQueue::take() and of                    *)
(* CountDownLatch::wait().                                                   *)
Waits(t) ==
  /\ at[t] = "body"
  /\ \/ call[t] = "take" /\ queue_ = <<>>
     \/ call[t] = "wait" /\ count_ > 0
  /\ CondWait(MonitorOf(call[t]), t)
  /\ at' = [at EXCEPT ![t] = "waiting"]
  /\ waited' = waited \union {t}
  /\ UNCHANGED <<thread, call, calls, dataVars>>

Wakes(t) ==
  /\ at[t] = "waiting"
  /\ CondWakes(MonitorOf(call[t]), t)
  /\ UNCHANGED <<callVars, dataVars>>

Relocks(t) ==
  /\ at[t] = "waiting"
  /\ CondReturns(MonitorOf(call[t]), t)
  /\ at' = [at EXCEPT ![t] = "body"]
  /\ UNCHANGED <<thread, call, waited, calls, dataVars>>

BodyEnds(t) == at' = [at EXCEPT ![t] = "unlock"] /\ UNCHANGED <<thread, call, waited, calls>>

(* Mutant: only a queue that was empty has somebody to tell. *)
PutTellsIfEmpty(t) ==
  /\ call[t] = "put" /\ at[t] = "body"
  /\ put' = put + 1
  /\ queue_' = Append(queue_, put')
  /\ IF queue_ = <<>> THEN Notify("queue") ELSE UNCHANGED monitorVars
  /\ BodyEnds(t)
  /\ UNCHANGED <<took, count_>>

PutElement(t) ==
  /\ call[t] = "put" /\ at[t] = "body"
  /\ put' = put + 1
  /\ queue_' = Append(queue_, put')
  /\ Notify("queue")
  /\ BodyEnds(t)
  /\ UNCHANGED <<took, count_>>

TakeElement(t) ==
  /\ call[t] = "take" /\ at[t] = "body"
  /\ queue_ # <<>>
  /\ took' = Append(took, Head(queue_))
  /\ queue_' = Tail(queue_)
  /\ BodyEnds(t)
  /\ UNCHANGED <<monitorVars, put, count_>>

WaitEnds(t) ==
  /\ call[t] = "wait" /\ at[t] = "body"
  /\ count_ <= 0
  /\ BodyEnds(t)
  /\ UNCHANGED <<monitorVars, dataVars>>

(* Mutant: one of those who wait is told. *)
CountDownTellsOne(t) ==
  /\ call[t] = "countDown" /\ at[t] = "body"
  /\ count_' = count_ - 1
  /\ IF count_' = 0 THEN Notify("latch") ELSE UNCHANGED monitorVars
  /\ BodyEnds(t)
  /\ UNCHANGED <<queue_, put, took>>

CountDown(t) ==
  /\ call[t] = "countDown" /\ at[t] = "body"
  /\ count_' = count_ - 1
  /\ IF count_' = 0 THEN NotifyAll("latch") ELSE UNCHANGED monitorVars
  /\ BodyEnds(t)
  /\ UNCHANGED <<queue_, put, took>>

----------------------------------------------------------------------------
ThreadStep(t) ==
  \/ Locks(t) \/ Unlocks(t) \/ Waits(t) \/ Relocks(t)
  \/ PutElement(t) \/ TakeElement(t) \/ WaitEnds(t) \/ CountDown(t)

ThreadsNext ==
  \E t \in Threads :
    \/ ThreadStarts(t) \/ ThreadEnds(t) \/ ThreadIsJoined(t)
    \/ \E c \in {"put", "take", "wait", "countDown"} : Begins(t, c)
    \/ ThreadStep(t) \/ Wakes(t)

(* A call that has begun goes on.  Of a mutex nothing is assumed but that it *)
(* is given to somebody: calls are finitely many.                            *)
ThreadsFairness == \A t \in Threads : WF_threadsVars(ThreadStep(t))

ThreadsSpec == ThreadsInit /\ [][ThreadsNext]_threadsVars /\ ThreadsFairness

----------------------------------------------------------------------------
(* MutexLock.h:24-30 with Condition.h:25-27: a thread that has the mutex is  *)
(* the holder_, unless it has waited in between, for wait() does not set     *)
(* holder_ again; and a holder_ has the mutex or waits.  So                  *)
(* isLockedByThisThread() errs both ways, but only around a wait.            *)
HolderHasTheMutexOrWaits ==
  \A m \in Monitors, t \in Threads :
    /\ mutex_[m] = t /\ t \notin waited => IsLockedByThisThread(m, t)
    /\ IsLockedByThisThread(m, t) => mutex_[m] = t \/ (at[t] = "waiting" /\ MonitorOf(call[t]) = m)

(* BlockingQueue.h:19-42: a thread sleeps in take() only when for each       *)
(* element another one is on its way to it, and elements leave in the order  *)
(* in which they came, each once.                                            *)
ElementsAreTakenInOrder ==
  /\ took \o queue_ = [i \in 1..put |-> i]
  /\ cond_["queue"] # {} =>
       Len(queue_) <= Cardinality({t \in Threads \ cond_["queue"] :
                                     call[t] = "take" /\ at[t] \in {"body", "waiting"}})

(* CountDownLatch.cpp:12-25: once a latch has reached zero all who wait for  *)
(* it return, also if one began to wait while the last count was made.       *)
LatchOpens ==
  count_ <= 0 ~> \A t \in Threads : ~(call[t] = "wait" /\ at[t] = "waiting")
=============================================================================
