------------------------------ MODULE Monitor ------------------------------
(***************************************************************************)
(* base/MutexLock.h and base/Condition.h: mutexes that remember who holds  *)
(* them, each with one condition variable.                                 *)
(*                                                                         *)
(* pthread's mutex and MutexLock's holder_ are kept apart, because         *)
(* Condition::wait() gives the first away and does not touch the second.   *)
(***************************************************************************)
EXTENDS FiniteSets

CONSTANTS
  Threads,
  Monitors,  (* the objects that have a mutex and a condition variable     *)
  Nobody     (* the id 0                                                   *)

ASSUME MonitorAssumption == IsFiniteSet(Threads) /\ Nobody \notin Threads

VARIABLES
  mutex_,    (* per monitor: the thread that has locked pthread's mutex    *)
  holder_,
  cond_      (* per monitor: the threads that wait on it                   *)

monitorVars == <<mutex_, holder_, cond_>>

MonitorInit ==
  /\ mutex_ = [m \in Monitors |-> Nobody]
  /\ holder_ = [m \in Monitors |-> Nobody]
  /\ cond_ = [m \in Monitors |-> {}]

IsLockedByThisThread(m, t) == holder_[m] = t

(* MutexLockGuard's constructor: holder_ is written once the mutex is held. *)
Lock(m, t) ==
  /\ mutex_[m] = Nobody
  /\ mutex_' = [mutex_ EXCEPT ![m] = t]
  /\ holder_' = [holder_ EXCEPT ![m] = t]
  /\ UNCHANGED cond_

(* Mutant: the mutex is given back and holder_ stays. *)
UnlockKeepsHolder(m, t) ==
  /\ mutex_[m] = t
  /\ mutex_' = [mutex_ EXCEPT ![m] = Nobody]
  /\ UNCHANGED <<holder_, cond_>>

(* Its destructor. *)
Unlock(m, t) ==
  /\ mutex_[m] = t
  /\ mutex_' = [mutex_ EXCEPT ![m] = Nobody]
  /\ holder_' = [holder_ EXCEPT ![m] = Nobody]
  /\ UNCHANGED cond_

(* pthread_cond_wait(): goes to sleep without the mutex ... *)
CondWait(m, t) ==
  /\ mutex_[m] = t
  /\ mutex_' = [mutex_ EXCEPT ![m] = Nobody]
  /\ cond_' = [cond_ EXCEPT ![m] = @ \union {t}]
  /\ UNCHANGED holder_

(* ... may wake for no reason ... *)
CondWakes(m, t) ==
  /\ t \in cond_[m]
  /\ cond_' = [cond_ EXCEPT ![m] = @ \ {t}]
  /\ UNCHANGED <<mutex_, holder_>>

(* ... and returns with the mutex. *)
CondReturns(m, t) ==
  /\ t \notin cond_[m] /\ mutex_[m] = Nobody
  /\ mutex_' = [mutex_ EXCEPT ![m] = t]
  /\ UNCHANGED <<holder_, cond_>>

(* By the thread that has the mutex. *)
Notify(m) ==
  /\ IF cond_[m] = {} THEN UNCHANGED cond_
     ELSE \E t \in cond_[m] : cond_' = [cond_ EXCEPT ![m] = @ \ {t}]
  /\ UNCHANGED <<mutex_, holder_>>

NotifyAll(m) ==
  /\ cond_' = [cond_ EXCEPT ![m] = {}]
  /\ UNCHANGED <<mutex_, holder_>>
=============================================================================
