----------------------------- MODULE ThreadPool -----------------------------
(***************************************************************************)
(* base/ThreadPool.cpp: worker threads that take tasks from one deque.     *)
(*                                                                         *)
(* Actors: the workers; the owner of the pool, which calls start() and     *)
(* stop(); any thread that calls run(), a worker inside a task included.   *)
(* A critical section under mutex_ is one step, and cond_ is the set of    *)
(* workers that wait on it.  running_ is tested without the lock once per  *)
(* round (line 68) and under it in take() (line 88).                       *)
(* base/ThreadPool_cpp11.cpp is the same pool, step by step, on std::mutex *)
(* and std::condition_variable.                                            *)
(***************************************************************************)
EXTENDS Naturals, Sequences, SequencesExt, FiniteSets

CONSTANTS
  Workers,   (* the threads start() may make                               *)
  Tasks      (* bound: each task is in the deque at most once              *)

ASSUME ThreadPoolAssumption == IsFiniteSet(Workers)

VARIABLES
  running_,
  threads_,  (* the workers started so far                                 *)
  dequeue_,
  owner,     (* constructed, starting, started, joining (stop() has told   *)
             (* the workers and waits for them), stopped                   *)
  pc,        (* per worker: none, not started; test, at while (running_);  *)
             (* take, at or back at the loop of take(); waiting, on cond_; *)
             (* task, inside task[w]; done                                 *)
  task       (* per worker: the task it took last                          *)

vars == <<running_, threads_, dequeue_, owner, pc, task>>

Init ==
  /\ running_ = FALSE
  /\ threads_ = {}
  /\ dequeue_ = <<>>
  /\ owner = "constructed"
  /\ pc = [w \in Workers |-> "none"]
  /\ task \in [Workers -> Tasks]

Waiting == {w \in Workers : pc[w] = "waiting"}

(* The workers on their way to the deque. *)
Ready == {w \in Workers : pc[w] \in {"test", "take"}}

----------------------------------------------------------------------------
(* The owner. *)

Start ==
  /\ owner = "constructed"
  /\ owner' = "starting"
  /\ running_' = TRUE
  /\ UNCHANGED <<threads_, dequeue_, pc, task>>

(* One round of start()'s loop. *)
StartThread(w) ==
  /\ owner = "starting"
  /\ w \notin threads_
  /\ threads_' = threads_ \union {w}
  /\ pc' = [pc EXCEPT ![w] = "test"]
  /\ UNCHANGED <<running_, dequeue_, owner, task>>

StartReturns ==
  /\ owner = "starting"
  /\ owner' = "started"
  /\ UNCHANGED <<running_, threads_, dequeue_, pc, task>>

(* Mutant: one worker is told, as by notify(). *)
StopNotifiesOne ==
  /\ owner = "started"
  /\ owner' = "joining"
  /\ running_' = FALSE
  /\ IF Waiting = {}
     THEN UNCHANGED pc
     ELSE \E w \in Waiting : pc' = [pc EXCEPT ![w] = "take"]
  /\ UNCHANGED <<threads_, dequeue_, task>>

(* stop() up to its joins. *)
Stop ==
  /\ owner = "started"
  /\ owner' = "joining"
  /\ running_' = FALSE
  /\ pc' = [w \in Workers |-> IF w \in Waiting THEN "take" ELSE pc[w]]
  /\ UNCHANGED <<threads_, dequeue_, task>>

(* The joins of stop(). *)
JoinsReturn ==
  /\ owner = "joining"
  /\ \A w \in threads_ : pc[w] = "done"
  /\ owner' = "stopped"
  /\ UNCHANGED <<running_, threads_, dequeue_, pc, task>>

----------------------------------------------------------------------------
(* run(), by any thread.  Without threads it is a call of the task.          *)

(* Mutant: a worker is told only if there was nothing to do before. *)
RunNotifiesIfEmpty(t) ==
  /\ threads_ # {}
  /\ t \notin ToSet(dequeue_)
  /\ dequeue_' = Append(dequeue_, t)
  /\ IF Waiting = {} \/ dequeue_ # <<>>
     THEN UNCHANGED pc
     ELSE \E w \in Waiting : pc' = [pc EXCEPT ![w] = "take"]
  /\ UNCHANGED <<running_, threads_, owner, task>>

Run(t) ==
  /\ threads_ # {}
  /\ t \notin ToSet(dequeue_)
  /\ dequeue_' = Append(dequeue_, t)
  /\ IF Waiting = {}
     THEN UNCHANGED pc
     ELSE \E w \in Waiting : pc' = [pc EXCEPT ![w] = "take"]
  /\ UNCHANGED <<running_, threads_, owner, task>>

----------------------------------------------------------------------------
(* A worker: runInThread() and take(). *)

TestRunning(w) ==
  /\ pc[w] = "test"
  /\ pc' = [pc EXCEPT ![w] = IF running_ THEN "take" ELSE "done"]
  /\ UNCHANGED <<running_, threads_, dequeue_, owner, task>>

Wait(w) ==
  /\ pc[w] = "take"
  /\ dequeue_ = <<>> /\ running_
  /\ pc' = [pc EXCEPT ![w] = "waiting"]
  /\ UNCHANGED <<running_, threads_, dequeue_, owner, task>>

(* pthread_cond_wait() may return for no reason. *)
WakesUp(w) ==
  /\ pc[w] = "waiting"
  /\ pc' = [pc EXCEPT ![w] = "take"]
  /\ UNCHANGED <<running_, threads_, dequeue_, owner, task>>

(* Mutant: the newest task is taken. *)
TakeNewest(w) ==
  /\ pc[w] = "take"
  /\ dequeue_ # <<>>
  /\ task' = [task EXCEPT ![w] = Last(dequeue_)]
  /\ dequeue_' = Front(dequeue_)
  /\ pc' = [pc EXCEPT ![w] = "task"]
  /\ UNCHANGED <<running_, threads_, owner>>

Take(w) ==
  /\ pc[w] = "take"
  /\ dequeue_ # <<>>
  /\ task' = [task EXCEPT ![w] = Head(dequeue_)]
  /\ dequeue_' = Tail(dequeue_)
  /\ pc' = [pc EXCEPT ![w] = "task"]
  /\ UNCHANGED <<running_, threads_, owner>>

(* take() of a pool that was stopped returns an empty function. *)
TakeNothing(w) ==
  /\ pc[w] = "take"
  /\ dequeue_ = <<>> /\ ~running_
  /\ pc' = [pc EXCEPT ![w] = "test"]
  /\ UNCHANGED <<running_, threads_, dequeue_, owner, task>>

TaskReturns(w) ==
  /\ pc[w] = "task"
  /\ pc' = [pc EXCEPT ![w] = "test"]
  /\ UNCHANGED <<running_, threads_, dequeue_, owner, task>>

----------------------------------------------------------------------------
WorkerStep(w) ==
  \/ TestRunning(w)
  \/ Wait(w)
  \/ Take(w)
  \/ TakeNothing(w)
  \/ TaskReturns(w)

Next ==
  \/ Start
  \/ \E w \in Workers : StartThread(w)
  \/ StartReturns
  \/ Stop
  \/ JoinsReturn
  \/ \E t \in Tasks : Run(t)
  \/ \E w \in Workers : WorkerStep(w)
  \/ \E w \in Workers : WakesUp(w)

(* Every worker runs, its tasks return, and the joins see a worker end.      *)
(* Nothing is assumed of spurious wakeups, of run() or of stop().            *)
Fairness == WF_vars(JoinsReturn) /\ \A w \in Workers : WF_vars(WorkerStep(w))

Spec == Init /\ [][Next]_vars /\ Fairness

----------------------------------------------------------------------------
(* Types, what running_ means, and that the pool keeps each thread it starts.*)
TypeOK ==
  /\ running_ \in BOOLEAN
  /\ threads_ \subseteq Workers
  /\ dequeue_ \in Seq(Tasks)
  /\ owner \in {"constructed", "starting", "started", "joining", "stopped"}
  /\ pc \in [Workers -> {"none", "test", "take", "waiting", "task", "done"}]
  /\ task \in [Workers -> Tasks]
  /\ \A w \in Workers : pc[w] = "none" <=> w \notin threads_
  /\ running_ <=> owner \in {"starting", "started"}
  /\ owner = "constructed" => threads_ = {}

(* run(), take() and stop() (ThreadPool.cpp:46-49, 60-62, 86-90): a worker   *)
(* waits on cond_ only when, for each task in the deque, another one is on   *)
(* its way to it; and none waits, or can begin to, once running_ is lowered: *)
(* nobody would wake it for the join.                                        *)
NoWorkerSleepsInVain ==
  /\ Waiting # {} => Len(dequeue_) <= Cardinality(Ready)
  /\ owner \in {"joining", "stopped"} => Waiting = {}

(* A task given to run() is run, unless the pool is stopped first. *)
QueuedTaskRuns ==
  \A t \in Tasks :
    t \in ToSet(dequeue_) ~> ~running_ \/ \E w \in Workers : pc[w] = "task" /\ task[w] = t

============================================================================
