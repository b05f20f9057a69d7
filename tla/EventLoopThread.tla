-------------------------- MODULE EventLoopThread --------------------------
(***************************************************************************)
(* net/EventLoopThread.cpp: an object of one thread, the owner, that starts*)
(* another, the IO thread, whose stack holds the EventLoop.  startThread() *)
(* waits on cond_ until the loop is published in loop_; the destructor     *)
(* quits the loop through that pointer and joins the thread.               *)
(***************************************************************************)
EXTENDS EventLoop

CONSTANT Owner   (* the thread that owns the EventLoopThread object *)

ASSUME EventLoopThreadAssumption == Owner \in Threads

VARIABLES
  thread,  (* the IO thread: none, started, looping, returned              *)
  loop_,   (* loop_ # nullptr; never reset, so it outlives the EventLoop   *)
  owner    (* where the owner is in startThread() and ~EventLoopThread()   *)

lifeVars == <<thread, loop_, owner>>
allVars == <<vars, lifeVars>>

ThreadStates == {"none", "started", "looping", "returned"}
OwnerStates ==
  {"new", "checking", "waiting", "started", "quitting", "joining", "done"}

ThreadInit ==
  /\ Init
  /\ thread = "none"
  /\ loop_ = FALSE
  /\ owner = "new"

----------------------------------------------------------------------------
(* The owner. *)

(* startThread() up to the lock. *)
StartThread ==
  /\ owner = "new"
  /\ owner' = "checking"
  /\ thread' = "started"
  /\ UNCHANGED <<vars, loop_>>

(* Mutant: cond_ is waited for once at most, in an if. *)
CheckLoopOnce ==
  /\ owner \in {"checking", "waiting"}
  /\ owner' = "started"
  /\ UNCHANGED <<vars, thread, loop_>>

(* while (loop_ == nullptr) cond_.wait(), the test under mutex_. *)
CheckLoop ==
  /\ owner = "checking"
  /\ owner' = IF loop_ THEN "started" ELSE "waiting"
  /\ UNCHANGED <<vars, thread, loop_>>

(* pthread_cond_wait may return with no notify. *)
SpuriousWakeup ==
  /\ owner = "waiting"
  /\ owner' = "checking"
  /\ UNCHANGED <<vars, thread, loop_>>

(* ~EventLoopThread() begins: with no IO thread it has nothing to do. *)
Destruct ==
  /\ Owner \notin waking
  /\ \/ owner = "new" /\ owner' = "done"
     \/ owner = "started" /\ owner' = "quitting"
  /\ UNCHANGED <<vars, thread, loop_>>

(* loop_->quit(): on a loop that is gone it stores into a dead stack frame. *)
DestructorQuit ==
  /\ owner = "quitting"
  /\ owner' = "joining"
  /\ IF thread = "returned" THEN UNCHANGED vars ELSE Quit(Owner)
  /\ UNCHANGED <<thread, loop_>>

(* thread_.join() *)
Join ==
  /\ owner = "joining"
  /\ Owner \notin waking
  /\ thread = "returned"
  /\ owner' = "done"
  /\ UNCHANGED <<vars, thread, loop_>>

----------------------------------------------------------------------------
(* The IO thread: threadFunction(). *)

(* The EventLoop is built and callback_ has run; loop_ is set, cond_ told. *)
Publish ==
  /\ thread = "started"
  /\ thread' = "looping"
  /\ loop_' = TRUE
  /\ owner' = IF owner = "waiting" THEN "checking" ELSE owner
  /\ UNCHANGED vars

(* loop.loop() *)
Loop ==
  /\ thread = "looping"
  /\ IoNext
  /\ UNCHANGED lifeVars

(* loop() has returned: the EventLoop dies with threadFunction()'s frame. *)
Return ==
  /\ thread = "looping"
  /\ pc = "exited"
  /\ thread' = "returned"
  /\ UNCHANGED <<vars, loop_, owner>>

----------------------------------------------------------------------------
(* Threads that were given the pointer use it while the owner keeps the     *)
(* object, and finish the calls they began; a write to a loop that is gone  *)
(* meets a closed descriptor.                                               *)
Call ==
  /\ owner = "started"
  /\ thread = "looping"
  /\ \E th \in Threads : Quit(th) \/ \E t \in Tasks : QueueInLoop(th, t)
  /\ UNCHANGED lifeVars

FinishCall(th) ==
  /\ Wakeup(th)
  /\ UNCHANGED lifeVars

ThreadNext ==
  \/ StartThread
  \/ CheckLoop
  \/ SpuriousWakeup
  \/ Destruct
  \/ DestructorQuit
  \/ Join
  \/ Publish
  \/ Loop
  \/ Return
  \/ Call
  \/ \E th \in Threads : FinishCall(th)

(* Both threads keep running.  The owner may keep the object for ever, and  *)
(* nothing is assumed of spurious wakeups.                                  *)
ThreadFairness ==
  /\ WF_allVars(thread = "looping" /\ IoStep /\ UNCHANGED lifeVars)
  /\ WF_allVars(Publish)
  /\ WF_allVars(Return)
  /\ WF_allVars(CheckLoop)
  /\ WF_allVars(DestructorQuit)
  /\ WF_allVars(Join)
  /\ \A th \in Threads : WF_allVars(FinishCall(th))

ThreadSpec == ThreadInit /\ [][ThreadNext]_allVars /\ ThreadFairness

----------------------------------------------------------------------------
(* The pointer startThread() returns is that of an EventLoop that has been   *)
(* built, and no thread reads it before (EventLoopThread.cpp:34-42); loop()  *)
(* runs, and ends, only between that and the thread's return.                *)
StartHandsOutTheLoop ==
  /\ thread \in ThreadStates
  /\ owner \in OwnerStates
  /\ owner \in {"started", "quitting", "joining"} =>
       loop_ /\ thread \in {"looping", "returned"}
  /\ loop_ <=> thread \in {"looping", "returned"}
  /\ pc # "enter" => thread \in {"looping", "returned"}
  /\ thread = "returned" => pc = "exited"


(* A quit that finds loop() entered ends the thread, and the destructor's    *)
(* join returns.                                                             *)
JoinReturnsOnceLooping ==
  (owner = "joining" /\ quit_ /\ pc # "enter") ~> (owner = "done")

(* EventLoopThread.cpp:21-25: "if the IO thread has been created, quit the   *)
(* EventLoop and end the thread".                                            *)
DestructorEndsTheThread == (owner = "quitting") ~> (owner = "done")
============================================================================
