----------------------------- MODULE EventLoop -----------------------------
(***************************************************************************)
(* net/EventLoop.cpp: one IO thread runs loop(); any number of other       *)
(* threads queue functors for it and may tell it to quit.  The two sides   *)
(* meet in pendingFunctors_ (under mutex_), in the flag quit_ (under no    *)
(* lock) and in the eventfd wakeupFd_.                                     *)
(*                                                                         *)
(* A step of this module is one critical section or one system call.  What *)
(* only the IO thread touches (callingPendingFuntors_, the local vector    *)
(* `functors') changes together with the step next to it.                  *)
(***************************************************************************)
EXTENDS Sequences, SequencesExt

CONSTANTS
  Threads,   (* the threads other than the IO thread                       *)
  Tasks,     (* the functors; bound: each is in the queue at most once     *)
  Callback,  (* body: an event callback of some channel but wakeupChannel_ *)
  Nobody     (* body: the IO thread is between callbacks and functors      *)

ASSUME EventLoopAssumption ==
  /\ Callback \notin Tasks
  /\ Nobody \notin Tasks \union {Callback}

VARIABLES
  pc,                (* where the IO thread is in loop()                   *)
  quit_,
  pendingFunctors_,
  functors,          (* what is left of doPendingFunctors()'s local vector *)
  callingPendingFuntors_,
  body,              (* the user code the IO thread is inside              *)
  activeChannels_,   (* the channels poll() returned, not handled yet      *)
  wakeupFd_,         (* eventfd counter > 0: the descriptor is readable    *)
  waking             (* threads past their change, before wakeup()'s write *)

vars == <<pc, quit_, pendingFunctors_, functors, callingPendingFuntors_, body,
          activeChannels_, wakeupFd_, waking>>

(* enter: before loop(); test: at while (!quit_); poll: in epoll_wait;      *)
(* events: the for over activeChannels_; run: doPendingFunctors() after the *)
(* swap; exited: loop() has returned.                                       *)
PCs == {"enter", "test", "poll", "events", "run", "exited"}

(* wakeupChannel_, and every other channel and timerfd of the loop as one. *)
Channels == {"wakeup", "other"}

Init ==
  /\ pc = "enter"
  /\ quit_ = FALSE
  /\ pendingFunctors_ = <<>>
  /\ functors = <<>>
  /\ callingPendingFuntors_ = FALSE
  /\ body = Nobody
  /\ activeChannels_ = {}
  /\ wakeupFd_ = FALSE
  /\ waking = {}

Queued == ToSet(functors) \union ToSet(pendingFunctors_)

----------------------------------------------------------------------------
(* loop(), by the IO thread. *)

(* looping_ = true; quit_ = false *)
EnterLoop ==
  /\ pc = "enter"
  /\ pc' = "test"
  /\ quit_' = FALSE
  /\ UNCHANGED <<pendingFunctors_, functors, callingPendingFuntors_, body,
                 activeChannels_, wakeupFd_, waking>>

(* while (!quit_) *)
TestQuit ==
  /\ pc = "test"
  /\ pc' = IF quit_ THEN "exited" ELSE "poll"
  /\ UNCHANGED <<quit_, pendingFunctors_, functors, callingPendingFuntors_, body,
                 activeChannels_, wakeupFd_, waking>>

(* epoll_wait returns with what is readable, level triggered. *)
PollReturns(ready) ==
  /\ pc = "poll"
  /\ ready # {}
  /\ "wakeup" \in ready <=> wakeupFd_
  /\ activeChannels_' = ready
  /\ pc' = "events"
  /\ UNCHANGED <<quit_, pendingFunctors_, functors, callingPendingFuntors_, body,
                 wakeupFd_, waking>>

(* epoll_wait gives up after kEpollTimeMs. *)
PollTimesOut ==
  /\ pc = "poll"
  /\ ~wakeupFd_
  /\ activeChannels_' = {}
  /\ pc' = "events"
  /\ UNCHANGED <<quit_, pendingFunctors_, functors, callingPendingFuntors_, body,
                 wakeupFd_, waking>>

(* handleRead(): the read takes the counter back to 0. *)
HandleRead ==
  /\ pc = "events"
  /\ body = Nobody
  /\ "wakeup" \in activeChannels_
  /\ activeChannels_' = activeChannels_ \ {"wakeup"}
  /\ wakeupFd_' = FALSE
  /\ UNCHANGED <<pc, quit_, pendingFunctors_, functors, callingPendingFuntors_,
                 body, waking>>

(* handleEvent() of another channel: its callback starts. *)
HandleOther ==
  /\ pc = "events"
  /\ body = Nobody
  /\ "other" \in activeChannels_
  /\ activeChannels_' = activeChannels_ \ {"other"}
  /\ body' = Callback
  /\ UNCHANGED <<pc, quit_, pendingFunctors_, functors, callingPendingFuntors_,
                 wakeupFd_, waking>>

(* Mutant: the queue is copied, not swapped out. *)
CopyFunctors ==
  /\ pc = "events"
  /\ body = Nobody
  /\ activeChannels_ = {}
  /\ callingPendingFuntors_' = TRUE
  /\ functors' = pendingFunctors_
  /\ pc' = "run"
  /\ UNCHANGED <<quit_, pendingFunctors_, body, activeChannels_, wakeupFd_, waking>>

(* doPendingFunctors() up to the end of its critical section. *)
SwapFunctors ==
  /\ pc = "events"
  /\ body = Nobody
  /\ activeChannels_ = {}
  /\ callingPendingFuntors_' = TRUE
  /\ functors' = pendingFunctors_
  /\ pendingFunctors_' = <<>>
  /\ pc' = "run"
  /\ UNCHANGED <<quit_, body, activeChannels_, wakeupFd_, waking>>

(* Mutant: no local vector, functors are taken from the live queue. *)
RunFromLiveQueue ==
  /\ pc = "run"
  /\ body = Nobody
  /\ functors # <<>>
  /\ body' = Head(functors)
  /\ functors' = Tail(functors) \o pendingFunctors_
  /\ pendingFunctors_' = <<>>
  /\ UNCHANGED <<pc, quit_, callingPendingFuntors_, activeChannels_, wakeupFd_, waking>>

(* functor() for the next one of the local vector. *)
RunFunctor ==
  /\ pc = "run"
  /\ body = Nobody
  /\ functors # <<>>
  /\ body' = Head(functors)
  /\ functors' = Tail(functors)
  /\ UNCHANGED <<pc, quit_, pendingFunctors_, callingPendingFuntors_,
                 activeChannels_, wakeupFd_, waking>>

(* The callback or functor returns. *)
BodyReturns ==
  /\ body # Nobody
  /\ body' = Nobody
  /\ UNCHANGED <<pc, quit_, pendingFunctors_, functors, callingPendingFuntors_,
                 activeChannels_, wakeupFd_, waking>>

EndFunctors ==
  /\ pc = "run"
  /\ body = Nobody
  /\ functors = <<>>
  /\ callingPendingFuntors_' = FALSE
  /\ pc' = "test"
  /\ UNCHANGED <<quit_, pendingFunctors_, functors, body, activeChannels_,
                 wakeupFd_, waking>>

----------------------------------------------------------------------------
(* Calls.  runInLoop() is queueInLoop() in another thread; in the IO thread *)
(* it is a plain call inside the running body.                              *)

(* Mutant: the IO thread never wakes itself. *)
QueueInLoopHereNoWakeup(t) ==
  /\ body # Nobody
  /\ t \notin Queued
  /\ pendingFunctors_' = Append(pendingFunctors_, t)
  /\ UNCHANGED <<pc, quit_, functors, callingPendingFuntors_, body,
                 activeChannels_, wakeupFd_, waking>>

(* queueInLoop() by the IO thread, inside a callback or a functor. *)
QueueInLoopHere(t) ==
  /\ body # Nobody
  /\ t \notin Queued
  /\ pendingFunctors_' = Append(pendingFunctors_, t)
  /\ wakeupFd_' = (wakeupFd_ \/ callingPendingFuntors_)
  /\ UNCHANGED <<pc, quit_, functors, callingPendingFuntors_, body,
                 activeChannels_, waking>>

(* Mutant: the condition of line 147 asks callingPendingFuntors_ alone. *)
QueueInLoopNoWakeup(th, t) ==
  /\ th \notin waking
  /\ t \notin Queued
  /\ pendingFunctors_' = Append(pendingFunctors_, t)
  /\ waking' = IF callingPendingFuntors_ THEN waking \union {th} ELSE waking
  /\ UNCHANGED <<pc, quit_, functors, callingPendingFuntors_, body,
                 activeChannels_, wakeupFd_>>

(* queueInLoop() by another thread: the critical section; Wakeup follows. *)
QueueInLoop(th, t) ==
  /\ th \notin waking
  /\ t \notin Queued
  /\ pendingFunctors_' = Append(pendingFunctors_, t)
  /\ waking' = waking \union {th}
  /\ UNCHANGED <<pc, quit_, functors, callingPendingFuntors_, body,
                 activeChannels_, wakeupFd_>>

(* wakeup(): the write to the eventfd. *)
Wakeup(th) ==
  /\ th \in waking
  /\ wakeupFd_' = TRUE
  /\ waking' = waking \ {th}
  /\ UNCHANGED <<pc, quit_, pendingFunctors_, functors, callingPendingFuntors_,
                 body, activeChannels_>>

(* quit() by the IO thread: no wakeup() is needed. *)
QuitHere ==
  /\ body # Nobody
  /\ quit_' = TRUE
  /\ UNCHANGED <<pc, pendingFunctors_, functors, callingPendingFuntors_, body,
                 activeChannels_, wakeupFd_, waking>>

(* Mutant: quit() does not wake the IO thread. *)
QuitNoWakeup(th) ==
  /\ th \notin waking
  /\ quit_' = TRUE
  /\ UNCHANGED <<pc, pendingFunctors_, functors, callingPendingFuntors_, body,
                 activeChannels_, wakeupFd_, waking>>

(* quit() by another thread, up to the flag; Wakeup follows. *)
Quit(th) ==
  /\ th \notin waking
  /\ quit_' = TRUE
  /\ waking' = waking \union {th}
  /\ UNCHANGED <<pc, pendingFunctors_, functors, callingPendingFuntors_, body,
                 activeChannels_, wakeupFd_>>

----------------------------------------------------------------------------
(* What the IO thread does of itself, once poll() has something to report. *)
IoStep ==
  \/ EnterLoop
  \/ TestQuit
  \/ wakeupFd_ /\ \E ready \in SUBSET Channels : PollReturns(ready)
  \/ HandleRead
  \/ HandleOther
  \/ SwapFunctors
  \/ RunFunctor
  \/ BodyReturns
  \/ EndFunctors

(* Everything the IO thread may do, its user code's calls included. *)
IoNext ==
  \/ EnterLoop
  \/ TestQuit
  \/ \E ready \in SUBSET Channels : PollReturns(ready)
  \/ PollTimesOut
  \/ HandleRead
  \/ HandleOther
  \/ SwapFunctors
  \/ RunFunctor
  \/ BodyReturns
  \/ EndFunctors
  \/ \E t \in Tasks : QueueInLoopHere(t)
  \/ QuitHere

Next ==
  \/ IoNext
  \/ \E th \in Threads, t \in Tasks : QueueInLoop(th, t)
  \/ \E th \in Threads : Quit(th)
  \/ \E th \in Threads : Wakeup(th)

(* The IO thread keeps running, its callbacks and functors return, and a    *)
(* thread that has queued goes on to its write.  Nothing is assumed of the  *)
(* poll timeout, of other channels becoming ready, or of anyone calling.    *)
Fairness ==
  /\ WF_vars(IoStep)
  /\ \A th \in Threads : WF_vars(Wakeup(th))

Spec == Init /\ [][Next]_vars /\ Fairness

----------------------------------------------------------------------------
(* Types, and what each phase of loop() may find: callbacks run only in the *)
(* handling phase, queued functors only in doPendingFunctors(), whose flag   *)
(* is up exactly then; both phases leave nothing behind them.                *)
TypeOK ==
  /\ pc \in PCs
  /\ quit_ \in BOOLEAN
  /\ pendingFunctors_ \in Seq(Tasks)
  /\ functors \in Seq(Tasks)
  /\ callingPendingFuntors_ \in BOOLEAN
  /\ body \in Tasks \union {Callback, Nobody}
  /\ activeChannels_ \in SUBSET Channels
  /\ wakeupFd_ \in BOOLEAN
  /\ waking \in SUBSET Threads
  /\ callingPendingFuntors_ <=> pc = "run"
  /\ body = Callback => pc = "events"
  /\ body \in Tasks => pc = "run"
  /\ functors # <<>> => pc = "run"
  /\ activeChannels_ # {} => pc = "events"

(* queueInLoop() and quit() must not leave the IO thread asleep: while it is *)
(* in epoll_wait with a functor queued or quit_ set, the eventfd is readable *)
(* or a thread is on its way to write it (EventLoop.cpp:135-149, 110-116).   *)
NoLostWakeup ==
  pc = "poll" /\ (pendingFunctors_ # <<>> \/ quit_) => wakeupFd_ \/ waking # {}

(* EventLoop.cpp:139-142: a functor queued while doPendingFunctors() runs    *)
(* waits for the next pass.  So a functor that queues itself again cannot    *)
(* keep the IO thread from its channels: doPendingFunctors() always ends.    *)
FunctorsLetTheLoopPoll == pc = "run" ~> pc = "test"


(* EventLoop implements its promise: FIFO, exactly once, nothing after exit. *)
Promise == INSTANCE TaskQueue WITH
  queue   <- functors \o pendingFunctors_,
  running <- IF body \in Tasks THEN body ELSE Nobody,
  closed  <- pc = "exited"

ImplementsTaskQueue == Promise!Spec
============================================================================
