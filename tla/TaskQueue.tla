----------------------------- MODULE TaskQueue -----------------------------
(***************************************************************************)
(* What EventLoop promises to the threads that hand it functors            *)
(* (EventLoop.h, queueInLoop / runInLoop / quit): functors queued from any *)
(* thread are run by the IO thread, one at a time, in the order they were  *)
(* queued, each exactly as often as it was queued; nothing runs once the   *)
(* loop has returned, and while it has not, every queued functor is run.   *)
(***************************************************************************)
EXTENDS Sequences

CONSTANTS
  Tasks,    (* functors                                                   *)
  Nobody    (* "the IO thread is running no queued functor"               *)

VARIABLES
  queue,    (* functors queued and not yet run, oldest first              *)
  running,  (* the queued functor the IO thread is running, or Nobody     *)
  closed    (* loop() has returned                                        *)

vars == <<queue, running, closed>>

Init ==
  /\ queue = <<>>
  /\ running = Nobody
  /\ closed = FALSE

(* Any thread, the IO thread from inside a functor included. *)
Submit(t) ==
  /\ queue' = Append(queue, t)
  /\ UNCHANGED <<running, closed>>

Run ==
  /\ ~closed
  /\ running = Nobody
  /\ queue # <<>>
  /\ running' = Head(queue)
  /\ queue' = Tail(queue)
  /\ UNCHANGED closed

Return ==
  /\ running # Nobody
  /\ running' = Nobody
  /\ UNCHANGED <<queue, closed>>

Close ==
  /\ running = Nobody
  /\ closed' = TRUE
  /\ UNCHANGED <<queue, running>>

Next ==
  \/ \E t \in Tasks : Submit(t)
  \/ Run
  \/ Return
  \/ Close

Spec ==
  /\ Init
  /\ [][Next]_vars
  /\ WF_vars(Run)
  /\ WF_vars(Return)
============================================================================
