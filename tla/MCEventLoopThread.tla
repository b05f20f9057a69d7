------------------------- MODULE MCEventLoopThread -------------------------
(* The owner and one more thread, so that both can be between their push and *)
(* their write at once while a third functor is queued inside a running one. *)
EXTENDS EventLoopThread
============================================================================
