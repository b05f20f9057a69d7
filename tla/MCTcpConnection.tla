-------------------------- MODULE MCTcpConnection --------------------------
(* Messages of two units, so that a write can be partial; two requests, so   *)
(* that one can arrive while the reply to the other is pending; two calls,   *)
(* so that a send and a shutdown can race with a close.                      *)
EXTENDS TcpConnection
============================================================================
