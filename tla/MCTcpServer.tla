---------------------------- MODULE MCTcpServer ----------------------------
(* Pools of none, one and two loops; three clients, two descriptors, and an *)
(* event array that is full with its first event.                           *)
EXTENDS TcpServer
WithoutPool == {0}
============================================================================
