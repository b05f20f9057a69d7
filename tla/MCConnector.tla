----------------------------- MODULE MCConnector -----------------------------
(* The clients of the repository, one or the other: a Connector whose delays  *)
(* reach the cap in two retries, with two starts and two stops, so that a     *)
(* stop can be overtaken by a start and that by a stop; and WebBench with two *)
(* processes, whose alarms, failures and reports come in any order.           *)
EXTENDS Connector, WebBench

VARIABLE program

MCInit == Init /\ BenchInit /\ program \in {"TcpClient", "WebBench"}

MCNext ==
  \/ program = "TcpClient" /\ Next /\ UNCHANGED <<benchVars, program>>
  \/ program = "WebBench" /\ BenchNext /\ UNCHANGED <<vars, program>>

MCSpec ==
  /\ MCInit /\ [][MCNext]_<<vars, benchVars, program>>
  /\ program = "TcpClient" => Fairness
  /\ program = "WebBench" => BenchFairness
==============================================================================
