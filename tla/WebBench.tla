------------------------------ MODULE WebBench ------------------------------
(***************************************************************************)
(* WebBench/webbench.c, the load generator kept with the servers: main()   *)
(* and build_request(), the parent of bench() that forks the clients and   *)
(* adds up what they report through a pipe, and the clients' benchcore().  *)
(*                                                                         *)
(* keep_alive is TRUE in the copy of mutlithread, where no option lowers   *)
(* it, and the copy of web-5.11 has only the other branch of benchcore().  *)
(* The integers of a client count requests; bytes counts reads.  That      *)
(* close(2) of a socket fails is left out.                                 *)
(***************************************************************************)
EXTENDS Integers, SequencesExt, FiniteSetsExt

CONSTANTS
  Client,       (* processes that fork() can make                          *)
  MaxRounds,    (* bound: requests of a client                             *)
  MaxReads      (* bound: reads of a client that found something           *)

ASSUME WebBenchAssumption ==
  IsFiniteSet(Client) /\ MaxRounds \in Nat /\ MaxReads \in Nat

VARIABLES
  keep_alive,   (* which copy of the program it is                         *)
  options,      (* globals set by main()                                   *)
  request,      (* as build_request() makes it                             *)
  parent,       (* getopt, checking, forking, reading or ended             *)
  status,       (* history: what the parent ended as                       *)
  forked,       (* clients forked so far                                   *)
  clients,      (* those whose report is awaited                           *)
  total,        (* speed, failed and bytes of the parent                   *)
  pipe,         (* mypipe: reports written and not read                    *)
  client        (* per client: where it is in benchcore(), and its globals *)

parentVars == <<keep_alive, options, request, parent, status, forked, clients, total>>
benchVars == <<parentVars, pipe, client>>

NewClient ==
  [at |-> "none", s |-> FALSE, timerexpired |-> FALSE,
   speed |-> 0, failed |-> 0, bytes |-> 0, rounds |-> 0]

(* The options' values before getopt_long(). *)
Defaults ==
  [method |-> "GET", http10 |-> 1, force |-> FALSE, force_reload |-> FALSE,
   proxyhost |-> FALSE, clients |-> 1]

BenchInit ==
  /\ keep_alive \in BOOLEAN
  /\ options = Defaults /\ request = <<>>
  /\ parent = "getopt" /\ status = "running"
  /\ forked = {} /\ clients = 0 /\ total = [speed |-> 0, failed |-> 0, bytes |-> 0]
  /\ pipe = <<>>
  /\ client = [c \in Client |-> NewClient]

----------------------------------------------------------------------------
(* main() and build_request(). *)

ParentEnds(s) == parent' = "ended" /\ status' = s

(* One turn of the getopt_long() loop: every option that has a value to set. *)
GetOption ==
  /\ parent = "getopt"
  /\ options' \in
       {[options EXCEPT !.force = TRUE], [options EXCEPT !.force_reload = TRUE],
        [options EXCEPT !.proxyhost = TRUE]}
       \union {[options EXCEPT !.http10 = v] : v \in 0..2}
       \union {[options EXCEPT !.method = m] : m \in {"GET", "HEAD", "OPTIONS", "TRACE"}}
       \union {[options EXCEPT !.clients = n] : n \in 0..Cardinality(Client)}
  /\ UNCHANGED <<keep_alive, request, parent, status, forked, clients, total, pipe, client>>

(* -V, -h, a --proxy without its host or port, and URLs that are none. *)
UsageError ==
  /\ parent = "getopt"
  /\ ParentEnds("bad param")
  /\ UNCHANGED <<keep_alive, options, request, forked, clients, total, pipe, client>>

(* Mutant: a proxy to reload from does not raise the version. *)
VersionWithoutReload(o) ==
  LET raised == IF o.method = "HEAD" /\ o.http10 < 1 THEN 1 ELSE o.http10
  IN  IF o.method \in {"OPTIONS", "TRACE"} /\ raised < 2 THEN 2 ELSE raised

(* The version that the other options need. *)
Version(o) ==
  LET fields == (o.force_reload /\ o.proxyhost) \/ o.method = "HEAD"
      raised == IF fields /\ o.http10 < 1 THEN 1 ELSE o.http10
  IN  IF o.method \in {"OPTIONS", "TRACE"} /\ raised < 2 THEN 2 ELSE raised

(* build_request(): the request line and the header fields, in order. *)
RequestLines(o) ==
  LET v == Version(o)
      If(b, line) == IF b THEN <<line>> ELSE <<>>
  IN  <<<<o.method, IF o.proxyhost THEN "url" ELSE "path",
         CASE v = 0 -> "" [] v = 1 -> "HTTP/1.0" [] v = 2 -> "HTTP/1.1">>>>
        \o If(v > 0, <<"User-Agent">>)
        \o If(~o.proxyhost /\ v > 0, <<"Host">>)
        \o If(o.force_reload /\ o.proxyhost, <<"Pragma">>)
        \o If(v > 1, <<"Connection", keep_alive>>)
        \o If(v > 0, <<>>)

BuildRequest ==
  /\ parent = "getopt" /\ request = <<>>
  /\ options' = [options EXCEPT !.clients = IF @ = 0 THEN 1 ELSE @, !.http10 = Version(options)]
  /\ request' = RequestLines(options)
  /\ parent' = "checking"
  /\ UNCHANGED <<keep_alive, status, forked, clients, total, pipe, client>>

----------------------------------------------------------------------------
(* bench(), the parent. *)

(* The first connection to the server, and pipe(); which request it is makes *)
(* no difference from here on, but for options.force.                        *)
ServerIsThere ==
  /\ parent = "checking"
  /\ parent' = "forking" /\ clients' = options.clients
  /\ options' = [Defaults EXCEPT !.force = options.force, !.clients = options.clients]
  /\ request' = <<>>
  /\ UNCHANGED <<keep_alive, status, forked, total, pipe, client>>

BenchCannotStart ==
  /\ parent = "checking"
  /\ \E s \in {"server is not on-line", "pipe failed"} : ParentEnds(s)
  /\ options' = Defaults /\ request' = <<>>
  /\ UNCHANGED <<keep_alive, forked, clients, total, pipe, client>>

Fork(c) ==
  /\ parent = "forking"
  /\ c \notin forked /\ Cardinality(forked) < options.clients
  /\ forked' = forked \union {c}
  /\ client' = [client EXCEPT ![c].at = IF keep_alive THEN "connect" ELSE "top"]
  /\ UNCHANGED <<keep_alive, options, request, parent, status, clients, total, pipe>>

(* Mutant: the parent goes on with the clients it has, but waits for all. *)
ForkFailsGoesOn ==
  /\ parent = "forking"
  /\ Cardinality(forked) < options.clients
  /\ parent' = "reading"
  /\ UNCHANGED <<keep_alive, options, request, status, forked, clients, total, pipe, client>>

(* The clients there are by then are left to themselves. *)
ForkFails ==
  /\ parent = "forking"
  /\ Cardinality(forked) < options.clients
  /\ ParentEnds("fork failed")
  /\ UNCHANGED <<keep_alive, options, request, forked, clients, total, pipe, client>>

AllForked ==
  /\ parent = "forking"
  /\ Cardinality(forked) = options.clients
  /\ parent' = "reading"
  /\ UNCHANGED <<keep_alive, options, request, status, forked, clients, total, pipe, client>>

(* Mutant: the last report only ends the loop. *)
ReadReportButLast ==
  /\ parent = "reading" /\ pipe # <<>>
  /\ pipe' = Tail(pipe)
  /\ clients' = clients - 1
  /\ IF clients' = 0 THEN ParentEnds("printed") /\ UNCHANGED total
     ELSE /\ total' = [n \in DOMAIN total |-> total[n] + Head(pipe)[n]]
          /\ UNCHANGED <<parent, status>>
  /\ UNCHANGED <<keep_alive, options, request, forked, client>>

(* fscanf() of one report.  The parent has the pipe's other end itself, so   *)
(* that it finds no end of file, but waits, when a client has died.          *)
ReadReport ==
  /\ parent = "reading" /\ pipe # <<>>
  /\ pipe' = Tail(pipe)
  /\ total' = [n \in DOMAIN total |-> total[n] + Head(pipe)[n]]
  /\ clients' = clients - 1
  /\ IF clients' = 0 THEN ParentEnds("printed") ELSE UNCHANGED <<parent, status>>
  /\ UNCHANGED <<keep_alive, options, request, forked, client>>

----------------------------------------------------------------------------
(* benchcore(), a client. *)

(* The client goes to `at' with its socket, and counts what happened on its way. *)
Goes(c, at, s, counted) ==
  /\ client' = [client EXCEPT ![c].at = at, ![c].s = s,
                  ![c].rounds = @ + (IF "round" \in counted THEN 1 ELSE 0),
                  ![c].speed  = @ + (IF "speed" \in counted THEN 1 ELSE 0),
                  ![c].failed = @ + (IF "failed" \in counted THEN 1 ELSE 0),
                  ![c].bytes  = @ + (IF "bytes" \in counted THEN 1 ELSE 0)]
  /\ UNCHANGED <<parentVars, pipe>>

Running(c) == client[c].at \notin {"none", "report", "done", "killed"}

(* alarm_handler() of a client that is not inside read(2), though it may be *)
(* about to be: then nothing but the server's answer gets it out again.      *)
Alarm(c) ==
  /\ Running(c) /\ ~client[c].timerexpired
  /\ client' = [client EXCEPT ![c].timerexpired = TRUE]
  /\ UNCHANGED <<parentVars, pipe>>

(* Without SA_RESTART it interrupts one that is: read(2) fails. *)
AlarmInterrupts(c) ==
  /\ client[c].at = "in read" /\ ~client[c].timerexpired
  /\ client' = [client EXCEPT ![c].timerexpired = TRUE, ![c].failed = @ + 1,
                              ![c].at = "top", ![c].s = FALSE]
  /\ UNCHANGED <<parentVars, pipe>>

(* while ((s = Socket(host,port)) == -1), which does not look at the alarm. *)
Connects(c) ==
  /\ client[c].at = "connect"
  /\ Goes(c, "top", TRUE, {})

(* Mutant: "Correcting failed by signal" whether or not there was one. *)
TimeIsUpCorrects(c) ==
  /\ client[c].at = "top" /\ client[c].timerexpired
  /\ client' = [client EXCEPT ![c].at = "report", ![c].failed = @ - 1]
  /\ UNCHANGED <<parentVars, pipe>>

(* "Correcting failed by signal" *)
TimeIsUp(c) ==
  /\ client[c].at = "top" /\ client[c].timerexpired
  /\ client' = [client EXCEPT ![c].at = "report", ![c].failed = IF @ > 0 THEN @ - 1 ELSE @]
  /\ UNCHANGED <<parentVars, pipe>>

StartsRound(c) ==
  /\ client[c].at = "top" /\ ~client[c].timerexpired
  /\ client[c].rounds < MaxRounds
  /\ Goes(c, "send", client[c].s, {"round"})

(* write(2) of the request on the connection that is kept, or on a new one. *)
SendsRequest(c) ==
  /\ client[c].at = "send" /\ (keep_alive => client[c].s)
  /\ IF options.force THEN Goes(c, "top", client[c].s, {"speed"})
     ELSE Goes(c, "read", client[c].s, {})

(* After a failed read(2) s is closed and write(2) fails for that reason:    *)
(* one lost connection counts as two failures.                               *)
KeptConnectionFails(c) ==
  /\ keep_alive
  /\ client[c].at = "send"
  /\ Goes(c, "connect", FALSE, {"failed"})

(* The server closed the connection that is kept and refused what came after: *)
(* write(2) raises SIGPIPE, which the program leaves to its default.          *)
SigPipe(c) ==
  /\ keep_alive
  /\ client[c].at = "send" /\ client[c].s /\ client[c].rounds > 1
  /\ Goes(c, "killed", FALSE, {})

(* Socket(), write(2) or shutdown(2) of a new connection fails. *)
NewConnectionFails(c) ==
  /\ ~keep_alive
  /\ client[c].at = "send"
  /\ Goes(c, "top", FALSE, {"failed"})

(* if(timerexpired) break; the request counts, answered or not. *)
LooksAtTimer(c) ==
  /\ client[c].at = "read"
  /\ IF client[c].timerexpired THEN Goes(c, "top", client[c].s, {"speed"})
     ELSE Goes(c, "in read", client[c].s, {})

(* The first bytes are all of the answer to a client that keeps the          *)
(* connection, the other one reads to the end.                               *)
ReadsBytes(c) ==
  /\ client[c].at = "in read"
  /\ client[c].bytes < MaxReads
  /\ IF keep_alive THEN Goes(c, "top", TRUE, {"bytes", "speed"})
     ELSE Goes(c, "read", FALSE, {"bytes"})

ReadsEnd(c) ==
  /\ client[c].at = "in read"
  /\ Goes(c, "top", client[c].s, {"speed"})

(* Mutant: without the goto. *)
ReadFailsAndGoesOn(c) ==
  /\ client[c].at = "in read"
  /\ Goes(c, "top", FALSE, {"failed", "speed"})

ReadFails(c) ==
  /\ client[c].at = "in read"
  /\ Goes(c, "top", FALSE, {"failed"})

(* "write results to pipe" *)
Report(c) ==
  /\ client[c].at = "report"
  /\ pipe' = Append(pipe, [n \in DOMAIN total |-> client[c][n]])
  /\ client' = [client EXCEPT ![c].at = "done"]
  /\ UNCHANGED parentVars

----------------------------------------------------------------------------
ParentStep ==
  \/ UsageError \/ BuildRequest \/ ServerIsThere \/ BenchCannotStart
  \/ (\E c \in Client : Fork(c)) \/ ForkFails \/ AllForked \/ ReadReport

BenchClientStep(c) ==
  \/ TimeIsUp(c) \/ StartsRound(c) \/ SendsRequest(c)
  \/ KeptConnectionFails(c) \/ SigPipe(c) \/ NewConnectionFails(c)
  \/ LooksAtTimer(c) \/ ReadsBytes(c) \/ ReadsEnd(c) \/ ReadFails(c)
  \/ Report(c)

BenchNext ==
  \/ GetOption \/ ParentStep
  \/ \E c \in Client : Connects(c) \/ BenchClientStep(c) \/ Alarm(c) \/ AlarmInterrupts(c)

(* The processes run, the server answers or closes, so that read(2) returns, *)
(* it takes connections again, and the alarm comes.                          *)
BenchFairness ==
  /\ WF_benchVars(ParentStep)
  /\ \A c \in Client :
       WF_benchVars(BenchClientStep(c)) /\ WF_benchVars(Connects(c)) /\ WF_benchVars(Alarm(c))

BenchSpec == BenchInit /\ [][BenchNext]_benchVars /\ BenchFairness

----------------------------------------------------------------------------
(* build_request(): whatever the options are and in whatever order they came,*)
(* a header field is only sent under a version that has them, and with the   *)
(* empty line that ends them (webbench.c:234-237, 300-331).                  *)
RequestSuitsItsVersion ==
  request # <<>> =>
    /\ Len(request) > 1 <=> request[1][3] # ""
    /\ Len(request) > 1 => Last(request) = <<>>
    /\ request[1][3] = "" => request[1][1] = "GET"
    /\ request[1][1] \in {"OPTIONS", "TRACE"} => request[1][3] = "HTTP/1.1"
    /\ options.force_reload /\ options.proxyhost => <<"Pragma">> \in ToSet(request)

(* benchcore() and bench(): a request a client has made is counted once, as  *)
(* a success or as a failure, wherever the alarm comes ("Correcting failed   *)
(* by signal" takes one failure from the count and never one that is not     *)
(* there); and what is printed is the sum of what every client counted,      *)
(* however their reports come: nothing is printed for fewer                  *)
(* (webbench.c:427-442, 481-489).                                            *)
ResultIsTheRequests ==
  /\ \A c \in Client :
       LET counted == client[c].speed + client[c].failed
           asking  == IF client[c].at \in {"send", "read", "in read", "killed"} THEN 1 ELSE 0
           taken   == IF client[c].at \in {"report", "done"} THEN 1 ELSE 0
       IN  /\ client[c].failed >= 0
           /\ counted + asking <= client[c].rounds
           /\ client[c].rounds <= counted + asking + taken
  /\ status = "printed" =>
       /\ Cardinality(forked) = options.clients
       /\ \A c \in forked : client[c].at = "done"
       /\ \A n \in DOMAIN total :
            total[n] = FoldFunctionOnSet(LAMBDA r, sum : r[n] + sum, 0, client, forked)

(* A benchmark that began to fork ends, when the server goes on taking       *)
(* connections and no client was killed: then the parent waits for ever, and *)
(* "Some of our childrens died" (webbench.c:429-433) is never said.          *)
BenchEnds ==
  parent = "forking" ~> parent = "ended" \/ \E c \in Client : client[c].at = "killed"
=============================================================================
