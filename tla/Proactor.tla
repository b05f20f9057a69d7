------------------------------ MODULE Proactor ------------------------------
(***************************************************************************)
(* web-5.11-pressure: the first server of the repository, a main thread    *)
(* that does all input and output and a pool of workers that parse and     *)
(* answer (main.cpp, http_conn.cpp, threadpool.h, lst_timer.cpp).          *)
(*                                                                         *)
(* users[fd] is one http_conn per file descriptor, used again by the next  *)
(* connection that gets the number, and shared without a lock by the main  *)
(* thread and whichever worker has it.  EPOLLONESHOT is to keep them apart.*)
(* Time is counted in alarms: tick() runs once per SIGALRM.                *)
(***************************************************************************)
EXTENDS TimerList

(* Fd: the file descriptors accept() can return. *)
CONSTANTS
  Worker,       (* m_threads                                               *)
  MaxWaiting,   (* m_max_requests                                          *)
  Lifetime,     (* alarms until a connection's timer expires               *)
  MaxConns      (* bound: connections accepted                             *)

ASSUME ProactorAssumption ==
  /\ MaxWaiting \in Nat /\ MaxConns \in Nat
  /\ Lifetime \in Nat \ {0}
  /\ IsFiniteSet(Worker)

VARIABLES
  conn,         (* per fd: number of its latest connection; 0 before any   *)
  open,         (* m_sockfd # -1                                           *)
  interest,     (* what epoll reports for fd next; "off" between a one-shot*)
                (* event and modfd()                                       *)
  peer,         (* quiet, sent (something to be read) or closed            *)
  unparsed,     (* m_read_buf holds input                                  *)
  output,       (* m_write_buf: the connections the responses in it are to *)
  linger,       (* m_linger                                                *)
  timer_lst,    (* module TimerList; expire counts the alarms left         *)
  m_workqueue,
  m_queuestat,  (* the semaphore's value                                   *)
  worker,       (* per worker: where it is, and the connection it has      *)
  m_user_count,
  answers,      (* history: <<connection, to>> for each response written   *)
  overtaken,    (* history: fds that tick() closed while a worker had them *)
  turnedAway    (* history: connections whose request append() refused     *)

socketVars == <<conn, open, interest, peer>>
bufferVars == <<unparsed, output, linger>>
queueVars == <<m_workqueue, m_queuestat>>
historyVars == <<answers, overtaken, turnedAway>>
vars == <<socketVars, bufferVars, timer_lst, queueVars, worker, m_user_count, historyVars>>

(* A thread as threadpool's constructor makes it, gone on to run(): in       *)
(* m_queuestat.wait(); woken: past it, before the queue's lock.              *)
Idle == [at |-> "wait", fd |-> 0, to |-> 0]
Woken == [Idle EXCEPT !.at = "woken"]
Steps == {"process_read", "process_write", "modfd IN", "modfd OUT"}
ModfdFor(ev) == IF ev = "IN" THEN "modfd IN" ELSE "modfd OUT"

Init ==
  /\ conn = [f \in Fd |-> 0] /\ open = [f \in Fd |-> FALSE]
  /\ interest = [f \in Fd |-> "off"] /\ peer = [f \in Fd |-> "quiet"]
  /\ unparsed = [f \in Fd |-> FALSE] /\ output = [f \in Fd |-> <<>>]
  /\ linger = [f \in Fd |-> FALSE]
  /\ timer_lst = NewTimerList
  /\ m_workqueue = <<>> /\ m_queuestat = 0
  /\ worker = [w \in Worker |-> Idle]
  /\ m_user_count = 0 /\ answers = {} /\ overtaken = {} /\ turnedAway = {}

Processing(f) == {w \in Worker : worker[w].at \in Steps /\ worker[w].fd = f}

(* How often fd is waiting in the queue or being processed. *)
Handlers(f) ==
  Cardinality({i \in DOMAIN m_workqueue : m_workqueue[i] = f}) + Cardinality(Processing(f))

(* Connections accepted so far: the number of the latest. *)
Accepted == Max({conn[f] : f \in Fd})

----------------------------------------------------------------------------
(* http_conn::init() *)
InitConn(f) ==
  /\ unparsed' = [unparsed EXCEPT ![f] = FALSE]
  /\ output' = [output EXCEPT ![f] = <<>>]
  /\ linger' = [linger EXCEPT ![f] = FALSE]

(* modfd(); of a connection closed meanwhile it fails, on descriptor -1. *)
Modfd(f, ev) ==
  interest' = [interest EXCEPT ![f] = IF open[f] THEN ev ELSE "off"]

(* Mutant: the users are not counted down. *)
CloseConnsUncounted(S) ==
  /\ open' = [f \in Fd |-> open[f] /\ f \notin S]
  /\ interest' = [f \in Fd |-> IF f \in S THEN "off" ELSE interest[f]]
  /\ peer' = [f \in Fd |-> IF f \in S THEN "quiet" ELSE peer[f]]
  /\ UNCHANGED m_user_count

(* close_conn() of every fd in S: the kernel forgets them, epoll with it. *)
CloseConns(S) ==
  /\ open' = [f \in Fd |-> open[f] /\ f \notin S]
  /\ interest' = [f \in Fd |-> IF f \in S THEN "off" ELSE interest[f]]
  /\ peer' = [f \in Fd |-> IF f \in S THEN "quiet" ELSE peer[f]]
  /\ m_user_count' = m_user_count - Cardinality(S)

(* The end of a connection in the main loop. *)
EndConn(f) ==
  /\ timer_lst' = DelTimer(timer_lst, f)
  /\ CloseConns({f})
  /\ UNCHANGED conn

----------------------------------------------------------------------------
(* The main thread: one event of main()'s loop is one step. *)

(* accept() and http_conn::init(sockfd, addr), with a timer for it. *)
Accept(f) ==
  /\ ~open[f] /\ Accepted < MaxConns
  /\ conn' = [conn EXCEPT ![f] = Accepted + 1]
  /\ open' = [open EXCEPT ![f] = TRUE]
  /\ interest' = [interest EXCEPT ![f] = "IN"]
  /\ m_user_count' = m_user_count + 1
  /\ InitConn(f)
  /\ timer_lst' = AddTimer(timer_lst, f, Lifetime)
  /\ UNCHANGED <<peer, queueVars, worker, historyVars>>

(* EPOLLRDHUP comes before EPOLLIN and EPOLLOUT. *)
EventHup(f) ==
  /\ open[f] /\ interest[f] # "off" /\ peer[f] = "closed"
  /\ EndConn(f)
  /\ UNCHANGED <<bufferVars, queueVars, worker, historyVars>>

(* threadpool::append(); its answer is ignored in main().                    *)
AppendRequest(f) ==
  IF Len(m_workqueue) > MaxWaiting
  THEN turnedAway' = turnedAway \union {conn[f]} /\ UNCHANGED queueVars
  ELSE /\ m_workqueue' = Append(m_workqueue, f)
       /\ m_queuestat' = m_queuestat + 1
       /\ UNCHANGED turnedAway

(* Mutant: EPOLLIN stays on, as without EPOLLONESHOT. *)
ReadRequestAgain(f) ==
  /\ peer' = [peer EXCEPT ![f] = "quiet"]
  /\ unparsed' = [unparsed EXCEPT ![f] = TRUE]
  /\ AppendRequest(f)
  /\ UNCHANGED <<conn, open, interest, timer_lst, m_user_count>>

(* read() has got all there is, and the connection goes to the workers. *)
ReadRequest(f) ==
  /\ peer' = [peer EXCEPT ![f] = "quiet"]
  /\ unparsed' = [unparsed EXCEPT ![f] = TRUE]
  /\ interest' = [interest EXCEPT ![f] = "off"]
  /\ AppendRequest(f)
  /\ UNCHANGED <<conn, open, timer_lst, m_user_count>>

(* EPOLLIN: read() fails when m_read_buf is full. *)
EventIn(f) ==
  /\ open[f] /\ interest[f] = "IN" /\ peer[f] = "sent"
  /\ \/ ReadRequest(f)
     \/ unparsed[f] /\ EndConn(f) /\ UNCHANGED <<unparsed, queueVars, turnedAway>>
  /\ UNCHANGED <<output, linger, worker, answers, overtaken>>

(* Mutant: init() is forgotten. *)
WriteDoneNoInit(f) ==
  /\ answers' = answers \union {<<conn[f], output[f][i]>> : i \in DOMAIN output[f]}
  /\ IF linger[f]
     THEN /\ Modfd(f, "IN")
          /\ UNCHANGED <<conn, open, peer, timer_lst, m_user_count, bufferVars>>
     ELSE EndConn(f) /\ UNCHANGED bufferVars

(* write() with all of m_write_buf written: init() for a next request, or    *)
(* the end of the connection.                                                *)
WriteDone(f) ==
  /\ answers' = answers \union {<<conn[f], output[f][i]>> : i \in DOMAIN output[f]}
  /\ IF linger[f]
     THEN /\ InitConn(f)
          /\ Modfd(f, "IN")
          /\ UNCHANGED <<conn, open, peer, timer_lst, m_user_count>>
     ELSE EndConn(f) /\ UNCHANGED bufferVars

(* EPOLLOUT: write() with nothing to write, with an error, or to the end; if *)
(* there is no room, modfd() leaves all as it was.                           *)
EventOut(f) ==
  /\ open[f] /\ interest[f] = "OUT" /\ peer[f] # "closed"
  /\ \/ /\ output[f] = <<>>
        /\ InitConn(f)
        /\ Modfd(f, "IN")
        /\ UNCHANGED <<conn, open, peer, timer_lst, m_user_count, answers>>
     \/ /\ output[f] # <<>>
        /\ EndConn(f)
        /\ UNCHANGED <<bufferVars, answers>>
     \/ output[f] # <<>> /\ WriteDone(f)
  /\ UNCHANGED <<queueVars, worker, overtaken, turnedAway>>

(* SIGALRM, through sig_handler_pipe() and the pipe, and timer_handler():    *)
(* tick() closes what has expired.  Nothing ever moves a timer back.         *)
TimerHandler ==
  /\ timer_lst.head # NULL
  /\ \E aged \in {Aged(timer_lst)} : \E expired \in {Due(aged, 0)} :
       /\ timer_lst' = UnlinkDue(aged, expired)
       /\ CloseConns(expired)
       /\ overtaken' = overtaken \union {f \in expired : Handlers(f) > 0}
  /\ UNCHANGED <<conn, bufferVars, queueVars, worker, answers, turnedAway>>

----------------------------------------------------------------------------
(* A worker: threadpool::run() and http_conn::process(). *)

Goto(w, at) == worker' = [worker EXCEPT ![w].at = at]

(* m_queuestat.wait() *)
Wait(w) ==
  /\ worker[w] = Idle
  /\ m_queuestat > 0
  /\ m_queuestat' = m_queuestat - 1
  /\ worker' = [worker EXCEPT ![w] = Woken]
  /\ UNCHANGED <<socketVars, bufferVars, timer_lst, m_workqueue, m_user_count,
                 historyVars>>

(* run() with the queue locked; another worker may have been faster. *)
Take(w) ==
  /\ worker[w] = Woken
  /\ worker' = [worker EXCEPT ![w] =
                  IF m_workqueue = <<>> THEN Idle
                  ELSE [at |-> "process_read", fd |-> Head(m_workqueue), to |-> 0]]
  /\ m_workqueue' = IF m_workqueue = <<>> THEN <<>> ELSE Tail(m_workqueue)
  /\ UNCHANGED <<socketVars, bufferVars, timer_lst, m_queuestat, m_user_count,
                 historyVars>>

(* Mutant: an incomplete request is left, and the connection with it. *)
ProcessReadForgets(w, whole) ==
  LET f == worker[w].fd
  IN  IF whole
      THEN worker' = [worker EXCEPT ![w].at = "process_write", ![w].to = conn[f]]
      ELSE worker' = [worker EXCEPT ![w] = Idle]

(* process_read(): the request in m_read_buf is whole, or not yet. *)
ProcessRead(w, whole) ==
  LET f == worker[w].fd
  IN  IF whole
      THEN worker' = [worker EXCEPT ![w].at = "process_write", ![w].to = conn[f]]
      ELSE Goto(w, "modfd IN")

RunProcessRead(w) ==
  /\ worker[w].at = "process_read"
  /\ \E whole \in {FALSE, unparsed[worker[w].fd]} : ProcessRead(w, whole)
  /\ \E keepAlive \in {FALSE, unparsed[worker[w].fd]} :
       linger' = [linger EXCEPT ![worker[w].fd] = @ \/ keepAlive]
  /\ UNCHANGED <<socketVars, unparsed, output, timer_lst, queueVars, m_user_count,
                 historyVars>>

(* process_write(): the response is added to m_write_buf. *)
ProcessWrite(w) ==
  /\ worker[w].at = "process_write"
  /\ output' = [output EXCEPT ![worker[w].fd] = Append(@, worker[w].to)]
  /\ Goto(w, "modfd OUT")
  /\ UNCHANGED <<socketVars, unparsed, linger, timer_lst, queueVars, m_user_count,
                 historyVars>>

EndProcess(w, ev) ==
  /\ worker[w].at = ModfdFor(ev)
  /\ Modfd(worker[w].fd, ev)
  /\ worker' = [worker EXCEPT ![w] = Idle]
  /\ UNCHANGED <<conn, open, peer, bufferVars, timer_lst, queueVars, m_user_count,
                 historyVars>>

----------------------------------------------------------------------------
(* The peer of the connection on f. *)

PeerSends(f) ==
  /\ open[f] /\ peer[f] = "quiet"
  /\ peer' = [peer EXCEPT ![f] = "sent"]
  /\ UNCHANGED <<conn, open, interest, bufferVars, timer_lst, queueVars, worker,
                 m_user_count, historyVars>>

PeerCloses(f) ==
  /\ open[f] /\ peer[f] # "closed"
  /\ peer' = [peer EXCEPT ![f] = "closed"]
  /\ UNCHANGED <<conn, open, interest, bufferVars, timer_lst, queueVars, worker,
                 m_user_count, historyVars>>

----------------------------------------------------------------------------
MainStep ==
  \/ \E f \in Fd : Accept(f) \/ EventHup(f) \/ EventIn(f) \/ EventOut(f)
  \/ TimerHandler

WorkerStep(w) ==
  \/ Wait(w)
  \/ Take(w)
  \/ RunProcessRead(w)
  \/ ProcessWrite(w)
  \/ \E ev \in {"IN", "OUT"} : EndProcess(w, ev)

Next ==
  \/ MainStep
  \/ \E w \in Worker : WorkerStep(w)
  \/ \E f \in Fd : PeerSends(f) \/ PeerCloses(f)

(* Alarms keep coming, and every worker runs. *)
Fairness ==
  /\ WF_vars(TimerHandler)
  /\ \A w \in Worker : WF_vars(WorkerStep(w))

Spec == Init /\ [][Next]_vars /\ Fairness

----------------------------------------------------------------------------
(* main.cpp:145-151, 158, 188, 195 and tick(): whatever is linked in and     *)
(* unlinked at either end or between, the list holds the timers of the open  *)
(* connections and no freed one, and is in order, on which tick() relies;    *)
(* m_user_count counts the same connections.                                 *)
TimersAreOfOpenConnections ==
  /\ WellLinked(timer_lst)
  /\ ToSet(Nodes(timer_lst)) = {f \in Fd : open[f]}
  /\ m_user_count = Cardinality({f \in Fd : open[f]})

(* EPOLLONESHOT: while a connection is queued or being processed it is so    *)
(* once only, and epoll reports nothing of it to the main thread, unless     *)
(* tick() closed it under a worker.                                          *)
HandledConnectionIsQuiet ==
  \A f \in Fd \ overtaken :
    Handlers(f) > 0 => Handlers(f) = 1 /\ interest[f] = "off"

(* A response is written to the connection whose request it answers, unless  *)
(* tick() closed that one under a worker, and each response once.            *)
AnswersGoHome ==
  overtaken = {} =>
    /\ \A a \in answers : a[1] = a[2]
    /\ \A f \in Fd : Len(output[f]) <= 1

(* process(), write(): an open connection that no worker has is watched by   *)
(* epoll; but one whose request append() refused is not, until tick() ends it*)
LeftConnectionIsWatched ==
  \A f \in Fd :
    open[f] /\ interest[f] = "off" => Handlers(f) > 0 \/ conn[f] \in turnedAway

(* tick(): every connection ends, those whose request append() turned away   *)
(* and that epoll does not watch any more among them.                        *)
EveryConnectionEnds ==
  \A f \in Fd, n \in 1..MaxConns : open[f] /\ conn[f] = n ~> ~(open[f] /\ conn[f] = n)

(* http_conn.cpp:37 "keep the same communication from being handled by       *)
(* different threads".                                                       *)
OneThreadPerConnection == \A f \in Fd : Cardinality(Processing(f)) <= 1
=============================================================================
