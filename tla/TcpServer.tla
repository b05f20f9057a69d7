----------------------------- MODULE TcpServer -----------------------------
(***************************************************************************)
(* A whole server: net/TcpServer.cpp with its Acceptor, the loops of its   *)
(* EventLoopThreadPool, the descriptor map and event array of each loop's  *)
(* Epoll, and several connections that come, end and give their descriptor *)
(* back to the next one.  What one connection reads and writes meanwhile is *)
(* module TcpConnection; how a loop is woken is module EventLoop: here     *)
(* epoll_wait() returns when a functor is queued.                          *)
(*                                                                         *)
(* Loop 0 is TcpServer's loop_, loops 1..numThreads those of the pool.  A  *)
(* callback or functor is one step of its loop's thread, and so is each    *)
(* turn of the Acceptor's loop.                                            *)
(*                                                                         *)
(* The repository has this server twice: the one of mutlithread-6.27/ does *)
(* not loop in the Acceptor, and its Socket::accept() returns nothing when *)
(* accept(2) fails.                                                        *)
(***************************************************************************)
EXTENDS Integers, Sequences, FiniteSets, SequencesExt, FiniteSetsExt

CONSTANTS
  MaxThreads,        (* bound: setThreadNumber() is given 0..MaxThreads     *)
  MaxConnections,    (* bound: clients that connect                         *)
  MaxFds,            (* descriptors left for connections (RLIMIT_NOFILE)    *)
  InitEventListSize, (* Epoll::kInitEventListSize, 16 in the code           *)
  TeardownPools      (* pool sizes with which ~TcpServer may run            *)

ASSUME TcpServerAssumption ==
  /\ MaxThreads \in Nat
  /\ MaxConnections \in Nat
  /\ MaxFds \in Nat \ {0}
  /\ InitEventListSize \in Nat \ {0}
  /\ TeardownPools \subseteq 0..MaxThreads

VARIABLES
  acceptsOnce,       (* it is the server of mutlithread-6.27                *)
  numThreads,        (* EventLoopThreadPool::numThreads_                    *)
  started_,
  isListening_,
  next_,             (* index of the pool's next loop                       *)
  nextConnectionId_,
  connectionMap_,
  conn,              (* the TcpConnection objects, with Channel and Socket  *)
  phase,             (* where each loop's thread is                         *)
  pendingFunctors_,
  functors,          (* doPendingFunctors()'s local vector, kept whole      *)
  ran,               (* how many of it have run                             *)
  activeChannels_,
  channels_,         (* Epoll's map from descriptors to channels            *)
  events_,           (* size of Epoll's event array                         *)
  backlog,           (* clients the kernel holds for accept()               *)
  arrived,           (* clients so far                                      *)
  ended,             (* connections at whose end the peer has closed        *)
  failed             (* how the process died, or none                       *)

serverVars == <<acceptsOnce, numThreads, started_, isListening_>>
tableVars == <<next_, nextConnectionId_, connectionMap_>>
queueVars == <<phase, pendingFunctors_, functors, ran>>
epollVars == <<activeChannels_, channels_, events_>>
peerVars == <<backlog, arrived, ended>>
vars == <<serverVars, tableVars, conn, queueVars, epollVars, peerVars, failed>>

Loops == 0..MaxThreads
Base == 0
Connections == 1..MaxConnections
Fds == 1..MaxFds
NoConnection == 0
AcceptChannel == 0
WakeupChannel == -1

States == {"none", "kConnecting", "kConnected", "kDisconnected", "freed"}
Statuses == {"kNew", "kAdded", "kDeleted"}
(* setup: before loop(); poll, events, functors: as in loop(); exited. *)
Phases == {"setup", "poll", "events", "accepting", "functors", "exited"}
Functor(name, c) == [run |-> name, conn |-> c]
FunctorNames ==
  {"connectionEstablished", "removeConnectionInLoop", "connectionDestroyed"}
Failures == {"none", "assertion", "use after free", "wrong thread", "undefined"}

NewObject ==
  [state_ |-> "none", loop |-> Base, fd |-> 0, status |-> "kNew", reading |-> FALSE]

Live(c) == conn[c].state_ \in {"kConnecting", "kConnected", "kDisconnected"}
FreeFds == Fds \ {conn[c].fd : c \in {d \in Connections : Live(d)}}

Init ==
  /\ acceptsOnce \in BOOLEAN
  /\ numThreads \in 0..MaxThreads
  /\ started_ = FALSE
  /\ isListening_ = FALSE
  /\ next_ = 0
  /\ nextConnectionId_ = 1
  /\ connectionMap_ = {}
  /\ conn = [c \in Connections |-> NewObject]
  /\ phase = [l \in Loops |-> "setup"]
  /\ pendingFunctors_ = [l \in Loops |-> <<>>]
  /\ functors = [l \in Loops |-> <<>>]
  /\ ran = [l \in Loops |-> 0]
  /\ activeChannels_ = [l \in Loops |-> {}]
  /\ channels_ = [l \in Loops |-> [fd \in Fds |-> NoConnection]]
  /\ events_ = [l \in Loops |-> InitEventListSize]
  /\ backlog = 0
  /\ arrived = 0
  /\ ended = {}
  /\ failed = "none"

Running == failed = "none"

(* A failed assertion ends the process; what the step had done so far does  *)
(* not matter any more.                                                     *)
Asserts(holds) == failed' = IF holds THEN "none" ELSE "assertion"
Dies(how) ==
  /\ failed' = how
  /\ UNCHANGED <<serverVars, tableVars, conn, queueVars, epollVars, peerVars>>

----------------------------------------------------------------------------
(* Owners.  A functor of removeConnectionInLoop() or connectionDestroyed()  *)
(* or connectionEstablished() holds a shared_ptr until the vector it was    *)
(* moved to is destroyed.                                                   *)
HeldBy(fs, c) == \E i \in DOMAIN fs : fs[i].conn = c

HeldElsewhere(l, c) ==
  \/ c \in connectionMap_
  \/ \E k \in Loops : HeldBy(pendingFunctors_[k], c)
  \/ \E k \in Loops \ {l} : HeldBy(functors[k], c)

(* ~TcpConnection() asserts kDisconnected, ~Channel() that it was removed. *)
MayBeDestroyed(c) == conn[c].state_ = "kDisconnected" /\ conn[c].status = "kNew"

(* ~Socket() gives the descriptor back. *)
Freed(cs) ==
  [c \in Connections |->
     IF c \in cs THEN [conn[c] EXCEPT !.state_ = "freed"] ELSE conn[c]]

----------------------------------------------------------------------------
(* Epoll::updateChannel() and removeChannel() for the channel of c. *)

(* What updateChannel() asserts of the map. *)
MapAgrees(c) ==
  channels_[conn[c].loop][conn[c].fd] =
    IF conn[c].status = "kNew" THEN NoConnection ELSE c

Mapped(c, d) == [channels_ EXCEPT ![conn[c].loop][conn[c].fd] = d]

(* enableReading() *)
Reading(k) == [k EXCEPT !.reading = TRUE, !.status = "kAdded"]

(* disableAll(): the entry stays in the map. *)
Silenced(k) ==
  [k EXCEPT !.reading = FALSE,
            !.status = IF k.status = "kAdded" THEN "kDeleted" ELSE "kAdded"]

----------------------------------------------------------------------------
(* Setting up, by the base loop's thread. *)

(* EventLoopThreadPool::start(): its loops poll from then on. *)
StartPool == phase' = [l \in Loops |-> IF l \in 1..numThreads THEN "poll" ELSE phase[l]]

(* Acceptor::listen() *)
Listen == isListening_' = TRUE

(* TcpServer::start(), in the loop's thread: a second call does nothing. *)
Start ==
  /\ Running
  /\ phase[Base] = "setup"
  /\ ~started_
  /\ started_' = TRUE
  /\ StartPool
  /\ Listen
  /\ UNCHANGED <<acceptsOnce, numThreads, tableVars, conn, pendingFunctors_, functors,
                 ran, epollVars, peerVars, failed>>

EnterLoop ==
  /\ Running
  /\ phase[Base] = "setup"
  /\ started_
  /\ phase' = [phase EXCEPT ![Base] = "poll"]
  /\ UNCHANGED <<serverVars, tableVars, conn, pendingFunctors_, functors, ran,
                 epollVars, peerVars, failed>>

----------------------------------------------------------------------------
(* epoll_wait() in loop l. *)

(* The descriptors that are readable, level triggered. *)
Readable(l) ==
  {c \in Connections : /\ Live(c)
                       /\ conn[c].loop = l
                       /\ conn[c].status = "kAdded"
                       /\ c \in ended}
Ready(l) ==
  Readable(l)
    \union (IF l = Base /\ isListening_ /\ backlog > 0 THEN {AcceptChannel} ELSE {})
    \union (IF pendingFunctors_[l] # <<>> THEN {WakeupChannel} ELSE {})

FillActiveChannels(l, active) ==
  activeChannels_' = [activeChannels_ EXCEPT ![l] = active]

(* poll(): as many events as the array has room for, whichever the kernel   *)
(* takes first, and the array is doubled when it was full.                  *)
Poll(l) ==
  /\ Running
  /\ phase[l] = "poll"
  /\ \E active \in kSubset(Min({events_[l], Cardinality(Ready(l))}), Ready(l)) :
       /\ active # {}
       /\ FillActiveChannels(l, active)
       /\ events_' = IF Cardinality(active) = events_[l]
                     THEN [events_ EXCEPT ![l] = 2 * @]
                     ELSE events_
  /\ phase' = [phase EXCEPT ![l] = "events"]
  /\ UNCHANGED <<serverVars, tableVars, conn, pendingFunctors_, functors, ran,
                 channels_, peerVars, failed>>

(* EventLoop::handleRead() *)
HandleWakeup(l) ==
  /\ Running
  /\ phase[l] = "events"
  /\ WakeupChannel \in activeChannels_[l]
  /\ activeChannels_' = [activeChannels_ EXCEPT ![l] = @ \ {WakeupChannel}]
  /\ UNCHANGED <<serverVars, tableVars, conn, queueVars, channels_, events_,
                 peerVars, failed>>

----------------------------------------------------------------------------
(* Accepting, in the base loop. *)

(* Acceptor::hadleRead() begins. *)
HandleAccept ==
  /\ Running
  /\ phase[Base] = "events"
  /\ AcceptChannel \in activeChannels_[Base]
  /\ activeChannels_' = [activeChannels_ EXCEPT ![Base] = @ \ {AcceptChannel}]
  /\ phase' = [phase EXCEPT ![Base] = "accepting"]
  /\ UNCHANGED <<serverVars, tableVars, conn, pendingFunctors_, functors, ran,
                 channels_, events_, peerVars, failed>>

(* getNextLoop(): round robin over the pool, or the base loop. *)
GetNextLoop ==
  IF numThreads = 0 THEN [loop |-> Base, next |-> 0]
  ELSE [loop |-> next_ + 1,
        next |-> IF next_ + 1 >= numThreads THEN 0 ELSE next_ + 1]

(* accept() gives the lowest free descriptor and newConnection() a fresh    *)
(* object; connectionEstablished() runs at once when the base loop is the   *)
(* connection's own, where it asserts what updateChannel() asserts.         *)
NewConnection ==
  LET c == nextConnectionId_
      io == GetNextLoop
      fd == Min(FreeFds)
      object == [NewObject EXCEPT !.state_ = "kConnecting", !.loop = io.loop, !.fd = fd]
  IN  /\ nextConnectionId_' = c + 1
      /\ next_' = io.next
      /\ connectionMap_' = connectionMap_ \union {c}
      /\ IF io.loop = Base
         THEN /\ conn' = [conn EXCEPT ![c] = Reading([object EXCEPT !.state_ = "kConnected"])]
              /\ channels_' = [channels_ EXCEPT ![Base][fd] = c]
              /\ Asserts(channels_[Base][fd] = NoConnection)
              /\ UNCHANGED pendingFunctors_
         ELSE /\ conn' = [conn EXCEPT ![c] = object]
              /\ pendingFunctors_' =
                   [pendingFunctors_ EXCEPT
                      ![io.loop] = Append(@, Functor("connectionEstablished", c))]
              /\ UNCHANGED <<channels_, failed>>

Accept ==
  /\ Running
  /\ phase[Base] = "accepting"
  /\ backlog > 0
  /\ FreeFds # {}
  /\ backlog' = backlog - 1
  /\ NewConnection
  /\ phase' = IF acceptsOnce THEN [phase EXCEPT ![Base] = "events"] ELSE phase
  /\ UNCHANGED <<serverVars, functors, ran, activeChannels_, events_, arrived, ended>>

(* Mutant: without a descriptor it tries again. *)
AcceptRetries ==
  /\ Running
  /\ phase[Base] = "accepting"
  /\ backlog = 0
  /\ ~acceptsOnce
  /\ phase' = [phase EXCEPT ![Base] = "events"]
  /\ UNCHANGED <<serverVars, tableVars, conn, pendingFunctors_, functors, ran,
                 epollVars, peerVars, failed>>

(* Mutant: without a descriptor it stops listening. *)
AcceptStops ==
  /\ Running
  /\ phase[Base] = "accepting"
  /\ backlog = 0 \/ FreeFds = {}
  /\ ~acceptsOnce
  /\ phase' = [phase EXCEPT ![Base] = "events"]
  /\ isListening_' = (FreeFds # {})
  /\ UNCHANGED <<acceptsOnce, numThreads, started_, tableVars, conn, pendingFunctors_,
                 functors, ran, epollVars, peerVars, failed>>

(* accept() fails, with EAGAIN or for want of a descriptor, and returns -1. *)
AcceptFails ==
  /\ Running
  /\ phase[Base] = "accepting"
  /\ backlog = 0 \/ FreeFds = {}
  /\ ~acceptsOnce
  /\ phase' = [phase EXCEPT ![Base] = "events"]
  /\ UNCHANGED <<serverVars, tableVars, conn, pendingFunctors_, functors, ran,
                 epollVars, peerVars, failed>>

(* Without a return statement its caller takes any number for a descriptor, *)
(* that of another connection too.                                          *)
AcceptReturnsAnything ==
  /\ Running
  /\ phase[Base] = "accepting"
  /\ FreeFds = {}
  /\ acceptsOnce
  /\ Dies("undefined")

----------------------------------------------------------------------------
(* Ending a connection. *)

(* removeConnectionInLoop(): out of the map, and connectionDestroyed() is   *)
(* queued even when this is the connection's own loop.                      *)
RemoveConnectionInLoop(c, queues) ==
  /\ connectionMap_' = connectionMap_ \ {c}
  /\ pendingFunctors_' =
       [queues EXCEPT ![conn[c].loop] = Append(@, Functor("connectionDestroyed", c))]

(* Mutant: removeConnection() does not go through the server's loop. *)
RemoveConnectionHere(l, c) ==
  IF l # Base
  THEN failed' = "wrong thread" /\ UNCHANGED <<connectionMap_, pendingFunctors_>>
  ELSE /\ Asserts(c \in connectionMap_)
       /\ RemoveConnectionInLoop(c, pendingFunctors_)

(* removeConnection(), called in loop l by handleClose() *)
RemoveConnection(l, c) ==
  IF l = Base
  THEN /\ Asserts(c \in connectionMap_)
       /\ RemoveConnectionInLoop(c, pendingFunctors_)
  ELSE /\ pendingFunctors_' =
            [pendingFunctors_ EXCEPT
               ![Base] = Append(@, Functor("removeConnectionInLoop", c))]
       /\ UNCHANGED <<connectionMap_, failed>>

(* handleClose(), in loop l *)
HandleClose(l, c) ==
  /\ conn' = [conn EXCEPT ![c] = [Silenced(@) EXCEPT !.state_ = "kDisconnected"]]
  /\ RemoveConnection(l, c)

(* The channel of c is handled: read(2) returns 0, which calls handleClose(). *)
HandleEvent(l, c) ==
  /\ Running
  /\ phase[l] = "events"
  /\ c \in activeChannels_[l] \ {AcceptChannel, WakeupChannel}
  /\ IF conn[c].state_ = "freed"
     THEN Dies("use after free")
     ELSE IF ~(conn[c].state_ = "kConnected" /\ MapAgrees(c))
     THEN Dies("assertion")
     ELSE /\ activeChannels_' = [activeChannels_ EXCEPT ![l] = @ \ {c}]
          /\ HandleClose(l, c)
          /\ UNCHANGED <<serverVars, next_, nextConnectionId_, phase, functors,
                         ran, channels_, events_, peerVars>>

----------------------------------------------------------------------------
(* doPendingFunctors() of loop l. *)

SwapFunctors(l) ==
  /\ Running
  /\ phase[l] = "events"
  /\ activeChannels_[l] = {}
  /\ functors' = [functors EXCEPT ![l] = pendingFunctors_[l]]
  /\ pendingFunctors_' = [pendingFunctors_ EXCEPT ![l] = <<>>]
  /\ ran' = [ran EXCEPT ![l] = 0]
  /\ phase' = [phase EXCEPT ![l] = "functors"]
  /\ UNCHANGED <<serverVars, tableVars, conn, epollVars, peerVars, failed>>

NextFunctor(l, name, c) ==
  /\ Running
  /\ phase[l] = "functors"
  /\ ran[l] < Len(functors[l])
  /\ functors[l][ran[l] + 1] = Functor(name, c)
  /\ ran' = [ran EXCEPT ![l] = @ + 1]
  /\ UNCHANGED <<serverVars, next_, nextConnectionId_, phase, functors,
                 activeChannels_, events_, peerVars>>

ConnectionEstablished(l, c) ==
  /\ NextFunctor(l, "connectionEstablished", c)
  /\ conn' = [conn EXCEPT ![c] = Reading([@ EXCEPT !.state_ = "kConnected"])]
  /\ channels_' = Mapped(c, c)
  /\ failed' = IF conn[c].loop # l THEN "wrong thread"
               ELSE IF conn[c].state_ = "kConnecting" /\ MapAgrees(c) THEN "none"
               ELSE "assertion"
  /\ UNCHANGED <<connectionMap_, pendingFunctors_>>

RemoveInLoop(l, c) ==
  /\ NextFunctor(l, "removeConnectionInLoop", c)
  /\ RemoveConnectionInLoop(c, pendingFunctors_)
  /\ failed' = IF l # Base THEN "wrong thread"
               ELSE IF c \in connectionMap_ THEN "none" ELSE "assertion"
  /\ UNCHANGED <<conn, channels_>>

(* Mutant: the channel stays in Epoll's map. *)
ConnectionDestroyedInMap(l, c) ==
  /\ NextFunctor(l, "connectionDestroyed", c)
  /\ conn' = [conn EXCEPT ![c].status = "kNew"]
  /\ failed' = IF conn[c].loop # l THEN "wrong thread"
               ELSE IF conn[c].reading THEN "assertion" ELSE "none"
  /\ UNCHANGED <<connectionMap_, pendingFunctors_, channels_>>

(* Of a connection that handleClose() has ended there is only the channel   *)
(* left to remove, which asserts that it asks for nothing.                  *)
ConnectionDestroyed(l, c) ==
  /\ NextFunctor(l, "connectionDestroyed", c)
  /\ conn' = [conn EXCEPT ![c].status = "kNew"]
  /\ channels_' = Mapped(c, NoConnection)
  /\ failed' = IF conn[c].loop # l THEN "wrong thread"
               ELSE IF conn[c].reading THEN "assertion" ELSE "none"
  /\ UNCHANGED <<connectionMap_, pendingFunctors_>>

(* The vector is destroyed, and with it what nobody else holds. *)
EndFunctors(l) ==
  /\ Running
  /\ phase[l] = "functors"
  /\ ran[l] = Len(functors[l])
  /\ LET gone == {c \in Connections : Live(c) /\ ~HeldElsewhere(l, c)}
     IN  /\ conn' = Freed(gone)
         /\ Asserts(\A c \in gone : MayBeDestroyed(c))
  /\ functors' = [functors EXCEPT ![l] = <<>>]
  /\ phase' = [phase EXCEPT ![l] = "poll"]
  /\ UNCHANGED <<serverVars, tableVars, pendingFunctors_, ran, epollVars, peerVars>>

----------------------------------------------------------------------------
(* The end of the server. *)

(* quit() by a functor or callback of the base loop: loop() returns at its  *)
(* next test, and the server is destroyed by the same thread.               *)
LeaveLoop ==
  /\ Running
  /\ numThreads \in TeardownPools
  /\ phase[Base] = "poll"
  /\ phase' = [phase EXCEPT ![Base] = "exited"]
  /\ UNCHANGED <<serverVars, tableVars, conn, pendingFunctors_, functors, ran,
                 epollVars, peerVars, failed>>

(* ~TcpServer(): connectionDestroyed() of each connection, at once in this  *)
(* loop and bound to a raw pointer in another, and then the map dies.       *)
DestroyServer ==
  LET mine == {c \in connectionMap_ : conn[c].loop = Base}
      gone == {c \in connectionMap_ : \A l \in Loops : ~HeldBy(pendingFunctors_[l], c)
                                                    /\ ~HeldBy(functors[l], c)}
  IN  /\ Running
      /\ phase[Base] = "exited"
      /\ connectionMap_ # {}
      /\ conn' = [c \in Connections |->
                    IF c \in gone THEN [conn[c] EXCEPT !.state_ = "freed"] ELSE conn[c]]
      /\ channels_' = [channels_ EXCEPT
                         ![Base] = [fd \in Fds |-> IF @[fd] \in mine THEN NoConnection
                                                   ELSE @[fd]]]
      /\ connectionMap_' = {}
      /\ Asserts(gone \subseteq mine)
      /\ UNCHANGED <<serverVars, next_, nextConnectionId_, queueVars,
                     activeChannels_, events_, peerVars>>

----------------------------------------------------------------------------
(* Clients. *)

Connect ==
  /\ Running
  /\ isListening_
  /\ arrived < MaxConnections
  /\ arrived' = arrived + 1
  /\ backlog' = backlog + 1
  /\ UNCHANGED <<serverVars, tableVars, conn, queueVars, epollVars, ended, failed>>

(* The peer closes, or the server has shut its reading side down. *)
ConnectionEnds(c) ==
  /\ Running
  /\ Live(c)
  /\ c \notin ended
  /\ ended' = ended \union {c}
  /\ UNCHANGED <<serverVars, tableVars, conn, queueVars, epollVars, backlog, arrived, failed>>

----------------------------------------------------------------------------
LoopStep(l) ==
  \/ Poll(l)
  \/ HandleWakeup(l)
  \/ \E c \in Connections : HandleEvent(l, c)
  \/ SwapFunctors(l)
  \/ \E c \in Connections : ConnectionEstablished(l, c)
  \/ \E c \in Connections : RemoveInLoop(l, c)
  \/ \E c \in Connections : ConnectionDestroyed(l, c)
  \/ EndFunctors(l)
  \/ l = Base /\ (HandleAccept \/ Accept \/ AcceptFails \/ AcceptReturnsAnything)

Next ==
  \/ Start
  \/ EnterLoop
  \/ \E l \in Loops : LoopStep(l)
  \/ LeaveLoop
  \/ DestroyServer
  \/ Connect
  \/ \E c \in Connections : ConnectionEnds(c)

(* Every loop's thread keeps running.  Nothing is assumed of the clients,   *)
(* nor of which of the ready descriptors epoll_wait() reports.              *)
Spec == Init /\ [][Next]_vars /\ \A l \in Loops : WF_vars(LoopStep(l))

----------------------------------------------------------------------------
(* Each loop's map leads from a descriptor to the live connection of that   *)
(* loop that owns it, and epoll watches no other: what Epoll::updateChannel *)
(* asserts (Epoll.cpp:72-86), and that activeChannels_ and the map never    *)
(* hold a pointer to a connection that is gone, whoever got its descriptor. *)
(* failed = "undefined": the earlier server's accept() has failed, and what *)
(* its caller then takes for a descriptor nobody can say: the model ends.   *)
EpollHoldsLiveChannels ==
  /\ failed \in {"none", "undefined"}
  /\ \A l \in Loops, fd \in Fds :
       channels_[l][fd] # NoConnection =>
         /\ Live(channels_[l][fd])
         /\ conn[channels_[l][fd]].loop = l
         /\ conn[channels_[l][fd]].fd = fd
         /\ conn[channels_[l][fd]].status # "kNew"
  /\ \A l \in Loops : \A c \in activeChannels_[l] \ {AcceptChannel, WakeupChannel} :
       Live(c) /\ conn[c].loop = l
  /\ \A c, d \in Connections :
       c # d /\ Live(c) /\ Live(d) => conn[c].fd # conn[d].fd


(* A connection that has ended leaves the map and is freed, its descriptor  *)
(* given back: through the up to three functors of two loops this takes, and *)
(* although epoll_wait() may report others first (TcpServer.cpp:101-121).   *)
EndedConnectionsAreFreed ==
  \A c \in Connections :
    (c \in ended) ~>
      (conn[c].state_ = "freed" \/ phase[Base] = "exited" \/ failed = "undefined")

(* Acceptor.cpp:54-78: a client that waits is accepted, or every descriptor *)
(* is in use; it is accepted later when one of them comes back.             *)
WaitingClientsAreAccepted ==
  backlog > 0 ~> (backlog = 0 \/ FreeFds = {} \/ phase[Base] \in {"setup", "exited"})
============================================================================
