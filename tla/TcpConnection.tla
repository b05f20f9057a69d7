--------------------------- MODULE TcpConnection ---------------------------
(***************************************************************************)
(* One accepted connection from TcpServer::newConnection() to ~TcpConnec-  *)
(* tion(): net/TcpConnection.cpp with its Channel, the entry Epoll keeps   *)
(* for it, TcpServer's map, and HttpServer as the user of its callbacks.   *)
(*                                                                         *)
(* Actors: the connection's IO thread; the thread of TcpServer's loop_,    *)
(* the same one unless the server has a pool; one application thread that  *)
(* may keep the TcpConnectionPtr and call send() and shutdown(); the peer. *)
(* A loop is a FIFO queue of functors (module TaskQueue).  A functor or one*)
(* of Channel's callbacks is one step of its thread.                       *)
(***************************************************************************)
EXTENDS Naturals, Sequences, SequencesExt

CONSTANTS
  Size,         (* units in a message: write(2) may take any prefix        *)
  MaxRequests,  (* bound: reads that return data                           *)
  MaxCalls      (* bound: calls of send() and shutdown() by the app thread *)

ASSUME TcpConnectionAssumption ==
  /\ Size \in Nat \ {0}
  /\ MaxRequests \in Nat
  /\ MaxCalls \in Nat

VARIABLES
  pooled,         (* the server has a thread pool: two loops               *)
  created,        (* newConnection() has made the object                   *)
  inMap,          (* connectionMap_ holds it                               *)
  state_,
  events_,        (* what the Channel asks for: read, write                *)
  status,         (* Channel::statusInEpoll_                               *)
  revents_,       (* what is left of the event being handled               *)
  outputBuffer_,  (* units not written yet                                 *)
  ioQueue,        (* functors of the connection's loop                     *)
  baseQueue,      (* functors of TcpServer's loop_, when it is another one *)
  wire,           (* history: units write(2) has taken                     *)
  handed,         (* history: messages sendInLoop() was given, in order    *)
  nextMessage,    (* number of the next message                            *)
  readShut,       (* Socket::shutdownWrite() was called: SHUT_RD is done   *)
  peer,           (* open, fin, reset, gone: reset with the error consumed *)
  inbound,        (* data to be read                                       *)
  requests,       (* requests the peer has sent                            *)
  held,           (* the app thread holds a TcpConnectionPtr               *)
  app,            (* its call, past the test of state_; or idle            *)
  calls,          (* calls it has made                                     *)
  failed          (* how the process died, or none                         *)

connVars == <<state_, events_, status, revents_, outputBuffer_>>
serverVars == <<pooled, created, inMap, ioQueue, baseQueue>>
dataVars == <<wire, handed, nextMessage>>
peerVars == <<readShut, peer, inbound, requests>>
appVars == <<held, app, calls>>
vars == <<connVars, serverVars, dataVars, peerVars, appVars, failed>>

States == {"kDisconnected", "kConnecting", "kConnected", "kDisconnecting"}
Failures == {"none", "assertion", "use after free", "SIGPIPE"}

Units(m) == [i \in 1..Size |-> <<m, i>>]
Messages == 1..(MaxRequests + MaxCalls)

SendFunctor(m) == [run |-> "sendInLoop", message |-> m]
Functor(name) == [run |-> name, message |-> 0]
Functors ==
  {SendFunctor(m) : m \in Messages} \union
  {Functor(f) : f \in {"connectionEstablished", "shutdownInLoop",
                       "removeConnectionInLoop", "connectionDestroyed"}}

(* Who keeps the object: the map, the app thread, Channel::handleEvent()'s *)
(* guard, and every functor but sendInLoop, which is bound to a raw this.  *)
Alive ==
  \/ inMap
  \/ held
  \/ revents_ # {}
  \/ baseQueue # <<>>
  \/ \E i \in DOMAIN ioQueue : ioQueue[i].run # "sendInLoop"

Init ==
  /\ pooled \in BOOLEAN
  /\ created = FALSE /\ inMap = FALSE
  /\ state_ = "kConnecting" /\ events_ = {} /\ status = "kNew" /\ revents_ = {}
  /\ outputBuffer_ = <<>> /\ ioQueue = <<>> /\ baseQueue = <<>>
  /\ wire = <<>> /\ handed = <<>> /\ nextMessage = 1
  /\ readShut = FALSE /\ peer = "open" /\ inbound = FALSE /\ requests = 0
  /\ held = FALSE /\ app = "idle" /\ calls = 0
  /\ failed = "none"

----------------------------------------------------------------------------
(* Channel and Epoll. *)

(* Channel::update() and Epoll::updateChannel() *)
UpdateChannel(evs) ==
  /\ events_' = evs
  /\ status' = IF status = "kAdded" /\ evs = {} THEN "kDeleted" ELSE "kAdded"

(* A failed assertion, a use after free and a signal end the process. *)
Abort(how) == failed' = how
Running == failed = "none"

(* Channel::remove() and Epoll::removeChannel() for a channel asking for evs *)
RemoveChannel(evs) ==
  IF evs = {}
  THEN events_' = {} /\ status' = "kNew" /\ UNCHANGED failed
  ELSE Abort("assertion") /\ UNCHANGED <<events_, status>>

----------------------------------------------------------------------------
(* TcpConnection, in its IO thread. *)

(* connectionEstablished(); connectionCallback_ may hand the pointer on. *)
ConnectionEstablished ==
  IF state_ = "kConnecting"
  THEN /\ state_' = "kConnected"
       /\ UpdateChannel(events_ \union {"read"})
       /\ held' \in {FALSE, MaxCalls > 0}
       /\ UNCHANGED failed
  ELSE /\ Abort("assertion")
       /\ UNCHANGED <<state_, events_, status, held>>

(* connectionDestroyed() *)
ConnectionDestroyed ==
  LET evs == IF state_ = "kConnected" THEN {} ELSE events_
  IN  /\ state_' = IF state_ = "kConnected" THEN "kDisconnected" ELSE state_
      /\ RemoveChannel(evs)

(* write(2) of the units u takes the first n; to a peer that has reset the  *)
(* connection it fails, the second time with a SIGPIPE nobody ignores.      *)
WriteTakes(u, n) ==
  /\ n \in 0..Len(u)
  /\ peer \in {"reset", "gone"} => n = 0
  /\ IF peer = "gone" THEN Abort("SIGPIPE") ELSE UNCHANGED failed
  /\ peer' = IF peer = "reset" THEN "gone" ELSE peer
  /\ wire' = wire \o SubSeq(u, 1, n)

(* Mutant: a message is written at once even when older output is pending. *)
SendInLoopOvertaking(m) ==
  /\ handed' = Append(handed, m)
  /\ \E n \in 0..Size :
       /\ WriteTakes(Units(m), n)
       /\ IF n < Size
          THEN /\ outputBuffer_' = outputBuffer_ \o SubSeq(Units(m), n + 1, Size)
               /\ UpdateChannel(events_ \union {"write"})
          ELSE UNCHANGED <<outputBuffer_, events_, status>>

(* Mutant: what a write did not take is kept, and writing is not enabled. *)
SendInLoopNoWriting(m) ==
  /\ handed' = Append(handed, m)
  /\ UNCHANGED <<events_, status>>
  /\ IF "write" \notin events_ /\ outputBuffer_ = <<>>
     THEN \E n \in 0..Size :
            /\ WriteTakes(Units(m), n)
            /\ outputBuffer_' = SubSeq(Units(m), n + 1, Size)
     ELSE UNCHANGED <<outputBuffer_, wire, peer, failed>>

(* sendInLoop(): the whole of its body hangs on the first condition, so a   *)
(* message that finds output pending is neither written nor kept.           *)
SendInLoop(m) ==
  /\ handed' = Append(handed, m)
  /\ IF "write" \notin events_ /\ outputBuffer_ = <<>>
     THEN \E n \in 0..Size :
            /\ WriteTakes(Units(m), n)
            /\ IF n < Size
               THEN /\ outputBuffer_' = SubSeq(Units(m), n + 1, Size)
                    /\ UpdateChannel(events_ \union {"write"})
               ELSE UNCHANGED <<outputBuffer_, events_, status>>
     ELSE UNCHANGED <<outputBuffer_, events_, status, wire, peer, failed>>

(* Mutant: output still pending does not hold the shutdown back. *)
ShutdownInLoopAtOnce(evs) ==
  readShut' = TRUE

(* shutdownInLoop() for a channel asking for evs; Socket::shutdownWrite(). *)
ShutdownInLoop(evs) ==
  readShut' = (readShut \/ "write" \notin evs)

(* TcpServer::removeConnectionInLoop() *)
RemoveConnectionInLoop ==
  IF inMap
  THEN /\ inMap' = FALSE
       /\ ioQueue' = Append(ioQueue, Functor("connectionDestroyed"))
       /\ UNCHANGED failed
  ELSE /\ Abort("assertion")
       /\ UNCHANGED <<inMap, ioQueue>>

(* TcpServer::removeConnection() *)
RemoveConnection ==
  IF pooled
  THEN /\ baseQueue' = Append(baseQueue, Functor("removeConnectionInLoop"))
       /\ UNCHANGED <<inMap, ioQueue, failed>>
  ELSE /\ RemoveConnectionInLoop
       /\ UNCHANGED baseQueue

(* Mutant: the Channel stays enabled. *)
HandleCloseStillEnabled ==
  IF state_ \in {"kConnected", "kDisconnecting"}
  THEN /\ state_' = "kDisconnected"
       /\ UNCHANGED <<events_, status>>
       /\ RemoveConnection
  ELSE /\ Abort("assertion")
       /\ UNCHANGED <<state_, events_, status, inMap, ioQueue, baseQueue>>

(* handleClose(), whose closeCallback_ is TcpServer::removeConnection(). *)
HandleClose ==
  IF state_ \in {"kConnected", "kDisconnecting"}
  THEN /\ state_' = "kDisconnected"
       /\ UpdateChannel({})
       /\ RemoveConnection
  ELSE /\ Abort("assertion")
       /\ UNCHANGED <<state_, events_, status, inMap, ioQueue, baseQueue>>

(* send() and shutdown(), when `close', by HttpServer in the IO thread: both *)
(* do nothing unless the connection is kConnected.                           *)
Reply(close) ==
  IF state_ = "kConnected"
  THEN /\ SendInLoop(nextMessage)
       /\ nextMessage' = nextMessage + 1
       /\ IF close
          THEN state_' = "kDisconnecting" /\ ShutdownInLoop(events_')
          ELSE UNCHANGED <<state_, readShut>>
  ELSE UNCHANGED <<state_, events_, status, outputBuffer_, dataVars, readShut,
                   peer, failed>>

----------------------------------------------------------------------------
(* The loop's poll, and Channel::handleEventWithGuard() on what it reports.  *)
(* EPOLLHUP stands for EPOLLHUP without EPOLLIN; handleError() only logs.    *)

Readable == inbound \/ peer # "open" \/ readShut

Reported(writable) ==
  {e \in {"HUP", "IN", "OUT"} :
     \/ e = "HUP" /\ peer \in {"reset", "gone"} /\ "read" \notin events_
     \/ e = "IN" /\ "read" \in events_ /\ Readable
     \/ e = "OUT" /\ "write" \in events_ /\ writable}

Poll(writable) ==
  /\ Running
  /\ revents_ = {}
  /\ status = "kAdded"
  /\ Reported(writable) # {}
  /\ revents_' = Reported(writable)
  /\ UNCHANGED <<state_, events_, status, outputBuffer_, serverVars, dataVars,
                 peerVars, appVars, failed>>

HandleHup ==
  /\ Running
  /\ "HUP" \in revents_
  /\ revents_' = revents_ \ {"HUP"}
  /\ HandleClose
  /\ UNCHANGED <<outputBuffer_, pooled, created, dataVars, peerVars, appVars>>

(* handleRead(), read returning data: HttpServer::onMessage() finds part of  *)
(* a request, a request to answer, or one to answer and shut down after.     *)
HandleReadData ==
  /\ Running
  /\ "IN" \in revents_ /\ "HUP" \notin revents_
  /\ inbound
  /\ inbound' = FALSE
  /\ \/ UNCHANGED <<state_, events_, status, outputBuffer_, dataVars, readShut,
                    peer, failed>>
     \/ \E close \in BOOLEAN : Reply(close)
  /\ revents_' = revents_ \ {"IN"}
  /\ UNCHANGED <<serverVars, requests, appVars>>

(* handleRead(), read failing: the error is logged and thereby consumed. *)
HandleReadError ==
  /\ Running
  /\ "IN" \in revents_ /\ "HUP" \notin revents_
  /\ ~inbound /\ peer = "reset"
  /\ peer' = "gone"
  /\ revents_' = revents_ \ {"IN"}
  /\ UNCHANGED <<state_, events_, status, outputBuffer_, serverVars, dataVars,
                 readShut, inbound, requests, appVars, failed>>

(* handleRead(), read returning 0. *)
HandleReadEnd ==
  /\ Running
  /\ "IN" \in revents_ /\ "HUP" \notin revents_
  /\ ~inbound /\ peer # "reset"
  /\ HandleClose
  /\ revents_' = revents_ \ {"IN"}
  /\ UNCHANGED <<outputBuffer_, pooled, created, dataVars, peerVars, appVars>>

(* Mutant: writing stays enabled when all is written. *)
WriteOutBusy(n) ==
  /\ WriteTakes(outputBuffer_, n)
  /\ outputBuffer_' = SubSeq(outputBuffer_, n + 1, Len(outputBuffer_))
  /\ UNCHANGED <<events_, status, readShut>>

(* Mutant: the shutdown that waited for the output is forgotten. *)
WriteOutNoShutdown(n) ==
  /\ WriteTakes(outputBuffer_, n)
  /\ outputBuffer_' = SubSeq(outputBuffer_, n + 1, Len(outputBuffer_))
  /\ IF n > 0 /\ outputBuffer_' = <<>>
     THEN UpdateChannel(events_ \ {"write"})
     ELSE UNCHANGED <<events_, status>>
  /\ UNCHANGED readShut

(* handleWrite() for an enabled channel, write(2) taking n units. *)
WriteOut(n) ==
  /\ WriteTakes(outputBuffer_, n)
  /\ outputBuffer_' = SubSeq(outputBuffer_, n + 1, Len(outputBuffer_))
  /\ IF n > 0 /\ outputBuffer_' = <<>>
     THEN /\ UpdateChannel(events_ \ {"write"})
          /\ IF state_ = "kDisconnecting"
             THEN ShutdownInLoop(events_')
             ELSE UNCHANGED readShut
     ELSE UNCHANGED <<events_, status, readShut>>

HandleWrite(n) ==
  /\ Running
  /\ revents_ = {"OUT"}
  /\ revents_' = {}
  /\ IF "write" \in events_
     THEN WriteOut(n)
     ELSE n = 0 /\ UNCHANGED <<events_, status, outputBuffer_, wire, readShut, peer, failed>>
  /\ UNCHANGED <<state_, serverVars, handed, nextMessage, inbound, requests, appVars>>

----------------------------------------------------------------------------
(* The loops' functors. *)

Runs(name) ==
  /\ Running
  /\ revents_ = {}
  /\ ioQueue # <<>>
  /\ Head(ioQueue).run = name
  /\ ioQueue' = Tail(ioQueue)
  /\ UNCHANGED <<pooled, created, inMap, baseQueue, inbound, requests, app, calls>>

RunEstablished ==
  /\ Runs("connectionEstablished")
  /\ ConnectionEstablished
  /\ UNCHANGED <<revents_, outputBuffer_, dataVars, readShut, peer>>

RunSend ==
  /\ Runs("sendInLoop")
  /\ IF Alive
     THEN SendInLoop(Head(ioQueue).message)
     ELSE /\ Abort("use after free")
          /\ UNCHANGED <<events_, status, outputBuffer_, wire, handed, peer>>
  /\ UNCHANGED <<state_, revents_, nextMessage, readShut, held>>

RunShutdown ==
  /\ Runs("shutdownInLoop")
  /\ ShutdownInLoop(events_)
  /\ UNCHANGED <<connVars, dataVars, peer, held, failed>>

RunDestroyed ==
  /\ Runs("connectionDestroyed")
  /\ ConnectionDestroyed
  /\ UNCHANGED <<revents_, outputBuffer_, dataVars, readShut, peer, held>>

(* removeConnectionInLoop() in a loop_ of its own. *)
RunRemove ==
  /\ Running
  /\ baseQueue # <<>>
  /\ baseQueue' = Tail(baseQueue)
  /\ RemoveConnectionInLoop
  /\ UNCHANGED <<connVars, pooled, created, dataVars, peerVars, appVars>>

(* TcpServer::newConnection() *)
NewConnection ==
  /\ Running
  /\ ~created
  /\ created' = TRUE
  /\ inMap' = TRUE
  /\ IF pooled
     THEN /\ ioQueue' = Append(ioQueue, Functor("connectionEstablished"))
          /\ UNCHANGED <<connVars, held, failed>>
     ELSE /\ ConnectionEstablished
          /\ UNCHANGED <<ioQueue, revents_, outputBuffer_>>
  /\ UNCHANGED <<pooled, baseQueue, dataVars, peerVars, app, calls>>

----------------------------------------------------------------------------
(* The application thread: send() and shutdown() from outside the loop.      *)

(* The test of state_, which no lock protects: a call that fails it is over. *)
AppTests(call) ==
  /\ Running
  /\ held /\ app = "idle" /\ calls < MaxCalls
  /\ calls' = calls + 1
  /\ app' = IF state_ = "kConnected" THEN call ELSE "idle"
  /\ UNCHANGED <<connVars, serverVars, dataVars, peerVars, held, failed>>

AppSends ==
  /\ Running
  /\ app = "send"
  /\ app' = "idle"
  /\ ioQueue' = Append(ioQueue, SendFunctor(nextMessage))
  /\ nextMessage' = nextMessage + 1
  /\ UNCHANGED <<connVars, pooled, created, inMap, baseQueue, wire, handed,
                 peerVars, held, calls, failed>>

AppShutsDown ==
  /\ Running
  /\ app = "shutdown"
  /\ app' = "idle"
  /\ state_' = "kDisconnecting"
  /\ ioQueue' = Append(ioQueue, Functor("shutdownInLoop"))
  /\ UNCHANGED <<events_, status, revents_, outputBuffer_, pooled, created, inMap,
                 baseQueue, dataVars, peerVars, held, calls, failed>>

AppLetsGo ==
  /\ Running
  /\ held /\ app = "idle"
  /\ held' = FALSE
  /\ UNCHANGED <<connVars, serverVars, dataVars, peerVars, app, calls, failed>>

----------------------------------------------------------------------------
(* The peer. *)

PeerSends ==
  /\ Running
  /\ created /\ peer = "open" /\ ~inbound /\ requests < MaxRequests
  /\ inbound' = TRUE
  /\ requests' = requests + 1
  /\ UNCHANGED <<connVars, serverVars, dataVars, readShut, peer, appVars, failed>>

PeerCloses ==
  /\ Running
  /\ created /\ peer = "open"
  /\ peer' = "fin"
  /\ UNCHANGED <<connVars, serverVars, dataVars, readShut, inbound, requests,
                 appVars, failed>>

PeerResets ==
  /\ Running
  /\ created /\ peer \in {"open", "fin"}
  /\ peer' = "reset"
  /\ inbound' = FALSE
  /\ UNCHANGED <<connVars, serverVars, dataVars, readShut, requests, appVars, failed>>

----------------------------------------------------------------------------
IoStep ==
  \/ \E writable \in BOOLEAN : Poll(writable)
  \/ HandleHup
  \/ HandleReadData
  \/ HandleReadError
  \/ HandleReadEnd
  \/ \E n \in 0..Size : HandleWrite(n)
  \/ RunEstablished
  \/ RunSend
  \/ RunShutdown
  \/ RunDestroyed

AppStep ==
  \/ \E call \in {"send", "shutdown"} : AppTests(call)
  \/ AppSends
  \/ AppShutsDown
  \/ AppLetsGo

PeerStep ==
  \/ PeerSends
  \/ PeerCloses
  \/ PeerResets

Next ==
  \/ NewConnection
  \/ IoStep
  \/ RunRemove
  \/ AppStep
  \/ PeerStep

(* Both loops run and the app thread finishes what it began and lets go; a   *)
(* peer that is still there keeps reading, so the socket becomes writable    *)
(* again and again and then takes something.                                 *)
Fairness ==
  /\ WF_vars(IoStep)
  /\ WF_vars(RunRemove)
  /\ WF_vars(AppSends \/ AppShutsDown)
  /\ WF_vars(AppLetsGo)
  /\ SF_vars(Poll(TRUE))
  /\ SF_vars(\E n \in 1..Size : HandleWrite(n))

Spec == Init /\ [][Next]_vars /\ Fairness

----------------------------------------------------------------------------
(* While send() and shutdown() are called in the IO thread only, as Http-    *)
(* Server does, no assertion of Channel, Epoll, TcpConnection or TcpServer   *)
(* fails, the object outlives its functors, and it is destroyed only as      *)
(* ~TcpConnection() and ~Channel() demand: kDisconnected, out of Epoll.      *)
IoThreadUseIsSafe ==
  calls = 0 =>
    /\ failed \in {"none", "SIGPIPE"}
    /\ created /\ ~Alive => state_ = "kDisconnected" /\ status = "kNew"

(* What went out, with what is waiting, is whole messages in the order they  *)
(* were handed over: a partial write never lets another message in between.  *)
WireIsWholeMessages ==
  LET out == wire \o outputBuffer_
      whole == {i \in 1..Len(out) : i % Size = 1 \/ Size = 1}
  IN  /\ Len(out) % Size = 0
      /\ \A i \in whole : SubSeq(out, i, i + Size - 1) = Units(out[i][1])
      /\ \A i, j \in whole : i < j =>
           \E a, b \in DOMAIN handed :
             a < b /\ handed[a] = out[i][1] /\ handed[b] = out[j][1]

(* Channel.h:99-104: a connection asks for write events exactly while it has *)
(* output; less and the output stalls, more and level-triggered epoll spins. *)
WriteInterestIsPendingOutput ==
  "read" \in events_ => ("write" \in events_ <=> outputBuffer_ # <<>>)

(* shutdownInLoop() and handleWrite(): until handleClose() has thrown the    *)
(* output away, the socket is shut down only when none of it is left.        *)
ShutdownAfterFlush ==
  [][~readShut /\ readShut' /\ "read" \in events_ => outputBuffer_' = <<>>]_vars


(* A connection that is shutting down, or whose peer is gone, is taken out   *)
(* of the map and of Epoll and freed: nothing leaks.                         *)
EventuallyFreed ==
  (state_ = "kDisconnecting" \/ (created /\ peer # "open")) ~> (~Alive \/ failed # "none")

(* HttpServer.cpp:84 "so the data is certainly sent before the connection is *)
(* closed": the shutdown a reply asked for comes after every message handed  *)
(* to send() has been written.                                               *)
RepliesSentBeforeShutdown ==
  readShut => \A i \in DOMAIN handed : \E j \in DOMAIN wire : wire[j] = <<handed[i], Size>>
============================================================================
