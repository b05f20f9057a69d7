----------------------- MODULE TcpConnection_proofs -----------------------
(***************************************************************************)
(* For messages of every size, and any number of requests and of calls by  *)
(* the application thread: what TcpConnection writes is whole messages in  *)
(* order, it asks for write events while it has output, shuts down when it *)
(* has none, and no assertion of it fails while it is used in its thread.  *)
(***************************************************************************)
EXTENDS TcpConnection, SequenceTheorems, TLAPS

Unit == Messages \X (1..Size)

(* Every message that is numbered belongs to a request or to a call of the  *)
(* application thread, or will: the numbers stay within Messages.           *)
NumbersLeft ==
  nextMessage + (IF inbound = TRUE THEN 1 ELSE 0) + (IF app = "send" THEN 1 ELSE 0)
    <= 1 + requests + calls

TypeOK ==
  /\ pooled \in BOOLEAN /\ created \in BOOLEAN /\ inMap \in BOOLEAN
  /\ state_ \in States
  /\ events_ \subseteq {"read", "write"}
  /\ status \in {"kNew", "kAdded", "kDeleted"}
  /\ revents_ \subseteq {"HUP", "IN", "OUT"}
  /\ outputBuffer_ \in Seq(Unit)
  /\ ioQueue \in Seq(Functors)
  /\ baseQueue \in Seq({Functor("removeConnectionInLoop")})
  /\ wire \in Seq(Unit)
  /\ handed \in Seq(Messages)
  /\ nextMessage \in Nat \ {0} /\ NumbersLeft
  /\ readShut \in BOOLEAN
  /\ peer \in {"open", "fin", "reset", "gone"}
  /\ inbound \in BOOLEAN
  /\ requests \in 0..MaxRequests
  /\ held \in BOOLEAN
  /\ app \in {"idle", "send", "shutdown"}
  /\ calls \in 0..MaxCalls
  /\ failed \in Failures

(* The next number is free while a request or a send() waits for one. *)
LEMMA NextIsAMessage ==
  ASSUME TypeOK, inbound \/ app = "send"
  PROVE  nextMessage \in Messages
BY TcpConnectionAssumption DEF TypeOK, NumbersLeft, Messages

LEMMA FunctorTypes ==
  /\ \A m \in Messages : SendFunctor(m) \in Functors
  /\ Functor("connectionEstablished") \in Functors
  /\ Functor("shutdownInLoop") \in Functors
  /\ Functor("connectionDestroyed") \in Functors
BY DEF Functors, Functor

(* The units of a message, and what is left of a sequence of units. *)
LEMMA UnitsType ==
  ASSUME NEW m \in Messages
  PROVE  /\ Units(m) \in Seq(Unit)
         /\ Len(Units(m)) = Size
         /\ \A i \in 1..Size : Units(m)[i] = <<m, i>>
<1>1. \A i \in 1..Size : <<m, i>> \in Unit
  BY DEF Unit
<1>2. Size \in Nat
  BY TcpConnectionAssumption
<1>3. Units(m) \in [1..Size -> Unit]
  BY <1>1 DEF Units
<1>4. QED
  BY <1>2, <1>3 DEF Units

LEMMA SplitUnits ==
  ASSUME NEW u \in Seq(Unit), NEW n \in 0..Len(u)
  PROVE  /\ SubSeq(u, 1, n) \in Seq(Unit)
         /\ SubSeq(u, n + 1, Len(u)) \in Seq(Unit)
         /\ Len(SubSeq(u, 1, n)) = n
         /\ Len(SubSeq(u, n + 1, Len(u))) = Len(u) - n
         /\ SubSeq(u, 1, n) \o SubSeq(u, n + 1, Len(u)) = u
<1>1. Len(u) \in Nat /\ \A i \in 1..Len(u) : u[i] \in Unit
  BY ElementOfSeq, LenProperties
<1>2. /\ SubSeq(u, 1, n) \in Seq(Unit)
      /\ Len(SubSeq(u, 1, n)) = IF 1 <= n THEN n - 1 + 1 ELSE 0
  <2>1. \A i \in 1..n : u[i] \in Unit
    BY <1>1
  <2>2. QED
    BY <2>1, SubSeqProperties
<1>3. /\ SubSeq(u, n + 1, Len(u)) \in Seq(Unit)
      /\ Len(SubSeq(u, n + 1, Len(u))) =
           IF n + 1 <= Len(u) THEN Len(u) - (n + 1) + 1 ELSE 0
  <2>1. \A i \in n + 1..Len(u) : u[i] \in Unit
    BY <1>1
  <2>2. n + 1 \in Int /\ Len(u) \in Int
    BY <1>1
  <2>3. QED
    BY <2>1, <2>2, SubSeqProperties
<1>4. SubSeq(u, 1, n) \o SubSeq(u, n + 1, Len(u)) = SubSeq(u, 1, Len(u))
  <2>1. 1 \in 1..Len(u) + 1 /\ n \in 1 - 1..Len(u) /\ Len(u) \in n..Len(u)
    BY <1>1
  <2>2. QED
    BY <2>1, ConcatAdjacentSubSeq
<1>5. SubSeq(u, 1, Len(u)) = u
  BY SubSeqFull
<1>6. Len(SubSeq(u, 1, n)) = n
  BY <1>2
<1>7. Len(SubSeq(u, n + 1, Len(u))) = Len(u) - n
  BY <1>1, <1>3
<1>8. QED
  BY <1>2, <1>3, <1>4, <1>5, <1>6, <1>7, Zenon

(* UpdateChannel() with any interest, and what write(2) does to the peer.   *)
LEMMA SendInLoopTypes ==
  ASSUME TypeOK, NEW m \in Messages, SendInLoop(m)
  PROVE  /\ events_' \subseteq {"read", "write"}
         /\ status' \in {"kNew", "kAdded", "kDeleted"}
         /\ outputBuffer_' \in Seq(Unit)
         /\ wire' \in Seq(Unit)
         /\ handed' \in Seq(Messages)
         /\ peer' \in {"open", "fin", "reset", "gone"}
         /\ failed' \in Failures
<1>1. handed' \in Seq(Messages)
  BY AppendProperties DEF TypeOK, SendInLoop
<1>2. CASE "write" \notin events_ /\ outputBuffer_ = <<>>
  <2>1. PICK n \in 0..Size :
          /\ WriteTakes(Units(m), n)
          /\ IF n < Size
             THEN /\ outputBuffer_' = SubSeq(Units(m), n + 1, Size)
                  /\ UpdateChannel(events_ \union {"write"})
             ELSE UNCHANGED <<outputBuffer_, events_, status>>
    BY <1>2 DEF SendInLoop
  <2>2. /\ SubSeq(Units(m), 1, n) \in Seq(Unit)
        /\ SubSeq(Units(m), n + 1, Size) \in Seq(Unit)
    BY UnitsType, SplitUnits
  <2>3. wire' \in Seq(Unit)
    BY <2>1, <2>2, ConcatProperties DEF WriteTakes, TypeOK
  <2>4. outputBuffer_' \in Seq(Unit)
    BY <2>1, <2>2 DEF TypeOK
  <2>5. /\ events_' \subseteq {"read", "write"}
        /\ status' \in {"kNew", "kAdded", "kDeleted"}
    BY <2>1 DEF TypeOK, UpdateChannel
  <2>6. /\ peer' \in {"open", "fin", "reset", "gone"}
        /\ failed' \in Failures
    BY <2>1 DEF TypeOK, WriteTakes, Abort, Failures
  <2>7. QED
    BY <1>1, <2>3, <2>4, <2>5, <2>6
<1>3. CASE ~("write" \notin events_ /\ outputBuffer_ = <<>>)
  BY <1>1, <1>3 DEF SendInLoop, TypeOK
<1>4. QED
  BY <1>2, <1>3

LEMMA ReplyTypes ==
  ASSUME TypeOK, inbound, NEW close \in BOOLEAN, Reply(close)
  PROVE  /\ state_' \in States
         /\ events_' \subseteq {"read", "write"}
         /\ status' \in {"kNew", "kAdded", "kDeleted"}
         /\ outputBuffer_' \in Seq(Unit)
         /\ wire' \in Seq(Unit)
         /\ handed' \in Seq(Messages)
         /\ nextMessage' \in {nextMessage, nextMessage + 1}
         /\ readShut' \in BOOLEAN
         /\ peer' \in {"open", "fin", "reset", "gone"}
         /\ failed' \in Failures
<1>1. CASE state_ = "kConnected"
  <2>1. SendInLoop(nextMessage)
    BY <1>1 DEF Reply
  <2>2. nextMessage \in Messages
    BY NextIsAMessage
  <2>3. state_' \in States /\ readShut' \in BOOLEAN
    BY <1>1 DEF Reply, ShutdownInLoop, TypeOK, States
  <2>4. QED
    BY <1>1, <2>1, <2>2, <2>3, SendInLoopTypes DEF Reply
<1>2. CASE state_ # "kConnected"
  BY <1>2 DEF Reply, dataVars, TypeOK
<1>3. QED
  BY <1>1, <1>2

LEMMA WriteOutTypes ==
  ASSUME TypeOK, NEW n \in 0..Size, WriteOut(n)
  PROVE  /\ events_' \subseteq {"read", "write"}
         /\ status' \in {"kNew", "kAdded", "kDeleted"}
         /\ outputBuffer_' \in Seq(Unit)
         /\ wire' \in Seq(Unit)
         /\ readShut' \in BOOLEAN
         /\ peer' \in {"open", "fin", "reset", "gone"}
         /\ failed' \in Failures
<1>1. n \in 0..Len(outputBuffer_)
  BY DEF WriteOut, WriteTakes
<1>2. /\ SubSeq(outputBuffer_, 1, n) \in Seq(Unit)
      /\ SubSeq(outputBuffer_, n + 1, Len(outputBuffer_)) \in Seq(Unit)
  BY <1>1, SplitUnits DEF TypeOK
<1>3. wire' \in Seq(Unit) /\ outputBuffer_' \in Seq(Unit)
  BY <1>2, ConcatProperties DEF WriteOut, WriteTakes, TypeOK
<1>4. /\ peer' \in {"open", "fin", "reset", "gone"}
      /\ failed' \in Failures
  BY DEF WriteOut, WriteTakes, TypeOK, Abort, Failures
<1>5. /\ events_' \subseteq {"read", "write"}
      /\ status' \in {"kNew", "kAdded", "kDeleted"}
      /\ readShut' \in BOOLEAN
  BY DEF WriteOut, UpdateChannel, ShutdownInLoop, TypeOK
<1>6. QED
  BY <1>3, <1>4, <1>5

(* handleClose(), and the two functions of TcpServer it ends in. *)
LEMMA RemoveConnectionInLoopTypes ==
  ASSUME TypeOK, RemoveConnectionInLoop
  PROVE  /\ inMap' \in BOOLEAN
         /\ ioQueue' \in Seq(Functors)
         /\ failed' \in Failures
<1>1. Append(ioQueue, Functor("connectionDestroyed")) \in Seq(Functors)
  BY FunctorTypes, AppendProperties DEF TypeOK
<1>2. QED
  BY <1>1 DEF RemoveConnectionInLoop, TypeOK, Abort, Failures

LEMMA HandleCloseTypes ==
  ASSUME TypeOK, HandleClose
  PROVE  /\ state_' \in States
         /\ events_' \subseteq {"read", "write"}
         /\ status' \in {"kNew", "kAdded", "kDeleted"}
         /\ inMap' \in BOOLEAN
         /\ ioQueue' \in Seq(Functors)
         /\ baseQueue' \in Seq({Functor("removeConnectionInLoop")})
         /\ failed' \in Failures
<1>1. CASE state_ \in {"kConnected", "kDisconnecting"}
  <2>1. /\ state_' \in States
        /\ events_' \subseteq {"read", "write"}
        /\ status' \in {"kNew", "kAdded", "kDeleted"}
    BY <1>1 DEF HandleClose, UpdateChannel, States, TypeOK
  <2>2. /\ inMap' \in BOOLEAN
        /\ ioQueue' \in Seq(Functors)
        /\ baseQueue' \in Seq({Functor("removeConnectionInLoop")})
        /\ failed' \in Failures
    <3>1. CASE pooled
      <4>1. baseQueue' \in Seq({Functor("removeConnectionInLoop")})
        <5>1. Append(baseQueue, Functor("removeConnectionInLoop"))
                \in Seq({Functor("removeConnectionInLoop")})
          BY AppendProperties DEF TypeOK
        <5>2. QED
          BY <1>1, <3>1, <5>1 DEF HandleClose, RemoveConnection
      <4>2. QED
        BY <1>1, <3>1, <4>1 DEF HandleClose, RemoveConnection, TypeOK
    <3>2. CASE ~pooled
      BY <1>1, <3>2, RemoveConnectionInLoopTypes DEF HandleClose, RemoveConnection, TypeOK
    <3>3. QED
      BY <3>1, <3>2
  <2>3. QED
    BY <2>1, <2>2
<1>2. CASE state_ \notin {"kConnected", "kDisconnecting"}
  BY <1>2 DEF HandleClose, Abort, Failures, TypeOK
<1>3. QED
  BY <1>1, <1>2

LEMMA ConnectionEstablishedTypes ==
  ASSUME TypeOK, ConnectionEstablished
  PROVE  /\ state_' \in States
         /\ events_' \subseteq {"read", "write"}
         /\ status' \in {"kNew", "kAdded", "kDeleted"}
         /\ held' \in BOOLEAN
         /\ failed' \in Failures
<1>1. CASE state_ = "kConnecting"
  <2>1. held' \in BOOLEAN
    <3>1. held' = FALSE \/ held' = (MaxCalls > 0)
      BY <1>1 DEF ConnectionEstablished
    <3>2. (MaxCalls > 0) \in BOOLEAN
      OBVIOUS
    <3>3. QED
      BY <3>1, <3>2, Zenon
  <2>2. QED
    BY <1>1, <2>1 DEF ConnectionEstablished, UpdateChannel, States, TypeOK
<1>2. CASE state_ # "kConnecting"
  BY <1>2 DEF ConnectionEstablished, Abort, Failures, TypeOK
<1>3. QED
  BY <1>1, <1>2

(* The functor at the head of the loop's queue is taken, and nothing else   *)
(* is disturbed by the taking.                                              *)
LEMMA RunsTypes ==
  ASSUME TypeOK, NEW name, Runs(name)
  PROVE  /\ Head(ioQueue) \in Functors
         /\ Head(ioQueue).run = name
         /\ ioQueue' \in Seq(Functors)
BY HeadTailProperties DEF Runs, TypeOK

LEMMA TypeOKStep == TypeOK /\ [Next]_vars => TypeOK'
<1> SUFFICES ASSUME TypeOK, [Next]_vars PROVE TypeOK'
  OBVIOUS
<1> USE TcpConnectionAssumption DEF connVars, serverVars, dataVars, peerVars, appVars
<1>1. CASE NewConnection
  <2>1. CASE pooled
    <3>1. ioQueue' \in Seq(Functors)
      <4>1. Append(ioQueue, Functor("connectionEstablished")) \in Seq(Functors)
        BY FunctorTypes, AppendProperties DEF TypeOK
      <4>2. QED
        BY <1>1, <2>1, <4>1 DEF NewConnection
    <3>2. QED
      BY <1>1, <2>1, <3>1 DEF NewConnection, TypeOK, NumbersLeft
  <2>2. CASE ~pooled
    <3>1. ConnectionEstablished
      BY <1>1, <2>2 DEF NewConnection
    <3>2. QED
      BY <1>1, <2>2, <3>1, ConnectionEstablishedTypes DEF NewConnection, TypeOK, NumbersLeft
  <2>3. QED
    BY <2>1, <2>2
<1>2. ASSUME NEW writable \in BOOLEAN, Poll(writable) PROVE TypeOK'
  BY <1>2 DEF Poll, Reported, TypeOK, NumbersLeft
<1>3. CASE HandleHup
  BY <1>3, HandleCloseTypes DEF HandleHup, TypeOK, NumbersLeft
<1>4. CASE HandleReadData
  <2>1. NumbersLeft' /\ nextMessage' \in Nat \ {0}
    <3>1. nextMessage' \in {nextMessage, nextMessage + 1}
      BY <1>4, ReplyTypes DEF HandleReadData
    <3>2. inbound = TRUE /\ inbound' = FALSE /\ UNCHANGED <<requests, app, calls>>
      BY <1>4 DEF HandleReadData
    <3> DEFINE sends == IF app = "send" THEN 1 ELSE 0
    <3>4. nextMessage + 1 + sends <= 1 + requests + calls
      BY <3>2 DEF TypeOK, NumbersLeft
    <3>5. /\ nextMessage \in Nat /\ nextMessage' \in Nat /\ nextMessage' <= nextMessage + 1
          /\ requests \in Nat /\ calls \in Nat /\ sends \in Nat
      BY <3>1 DEF TypeOK
    <3> HIDE DEF sends
    <3>6. ASSUME NEW next \in Nat, next <= nextMessage + 1
          PROVE  next + 0 + sends <= 1 + requests + calls
      BY <3>4, <3>5, <3>6
    <3>7. nextMessage' + 0 + sends <= 1 + requests + calls
      BY <3>5, <3>6
    <3>8. NumbersLeft'
      BY <3>2, <3>7 DEF NumbersLeft, sends
    <3>9. QED
      BY <3>1, <3>8 DEF TypeOK
  <2>2. CASE UNCHANGED <<state_, events_, status, outputBuffer_, dataVars, readShut,
                         peer, failed>>
    BY <1>4, <2>1, <2>2 DEF HandleReadData, TypeOK
  <2>3. ASSUME NEW close \in BOOLEAN, Reply(close) PROVE TypeOK'
    BY <1>4, <2>1, <2>3, ReplyTypes, ZenonT(30) DEF HandleReadData, TypeOK
  <2>4. QED
    BY <1>4, <2>2, <2>3 DEF HandleReadData
<1>5. CASE HandleReadError
  BY <1>5 DEF HandleReadError, TypeOK, NumbersLeft
<1>6. CASE HandleReadEnd
  BY <1>6, HandleCloseTypes DEF HandleReadEnd, TypeOK, NumbersLeft
<1>7. ASSUME NEW n \in 0..Size, HandleWrite(n) PROVE TypeOK'
  <2>1. CASE "write" \in events_
    BY <1>7, <2>1, WriteOutTypes DEF HandleWrite, TypeOK, NumbersLeft
  <2>2. CASE "write" \notin events_
    BY <1>7, <2>2, ZenonT(30) DEF HandleWrite, TypeOK, NumbersLeft
  <2>3. QED
    BY <2>1, <2>2
<1>8. CASE RunEstablished
  BY <1>8, RunsTypes, ConnectionEstablishedTypes DEF RunEstablished, Runs, TypeOK, NumbersLeft
<1>9. CASE RunSend
  <2>1. Runs("sendInLoop") /\ ioQueue' \in Seq(Functors)
    BY <1>9, RunsTypes DEF RunSend
  <2>2. Head(ioQueue).message \in Messages
    BY <2>1, RunsTypes DEF Functors, SendFunctor, Functor
  <2>3. CASE Alive
    BY <1>9, <2>1, <2>2, <2>3, SendInLoopTypes DEF RunSend, Runs, TypeOK, NumbersLeft
  <2>4. CASE ~Alive
    <3>1. /\ failed' \in Failures
          /\ UNCHANGED <<events_, status, outputBuffer_, wire, handed, peer,
                         state_, revents_, nextMessage, readShut, held>>
      BY <1>9, <2>4 DEF RunSend, Abort, Failures
    <3>2. UNCHANGED <<pooled, created, inMap, baseQueue, inbound, requests, app, calls>>
      BY <2>1 DEF Runs
    <3>3. QED
      BY <2>1, <3>1, <3>2 DEF TypeOK, NumbersLeft
  <2>5. QED
    BY <2>3, <2>4
<1>10. CASE RunShutdown
  BY <1>10, RunsTypes DEF RunShutdown, Runs, ShutdownInLoop, TypeOK, NumbersLeft
<1>11. CASE RunDestroyed
  <2>1. Runs("connectionDestroyed") /\ ioQueue' \in Seq(Functors)
    BY <1>11, RunsTypes DEF RunDestroyed
  <2>2. /\ state_' \in States
        /\ events_' \subseteq {"read", "write"}
        /\ status' \in {"kNew", "kAdded", "kDeleted"}
        /\ failed' \in Failures
    BY <1>11 DEF RunDestroyed, ConnectionDestroyed, RemoveChannel, Abort, States, Failures,
                 TypeOK
  <2>3. QED
    BY <1>11, <2>1, <2>2 DEF RunDestroyed, Runs, TypeOK, NumbersLeft
<1>12. CASE RunRemove
  <2>1. baseQueue' \in Seq({Functor("removeConnectionInLoop")})
    BY <1>12, HeadTailProperties DEF RunRemove, TypeOK
  <2>2. QED
    BY <1>12, <2>1, RemoveConnectionInLoopTypes, ZenonT(30) DEF RunRemove, TypeOK, NumbersLeft
<1>13. ASSUME NEW call \in {"send", "shutdown"}, AppTests(call) PROVE TypeOK'
  BY <1>13 DEF AppTests, TypeOK, NumbersLeft
<1>14. CASE AppSends
  <2>1. nextMessage \in Messages
    BY <1>14, NextIsAMessage DEF AppSends
  <2>2. ioQueue' \in Seq(Functors)
    BY <1>14, <2>1, FunctorTypes, AppendProperties DEF AppSends, TypeOK
  <2>3. QED
    BY <1>14, <2>2 DEF AppSends, TypeOK, NumbersLeft
<1>15. CASE AppShutsDown
  <2>1. ioQueue' \in Seq(Functors)
    BY <1>15, FunctorTypes, AppendProperties DEF AppShutsDown, TypeOK
  <2>2. QED
    BY <1>15, <2>1 DEF AppShutsDown, States, TypeOK, NumbersLeft
<1>16. CASE AppLetsGo
  BY <1>16 DEF AppLetsGo, TypeOK, NumbersLeft
<1>17. CASE PeerSends
  BY <1>17 DEF PeerSends, TypeOK, NumbersLeft
<1>18. CASE PeerCloses
  BY <1>18 DEF PeerCloses, TypeOK, NumbersLeft
<1>19. CASE PeerResets
  <2>1. NumbersLeft'
    <3>1. inbound' = FALSE /\ UNCHANGED <<nextMessage, requests, app, calls>>
      BY <1>19 DEF PeerResets
    <3>2. QED
      BY <3>1 DEF TypeOK, NumbersLeft
  <2>2. QED
    BY <1>19, <2>1 DEF PeerResets, TypeOK
<1>20. CASE UNCHANGED vars
  BY <1>20 DEF vars, TypeOK, NumbersLeft
<1>21. QED
  BY <1>1, <1>2, <1>3, <1>4, <1>5, <1>6, <1>7, <1>8, <1>9, <1>10, <1>11, <1>12,
     <1>13, <1>14, <1>15, <1>16, <1>17, <1>18, <1>19, <1>20
     DEF Next, IoStep, AppStep, PeerStep

LEMMA InitTypeOK == Init => TypeOK
<1>1. /\ <<>> \in Seq(Unit) /\ <<>> \in Seq(Functors) /\ <<>> \in Seq(Messages)
      /\ <<>> \in Seq({Functor("removeConnectionInLoop")})
  OBVIOUS
<1>2. Init => NumbersLeft
  <2> SUFFICES ASSUME Init PROVE NumbersLeft
    OBVIOUS
  <2>2. nextMessage = 1 /\ inbound = FALSE /\ app # "send" /\ requests = 0 /\ calls = 0
    BY DEF Init
  <2>3. QED
    BY <2>2 DEF NumbersLeft
<1>3. Init => /\ outputBuffer_ \in Seq(Unit) /\ ioQueue \in Seq(Functors)
              /\ baseQueue \in Seq({Functor("removeConnectionInLoop")})
              /\ wire \in Seq(Unit) /\ handed \in Seq(Messages)
  BY <1>1 DEF Init
<1>4. Init => /\ pooled \in BOOLEAN /\ created \in BOOLEAN /\ inMap \in BOOLEAN
              /\ state_ \in States
              /\ events_ \subseteq {"read", "write"}
              /\ status \in {"kNew", "kAdded", "kDeleted"}
              /\ revents_ \subseteq {"HUP", "IN", "OUT"}
  BY DEF Init, States
<1>5. Init => /\ readShut \in BOOLEAN
              /\ peer \in {"open", "fin", "reset", "gone"}
              /\ inbound \in BOOLEAN
              /\ held \in BOOLEAN
              /\ app \in {"idle", "send", "shutdown"}
              /\ failed \in Failures
  BY DEF Init, Failures
<1>6. Init => nextMessage \in Nat \ {0} /\ requests \in 0..MaxRequests /\ calls \in 0..MaxCalls
  BY TcpConnectionAssumption DEF Init
<1>7. QED
  BY <1>2, <1>3, <1>4, <1>5, <1>6 DEF TypeOK

(* Type correctness, for messages of every size. *)
THEOREM TypeCorrect == Spec => []TypeOK
BY InitTypeOK, TypeOKStep, PTL DEF Spec

----------------------------------------------------------------------------
(* WriteInterestIsPendingOutput speaks of connections that read.  What makes *)
(* it inductive: before connectionEstablished() nothing that could send has  *)
(* the connection, so reading begins with no output and no interest in it.   *)
BeforeEstablished ==
  state_ = "kConnecting" =>
    /\ events_ = {} /\ status = "kNew" /\ revents_ = {} /\ outputBuffer_ = <<>>
    /\ ~held /\ app = "idle"
    /\ \A i \in DOMAIN ioQueue : ioQueue[i].run \notin {"sendInLoop", "shutdownInLoop"}

(* The functors of a queue after its head is taken, or one is added, are of  *)
(* the kinds there were before, or of the kind of that one.                  *)
LEMMA TakenRuns ==
  ASSUME NEW q \in Seq(Functors), q # <<>>, NEW kinds,
         \A i \in DOMAIN q : q[i].run \notin kinds
  PROVE  \A i \in DOMAIN Tail(q) : Tail(q)[i].run \notin kinds
<1>1. Tail(q) \in Seq(Functors) /\ Len(Tail(q)) = Len(q) - 1
  BY HeadTailProperties
<1>2. \A i \in 1..Len(Tail(q)) : i + 1 \in DOMAIN q /\ Tail(q)[i] = q[i + 1]
  BY <1>1, HeadTailProperties
<1>3. DOMAIN Tail(q) = 1..Len(Tail(q))
  BY <1>1
<1>4. QED
  BY <1>2, <1>3

LEMMA AddedRuns ==
  ASSUME NEW q \in Seq(Functors), NEW f \in Functors, NEW kinds, f.run \notin kinds,
         \A i \in DOMAIN q : q[i].run \notin kinds
  PROVE  \A i \in DOMAIN Append(q, f) : Append(q, f)[i].run \notin kinds
<1>1. Append(q, f) \in Seq(Functors) /\ Len(Append(q, f)) = Len(q) + 1
  BY AppendProperties
<1>2. \A i \in 1..Len(q) + 1 :
        Append(q, f)[i] = IF i = Len(q) + 1 THEN f ELSE q[i]
  BY AppendProperties
<1>3. DOMAIN Append(q, f) = 1..Len(q) + 1 /\ DOMAIN q = 1..Len(q)
  BY <1>1
<1>4. QED
  BY <1>2, <1>3

LEMMA BeforeEstablishedStep ==
  TypeOK /\ BeforeEstablished /\ [Next]_vars => BeforeEstablished'
<1> SUFFICES ASSUME TypeOK, BeforeEstablished, [Next]_vars, state_' = "kConnecting"
             PROVE  BeforeEstablished'
  BY DEF BeforeEstablished
<1> USE DEF connVars, serverVars, dataVars, peerVars, appVars
<1> DEFINE kinds == {"sendInLoop", "shutdownInLoop"}
           Quiet(q) == \A i \in DOMAIN q : q[i].run \notin kinds
(* No step goes back to kConnecting. *)
<1>0. state_ = "kConnecting"
  <2>1. CASE NewConnection
    BY <2>1 DEF NewConnection, ConnectionEstablished
  <2>2. CASE IoStep
    BY <2>2 DEF IoStep, Poll, HandleHup, HandleReadData, HandleReadError, HandleReadEnd,
                HandleWrite, HandleClose, Reply, RunEstablished, ConnectionEstablished, RunSend,
                RunShutdown, RunDestroyed, ConnectionDestroyed
  <2>3. CASE RunRemove
    BY <2>3 DEF RunRemove
  <2>4. CASE AppStep
    BY <2>4 DEF AppStep, AppTests, AppSends, AppShutsDown, AppLetsGo
  <2>5. CASE PeerStep
    BY <2>5 DEF PeerStep, PeerSends, PeerCloses, PeerResets
  <2>6. QED
    BY <2>1, <2>2, <2>3, <2>4, <2>5 DEF Next, vars
<1>1. /\ events_ = {} /\ status = "kNew" /\ revents_ = {} /\ outputBuffer_ = <<>>
      /\ ~held /\ app = "idle" /\ Quiet(ioQueue)
  BY <1>0 DEF BeforeEstablished
<1>2. ioQueue \in Seq(Functors)
  BY DEF TypeOK
<1> HIDE DEF Quiet
<1>3. \A f \in Functors : f.run \notin kinds => Quiet(Append(ioQueue, f))
  BY <1>1, <1>2, AddedRuns DEF Quiet
<1>4. ioQueue # <<>> => Quiet(Tail(ioQueue)) /\ Head(ioQueue).run \notin kinds
  <2> SUFFICES ASSUME ioQueue # <<>>
               PROVE  Quiet(Tail(ioQueue)) /\ Head(ioQueue).run \notin kinds
    OBVIOUS
  <2>1. Quiet(Tail(ioQueue))
    BY <1>1, <1>2, TakenRuns DEF Quiet
  <2>2. 1 \in DOMAIN ioQueue /\ Head(ioQueue) = ioQueue[1]
    BY <1>2
  <2>3. QED
    BY <1>1, <2>1, <2>2 DEF Quiet
<1>5. SUFFICES /\ events_' = {} /\ status' = "kNew" /\ revents_' = {} /\ outputBuffer_' = <<>>
               /\ ~held' /\ app' = "idle" /\ Quiet(ioQueue')
  BY DEF BeforeEstablished, Quiet
<1>6. CASE NewConnection
  <2>1. pooled
    BY <1>0, <1>6 DEF NewConnection, ConnectionEstablished
  <2>2. Quiet(ioQueue')
    BY <1>3, <1>6, <2>1, FunctorTypes DEF NewConnection, Functor
  <2>3. QED
    BY <1>1, <1>6, <2>1, <2>2 DEF NewConnection
<1>7. CASE IoStep
  <2>1. \E name \in {"connectionEstablished", "sendInLoop", "shutdownInLoop",
                     "connectionDestroyed"} : Runs(name)
    BY <1>1, <1>7 DEF IoStep, Poll, HandleHup, HandleReadData, HandleReadError, HandleReadEnd,
                      HandleWrite, RunEstablished, RunSend, RunShutdown, RunDestroyed
  <2>2. Head(ioQueue).run \notin kinds /\ Quiet(ioQueue')
    BY <1>4, <2>1 DEF Runs
  <2>3. RunEstablished \/ RunDestroyed
    BY <1>1, <1>7, <2>2 DEF IoStep, Poll, HandleHup, HandleReadData, HandleReadError,
                      HandleReadEnd, HandleWrite, RunSend, RunShutdown, Runs
  <2>4. RunDestroyed
    BY <1>0, <2>3 DEF RunEstablished, ConnectionEstablished
  <2>5. QED
    BY <1>1, <2>2, <2>4 DEF RunDestroyed, Runs, ConnectionDestroyed, RemoveChannel
<1>8. CASE RunRemove
  <2>1. Quiet(ioQueue')
    BY <1>1, <1>3, <1>8, FunctorTypes DEF RunRemove, RemoveConnectionInLoop, Functor
  <2>2. QED
    BY <1>1, <1>8, <2>1 DEF RunRemove
<1>9. CASE AppStep
  BY <1>1, <1>9 DEF AppStep, AppTests, AppSends, AppShutsDown, AppLetsGo
<1>10. CASE PeerStep
  BY <1>1, <1>10 DEF PeerStep, PeerSends, PeerCloses, PeerResets
<1>11. CASE UNCHANGED vars
  BY <1>1, <1>11 DEF vars
<1>12. QED
  BY <1>6, <1>7, <1>8, <1>9, <1>10, <1>11 DEF Next

(* What a message leaves behind is never the empty rest of itself. *)
LEMMA SendInLoopInterest ==
  ASSUME TypeOK, WriteInterestIsPendingOutput, NEW m \in Messages, SendInLoop(m)
  PROVE  /\ WriteInterestIsPendingOutput'
         /\ "read" \in events_' <=> "read" \in events_
<1>1. CASE "write" \notin events_ /\ outputBuffer_ = <<>>
  <2>1. PICK n \in 0..Size :
          /\ WriteTakes(Units(m), n)
          /\ IF n < Size
             THEN /\ outputBuffer_' = SubSeq(Units(m), n + 1, Size)
                  /\ UpdateChannel(events_ \union {"write"})
             ELSE UNCHANGED <<outputBuffer_, events_, status>>
    BY <1>1 DEF SendInLoop
  <2>2. n < Size => SubSeq(Units(m), n + 1, Size) # <<>>
    <3>1. Len(SubSeq(Units(m), n + 1, Size)) = Size - n
      BY UnitsType, SplitUnits
    <3>2. Size \in Nat /\ Len(<<>>) = 0
      BY TcpConnectionAssumption
    <3>3. n < Size => Size - n # 0
      BY <3>2
    <3>4. QED
      BY <3>1, <3>2, <3>3
  <2>3. CASE n < Size
    <3>1. outputBuffer_' # <<>> /\ events_' = events_ \union {"write"}
      BY <2>1, <2>2, <2>3 DEF UpdateChannel
    <3>2. QED
      BY <3>1 DEF WriteInterestIsPendingOutput
  <2>4. CASE ~(n < Size)
    BY <2>1, <2>4 DEF WriteInterestIsPendingOutput
  <2>5. QED
    BY <2>3, <2>4
<1>2. CASE ~("write" \notin events_ /\ outputBuffer_ = <<>>)
  BY <1>2 DEF SendInLoop, WriteInterestIsPendingOutput
<1>3. QED
  BY <1>1, <1>2

LEMMA WriteOutInterest ==
  ASSUME TypeOK, WriteInterestIsPendingOutput, NEW n \in 0..Size, WriteOut(n),
         "write" \in events_
  PROVE  /\ WriteInterestIsPendingOutput'
         /\ "read" \in events_' <=> "read" \in events_
<1>1. n \in 0..Len(outputBuffer_)
  BY DEF WriteOut, WriteTakes
<1>2. n = 0 => outputBuffer_' = outputBuffer_
  BY <1>1, SubSeqFull DEF WriteOut, TypeOK
<1>3. CASE n > 0 /\ outputBuffer_' = <<>>
  BY <1>3 DEF WriteOut, UpdateChannel, WriteInterestIsPendingOutput
<1>4. CASE ~(n > 0 /\ outputBuffer_' = <<>>)
  <2>1. UNCHANGED <<events_, status, readShut>>
    BY <1>4 DEF WriteOut
  <2>2. n = 0 \/ outputBuffer_' # <<>>
    BY <1>4
  <2>3. QED
    BY <1>2, <2>1, <2>2 DEF WriteInterestIsPendingOutput
<1>5. QED
  BY <1>3, <1>4

LEMMA WriteInterestStep ==
  TypeOK /\ BeforeEstablished /\ WriteInterestIsPendingOutput /\ [Next]_vars
    => WriteInterestIsPendingOutput'
<1> SUFFICES ASSUME TypeOK, BeforeEstablished, WriteInterestIsPendingOutput, [Next]_vars
             PROVE  WriteInterestIsPendingOutput'
  OBVIOUS
<1> USE DEF connVars, serverVars, dataVars, peerVars, appVars
(* Reading begins with nothing to write. *)
<1>1. ConnectionEstablished /\ UNCHANGED outputBuffer_ => WriteInterestIsPendingOutput'
  <2> SUFFICES ASSUME ConnectionEstablished, UNCHANGED outputBuffer_
               PROVE  WriteInterestIsPendingOutput'
    OBVIOUS
  <2>1. CASE state_ = "kConnecting"
    <3>1. events_ = {} /\ outputBuffer_ = <<>>
      BY <2>1 DEF BeforeEstablished
    <3>2. events_' = events_ \union {"read"}
      BY <2>1 DEF ConnectionEstablished, UpdateChannel
    <3>3. QED
      BY <3>1, <3>2 DEF WriteInterestIsPendingOutput
  <2>2. CASE state_ # "kConnecting"
    BY <2>2 DEF ConnectionEstablished, WriteInterestIsPendingOutput
  <2>3. QED
    BY <2>1, <2>2
(* handleClose() ends it. *)
<1>2. HandleClose /\ UNCHANGED outputBuffer_ => WriteInterestIsPendingOutput'
  BY DEF HandleClose, UpdateChannel, WriteInterestIsPendingOutput
<1>3. UNCHANGED <<events_, outputBuffer_>> => WriteInterestIsPendingOutput'
  BY DEF WriteInterestIsPendingOutput
<1>4. CASE NewConnection
  BY <1>1, <1>3, <1>4 DEF NewConnection
<1>5. CASE HandleHup
  BY <1>2, <1>5 DEF HandleHup
<1>6. CASE HandleReadData
  <2>1. ASSUME NEW close \in BOOLEAN, Reply(close), state_ = "kConnected"
        PROVE  WriteInterestIsPendingOutput'
    BY <1>6, <2>1, NextIsAMessage, SendInLoopInterest DEF Reply, HandleReadData
  <2>2. QED
    BY <1>3, <1>6, <2>1 DEF HandleReadData, Reply
<1>7. CASE HandleReadEnd
  BY <1>2, <1>7 DEF HandleReadEnd
<1>8. ASSUME NEW n \in 0..Size, HandleWrite(n) PROVE WriteInterestIsPendingOutput'
  BY <1>3, <1>8, WriteOutInterest DEF HandleWrite
<1>9. CASE RunEstablished
  BY <1>1, <1>9 DEF RunEstablished
<1>10. CASE RunSend
  <2>1. Head(ioQueue).message \in Messages
    <3>1. Runs("sendInLoop")
      BY <1>10 DEF RunSend
    <3>2. Head(ioQueue) \in Functors /\ Head(ioQueue).run = "sendInLoop"
      BY <3>1, RunsTypes
    <3>3. QED
      BY <3>2 DEF Functors, SendFunctor, Functor
  <2>2. QED
    BY <1>3, <1>10, <2>1, SendInLoopInterest DEF RunSend
<1>11. CASE RunDestroyed
  BY <1>11 DEF RunDestroyed, ConnectionDestroyed, RemoveChannel, WriteInterestIsPendingOutput
<1>12. CASE \/ \E writable \in BOOLEAN : Poll(writable)
            \/ HandleReadError \/ RunShutdown \/ RunRemove \/ AppStep \/ PeerStep
            \/ UNCHANGED vars
  BY <1>3, <1>12 DEF Poll, HandleReadError, RunShutdown, RunRemove,
       AppStep, AppTests, AppSends, AppShutsDown, AppLetsGo,
       PeerStep, PeerSends, PeerCloses, PeerResets, vars
<1>13. QED
  BY <1>4, <1>5, <1>6, <1>7, <1>8, <1>9, <1>10, <1>11, <1>12 DEF Next, IoStep

WriteInv == TypeOK /\ BeforeEstablished /\ WriteInterestIsPendingOutput

LEMMA WriteInvCorrect == Spec => []WriteInv
<1>1. Init => TypeOK /\ BeforeEstablished /\ WriteInterestIsPendingOutput
  <2>1. Init => TypeOK
    BY InitTypeOK
  <2>2. Init => BeforeEstablished
    BY DEF Init, BeforeEstablished
  <2>3. Init => WriteInterestIsPendingOutput
    BY DEF Init, WriteInterestIsPendingOutput
  <2>4. QED
    BY <2>1, <2>2, <2>3
<1>2. QED
  BY <1>1, TypeOKStep, BeforeEstablishedStep, WriteInterestStep, PTL DEF Spec, WriteInv

(* Channel.h:99-104: a connection that reads asks for write events exactly   *)
(* while it has output, whatever the application thread sends (WriteInterest-*)
(* IsPendingOutput).                                                         *)
THEOREM WriteInterestCorrect == Spec => []WriteInterestIsPendingOutput
BY WriteInvCorrect, PTL DEF WriteInv

(* Until handleClose() has thrown the output away, the socket is shut down   *)
(* only when none of it is left (ShutdownAfterFlush).                        *)
THEOREM ShutdownAfterFlushCorrect == Spec => ShutdownAfterFlush
<1> DEFINE Flushed == ~readShut /\ readShut' /\ "read" \in events_ => outputBuffer_' = <<>>
<1>1. ASSUME WriteInv, WriteInv', [Next]_vars PROVE [Flushed]_vars
  <2> SUFFICES ASSUME Next, ~readShut, readShut', "read" \in events_
               PROVE  outputBuffer_' = <<>>
    BY <1>1
  <2> USE DEF connVars, serverVars, dataVars, peerVars, appVars
  <2>1. CASE HandleReadData
    <3>1. PICK close \in BOOLEAN : Reply(close) /\ state_ = "kConnected" /\ close
      BY <2>1 DEF HandleReadData, Reply
    <3>2. SendInLoop(nextMessage) /\ "write" \notin events_'
      BY <3>1 DEF Reply, ShutdownInLoop
    <3>3. "read" \in events_'
      BY <1>1, <2>1, <3>2, NextIsAMessage, SendInLoopInterest DEF WriteInv, HandleReadData
    <3>4. QED
      BY <1>1, <3>2, <3>3 DEF WriteInv, WriteInterestIsPendingOutput
  <2>2. ASSUME NEW n \in 0..Size, HandleWrite(n) PROVE outputBuffer_' = <<>>
    BY <2>2 DEF HandleWrite, WriteOut
  <2>3. CASE RunShutdown
    BY <1>1, <2>3 DEF RunShutdown, ShutdownInLoop, WriteInv, WriteInterestIsPendingOutput
  <2>4. CASE \/ NewConnection
             \/ \E writable \in BOOLEAN : Poll(writable)
             \/ HandleHup \/ HandleReadError \/ HandleReadEnd
             \/ RunEstablished \/ RunSend \/ RunDestroyed \/ RunRemove
             \/ AppStep \/ PeerStep
    BY <2>4 DEF NewConnection, Poll, HandleHup, HandleReadError, HandleReadEnd,
         RunEstablished, RunSend, RunDestroyed, RunRemove,
         AppStep, AppTests, AppSends, AppShutsDown, AppLetsGo,
         PeerStep, PeerSends, PeerCloses, PeerResets
  <2>5. QED
    BY <2>1, <2>2, <2>3, <2>4 DEF Next, IoStep
<1>2. QED
  BY <1>1, WriteInvCorrect, PTL DEF Spec, ShutdownAfterFlush

----------------------------------------------------------------------------
(* IoThreadUseIsSafe holds because a connection that only its own thread     *)
(* uses is in one of four phases, each with the functors that lead out of it.*)
NotMade ==
  /\ state_ = "kConnecting"
  /\ ~created /\ ~inMap /\ ioQueue = <<>> /\ baseQueue = <<>>

Made ==
  /\ state_ = "kConnecting"
  /\ created /\ inMap /\ baseQueue = <<>>
  /\ ioQueue = <<Functor("connectionEstablished")>>

Open ==
  /\ state_ \in {"kConnected", "kDisconnecting"}
  /\ status = "kAdded" /\ "read" \in events_ /\ "HUP" \notin revents_
  /\ created /\ inMap /\ ioQueue = <<>> /\ baseQueue = <<>>

Closed ==
  /\ state_ = "kDisconnected" /\ events_ = {} /\ revents_ \subseteq {"OUT"} /\ created
  /\ \/ /\ status = "kDeleted" /\ inMap /\ ioQueue = <<>>
        /\ baseQueue = <<Functor("removeConnectionInLoop")>>
     \/ /\ status = "kDeleted" /\ ~inMap /\ baseQueue = <<>>
        /\ ioQueue = <<Functor("connectionDestroyed")>>
     \/ /\ status = "kNew" /\ revents_ = {} /\ ~inMap /\ ioQueue = <<>> /\ baseQueue = <<>>

Lifecycle ==
  calls = 0 =>
    /\ app = "idle"
    /\ failed \in {"none", "SIGPIPE"}
    /\ NotMade \/ Made \/ Open \/ Closed

LEMMA LifecycleIsSafe == Lifecycle => IoThreadUseIsSafe
<1> SUFFICES ASSUME Lifecycle, calls = 0, created, ~Alive
             PROVE  state_ = "kDisconnected" /\ status = "kNew"
  BY DEF Lifecycle, IoThreadUseIsSafe
<1>1. ~inMap /\ baseQueue = <<>>
  BY DEF Alive
<1>2. ioQueue # <<Functor("connectionDestroyed")>>
  <2>1. <<Functor("connectionDestroyed")>>[1].run # "sendInLoop"
    BY DEF Functor
  <2>2. 1 \in DOMAIN <<Functor("connectionDestroyed")>>
    OBVIOUS
  <2>3. QED
    BY <2>1, <2>2 DEF Alive
<1>3. QED
  BY <1>1, <1>2 DEF Lifecycle, NotMade, Made, Open, Closed

(* What the head of each phase's queue is, and what is behind it. *)
LEMMA OneFunctor ==
  ASSUME NEW f
  PROVE  <<f>> # <<>> /\ Head(<<f>>) = f /\ Tail(<<f>>) = <<>> /\ Append(<<>>, f) = <<f>>
OBVIOUS

LEMMA LifecycleStep ==
  TypeOK /\ BeforeEstablished /\ Lifecycle /\ [Next]_vars => Lifecycle'
<1> SUFFICES ASSUME TypeOK, BeforeEstablished, Lifecycle, [Next]_vars, calls' = 0
             PROVE  /\ app' = "idle"
                    /\ failed' \in {"none", "SIGPIPE"}
                    /\ NotMade' \/ Made' \/ Open' \/ Closed'
  BY DEF Lifecycle
<1> USE DEF connVars, serverVars, dataVars, peerVars, appVars
<1>1. calls = 0
  <2>1. ~ \E call \in {"send", "shutdown"} : AppTests(call)
    BY DEF AppTests, TypeOK
  <2>2. QED
    BY <2>1 DEF Next, NewConnection, IoStep, Poll, HandleHup, HandleReadData, HandleReadError,
         HandleReadEnd, HandleWrite, RunEstablished, RunSend, RunShutdown, RunDestroyed, Runs,
         RunRemove, AppStep, AppSends, AppShutsDown, AppLetsGo,
         PeerStep, PeerSends, PeerCloses, PeerResets, vars
<1>2. /\ app = "idle" /\ failed \in {"none", "SIGPIPE"}
      /\ NotMade \/ Made \/ Open \/ Closed
  BY <1>1 DEF Lifecycle
(* Before it is established a connection asks for nothing and reports nothing. *)
<1>3. NotMade \/ Made =>
        events_ = {} /\ status = "kNew" /\ revents_ = {} /\ outputBuffer_ = <<>>
  BY DEF NotMade, Made, BeforeEstablished
<1>4. CASE NewConnection
  <2>1. NotMade
    BY <1>2, <1>4 DEF NewConnection, Made, Open, Closed
  <2>2. CASE pooled
    BY <1>2, <1>4, <2>1, <2>2, OneFunctor DEF NewConnection, NotMade, Made
  <2>3. CASE ~pooled
    BY <1>2, <1>3, <1>4, <2>1, <2>3
       DEF NewConnection, ConnectionEstablished, UpdateChannel, NotMade, Open
  <2>4. QED
    BY <2>2, <2>3
<1>5. ASSUME NEW writable \in BOOLEAN, Poll(writable)
      PROVE  app' = "idle" /\ failed' \in {"none", "SIGPIPE"} /\ Open'
  <2>1. Open
    BY <1>2, <1>3, <1>5 DEF Poll, Closed
  <2>2. QED
    BY <1>2, <1>5, <2>1 DEF Poll, Reported, Open
<1>6. CASE HandleHup
  BY <1>2, <1>3, <1>6 DEF HandleHup, Open, Closed
<1>7. CASE HandleReadData
  <2>1. Open
    BY <1>2, <1>3, <1>7 DEF HandleReadData, Closed
  <2>2. ASSUME NEW close \in BOOLEAN, Reply(close), state_ = "kConnected"
        PROVE  /\ failed' \in {"none", "SIGPIPE"}
               /\ state_' \in {"kConnected", "kDisconnecting"}
               /\ status' = "kAdded" /\ "read" \in events_'
    BY <1>2, <2>1, <2>2 DEF Reply, SendInLoop, WriteTakes, UpdateChannel, Abort, Open
  <2>3. ASSUME UNCHANGED <<state_, events_, status, failed>>
        PROVE  /\ failed' \in {"none", "SIGPIPE"}
               /\ state_' \in {"kConnected", "kDisconnecting"}
               /\ status' = "kAdded" /\ "read" \in events_'
    BY <1>2, <2>1, <2>3 DEF Open
  <2>4. /\ failed' \in {"none", "SIGPIPE"}
        /\ state_' \in {"kConnected", "kDisconnecting"}
        /\ status' = "kAdded" /\ "read" \in events_'
    BY <1>7, <2>2, <2>3 DEF HandleReadData, Reply
  <2>5. QED
    BY <1>2, <1>7, <2>1, <2>4 DEF HandleReadData, Open
<1>8. CASE HandleReadError
  BY <1>2, <1>3, <1>8 DEF HandleReadError, Open, Closed
<1>9. CASE HandleReadEnd
  <2>1. Open
    BY <1>2, <1>3, <1>9 DEF HandleReadEnd, Closed
  <2>2. /\ state_' = "kDisconnected" /\ events_' = {} /\ status' = "kDeleted"
        /\ RemoveConnection
    BY <1>9, <2>1 DEF HandleReadEnd, HandleClose, UpdateChannel, Open
  <2>3. revents_' \subseteq {"OUT"}
    BY <1>9, <2>1 DEF HandleReadEnd, Open, TypeOK
  <2>4. CASE pooled
    BY <1>2, <1>9, <2>1, <2>2, <2>3, <2>4, OneFunctor
       DEF HandleReadEnd, RemoveConnection, Open, Closed
  <2>5. CASE ~pooled
    BY <1>2, <1>9, <2>1, <2>2, <2>3, <2>5, OneFunctor
       DEF HandleReadEnd, RemoveConnection, RemoveConnectionInLoop, Open, Closed
  <2>6. QED
    BY <2>4, <2>5
<1>10. ASSUME NEW n \in 0..Size, HandleWrite(n)
       PROVE  /\ app' = "idle" /\ failed' \in {"none", "SIGPIPE"}
              /\ Open' \/ Closed'
  <2>1. CASE "write" \in events_
    <3>1. Open
      BY <1>2, <1>3, <2>1 DEF Closed
    <3>2. /\ failed' \in {"none", "SIGPIPE"}
          /\ status' = "kAdded" /\ "read" \in events_'
      BY <1>2, <1>10, <2>1, <3>1 DEF HandleWrite, WriteOut, WriteTakes, UpdateChannel, Abort, Open
    <3>3. QED
      BY <1>2, <1>10, <3>1, <3>2 DEF HandleWrite, Open
  <2>2. CASE "write" \notin events_
    <3>1. /\ revents_ = {"OUT"} /\ revents_' = {}
          /\ UNCHANGED <<state_, events_, status, failed, created, inMap, ioQueue, baseQueue, app>>
      BY <1>10, <2>2 DEF HandleWrite
    <3>2. Open \/ Closed
      BY <1>2, <1>3, <3>1
    <3>3. QED
      BY <1>2, <3>1, <3>2 DEF Open, Closed
  <2>3. QED
    BY <2>1, <2>2
<1>11. CASE RunEstablished
  <2>1. Made
    BY <1>2, <1>11, OneFunctor DEF RunEstablished, Runs, NotMade, Open, Closed, Functor
  <2>2. /\ state_' = "kConnected" /\ status' = "kAdded" /\ "read" \in events_'
        /\ failed' = failed
    BY <1>3, <1>11, <2>1 DEF RunEstablished, ConnectionEstablished, UpdateChannel, Made
  <2>3. ioQueue' = <<>> /\ UNCHANGED <<created, inMap, baseQueue, revents_, app>>
    BY <1>11, <2>1, OneFunctor DEF RunEstablished, Runs, Made
  <2>4. QED
    BY <1>2, <1>3, <2>1, <2>2, <2>3 DEF Made, Open
<1>12. CASE RunSend \/ RunShutdown
  <2>1. ioQueue # <<>> /\ Head(ioQueue).run \in {"sendInLoop", "shutdownInLoop"}
    BY <1>12 DEF RunSend, RunShutdown, Runs
  <2>2. \/ ioQueue = <<>>
        \/ ioQueue = <<Functor("connectionEstablished")>>
        \/ ioQueue = <<Functor("connectionDestroyed")>>
    BY <1>2 DEF NotMade, Made, Open, Closed
  <2>3. QED
    BY <2>1, <2>2, OneFunctor DEF Functor
<1>13. CASE RunDestroyed
  <2>1. Closed /\ ioQueue = <<Functor("connectionDestroyed")>>
    BY <1>2, <1>13, OneFunctor DEF RunDestroyed, Runs, NotMade, Made, Open, Closed, Functor
  <2>2. /\ state_' = "kDisconnected" /\ events_' = {} /\ status' = "kNew" /\ failed' = failed
    BY <1>13, <2>1 DEF RunDestroyed, ConnectionDestroyed, RemoveChannel, Closed
  <2>3. /\ revents_' = {} /\ ioQueue' = <<>>
        /\ UNCHANGED <<created, inMap, baseQueue, app>>
    BY <1>13, <2>1, OneFunctor DEF RunDestroyed, Runs
  <2>4. ~inMap /\ baseQueue = <<>>
    BY <2>1, OneFunctor DEF Closed
  <2>5. QED
    BY <1>2, <2>1, <2>2, <2>3, <2>4 DEF Closed
<1>14. CASE RunRemove
  <2>1. Closed /\ inMap /\ ioQueue = <<>> /\ status = "kDeleted"
        /\ baseQueue = <<Functor("removeConnectionInLoop")>>
    BY <1>2, <1>14 DEF RunRemove, NotMade, Made, Open, Closed
  <2>2. QED
    BY <1>2, <1>14, <2>1, OneFunctor DEF RunRemove, RemoveConnectionInLoop, Closed
<1>15. CASE AppStep \/ PeerStep \/ UNCHANGED vars
  <2>1. UNCHANGED <<state_, events_, status, revents_, created, inMap, ioQueue, baseQueue, app,
                    failed>>
    BY <1>1, <1>2, <1>15 DEF AppStep, AppTests, AppSends, AppShutsDown, AppLetsGo,
         PeerStep, PeerSends, PeerCloses, PeerResets, vars, TypeOK
  <2>2. QED
    BY <1>2, <2>1 DEF NotMade, Made, Open, Closed
<1>16. QED
  BY <1>4, <1>5, <1>6, <1>7, <1>8, <1>9, <1>10, <1>11, <1>12, <1>13, <1>14, <1>15
     DEF Next, IoStep

(* While send() and shutdown() are called in its own thread only, no        *)
(* assertion fails, no functor outlives the connection, and it is destroyed *)
(* as its destructors demand (IoThreadUseIsSafe).                           *)
THEOREM IoThreadUseCorrect == Spec => []IoThreadUseIsSafe
<1>1. Init => Lifecycle
  BY DEF Init, Lifecycle, NotMade
<1>2. Spec => [](TypeOK /\ BeforeEstablished)
  BY WriteInvCorrect, PTL DEF WriteInv
<1>3. QED
  BY <1>1, <1>2, LifecycleStep, LifecycleIsSafe, PTL DEF Spec

----------------------------------------------------------------------------
(* WireIsWholeMessages reads the messages off the units; an induction needs  *)
(* to know where they came from: f[k] is the place in given of the k-th one. *)
MadeOf(out, given, f) ==
  /\ Len(out) = Size * Len(f)
  /\ \A k \in 1..Len(f) : f[k] \in 1..Len(given)
  /\ \A j, k \in 1..Len(f) : j < k => f[j] < f[k]
  /\ \A k \in 1..Len(f) : \A i \in 1..Size : out[Size * (k - 1) + i] = <<given[f[k]], i>>

(* Where the units of the k-th message are, and where messages begin. *)
LEMMA PlacesOfUnits ==
  ASSUME NEW n \in Nat, NEW k \in 1..n, NEW i \in 1..Size
  PROVE  Size * (k - 1) + i \in 1..Size * n
BY TcpConnectionAssumption

LEMMA PlacesOfMessages ==
  ASSUME NEW n \in Nat, NEW p \in 1..Size * n, p % Size = 1 \/ Size = 1
  PROVE  \E k \in 1..n : p = Size * (k - 1) + 1
<1>1. Size \in Nat \ {0}
  BY TcpConnectionAssumption
<1>2. CASE Size = 1
  <2>1. p \in 1..n /\ p = Size * (p - 1) + 1
    BY <1>2
  <2>2. QED
    BY <2>1
<1>3. CASE p % Size = 1
  <2> DEFINE q == p \div Size
  <2>1. q \in Nat /\ p = Size * q + 1
    BY <1>1, <1>3
  <2> HIDE DEF q
  <2>2. q < n
    <3>1. Size * q < Size * n
      BY <1>1, <2>1
    <3>2. QED
      BY <1>1, <2>1, <3>1
  <2>3. q + 1 \in 1..n /\ p = Size * ((q + 1) - 1) + 1
    BY <1>1, <2>1, <2>2
  <2>4. QED
    BY <2>3
<1>4. QED
  BY <1>2, <1>3

(* A message handed over and written, or kept, after all the others. *)
LEMMA MadeOfOneMore ==
  ASSUME NEW out \in Seq(Unit), NEW given \in Seq(Messages), NEW f \in Seq(Nat),
         MadeOf(out, given, f), NEW m \in Messages
  PROVE  MadeOf(out \o Units(m), Append(given, m), Append(f, Len(given) + 1))
<1> DEFINE out2 == out \o Units(m)
           given2 == Append(given, m)
           n == Len(f)
           g == Len(given)
           f2 == Append(f, g + 1)
<1>1. Size \in Nat \ {0} /\ n \in Nat /\ g \in Nat /\ Len(out) \in Nat
  BY TcpConnectionAssumption
<1>2. /\ Len(out2) = Len(out) + Size
      /\ \A p \in 1..Len(out) + Size :
           out2[p] = IF p <= Len(out) THEN out[p] ELSE Units(m)[p - Len(out)]
  BY UnitsType, ConcatProperties
<1>3. /\ Len(given2) = g + 1
      /\ \A p \in 1..g : given2[p] = given[p]
      /\ given2[g + 1] = m
  BY AppendProperties
<1>4. /\ Len(f2) = n + 1
      /\ \A k \in 1..n : f2[k] = f[k]
      /\ f2[n + 1] = g + 1
  BY <1>1, AppendProperties
<1>5. /\ Len(out) = Size * n
      /\ \A k \in 1..n : f[k] \in 1..g
      /\ \A j, k \in 1..n : j < k => f[j] < f[k]
      /\ \A k \in 1..n : \A i \in 1..Size : out[Size * (k - 1) + i] = <<given[f[k]], i>>
  BY DEF MadeOf
<1> HIDE DEF out2, given2, f2, n, g
<1>6. Len(out2) = Size * Len(f2)
  BY <1>1, <1>2, <1>4, <1>5
<1>7. ASSUME NEW k \in 1..n + 1 PROVE f2[k] \in 1..g + 1
  <2>1. CASE k = n + 1
    BY <1>1, <1>4, <2>1
  <2>2. CASE k \in 1..n
    <3>1. f2[k] = f[k] /\ f[k] \in 1..g
      BY <1>4, <1>5, <2>2
    <3>2. QED
      BY <1>1, <3>1
  <2>3. QED
    BY <1>1, <2>1, <2>2
<1>8. ASSUME NEW j \in 1..n + 1, NEW k \in 1..n + 1, j < k PROVE f2[j] < f2[k]
  <2>1. CASE k = n + 1
    <3>0. n \in Nat /\ j \in 1..n
      BY <1>1, <1>8, <2>1
    <3>1. f2[j] \in 1..g /\ f2[k] = g + 1
      BY <1>4, <1>5, <2>1, <3>0
    <3>2. QED
      BY <1>1, <3>1
  <2>2. CASE k \in 1..n
    <3>1. j \in 1..n
      BY <1>1, <1>8, <2>2
    <3>2. QED
      BY <1>4, <1>5, <1>8, <2>2, <3>1
  <2>3. QED
    BY <1>1, <2>1, <2>2
<1>9. ASSUME NEW k \in 1..n + 1, NEW i \in 1..Size
      PROVE  out2[Size * (k - 1) + i] = <<given2[f2[k]], i>>
  <2>1. CASE k = n + 1
    <3>1. Size * (k - 1) + i = Len(out) + i
      BY <1>1, <1>5, <2>1
    <3>2. out2[Len(out) + i] = Units(m)[i]
      <4>1. Len(out) + i \in 1..Len(out) + Size
        BY <1>1
      <4>2. (Len(out) + i) - Len(out) = i /\ ~(Len(out) + i <= Len(out))
        BY <1>1
      <4>3. QED
        BY <1>2, <4>1, <4>2
    <3>3. Units(m)[i] = <<m, i>> /\ given2[f2[k]] = m
      BY <1>3, <1>4, <2>1, UnitsType
    <3>4. QED
      BY <3>1, <3>2, <3>3
  <2>2. CASE k \in 1..n
    <3>1. Size * (k - 1) + i \in 1..Len(out)
      BY <1>1, <1>5, <2>2, PlacesOfUnits
    <3>2. out2[Size * (k - 1) + i] = out[Size * (k - 1) + i]
      BY <1>1, <1>2, <3>1
    <3>3. given2[f2[k]] = given[f[k]]
      BY <1>3, <1>4, <1>5, <2>2
    <3>4. QED
      BY <1>5, <2>2, <3>2, <3>3
  <2>3. QED
    BY <1>1, <2>1, <2>2
<1>10. QED
  BY <1>3, <1>4, <1>6, <1>7, <1>8, <1>9 DEF MadeOf, out2, given2, f2, n, g

(* A message handed over and dropped. *)
LEMMA MadeOfNoMore ==
  ASSUME NEW out, NEW given \in Seq(Messages), NEW f \in Seq(Nat),
         MadeOf(out, given, f), NEW m \in Messages
  PROVE  MadeOf(out, Append(given, m), f)
<1>1. /\ Len(Append(given, m)) = Len(given) + 1
      /\ \A p \in 1..Len(given) : Append(given, m)[p] = given[p]
  BY AppendProperties
<1>2. Len(given) \in Nat
  OBVIOUS
<1>3. \A k \in 1..Len(f) : f[k] \in 1..Len(given) + 1 /\ Append(given, m)[f[k]] = given[f[k]]
  BY <1>1, <1>2 DEF MadeOf
<1>4. QED
  BY <1>1, <1>3 DEF MadeOf

LEMMA ConcatenationIsAssociative ==
  ASSUME NEW a \in Seq(Unit), NEW b \in Seq(Unit), NEW c \in Seq(Unit)
  PROVE  (a \o b) \o c = a \o (b \o c)
<1> DEFINE l == (a \o b) \o c
           r == a \o (b \o c)
<1>1. /\ Len(a) \in Nat /\ Len(b) \in Nat /\ Len(c) \in Nat
      /\ a \o b \in Seq(Unit) /\ b \o c \in Seq(Unit)
      /\ Len(a \o b) = Len(a) + Len(b) /\ Len(b \o c) = Len(b) + Len(c)
  BY ConcatProperties
<1>2. /\ l \in Seq(Unit) /\ r \in Seq(Unit)
      /\ Len(l) = Len(a) + Len(b) + Len(c) /\ Len(r) = Len(a) + (Len(b) + Len(c))
  BY <1>1, ConcatProperties
<1>3. ASSUME NEW i \in 1..Len(l) PROVE l[i] = r[i]
  BY <1>1, <1>2, <1>3
<1>4. QED
  BY <1>1, <1>2, <1>3, SeqEqual

Wired == \E f \in Seq(Nat) : MadeOf(wire \o outputBuffer_, handed, f)

LEMMA WiredKept ==
  ASSUME Wired, UNCHANGED handed, wire' \o outputBuffer_' = wire \o outputBuffer_
  PROVE  Wired'
BY DEF Wired

LEMMA SendInLoopWired ==
  ASSUME TypeOK, Wired, NEW m \in Messages, SendInLoop(m)
  PROVE  Wired'
<1>1. PICK f \in Seq(Nat) : MadeOf(wire \o outputBuffer_, handed, f)
  BY DEF Wired
<1>2. handed' = Append(handed, m) /\ handed \in Seq(Messages)
  BY DEF SendInLoop, TypeOK
<1>3. CASE "write" \notin events_ /\ outputBuffer_ = <<>>
  <2>1. PICK n \in 0..Size :
          /\ WriteTakes(Units(m), n)
          /\ IF n < Size
             THEN /\ outputBuffer_' = SubSeq(Units(m), n + 1, Size)
                  /\ UpdateChannel(events_ \union {"write"})
             ELSE UNCHANGED <<outputBuffer_, events_, status>>
    BY <1>3 DEF SendInLoop
  <2>2. /\ Units(m) \in Seq(Unit) /\ Len(Units(m)) = Size
        /\ SubSeq(Units(m), 1, n) \in Seq(Unit)
        /\ SubSeq(Units(m), n + 1, Size) \in Seq(Unit)
        /\ Len(SubSeq(Units(m), n + 1, Size)) = Size - n
        /\ SubSeq(Units(m), 1, n) \o SubSeq(Units(m), n + 1, Size) = Units(m)
    BY UnitsType, SplitUnits
  <2>3. outputBuffer_' = SubSeq(Units(m), n + 1, Size)
    <3>1. CASE n = Size
      <4>1. Len(SubSeq(Units(m), n + 1, Size)) = 0
        BY <2>2, <3>1, TcpConnectionAssumption
      <4>2. SubSeq(Units(m), n + 1, Size) = <<>>
        BY <2>2, <4>1, EmptySeq
      <4>3. UNCHANGED outputBuffer_
        BY <2>1, <3>1, TcpConnectionAssumption
      <4>4. QED
        BY <1>3, <4>2, <4>3
    <3>2. CASE n < Size
      BY <2>1, <3>2
    <3>3. QED
      BY <3>1, <3>2, TcpConnectionAssumption
  <2>4. wire \in Seq(Unit) /\ wire \o outputBuffer_ = wire
    BY <1>3, ConcatEmptySeq DEF TypeOK
  <2>5. wire' \o outputBuffer_' = wire \o Units(m)
    <3>1. wire' = wire \o SubSeq(Units(m), 1, n)
      BY <2>1 DEF WriteTakes
    <3>2. (wire \o SubSeq(Units(m), 1, n)) \o SubSeq(Units(m), n + 1, Size)
            = wire \o (SubSeq(Units(m), 1, n) \o SubSeq(Units(m), n + 1, Size))
      BY <2>2, <2>4, ConcatenationIsAssociative
    <3>3. QED
      BY <2>2, <2>3, <3>1, <3>2
  <2>6. MadeOf(wire \o Units(m), Append(handed, m), Append(f, Len(handed) + 1))
    BY <1>1, <1>2, <2>4, MadeOfOneMore
  <2>7. Append(f, Len(handed) + 1) \in Seq(Nat)
    BY <1>1, <1>2
  <2>8. QED
    BY <1>2, <2>5, <2>6, <2>7 DEF Wired
<1>4. CASE ~("write" \notin events_ /\ outputBuffer_ = <<>>)
  <2>1. UNCHANGED <<wire, outputBuffer_>>
    BY <1>4 DEF SendInLoop
  <2>2. MadeOf(wire \o outputBuffer_, Append(handed, m), f)
    BY <1>1, <1>2, MadeOfNoMore
  <2>3. QED
    BY <1>1, <1>2, <2>1, <2>2 DEF Wired
<1>5. QED
  BY <1>3, <1>4

(* Writing on moves units from the buffer to the wire. *)
LEMMA WriteOutWired ==
  ASSUME TypeOK, NEW n \in 0..Size, WriteOut(n)
  PROVE  wire' \o outputBuffer_' = wire \o outputBuffer_
<1> DEFINE out == outputBuffer_
<1>1. n \in 0..Len(out) /\ out \in Seq(Unit) /\ wire \in Seq(Unit)
  BY DEF WriteOut, WriteTakes, TypeOK
<1>2. /\ SubSeq(out, 1, n) \in Seq(Unit)
      /\ SubSeq(out, n + 1, Len(out)) \in Seq(Unit)
      /\ SubSeq(out, 1, n) \o SubSeq(out, n + 1, Len(out)) = out
  BY <1>1, SplitUnits
<1>3. wire' = wire \o SubSeq(out, 1, n) /\ outputBuffer_' = SubSeq(out, n + 1, Len(out))
  BY DEF WriteOut, WriteTakes
<1>4. (wire \o SubSeq(out, 1, n)) \o SubSeq(out, n + 1, Len(out))
        = wire \o (SubSeq(out, 1, n) \o SubSeq(out, n + 1, Len(out)))
  BY <1>1, <1>2, ConcatenationIsAssociative
<1>5. QED
  BY <1>2, <1>3, <1>4

LEMMA WiredStep == TypeOK /\ Wired /\ [Next]_vars => Wired'
<1> SUFFICES ASSUME TypeOK, Wired, [Next]_vars PROVE Wired'
  OBVIOUS
<1> USE DEF connVars, serverVars, dataVars, peerVars, appVars
<1>1. UNCHANGED <<wire, outputBuffer_, handed>> => Wired'
  BY WiredKept
<1>2. CASE HandleReadData
  <2>1. ASSUME NEW close \in BOOLEAN, Reply(close), state_ = "kConnected" PROVE Wired'
    BY <1>2, <2>1, NextIsAMessage, SendInLoopWired DEF Reply, HandleReadData
  <2>2. QED
    BY <1>1, <1>2, <2>1 DEF HandleReadData, Reply
<1>3. ASSUME NEW n \in 0..Size, HandleWrite(n) PROVE Wired'
  <2>1. CASE "write" \in events_
    BY <1>3, <2>1, WriteOutWired, WiredKept DEF HandleWrite
  <2>2. CASE "write" \notin events_
    BY <1>1, <1>3, <2>2 DEF HandleWrite
  <2>3. QED
    BY <2>1, <2>2
<1>4. CASE RunSend
  <2>1. Head(ioQueue) \in Functors /\ Head(ioQueue).run = "sendInLoop"
    BY <1>4, RunsTypes DEF RunSend
  <2>2. Head(ioQueue).message \in Messages
    BY <2>1 DEF Functors, SendFunctor, Functor
  <2>3. QED
    BY <1>1, <1>4, <2>2, SendInLoopWired DEF RunSend
<1>5. CASE \/ NewConnection
           \/ \E writable \in BOOLEAN : Poll(writable)
           \/ HandleHup \/ HandleReadError \/ HandleReadEnd
           \/ RunEstablished \/ RunShutdown \/ RunDestroyed \/ RunRemove
           \/ AppStep \/ PeerStep \/ UNCHANGED vars
  BY <1>1, <1>5 DEF NewConnection, Poll, HandleHup, HandleReadError, HandleReadEnd,
       RunEstablished, RunShutdown, RunDestroyed, RunRemove,
       AppStep, AppTests, AppSends, AppShutsDown, AppLetsGo,
       PeerStep, PeerSends, PeerCloses, PeerResets, vars
<1>6. QED
  BY <1>2, <1>3, <1>4, <1>5 DEF Next, IoStep

LEMMA WiredIsWhole == TypeOK /\ Wired => WireIsWholeMessages
<1> SUFFICES ASSUME TypeOK, Wired PROVE WireIsWholeMessages
  OBVIOUS
<1> DEFINE out == wire \o outputBuffer_
           whole == {i \in 1..Len(out) : i % Size = 1 \/ Size = 1}
<1>1. PICK f \in Seq(Nat) : MadeOf(out, handed, f)
  BY DEF Wired
<1>2. out \in Seq(Unit) /\ Size \in Nat \ {0} /\ Len(f) \in Nat /\ Len(out) \in Nat
  BY ConcatProperties, TcpConnectionAssumption DEF TypeOK
<1>3. DOMAIN handed = 1..Len(handed) /\ \A p \in DOMAIN handed : handed[p] \in Messages
  BY DEF TypeOK
<1> HIDE DEF out
<1>4. Len(out) % Size = 0
  <2>1. Len(out) = Size * Len(f)
    BY <1>1 DEF MadeOf
  <2>2. ASSUME NEW s \in Nat \ {0}, NEW n \in Nat PROVE (s * n) % s = 0
    OBVIOUS
  <2>3. QED
    BY <1>2, <2>1, <2>2
<1>5. ASSUME NEW i \in whole
      PROVE  \E k \in 1..Len(f) : i = Size * (k - 1) + 1 /\ out[i] = <<handed[f[k]], 1>>
  <2>1. PICK k \in 1..Len(f) : i = Size * (k - 1) + 1
    BY <1>1, <1>2, PlacesOfMessages DEF MadeOf
  <2>2. 1 \in 1..Size
    BY <1>2
  <2>3. out[Size * (k - 1) + 1] = <<handed[f[k]], 1>>
    BY <1>1, <2>2 DEF MadeOf
  <2>4. QED
    BY <2>1, <2>3
<1>6. ASSUME NEW i \in whole PROVE SubSeq(out, i, i + Size - 1) = Units(out[i][1])
  <2>1. PICK k \in 1..Len(f) : i = Size * (k - 1) + 1 /\ out[i] = <<handed[f[k]], 1>>
    BY <1>5
  <2> DEFINE m == handed[f[k]]
  <2>2. m \in Messages /\ out[i][1] = m
    BY <1>1, <1>3, <2>1 DEF MadeOf
  <2>3. ASSUME NEW j \in 1..Size
        PROVE  i + j - 1 \in 1..Len(out) /\ out[i + j - 1] = <<m, j>>
    <3>1. i + j - 1 = Size * (k - 1) + j
      BY <1>2, <2>1
    <3>2. QED
      BY <1>1, <1>2, <3>1, PlacesOfUnits DEF MadeOf
  <2> DEFINE e == i + Size - 1
             part == SubSeq(out, i, e)
  <2>4. i \in Nat \ {0} /\ e \in Nat /\ e = i + Size - 1 /\ i <= e
    BY <1>2
  <2> HIDE DEF e
  <2>5. \A p \in i..e : out[p] \in Unit
    <3> TAKE p \in i..e
    <3>1. p - i + 1 \in 1..Size /\ p = i + (p - i + 1) - 1
      BY <1>2, <2>4
    <3>2. p \in 1..Len(out)
      BY <2>3, <3>1
    <3>3. QED
      BY <1>2, <3>2, ElementOfSeq
  <2>6. /\ part \in Seq(Unit)
        /\ Len(part) = e - i + 1
        /\ \A j \in 1..e - i + 1 : part[j] = out[i + j - 1]
    BY <2>4, <2>5, SubSeqProperties
  <2> HIDE DEF part, m
  <2>7. Len(part) = Size
    BY <1>2, <2>4, <2>6
  <2>8. ASSUME NEW j \in 1..Size PROVE part[j] = <<m, j>>
    <3>1. j \in 1..e - i + 1
      BY <1>2, <2>4
    <3>2. QED
      BY <2>3, <2>6, <3>1
  <2>9. part = Units(m)
    <3>1. /\ Units(m) \in Seq(Unit) /\ Len(Units(m)) = Size
          /\ \A j \in 1..Size : Units(m)[j] = <<m, j>>
      BY <2>2, UnitsType
    <3>2. \A j \in 1..Len(part) : part[j] = Units(m)[j]
      BY <2>7, <2>8, <3>1
    <3>3. QED
      BY <2>6, <2>7, <3>1, <3>2, SeqEqual
  <2>10. QED
    BY <2>2, <2>9 DEF part, e
<1>7. ASSUME NEW i \in whole, NEW j \in whole, i < j
      PROVE  \E a, b \in DOMAIN handed :
               a < b /\ handed[a] = out[i][1] /\ handed[b] = out[j][1]
  <2>1. PICK k \in 1..Len(f) : i = Size * (k - 1) + 1 /\ out[i] = <<handed[f[k]], 1>>
    BY <1>5
  <2>2. PICK l \in 1..Len(f) : j = Size * (l - 1) + 1 /\ out[j] = <<handed[f[l]], 1>>
    BY <1>5
  <2>3. k < l
    <3>1. Size * (k - 1) < Size * (l - 1)
      BY <1>2, <1>7, <2>1, <2>2
    <3>2. QED
      BY <1>2, <3>1
  <2>4. f[k] \in DOMAIN handed /\ f[l] \in DOMAIN handed /\ f[k] < f[l]
    BY <1>1, <1>3, <2>3 DEF MadeOf
  <2>5. QED
    BY <2>1, <2>2, <2>4
<1>8. QED
  BY <1>4, <1>6, <1>7 DEF WireIsWholeMessages, out

(* What goes out is whole messages in the order they were handed over, for   *)
(* messages of every size, whatever each write(2) takes and whoever calls    *)
(* send() (WireIsWholeMessages).                                             *)
THEOREM WireCorrect == Spec => []WireIsWholeMessages
<1>1. Init => Wired
  <2> SUFFICES ASSUME Init PROVE Wired
    OBVIOUS
  <2>1. wire \o outputBuffer_ = <<>> /\ handed = <<>>
    BY DEF Init
  <2>2. MadeOf(<<>>, <<>>, <<>>)
    BY TcpConnectionAssumption DEF MadeOf
  <2>3. <<>> \in Seq(Nat)
    OBVIOUS
  <2>4. QED
    BY <2>1, <2>2, <2>3 DEF Wired
<1>2. QED
  BY <1>1, TypeCorrect, WiredStep, WiredIsWhole, PTL DEF Spec
===========================================================================
