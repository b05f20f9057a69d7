----------------------------- MODULE Connector -----------------------------
(***************************************************************************)
(* net/Connector.cpp: connects to a server, trying again until it succeeds *)
(* or is stopped, for a TcpClient (net/TcpClient.cpp).                     *)
(*                                                                         *)
(* Actors: the IO thread, which polls, handles the events of channel_ and  *)
(* of the timerfd, and runs functors in batches as EventLoop does; the     *)
(* client, which calls start() and stop() from any thread; the network.    *)
(* Connector and client outlive the loop: what ~TcpClient leaves behind is *)
(* not modelled.  A retry timer is due at any later look at the timerfd:   *)
(* retry() passes milliseconds / 1000 to runAfter(), which counts          *)
(* microseconds, so the delay is at most 30 of them.                       *)
(***************************************************************************)
EXTENDS Naturals, Sequences, SequencesExt, FiniteSetsExt

CONSTANTS
  kInitRetryDelayMs,
  kMaxRetryDelayMs,
  MaxStarts,   (* bound: calls of start()                                  *)
  MaxStops     (* bound: calls of stop()                                   *)

ASSUME ConnectorAssumption ==
  /\ kInitRetryDelayMs \in Nat \ {0} /\ kMaxRetryDelayMs \in Nat
  /\ kInitRetryDelayMs <= kMaxRetryDelayMs
  /\ MaxStarts \in Nat /\ MaxStops \in Nat

VARIABLES
  connect_, state_, retryDelayMs_,
  channel_,   (* none; watched, in epoll; removed, and not reset yet       *)
  sockets,    (* sockets connect() has made, not closed nor handed over    *)
  gaveUp,     (* connect() met an error it does not retry after            *)
  timers,     (* retry timers of the loop                                  *)
  due,        (* those of them TimerQueue::handleRead() is about to run    *)
  others,     (* the loop has timers of other users too                    *)
  phase,      (* of the IO thread: poll, events or functors                *)
  active,     (* of what poll() returned, what is not handled yet          *)
  pending,    (* pendingFunctors_                                          *)
  functors,   (* the rest of the batch being run                           *)
  starts, stops,
  plain,      (* history: start() was called once at most, and before stop()*)
  failed      (* an assertion failed                                       *)

attemptVars == <<state_, channel_, sockets, gaveUp, failed>>
retryVars == <<retryDelayMs_, timers>>
loopVars == <<due, others, phase, active, functors>>
callVars == <<connect_, starts, stops, plain>>
vars == <<attemptVars, retryVars, loopVars, pending, callVars>>

States == {"kDisconnected", "kConnecting", "kConnected"}
Functors == {"startInLoop", "stopInLoop", "resetChannel"}

Init ==
  /\ connect_ = FALSE /\ state_ = "kDisconnected" /\ retryDelayMs_ = kInitRetryDelayMs
  /\ channel_ = "none" /\ sockets = 0 /\ gaveUp = FALSE
  /\ timers = 0 /\ due = 0 /\ others \in BOOLEAN
  /\ phase = "poll" /\ active = {} /\ pending = <<>> /\ functors = <<>>
  /\ starts = 0 /\ stops = 0 /\ plain = TRUE
  /\ failed = FALSE

----------------------------------------------------------------------------
(* The steps of an attempt; open and delay: sockets and retryDelayMs_ before.*)

Again(delay) ==
  /\ timers' = timers + 1
  /\ retryDelayMs_' = Min({delay * 2, kMaxRetryDelayMs})

(* Mutants: close() is forgotten; the longest delay is the last. *)
RetryStillOpen(open, delay) ==
  /\ sockets' = open
  /\ state_' = "kDisconnected"
  /\ IF connect_' THEN Again(delay) ELSE timers' = timers /\ retryDelayMs_' = delay

RetryUpToLongest(open, delay) ==
  /\ sockets' = open - 1
  /\ state_' = "kDisconnected"
  /\ IF connect_' /\ delay < kMaxRetryDelayMs
     THEN Again(delay)
     ELSE timers' = timers /\ retryDelayMs_' = delay

(* retry() *)
Retry(open, delay) ==
  /\ sockets' = open - 1
  /\ state_' = "kDisconnected"
  /\ IF connect_' THEN Again(delay) ELSE timers' = timers /\ retryDelayMs_' = delay

(* connecting() with a new socket: asserts that the last Channel is gone. *)
Connecting(delay) ==
  /\ state_' = "kConnecting"
  /\ sockets' = sockets + 1
  /\ IF channel_ = "none"
     THEN channel_' = "watched" /\ UNCHANGED failed
     ELSE failed' = TRUE /\ UNCHANGED channel_
  /\ retryDelayMs_' = delay
  /\ UNCHANGED <<timers, gaveUp>>

(* connect(): under way, refused for now, or refused for good. *)
Connect(delay) ==
  \/ Connecting(delay)
  \/ Retry(sockets + 1, delay) /\ UNCHANGED <<channel_, gaveUp, failed>>
  \/ /\ gaveUp' = TRUE
     /\ state_' = "kDisconnected" /\ retryDelayMs_' = delay
     /\ UNCHANGED <<timers, channel_, sockets, failed>>

(* startInLoop() *)
StartInLoop ==
  IF state_ # "kDisconnected"
  THEN failed' = TRUE /\ UNCHANGED <<retryVars, state_, channel_, sockets, gaveUp>>
  ELSE IF connect_' THEN Connect(retryDelayMs_) ELSE UNCHANGED <<attemptVars, retryVars>>

(* Mutant: resetChannel() is not queued. *)
RemoveAndForgetChannel ==
  /\ channel_' = "removed"
  /\ UNCHANGED pending

(* removeAndResetChannel() *)
RemoveAndResetChannel ==
  /\ channel_' = "removed"
  /\ pending' = Append(pending, "resetChannel")

----------------------------------------------------------------------------
(* The IO thread. *)

(* poll(): events of the watched Channel, and the timerfd. *)
Poll(ready) ==
  /\ phase = "poll" /\ ~failed
  /\ ready \intersect {"ERR", "OUT"} # {} => channel_ = "watched"
  /\ "timerfd" \in ready => timers > 0 \/ others
  /\ ready # {} \/ pending # <<>>
  /\ active' = ready
  /\ phase' = "events"
  /\ UNCHANGED <<attemptVars, retryVars, due, others, functors, pending, callVars>>

(* handleError(), before any handleWrite() of the same poll. *)
HandleError ==
  /\ UNCHANGED callVars
  /\ ~failed /\ due = 0 /\ "ERR" \in active
  /\ active' = active \ {"ERR"}
  /\ IF state_ = "kConnecting"
     THEN /\ RemoveAndResetChannel
          /\ Retry(sockets, retryDelayMs_)
          /\ UNCHANGED failed
     ELSE /\ failed' = TRUE
          /\ UNCHANGED <<state_, channel_, sockets, retryVars, pending>>
  /\ UNCHANGED <<gaveUp, due, others, phase, functors>>

(* handleWrite(): connected, to be tried again, or called after handleError(). *)
HandleWrite ==
  /\ UNCHANGED callVars
  /\ ~failed /\ due = 0 /\ "OUT" \in active /\ "ERR" \notin active
  /\ active' = active \ {"OUT"}
  /\ \/ /\ state_ = "kConnecting"
        /\ RemoveAndResetChannel
        /\ Retry(sockets, retryDelayMs_)
        /\ UNCHANGED failed
     \/ /\ state_ = "kConnecting"
        /\ RemoveAndResetChannel
        /\ state_' = "kConnected"
        /\ sockets' = sockets - 1
        /\ UNCHANGED <<retryVars, failed>>
     \/ /\ state_ # "kConnecting"
        /\ failed' = (state_ # "kDisconnected")
        /\ UNCHANGED <<state_, channel_, sockets, retryVars, pending>>
  /\ UNCHANGED <<gaveUp, due, others, phase, functors>>

(* TimerQueue::handleRead(): n of the retry timers have expired. *)
HandleTimerfd(n) ==
  /\ ~failed /\ due = 0 /\ "timerfd" \in active
  /\ n <= timers
  /\ active' = active \ {"timerfd"}
  /\ due' = n
  /\ timers' = timers - n
  /\ UNCHANGED <<attemptVars, retryDelayMs_, others, phase, functors, pending, callVars>>

RunTimer ==
  /\ ~failed /\ due > 0
  /\ due' = due - 1
  /\ UNCHANGED <<others, phase, active, functors, pending, callVars>>
  /\ StartInLoop

SwapFunctors ==
  /\ ~failed /\ phase = "events" /\ active = {} /\ due = 0
  /\ phase' = "functors"
  /\ functors' = pending
  /\ pending' = <<>>
  /\ UNCHANGED <<attemptVars, retryVars, due, others, active, callVars>>

Runs(f) ==
  /\ ~failed /\ functors # <<>> /\ Head(functors) = f
  /\ functors' = Tail(functors)
  /\ UNCHANGED <<due, others, phase, active, callVars>>

RunStart ==
  /\ Runs("startInLoop")
  /\ StartInLoop
  /\ UNCHANGED pending

(* Mutant: the attempt under way is left to end by itself. *)
StopInLoopLater == UNCHANGED <<attemptVars, retryVars, pending>>

(* stopInLoop() *)
StopInLoop ==
  IF state_ = "kConnecting"
  THEN /\ RemoveAndResetChannel
       /\ Retry(sockets, retryDelayMs_)
       /\ UNCHANGED <<gaveUp, failed>>
  ELSE UNCHANGED <<attemptVars, retryVars, pending>>

RunStop ==
  /\ Runs("stopInLoop")
  /\ StopInLoop

(* resetChannel(): ~Channel() asserts that epoll does not have it. *)
RunReset ==
  /\ Runs("resetChannel")
  /\ IF channel_ = "watched"
     THEN failed' = TRUE /\ UNCHANGED channel_
     ELSE channel_' = "none" /\ UNCHANGED failed
  /\ UNCHANGED <<state_, sockets, gaveUp, retryVars, pending>>

EndFunctors ==
  /\ ~failed /\ phase = "functors" /\ functors = <<>>
  /\ phase' = "poll"
  /\ UNCHANGED <<attemptVars, retryVars, due, others, active, functors, pending, callVars>>

----------------------------------------------------------------------------
(* The client. *)

(* TcpClient::connect(), that is start(): outside the loop ... *)
Start ==
  /\ ~failed /\ starts < MaxStarts
  /\ starts' = starts + 1
  /\ plain' = (starts = 0 /\ stops = 0)
  /\ connect_' = TRUE
  /\ pending' = Append(pending, "startInLoop")
  /\ UNCHANGED <<attemptVars, retryVars, loopVars, stops>>

(* ... and inside one of its callbacks or functors. *)
StartHere ==
  /\ ~failed /\ starts < MaxStarts
  /\ phase # "poll" /\ due = 0
  /\ starts' = starts + 1
  /\ plain' = (starts = 0 /\ stops = 0)
  /\ connect_' = TRUE
  /\ StartInLoop
  /\ UNCHANGED <<loopVars, pending, stops>>

(* TcpClient::stop(), that is stop(). *)
Stop ==
  /\ ~failed /\ stops < MaxStops
  /\ stops' = stops + 1
  /\ connect_' = FALSE
  /\ pending' = Append(pending, "stopInLoop")
  /\ UNCHANGED <<attemptVars, retryVars, loopVars, starts, plain>>

(* restart(), in the loop, by the Connector's user once the connection it was*)
(* given has closed, in a later poll than handleWrite().  It is what         *)
(* TcpClient::removeConnection() does, were it ever called: newConnection()  *)
(* keeps no reference to the TcpConnection it makes (TcpClient.cpp:98-120).  *)
Restart ==
  /\ ~failed /\ phase = "events" /\ due = 0
  /\ state_ = "kConnected" /\ channel_ = "none" /\ stops = 0
  /\ connect_' = TRUE
  /\ Connect(kInitRetryDelayMs)
  /\ UNCHANGED <<loopVars, pending, starts, stops, plain>>

----------------------------------------------------------------------------
IoStep ==
  \/ \E ready \in SUBSET {"ERR", "OUT", "timerfd"} : Poll(ready)
  \/ HandleError
  \/ HandleWrite
  \/ \E n \in 0..timers : HandleTimerfd(n)
  \/ RunTimer
  \/ SwapFunctors
  \/ RunStart
  \/ RunStop
  \/ RunReset
  \/ EndFunctors

ClientStep ==
  \/ Start
  \/ StartHere
  \/ Stop
  \/ Restart

Next == IoStep \/ ClientStep

(* The loop keeps running, and the timerfd gets its turn while a retry timer *)
(* is there.  Nothing is assumed of the network or of the client.            *)
Fairness ==
  /\ WF_vars(IoStep)
  /\ SF_vars(timers > 0 /\ \E ready \in SUBSET {"ERR", "OUT", "timerfd"} :
                              "timerfd" \in ready /\ Poll(ready))
  /\ SF_vars(\E n \in 1..timers : HandleTimerfd(n))

Spec == Init /\ [][Next]_vars /\ Fairness

----------------------------------------------------------------------------
(* Types, the range of the retry delay, and what each phase may find. *)
TypeOK ==
  /\ connect_ \in BOOLEAN /\ state_ \in States
  /\ retryDelayMs_ \in kInitRetryDelayMs..kMaxRetryDelayMs
  /\ channel_ \in {"none", "watched", "removed"}
  /\ sockets \in Nat /\ timers \in Nat /\ due \in Nat
  /\ plain \in BOOLEAN /\ gaveUp \in BOOLEAN /\ others \in BOOLEAN /\ failed \in BOOLEAN
  /\ phase \in {"poll", "events", "functors"}
  /\ active \subseteq {"ERR", "OUT", "timerfd"}
  /\ pending \in Seq(Functors) /\ functors \in Seq(Functors)
  /\ starts \in 0..MaxStarts /\ stops \in 0..MaxStops
  /\ active # {} \/ due > 0 => phase = "events"
  /\ functors # <<>> => phase = "functors"

(* Connector.cpp:35, 71, 138, 174, 180 and ~Channel(): for a client that     *)
(* starts once and stops last, no assertion fails, whatever the network does *)
(* and whenever stop() comes: each attempt finds the Channel of the one      *)
(* before gone.  (With other timers in the loop a retry may come too early.) *)
OneStartIsSafe == plain /\ ~others => ~failed

(* Every socket is closed or handed over exactly once: there is one while an *)
(* attempt is under way, with a Channel watching it, and none otherwise.     *)
SocketIsOwned ==
  ~failed =>
    /\ sockets = IF state_ = "kConnecting" THEN 1 ELSE 0
    /\ channel_ = "watched" <=> state_ = "kConnecting"

(* A Connector that is to connect, and has not met an error that is final,   *)
(* is connecting or has a timer or functor that will start the next attempt. *)
NotForgotten ==
  connect_ /\ ~gaveUp /\ ~failed /\ state_ = "kDisconnected" =>
    \/ timers + due > 0
    \/ "startInLoop" \in ToSet(pending) \union ToSet(functors)

(* stop(): attempts end, with their Channel, socket and timers, unless the   *)
(* client starts again; the network is not needed for that.                  *)
StopEndsAttempts ==
  ~connect_ ~>
    \/ state_ # "kConnecting" /\ channel_ = "none" /\ sockets = 0 /\ timers + due = 0
    \/ connect_
    \/ failed

============================================================================
