-------------------------- MODULE Connector_proofs --------------------------
(***************************************************************************)
(* For every pair of retry delays and every number of calls: a Connector   *)
(* owns exactly the socket of the attempt under way, never forgets an      *)
(* attempt that is wanted, and fails no assertion when it is started once. *)
(* For every number of clients and requests: WebBench prints the sum of    *)
(* what its clients counted, and builds a request that suits its version.  *)
(***************************************************************************)
EXTENDS Connector, WebBench, FiniteSetTheorems, SequenceTheorems, WellFoundedInduction, TLAPS

(* retryDelayMs_ stays between its two bounds. *)
LEMMA DelayInRange ==
  ASSUME NEW delay \in kInitRetryDelayMs..kMaxRetryDelayMs
  PROVE  Min({delay * 2, kMaxRetryDelayMs}) \in kInitRetryDelayMs..kMaxRetryDelayMs
<1> DEFINE S == {delay * 2, kMaxRetryDelayMs}
<1>1. \E x \in S : \A y \in S : x <= y
  BY ConnectorAssumption
<1>2. Min(S) \in S /\ \A y \in S : Min(S) <= y
  BY <1>1 DEF Min
<1>3. Min(S) <= kMaxRetryDelayMs /\ Min(S) \in {delay * 2, kMaxRetryDelayMs}
  BY <1>2
<1>4. QED
  BY <1>3, ConnectorAssumption

LEMMA ToSetAppend ==
  ASSUME NEW S, NEW s \in Seq(S), NEW e \in S
  PROVE  ToSet(Append(s, e)) = ToSet(s) \union {e}
<1>1. DOMAIN Append(s, e) = 1..(Len(s) + 1)
  OBVIOUS
<1>2. \A i \in 1..Len(s) : Append(s, e)[i] = s[i]
  OBVIOUS
<1>3. Append(s, e)[Len(s) + 1] = e
  OBVIOUS
<1>4. DOMAIN s = 1..Len(s) /\ Len(s) \in Nat
  OBVIOUS
<1>5. QED
  BY <1>1, <1>2, <1>3, <1>4 DEF ToSet

(* What is in a sequence and is not its head is in its tail. *)
LEMMA ToSetTail ==
  ASSUME NEW S, NEW s \in Seq(S), s # <<>>, NEW e \in ToSet(s), e # Head(s)
  PROVE  e \in ToSet(Tail(s))
<1>1. PICK i \in 1..Len(s) : s[i] = e
  BY DEF ToSet
<1>2. i # 1
  BY <1>1
<1>3. i - 1 \in DOMAIN Tail(s) /\ Tail(s)[i - 1] = e
  BY <1>1, <1>2
<1>4. QED
  BY <1>3 DEF ToSet

----------------------------------------------------------------------------
(* TypeOK needs SocketIsOwned, for a socket that is closed is there to be    *)
(* closed; and both are what an attempt leaves behind.                       *)
Inv == TypeOK /\ SocketIsOwned

(* The end of an attempt, and its beginning, by what they leave. *)
AttemptLeaves ==
  /\ state_' \in States
  /\ retryDelayMs_' \in kInitRetryDelayMs..kMaxRetryDelayMs
  /\ channel_' \in {"none", "watched", "removed"}
  /\ sockets' \in Nat /\ timers' \in Nat
  /\ gaveUp' \in BOOLEAN /\ failed' \in BOOLEAN
  /\ SocketIsOwned'

LEMMA ConnectLeaves ==
  ASSUME TypeOK, ~failed, sockets = 0, channel_ # "watched",
         NEW delay \in kInitRetryDelayMs..kMaxRetryDelayMs, Connect(delay)
  PROVE  AttemptLeaves
<1> USE DEF AttemptLeaves, TypeOK, States, SocketIsOwned
<1>1. CASE Connecting(delay)
  <2>1. /\ state_' = "kConnecting" /\ sockets' = 1 /\ retryDelayMs_' = delay
        /\ timers' = timers /\ gaveUp' = gaveUp
    BY <1>1 DEF Connecting
  <2>2. CASE channel_ = "none"
    <3>1. channel_' = "watched" /\ failed' = failed
      BY <1>1, <2>2 DEF Connecting
    <3>2. QED
      BY <2>1, <3>1
  <2>3. CASE channel_ # "none"
    <3>1. channel_' = channel_ /\ failed' = TRUE
      BY <1>1, <2>3 DEF Connecting
    <3>2. QED
      BY <2>1, <3>1
  <2>4. QED
    BY <2>2, <2>3
<1>2. CASE Retry(sockets + 1, delay) /\ UNCHANGED <<channel_, gaveUp, failed>>
  BY <1>2, DelayInRange DEF Retry, Again
<1>3. CASE ~Connecting(delay) /\ ~Retry(sockets + 1, delay)
  BY <1>3 DEF Connect
<1>4. QED
  BY <1>1, <1>2, <1>3 DEF Connect

LEMMA StartLeaves ==
  ASSUME Inv, ~failed, StartInLoop
  PROVE  AttemptLeaves
<1> USE DEF Inv
<1>1. CASE state_ # "kDisconnected"
  BY <1>1 DEF AttemptLeaves, TypeOK, SocketIsOwned, StartInLoop, retryVars
<1>2. CASE state_ = "kDisconnected" /\ ~connect_'
  BY <1>2 DEF AttemptLeaves, TypeOK, SocketIsOwned, StartInLoop, attemptVars, retryVars
<1>3. CASE state_ = "kDisconnected" /\ connect_'
  <2>1. sockets = 0 /\ channel_ # "watched"
    BY <1>3 DEF SocketIsOwned
  <2>2. QED
    BY <1>3, <2>1, ConnectLeaves DEF StartInLoop, TypeOK
<1>4. QED
  BY <1>1, <1>2, <1>3

----------------------------------------------------------------------------
(* The steps that leave the attempt as it is. *)
LEMMA SameAttempt ==
  ASSUME SocketIsOwned, UNCHANGED attemptVars
  PROVE  SocketIsOwned'
BY DEF SocketIsOwned, attemptVars

LEMMA InvStep == Inv /\ [Next]_vars => Inv'
<1> SUFFICES ASSUME Inv, [Next]_vars PROVE Inv'
  OBVIOUS
<1> USE DEF Inv
<1>1. ASSUME NEW ready \in SUBSET {"ERR", "OUT", "timerfd"}, Poll(ready)
      PROVE  Inv'
  <2>1. SocketIsOwned'
    BY <1>1, SameAttempt DEF Poll
  <2>2. QED
    BY <1>1, <2>1 DEF Poll, TypeOK, attemptVars, retryVars, callVars
<1>2. CASE HandleError
  <2>1. CASE state_ = "kConnecting"
    <3>1. sockets = 1
      BY <1>2, <2>1 DEF HandleError, SocketIsOwned
    <3>2. pending' \in Seq(Functors)
      BY <1>2, <2>1, AppendProperties DEF HandleError, RemoveAndResetChannel, TypeOK, Functors
    <3>3. AttemptLeaves
      BY <1>2, <2>1, <3>1, DelayInRange DEF HandleError, RemoveAndResetChannel, Retry,
         Again, AttemptLeaves, TypeOK, States, SocketIsOwned
    <3>4. QED
      BY <1>2, <3>2, <3>3 DEF HandleError, AttemptLeaves, TypeOK, callVars
  <2>2. CASE state_ # "kConnecting"
    BY <1>2, <2>2 DEF HandleError, TypeOK, SocketIsOwned, retryVars, callVars
  <2>3. QED
    BY <2>1, <2>2
<1>3. CASE HandleWrite
  <2>1. CASE state_ = "kConnecting"
    <3>1. sockets = 1
      BY <1>3, <2>1 DEF HandleWrite, SocketIsOwned
    <3>2. pending' \in Seq(Functors)
      <4>1. pending' = Append(pending, "resetChannel")
        BY <1>3, <2>1 DEF HandleWrite, RemoveAndResetChannel
      <4>2. QED
        BY <4>1, AppendProperties DEF TypeOK, Functors
    <3>3. AttemptLeaves
      <4>1. CASE Retry(sockets, retryDelayMs_)
        BY <1>3, <2>1, <3>1, <4>1, DelayInRange DEF HandleWrite, RemoveAndResetChannel,
           Retry, Again, AttemptLeaves, TypeOK, States, SocketIsOwned
      <4>2. CASE state_' = "kConnected"
        BY <1>3, <2>1, <3>1, <4>2 DEF HandleWrite, RemoveAndResetChannel,
           Retry, retryVars, AttemptLeaves, TypeOK, States, SocketIsOwned
      <4>3. QED
        BY <1>3, <2>1, <4>1, <4>2 DEF HandleWrite
    <3>4. QED
      BY <1>3, <3>2, <3>3 DEF HandleWrite, AttemptLeaves, TypeOK, callVars
  <2>2. CASE state_ # "kConnecting"
    <3>1. failed' \in BOOLEAN
      BY <1>3, <2>2 DEF HandleWrite
    <3>2. QED
      BY <1>3, <2>2, <3>1 DEF HandleWrite, TypeOK, SocketIsOwned, retryVars, callVars
  <2>3. QED
    BY <2>1, <2>2
<1>4. ASSUME NEW n \in 0..timers, HandleTimerfd(n)
      PROVE  Inv'
  <2>1. SocketIsOwned'
    BY <1>4, SameAttempt DEF HandleTimerfd
  <2>2. phase = "events"
    BY <1>4 DEF HandleTimerfd, TypeOK
  <2>3. QED
    BY <1>4, <2>1, <2>2 DEF HandleTimerfd, TypeOK, attemptVars, callVars
<1>5. CASE RunTimer
  <2>1. AttemptLeaves
    BY <1>5, StartLeaves DEF RunTimer
  <2>2. QED
    BY <1>5, <2>1 DEF RunTimer, AttemptLeaves, TypeOK, callVars
<1>6. CASE SwapFunctors
  <2>1. SocketIsOwned'
    BY <1>6, SameAttempt DEF SwapFunctors
  <2>2. QED
    BY <1>6, <2>1 DEF SwapFunctors, TypeOK, attemptVars, retryVars, callVars
<1>7. ASSUME NEW f \in Functors, Runs(f)
      PROVE  functors' \in Seq(Functors) /\ phase = "functors"
  BY <1>7, HeadTailProperties DEF Runs, TypeOK
<1>8. CASE RunStart
  <2>1. AttemptLeaves
    BY <1>8, StartLeaves DEF RunStart, Runs
  <2>2. QED
    BY <1>7, <1>8, <2>1 DEF RunStart, Runs, AttemptLeaves, TypeOK, Functors, callVars
<1>9. CASE RunStop
  <2>1. CASE state_ = "kConnecting"
    <3>1. sockets = 1
      BY <1>9, <2>1 DEF RunStop, Runs, SocketIsOwned
    <3>2. pending' \in Seq(Functors)
      BY <1>9, <2>1, AppendProperties DEF RunStop, StopInLoop, RemoveAndResetChannel,
         TypeOK, Functors
    <3>3. AttemptLeaves
      BY <1>9, <2>1, <3>1, DelayInRange DEF RunStop, StopInLoop, RemoveAndResetChannel,
         Retry, Again, AttemptLeaves, TypeOK, States, SocketIsOwned
    <3>4. QED
      BY <1>7, <1>9, <3>2, <3>3 DEF RunStop, Runs, AttemptLeaves, TypeOK, Functors, callVars
  <2>2. CASE state_ # "kConnecting"
    <3>1. UNCHANGED <<attemptVars, retryVars, pending>>
      BY <1>9, <2>2 DEF RunStop, StopInLoop
    <3>2. SocketIsOwned'
      BY <3>1, SameAttempt
    <3>3. QED
      BY <1>7, <1>9, <3>1, <3>2 DEF RunStop, Runs, TypeOK, Functors, attemptVars,
         retryVars, callVars
  <2>3. QED
    BY <2>1, <2>2
<1>10. CASE RunReset
  <2>1. CASE channel_ = "watched"
    BY <1>7, <1>10, <2>1 DEF RunReset, Runs, TypeOK, Functors, SocketIsOwned, retryVars, callVars
  <2>2. CASE channel_ # "watched"
    <3>1. failed' = failed /\ channel_' = "none"
      BY <1>10, <2>2 DEF RunReset
    <3>2. QED
      BY <1>7, <1>10, <2>2, <3>1 DEF RunReset, Runs, TypeOK, Functors, SocketIsOwned,
         retryVars, callVars
  <2>3. QED
    BY <2>1, <2>2
<1>11. CASE EndFunctors
  <2>1. SocketIsOwned'
    BY <1>11, SameAttempt DEF EndFunctors
  <2>2. QED
    BY <1>11, <2>1 DEF EndFunctors, TypeOK, attemptVars, retryVars, callVars
<1>12. CASE Start
  <2>1. SocketIsOwned'
    BY <1>12, SameAttempt DEF Start
  <2>2. pending' \in Seq(Functors)
    BY <1>12, AppendProperties DEF Start, TypeOK, Functors
  <2>3. starts' \in 0..MaxStarts /\ plain' \in BOOLEAN
    BY <1>12, ConnectorAssumption DEF Start, TypeOK
  <2>4. QED
    BY <1>12, <2>1, <2>2, <2>3 DEF Start, TypeOK, attemptVars, retryVars, loopVars
<1>13. CASE StartHere
  <2>1. AttemptLeaves
    BY <1>13, StartLeaves DEF StartHere
  <2>2. starts' \in 0..MaxStarts /\ plain' \in BOOLEAN
    BY <1>13, ConnectorAssumption DEF StartHere, TypeOK
  <2>3. QED
    BY <1>13, <2>1, <2>2 DEF StartHere, AttemptLeaves, TypeOK, loopVars
<1>14. CASE Stop
  <2>1. SocketIsOwned'
    BY <1>14, SameAttempt DEF Stop
  <2>2. pending' \in Seq(Functors)
    BY <1>14, AppendProperties DEF Stop, TypeOK, Functors
  <2>3. stops' \in 0..MaxStops
    BY <1>14, ConnectorAssumption DEF Stop, TypeOK
  <2>4. QED
    BY <1>14, <2>1, <2>2, <2>3 DEF Stop, TypeOK, attemptVars, retryVars, loopVars
<1>15. CASE Restart
  <2>1. sockets = 0 /\ ~failed /\ channel_ # "watched"
    BY <1>15 DEF Restart, SocketIsOwned
  <2>2. AttemptLeaves
    BY <1>15, <2>1, ConnectLeaves, ConnectorAssumption DEF Restart
  <2>3. QED
    BY <1>15, <2>2 DEF Restart, AttemptLeaves, TypeOK, loopVars
<1>16. CASE UNCHANGED vars
  <2>1. SocketIsOwned'
    BY <1>16, SameAttempt DEF vars
  <2>2. QED
    BY <1>16, <2>1 DEF vars, TypeOK, attemptVars, retryVars, loopVars, callVars
<1>17. QED
  BY <1>1, <1>2, <1>3, <1>4, <1>5, <1>6, <1>8, <1>9, <1>10, <1>11, <1>12, <1>13,
     <1>14, <1>15, <1>16 DEF Next, IoStep, ClientStep

LEMMA InvHolds == Spec => []Inv
<1>1. Init => Inv
  <2> SUFFICES ASSUME Init PROVE Inv
    OBVIOUS
  <2>1. <<>> \in Seq(Functors)
    OBVIOUS
  <2>2. retryDelayMs_ \in kInitRetryDelayMs..kMaxRetryDelayMs
    BY ConnectorAssumption DEF Init
  <2>3. starts \in 0..MaxStarts /\ stops \in 0..MaxStops
    BY ConnectorAssumption DEF Init
  <2>4. SocketIsOwned
    BY DEF Init, SocketIsOwned
  <2>5. pending \in Seq(Functors) /\ functors \in Seq(Functors)
    BY <2>1 DEF Init
  <2>6. active = {} /\ due = 0 /\ functors = <<>>
    BY DEF Init
  <2>7. /\ connect_ \in BOOLEAN /\ plain \in BOOLEAN /\ gaveUp \in BOOLEAN
        /\ others \in BOOLEAN /\ failed \in BOOLEAN
    BY DEF Init
  <2>8. /\ state_ \in States /\ channel_ = "none" /\ phase = "poll"
        /\ sockets \in Nat /\ timers \in Nat /\ due \in Nat
    BY DEF Init, States
  <2>9. QED
    BY <2>2, <2>3, <2>4, <2>5, <2>6, <2>7, <2>8 DEF Inv, TypeOK
<1>2. QED
  BY <1>1, InvStep, PTL DEF Spec

(* Type correctness, the bounds of the retry delay included. *)
THEOREM TypeCorrect == Spec => []TypeOK
<1>1. Inv => TypeOK
  BY DEF Inv
<1>2. QED
  BY <1>1, InvHolds, PTL

(* A Connector owns one socket while it is connecting, and none otherwise. *)
THEOREM SocketIsOwnedCorrect == Spec => []SocketIsOwned
<1>1. Inv => SocketIsOwned
  BY DEF Inv
<1>2. QED
  BY <1>1, InvHolds, PTL

----------------------------------------------------------------------------
(* A start that is wanted and does not fail begins an attempt, has a retry   *)
(* timer made or meets the final error.                                      *)
LEMMA ConnectIsFollowed ==
  ASSUME TypeOK, connect_', NEW delay, Connect(delay)
  PROVE  state_' = "kConnecting" \/ timers' = timers + 1 \/ gaveUp'
BY DEF Connect, Connecting, Retry, Again

LEMMA StartIsFollowed ==
  ASSUME TypeOK, connect_', StartInLoop
  PROVE  state_' # "kDisconnected" \/ timers' = timers + 1 \/ gaveUp' \/ failed'
<1>1. CASE state_ # "kDisconnected"
  BY <1>1 DEF StartInLoop
<1>2. CASE state_ = "kDisconnected"
  BY <1>2, ConnectIsFollowed DEF StartInLoop
<1>3. QED
  BY <1>1, <1>2

LEMMA OneMoreTimer ==
  ASSUME TypeOK, TypeOK', timers' = timers + 1
  PROVE  timers' + due' > 0
<1>1. \A t, d \in Nat : (t + 1) + d > 0
  OBVIOUS
<1>2. timers \in Nat /\ due' \in Nat
  BY DEF TypeOK
<1>3. QED
  BY <1>1, <1>2

LEMMA NotForgottenStep == Inv /\ Inv' /\ NotForgotten /\ [Next]_vars => NotForgotten'
<1> SUFFICES ASSUME Inv, Inv', NotForgotten, [Next]_vars,
                    connect_', ~gaveUp', ~failed', state_' = "kDisconnected"
             PROVE  timers' + due' > 0 \/ "startInLoop" \in ToSet(pending') \union ToSet(functors')
  BY DEF NotForgotten
<1> USE DEF Inv, NotForgotten
<1>a. timers \in Nat /\ due \in Nat /\ timers' \in Nat /\ due' \in Nat
  BY DEF TypeOK
<1>b. ASSUME NEW f \in Functors, pending' = Append(pending, f)
      PROVE  ToSet(pending) \subseteq ToSet(pending') /\ f \in ToSet(pending')
  BY <1>b, ToSetAppend DEF TypeOK
<1>c. ASSUME NEW f \in Functors, f # "startInLoop", Runs(f),
             "startInLoop" \in ToSet(functors)
      PROVE  "startInLoop" \in ToSet(functors')
  BY <1>c, ToSetTail DEF Runs, TypeOK
<1>d. timers' = timers + 1 => timers' + due' > 0
  BY OneMoreTimer, Zenon
<1> DEFINE Goal == timers' + due' > 0
                   \/ "startInLoop" \in ToSet(pending') \union ToSet(functors')
<1>1. ASSUME NEW ready \in SUBSET {"ERR", "OUT", "timerfd"}, Poll(ready)
      PROVE  Goal
  BY <1>1 DEF Poll, attemptVars, retryVars, callVars
<1>2. CASE HandleError
  <2>1. failed' = TRUE \/ Retry(sockets, retryDelayMs_)
    BY <1>2 DEF HandleError
  <2>2. Retry(sockets, retryDelayMs_)
    BY <2>1, Zenon
  <2>3. timers' = timers + 1
    BY <2>2, Zenon DEF Retry, Again
  <2>4. QED
    BY <2>3, <1>d
<1>3. CASE HandleWrite
  <2>1. CASE state_ = "kConnecting"
    BY <1>3, <2>1, <1>a DEF HandleWrite, Retry, Again
  <2>2. CASE state_ # "kConnecting"
    <3>1. ~failed
      BY <1>3 DEF HandleWrite
    <3>2. UNCHANGED <<connect_, gaveUp, state_, timers, due, pending, functors>>
      BY <1>3, <2>2 DEF HandleWrite, retryVars, callVars
    <3>3. QED
      BY <3>1, <3>2
  <2>3. QED
    BY <2>1, <2>2
<1>4. ASSUME NEW n \in 0..timers, HandleTimerfd(n)
      PROVE  Goal
  <2>1. timers' + due' = timers + due
    BY <1>4, <1>a DEF HandleTimerfd
  <2>2. UNCHANGED <<connect_, gaveUp, failed, state_, pending, functors>>
    BY <1>4 DEF HandleTimerfd, attemptVars, callVars
  <2>3. QED
    BY <2>1, <2>2
<1>5. CASE RunTimer
  <2>1. StartInLoop
    BY <1>5 DEF RunTimer
  <2>2. timers' = timers + 1
    BY <2>1, StartIsFollowed, Zenon
  <2>3. QED
    BY <2>2, <1>d
<1>6. CASE SwapFunctors
  <2>1. functors = <<>>
    BY <1>6 DEF SwapFunctors, TypeOK
  <2>2. ToSet(functors) = {}
    BY <2>1 DEF ToSet
  <2>3. QED
    BY <1>6, <2>2 DEF SwapFunctors, attemptVars, retryVars, callVars
<1>7. CASE RunStart
  <2>1. StartInLoop
    BY <1>7 DEF RunStart
  <2>2. timers' = timers + 1
    BY <2>1, StartIsFollowed, Zenon
  <2>3. QED
    BY <2>2, <1>d
<1>8. CASE RunStop
  <2>1. CASE state_ = "kConnecting"
    <3>1. Retry(sockets, retryDelayMs_)
      BY <1>8, <2>1 DEF RunStop, StopInLoop
    <3>2. timers' = timers + 1
      BY <3>1, Zenon DEF Retry, Again
    <3>3. QED
      BY <3>2, <1>d
  <2>2. CASE state_ # "kConnecting"
    <3>1. UNCHANGED <<attemptVars, retryVars, pending>> /\ Runs("stopInLoop")
      BY <1>8, <2>2 DEF RunStop, StopInLoop
    <3>2. UNCHANGED <<connect_, due>>
      BY <3>1 DEF Runs, callVars
    <3>3. QED
      BY <1>c, <3>1, <3>2 DEF attemptVars, retryVars, Functors
  <2>3. QED
    BY <2>1, <2>2
<1>9. CASE RunReset
  <2>1. UNCHANGED <<connect_, gaveUp, state_, timers, due, pending>> /\ Runs("resetChannel")
    BY <1>9 DEF RunReset, Runs, retryVars, callVars
  <2>2. ~failed
    BY <2>1 DEF Runs
  <2>3. QED
    BY <1>c, <2>1, <2>2 DEF Functors
<1>10. CASE EndFunctors
  BY <1>10 DEF EndFunctors, attemptVars, retryVars, callVars
<1>11. CASE Start
  BY <1>11, <1>b DEF Start, Functors
<1>12. CASE StartHere
  <2>1. StartInLoop
    BY <1>12 DEF StartHere
  <2>2. timers' = timers + 1
    BY <2>1, StartIsFollowed, Zenon
  <2>3. QED
    BY <2>2, <1>d
<1>13. CASE Stop
  BY <1>13 DEF Stop
<1>14. CASE Restart
  <2>1. Connect(kInitRetryDelayMs)
    BY <1>14 DEF Restart
  <2>2. timers' = timers + 1
    BY <2>1, ConnectIsFollowed, Zenon
  <2>3. QED
    BY <2>2, <1>d
<1>15. CASE UNCHANGED vars
  BY <1>15 DEF vars, attemptVars, retryVars, loopVars, callVars
<1>16. QED
  BY <1>1, <1>2, <1>3, <1>4, <1>5, <1>6, <1>7, <1>8, <1>9, <1>10, <1>11, <1>12,
     <1>13, <1>14, <1>15 DEF Next, IoStep, ClientStep

(* An attempt that is wanted is under way, or something will start it. *)
THEOREM NotForgottenCorrect == Spec => []NotForgotten
<1>1. Init => NotForgotten
  BY DEF Init, NotForgotten
<1>2. QED
  BY <1>1, InvHolds, NotForgottenStep, PTL DEF Spec

----------------------------------------------------------------------------
(* A client that starts once and stops last. *)

Has(q, x) == \E i \in 1..Len(q) : q[i] = x
Once(q, x) == \A i, j \in 1..Len(q) : q[i] = x /\ q[j] = x => i = j
Waiting(x) == Has(functors, x) \/ Has(pending, x)
Single(x) == /\ Once(functors, x) /\ Once(pending, x)
             /\ ~(Has(functors, x) /\ Has(pending, x))

(* Nothing has begun, or what begins next is the only attempt. *)
Quiet == state_ = "kDisconnected" /\ channel_ = "none" /\ timers = 0 /\ due = 0

(* start() comes first and stop() last. *)
StartsInv ==
  /\ starts = 0 => Quiet /\ ~connect_ /\ ~Waiting("startInLoop")
  /\ stops > 0 => ~connect_
  /\ Waiting("stopInLoop") => stops > 0

(* One thing at most will begin an attempt, and only when none is under way. *)
AttemptsInv ==
  /\ Single("startInLoop") /\ (Waiting("startInLoop") => Quiet)
  /\ (timers = 0 /\ due = 0) \/ (timers = 1 /\ due = 0) \/ (timers = 0 /\ due = 1)
  /\ timers # 0 \/ due # 0 => state_ = "kDisconnected"

(* A Channel that is removed is reset before the loop polls again, or after  *)
(* stop(); and what poll() returned is of the attempt that is under way, or  *)
(* was until handleError().                                                  *)
ChannelInv ==
  /\ Single("resetChannel") /\ (Waiting("resetChannel") <=> channel_ = "removed")
  /\ channel_ = "removed" /\ connect_ =>
       /\ phase # "poll" /\ "timerfd" \notin active /\ due = 0
       /\ phase = "functors" => Has(functors, "resetChannel")
  /\ "timerfd" \in active => timers # 0
  /\ "ERR" \in active => state_ = "kConnecting"
  /\ "OUT" \in active =>
       state_ = "kConnecting" \/ (state_ = "kDisconnected" /\ channel_ = "removed")

Safe == ~failed /\ StartsInv /\ AttemptsInv /\ ChannelInv

SafeInv ==
  /\ starts = 0 => plain
  /\ plain /\ ~others => Safe

(* What is in a queue after a functor is appended, and after its first runs. *)
LEMMA QueueAppend ==
  ASSUME NEW S, NEW q \in Seq(S), NEW e \in S, NEW x
  PROVE  /\ Has(Append(q, e), x) <=> Has(q, x) \/ x = e
         /\ Once(q, x) /\ ~(x = e /\ Has(q, x)) => Once(Append(q, e), x)
<1> DEFINE t == Append(q, e)
<1>1. Len(q) \in Nat /\ Len(t) = Len(q) + 1 /\ t[Len(q) + 1] = e
      /\ \A i \in 1..Len(q) : t[i] = q[i]
  BY AppendProperties
<1> HIDE DEF t
<1>2. \A i \in 1..Len(t) : i \in 1..Len(q) \/ i = Len(q) + 1
  BY <1>1
<1>3. \A i \in 1..Len(q) : i \in 1..Len(t)
  BY <1>1
<1>4. Len(q) + 1 \in 1..Len(t)
  BY <1>1
<1>5. Has(t, x) <=> Has(q, x) \/ x = e
  BY <1>1, <1>2, <1>3, <1>4 DEF Has
<1>6. Once(q, x) /\ ~(x = e /\ Has(q, x)) => Once(t, x)
  BY <1>1, <1>2 DEF Once, Has
<1>7. QED
  BY <1>5, <1>6 DEF t

LEMMA QueueTail ==
  ASSUME NEW S, NEW q \in Seq(S), q # <<>>, NEW x
  PROVE  /\ Has(q, Head(q))
         /\ Has(Tail(q), x) => Has(q, x)
         /\ x # Head(q) /\ Has(q, x) => Has(Tail(q), x)
         /\ Once(q, x) => Once(Tail(q), x)
         /\ Once(q, x) /\ x = Head(q) => ~Has(Tail(q), x)
<1> DEFINE t == Tail(q)
<1>1. Len(q) \in Nat /\ Len(q) # 0 /\ Len(t) = Len(q) - 1 /\ Head(q) = q[1]
      /\ \A i \in 1..Len(t) : t[i] = q[i + 1]
  BY HeadTailProperties
<1> HIDE DEF t
<1>2. 1 \in 1..Len(q) /\ \A i \in 1..Len(t) : i + 1 \in 1..Len(q) /\ i + 1 # 1
  BY <1>1
<1>3. \A i \in 1..Len(q) : i = 1 \/ (i - 1 \in 1..Len(t) /\ t[i - 1] = q[i])
  BY <1>1
<1>4. \A i, j \in 1..Len(t) : i + 1 = j + 1 => i = j
  BY <1>1
<1>5. Has(q, Head(q)) /\ (Has(t, x) => Has(q, x))
  BY <1>1, <1>2 DEF Has
<1>6. x # Head(q) /\ Has(q, x) => Has(t, x)
  BY <1>1, <1>3 DEF Has
<1>7. Once(q, x) => Once(t, x)
  BY <1>1, <1>2, <1>4 DEF Once
<1>8. Once(q, x) /\ x = Head(q) => ~Has(t, x)
  BY <1>1, <1>2 DEF Once, Has
<1>9. QED
  BY <1>5, <1>6, <1>7, <1>8 DEF t

LEMMA QueueEmpty == \A x : ~Has(<<>>, x) /\ Once(<<>>, x)
BY DEF Has, Once

(* The same for the two queues, with what a functor queues. *)
LEMMA QueuedAfter ==
  ASSUME TypeOK, NEW f \in Functors, pending' = Append(pending, f), functors' = functors, NEW x
  PROVE  /\ Waiting(x)' <=> Waiting(x) \/ x = f
         /\ Single(x) /\ ~(x = f /\ Waiting(x)) => Single(x)'
         /\ Has(functors', x) <=> Has(functors, x)
<1>1. pending \in Seq(Functors)
  BY DEF TypeOK
<1>2. /\ Has(Append(pending, f), x) <=> Has(pending, x) \/ x = f
      /\ Once(pending, x) /\ ~(x = f /\ Has(pending, x)) => Once(Append(pending, f), x)
  BY <1>1, QueueAppend
<1>3. QED
  BY <1>2 DEF Waiting, Single

LEMMA RunAfter ==
  ASSUME TypeOK, NEW f, Runs(f), pending' = pending, NEW x
  PROVE  /\ Waiting(f)
         /\ Waiting(x)' => Waiting(x)
         /\ Single(x) => Single(x)' /\ (Waiting(x)' <=> Waiting(x) /\ x # f)
         /\ x # f => (Has(functors', x) <=> Has(functors, x))
<1>1. functors \in Seq(Functors) /\ functors # <<>> /\ f = Head(functors)
      /\ functors' = Tail(functors)
  BY DEF TypeOK, Runs
<1>2. /\ Has(functors, Head(functors))
      /\ Has(Tail(functors), x) => Has(functors, x)
      /\ x # Head(functors) /\ Has(functors, x) => Has(Tail(functors), x)
      /\ Once(functors, x) => Once(Tail(functors), x)
      /\ Once(functors, x) /\ x = Head(functors) => ~Has(Tail(functors), x)
  BY <1>1, QueueTail
<1>3. QED
  BY <1>1, <1>2 DEF Waiting, Single

(* startInLoop() begins an attempt only when the last one's Channel is gone. *)
LEMMA StartIsSafe ==
  ASSUME TypeOK, ~failed, state_ = "kDisconnected", channel_ = "none" \/ ~connect_', StartInLoop
  PROVE  /\ failed' = FALSE
         /\ \/ /\ connect_' /\ state_' = "kConnecting" /\ channel_' = "watched"
               /\ timers' = timers
            \/ /\ state_' = "kDisconnected" /\ channel_' = channel_
               /\ timers' = timers \/ (timers' = timers + 1 /\ connect_')
<1>1. CASE connect_'
  <2>1. Connect(retryDelayMs_) /\ channel_ = "none"
    BY <1>1 DEF StartInLoop
  <2>2. QED
    BY <1>1, <2>1 DEF Connect, Connecting, Retry, Again, TypeOK
<1>2. CASE ~connect_'
  BY <1>2 DEF StartInLoop, attemptVars, retryVars, TypeOK
<1>3. QED
  BY <1>1, <1>2

(* The calls a step makes. *)
LEMMA CallsOfStep ==
  ASSUME [Next]_vars
  PROVE  /\ others' = others
         /\ \/ UNCHANGED callVars
            \/ Start \/ StartHere \/ Stop \/ Restart
BY DEF Next, IoStep, ClientStep, Poll, HandleError, HandleWrite, HandleTimerfd, RunTimer,
   SwapFunctors, RunStart, RunStop, RunReset, Runs, EndFunctors, Start, StartHere, Stop,
   Restart, vars, loopVars

LEMMA FirstStartIsPlain == Inv /\ SafeInv /\ [Next]_vars => (starts' = 0 => plain')
<1> SUFFICES ASSUME Inv, SafeInv, [Next]_vars PROVE starts' = 0 => plain'
  OBVIOUS
<1>1. starts + 1 # 0 /\ (starts = 0 => plain)
  BY ConnectorAssumption DEF Inv, TypeOK, SafeInv
<1>2. starts' = starts + 1 \/ UNCHANGED <<starts, plain>>
  BY CallsOfStep DEF callVars, Start, StartHere, Stop, Restart
<1>3. QED
  BY <1>1, <1>2

LEMMA SafeStep ==
  ASSUME Inv, SafeInv, [Next]_vars, plain', ~others'
  PROVE  Safe'
<1>1. plain => Safe
  BY CallsOfStep DEF SafeInv
<1>2. plain
  BY CallsOfStep DEF SafeInv, callVars, Start, StartHere, Stop, Restart
<1>3. /\ ~failed /\ StartsInv /\ AttemptsInv /\ ChannelInv /\ TypeOK /\ ~others
      /\ channel_ = "watched" <=> state_ = "kConnecting"
  BY <1>1, <1>2, CallsOfStep DEF Safe, Inv, SocketIsOwned
<1>4. "startInLoop" \in Functors /\ "stopInLoop" \in Functors /\ "resetChannel" \in Functors
  BY DEF Functors
<1>5. /\ active # {} \/ due # 0 => phase = "events"
      /\ functors # <<>> => phase = "functors"
      /\ due \in Nat /\ timers \in Nat
  BY <1>3 DEF TypeOK
<1>6. ASSUME UNCHANGED <<functors, pending>>, NEW x
      PROVE  (Waiting(x)' <=> Waiting(x)) /\ (Single(x)' <=> Single(x))
  BY <1>6 DEF Waiting, Single
<1>7. ASSUME NEW ready \in SUBSET {"ERR", "OUT", "timerfd"}, Poll(ready)
      PROVE  Safe'
  <2>1. /\ phase = "poll" /\ active' = ready /\ phase' = "events"
        /\ ready \intersect {"ERR", "OUT"} # {} => channel_ = "watched"
        /\ "timerfd" \in ready => timers # 0
        /\ UNCHANGED <<failed, state_, channel_, timers, due, starts, stops, connect_,
                       functors, pending>>
    BY <1>3, <1>5, <1>7 DEF Poll, attemptVars, retryVars, callVars
  <2>2. StartsInv'
    BY <1>3, <1>6, <2>1 DEF StartsInv, Quiet
  <2>3. AttemptsInv'
    BY <1>3, <1>6, <2>1 DEF AttemptsInv, Quiet
  <2>4. ChannelInv'
    BY <1>3, <1>6, <2>1 DEF ChannelInv
  <2>5. QED
    BY <1>3, <2>1, <2>2, <2>3, <2>4 DEF Safe
<1>a. ASSUME UNCHANGED functors, pending' = Append(pending, "resetChannel"), channel_ = "watched"
      PROVE  /\ Waiting("startInLoop")' <=> Waiting("startInLoop")
             /\ Waiting("stopInLoop")' <=> Waiting("stopInLoop")
             /\ Waiting("resetChannel")'
             /\ Single("startInLoop")' /\ Single("resetChannel")'
             /\ ~Waiting("startInLoop")
  <2>1. Single("startInLoop") /\ Single("resetChannel") /\ ~Waiting("resetChannel")
        /\ ~Waiting("startInLoop")
    BY <1>3, <1>a DEF AttemptsInv, ChannelInv, Quiet
  <2>2. /\ Waiting("startInLoop")' <=> Waiting("startInLoop")
        /\ Waiting("stopInLoop")' <=> Waiting("stopInLoop")
        /\ Waiting("resetChannel")'
    BY <1>3, <1>4, <1>a, QueuedAfter
  <2>3. Single("startInLoop")' /\ Single("resetChannel")'
    BY <1>3, <1>4, <1>a, <2>1, QueuedAfter
  <2>4. QED
    BY <2>1, <2>2, <2>3
<1>8. CASE HandleError
  <2>1. /\ "ERR" \in active /\ due = 0 /\ active' = active \ {"ERR"}
        /\ UNCHANGED <<due, phase, functors, connect_, starts, stops>>
    BY <1>8 DEF HandleError, callVars
  <2>2. state_ = "kConnecting" /\ channel_ = "watched"
    BY <1>3, <2>1 DEF ChannelInv
  <2>3. /\ channel_' = "removed" /\ pending' = Append(pending, "resetChannel")
        /\ failed' = failed /\ state_' = "kDisconnected"
        /\ timers' = timers \/ timers' = timers + 1
    BY <1>8, <2>2 DEF HandleError, RemoveAndResetChannel, Retry, Again
  <2>4. timers = 0 /\ phase = "events" /\ starts # 0
    BY <1>3, <1>5, <2>1, <2>2 DEF AttemptsInv, StartsInv, Quiet
  <2>5. StartsInv'
    BY <1>3, <1>a, <2>1, <2>2, <2>3, <2>4 DEF StartsInv
  <2>6. AttemptsInv'
    BY <1>3, <1>a, <2>1, <2>2, <2>3, <2>4 DEF AttemptsInv
  <2>7. ChannelInv'
    BY <1>3, <1>a, <2>1, <2>2, <2>3, <2>4 DEF ChannelInv
  <2>8. QED
    BY <1>3, <2>3, <2>5, <2>6, <2>7 DEF Safe
<1>9. CASE HandleWrite
  <2>1. /\ "OUT" \in active /\ "ERR" \notin active /\ due = 0 /\ active' = active \ {"OUT"}
        /\ UNCHANGED <<due, phase, functors, connect_, starts, stops>> /\ phase = "events"
    BY <1>5, <1>9 DEF HandleWrite, callVars
  <2>2. CASE state_ = "kConnecting"
    <3>1. channel_ = "watched"
      BY <1>3, <2>2
    <3>2. /\ channel_' = "removed" /\ pending' = Append(pending, "resetChannel")
          /\ failed' = failed
          /\ \/ state_' = "kDisconnected" /\ (timers' = timers \/ timers' = timers + 1)
             \/ state_' = "kConnected" /\ timers' = timers
      BY <1>9, <2>2 DEF HandleWrite, RemoveAndResetChannel, Retry, Again, retryVars
    <3>3. timers = 0 /\ starts # 0
      BY <1>3, <1>5, <2>1, <2>2 DEF AttemptsInv, StartsInv, Quiet
    <3>4. StartsInv'
      BY <1>3, <1>a, <2>1, <3>1, <3>2, <3>3 DEF StartsInv
    <3>5. AttemptsInv'
      BY <1>3, <1>a, <2>1, <3>1, <3>2, <3>3 DEF AttemptsInv
    <3>6. ChannelInv'
      BY <1>3, <1>a, <2>1, <3>1, <3>2, <3>3 DEF ChannelInv
    <3>7. QED
      BY <1>3, <3>2, <3>4, <3>5, <3>6 DEF Safe
  <2>3. CASE state_ # "kConnecting"
    <3>1. state_ = "kDisconnected"
      BY <1>3, <2>1, <2>3 DEF ChannelInv
    <3>2. ~failed' /\ UNCHANGED <<state_, channel_, timers, pending>>
      BY <1>9, <2>3, <3>1 DEF HandleWrite, retryVars
    <3>3. StartsInv'
      BY <1>3, <1>6, <2>1, <3>2 DEF StartsInv, Quiet
    <3>4. AttemptsInv'
      BY <1>3, <1>6, <2>1, <3>2 DEF AttemptsInv, Quiet
    <3>5. ChannelInv'
      BY <1>3, <1>6, <2>1, <3>2 DEF ChannelInv
    <3>6. QED
      BY <3>2, <3>3, <3>4, <3>5 DEF Safe
  <2>4. QED
    BY <2>2, <2>3
<1>10. ASSUME NEW n \in 0..timers, HandleTimerfd(n)
       PROVE  Safe'
  <2>1. /\ "timerfd" \in active /\ due = 0 /\ active' = active \ {"timerfd"}
        /\ due' = n /\ timers' = timers - n
        /\ UNCHANGED <<failed, state_, channel_, phase, starts, stops, connect_, functors, pending>>
    BY <1>10 DEF HandleTimerfd, attemptVars, callVars
  <2>2. /\ timers = 1 /\ state_ = "kDisconnected" /\ phase = "events"
        /\ (timers' = 1 /\ due' = 0) \/ (timers' = 0 /\ due' = 1)
    BY <1>3, <1>5, <2>1 DEF ChannelInv, AttemptsInv
  <2>3. starts # 0 /\ ~Waiting("startInLoop") /\ ~(channel_ = "removed" /\ connect_)
    BY <1>3, <2>1, <2>2 DEF StartsInv, AttemptsInv, ChannelInv, Quiet
  <2>4. StartsInv'
    BY <1>3, <1>6, <2>1, <2>3 DEF StartsInv
  <2>5. AttemptsInv'
    BY <1>3, <1>6, <2>1, <2>2, <2>3 DEF AttemptsInv
  <2>6. ChannelInv'
    BY <1>3, <1>6, <2>1, <2>2, <2>3 DEF ChannelInv
  <2>7. QED
    BY <1>3, <2>1, <2>4, <2>5, <2>6 DEF Safe
<1>11. CASE RunTimer
  <2>1. /\ due > 0 /\ due' = due - 1 /\ StartInLoop
        /\ UNCHANGED <<phase, active, functors, pending, connect_, starts, stops>>
    BY <1>11 DEF RunTimer, callVars
  <2>2. timers = 0 /\ due = 1 /\ state_ = "kDisconnected" /\ phase = "events" /\ due' = 0
    BY <1>3, <1>5, <2>1 DEF AttemptsInv
  <2>3. /\ starts # 0 /\ ~Waiting("startInLoop") /\ channel_ # "watched"
        /\ channel_ = "removed" => ~connect_
    BY <1>3, <2>2 DEF StartsInv, AttemptsInv, ChannelInv, Quiet
  <2>4. channel_ = "none" \/ ~connect_'
    BY <1>3, <2>1, <2>3 DEF TypeOK
  <2>5. /\ failed' = FALSE
        /\ \/ /\ connect_ /\ state_' = "kConnecting" /\ channel_' = "watched"
              /\ timers' = 0 /\ channel_ = "none"
           \/ /\ state_' = "kDisconnected" /\ channel_' = channel_
              /\ timers' = 0 \/ (timers' = 1 /\ connect_ /\ channel_ = "none")
    <3>1. /\ failed' = FALSE
          /\ \/ /\ connect_' /\ state_' = "kConnecting" /\ channel_' = "watched"
                /\ timers' = timers
             \/ /\ state_' = "kDisconnected" /\ channel_' = channel_
                /\ timers' = timers \/ (timers' = timers + 1 /\ connect_')
      BY <1>3, <2>1, <2>2, <2>4, StartIsSafe
    <3>2. connect_' = connect_ /\ (connect_' => channel_ = "none")
      BY <2>1, <2>4
    <3>3. QED
      BY <2>2, <3>1, <3>2
  <2>6. StartsInv'
    BY <1>3, <1>6, <2>1, <2>3 DEF StartsInv
  <2>7. AttemptsInv'
    BY <1>3, <1>6, <2>1, <2>2, <2>3, <2>5 DEF AttemptsInv
  <2>8. ChannelInv'
    BY <1>3, <1>6, <2>1, <2>2, <2>3, <2>5 DEF ChannelInv
  <2>9. QED
    BY <2>5, <2>6, <2>7, <2>8 DEF Safe
<1>12. CASE SwapFunctors
  <2>1. /\ phase = "events" /\ active = {} /\ due = 0 /\ phase' = "functors"
        /\ functors' = pending /\ pending' = <<>> /\ functors = <<>>
        /\ UNCHANGED <<failed, state_, channel_, timers, due, active, starts, stops, connect_>>
    BY <1>5, <1>12 DEF SwapFunctors, attemptVars, retryVars, callVars
  <2>2. ASSUME NEW x
        PROVE  /\ Waiting(x)' <=> Waiting(x)
               /\ Single(x)' <=> Single(x)
               /\ Waiting(x) => Has(functors', x)
    <3>1. ~Has(functors, x) /\ Once(functors, x) /\ ~Has(pending', x) /\ Once(pending', x)
      BY <2>1, QueueEmpty
    <3>2. QED
      BY <2>1, <3>1 DEF Waiting, Single
  <2>3. StartsInv'
    BY <1>3, <2>1, <2>2 DEF StartsInv, Quiet
  <2>4. AttemptsInv'
    BY <1>3, <2>1, <2>2 DEF AttemptsInv, Quiet
  <2>5. ChannelInv'
    BY <1>3, <2>1, <2>2 DEF ChannelInv
  <2>6. QED
    BY <1>3, <2>1, <2>3, <2>4, <2>5 DEF Safe
<1>13. CASE RunStart
  <2>1. /\ Runs("startInLoop") /\ StartInLoop /\ pending' = pending
        /\ UNCHANGED <<due, phase, active, connect_, starts, stops>> /\ phase = "functors"
    BY <1>5, <1>13 DEF RunStart, Runs, callVars
  <2>2. /\ Waiting("startInLoop") /\ ~Waiting("startInLoop")' /\ Single("startInLoop")'
        /\ (Waiting("resetChannel")' <=> Waiting("resetChannel")) /\ Single("resetChannel")'
        /\ Waiting("stopInLoop")' => Waiting("stopInLoop")
    BY <1>3, <2>1, RunAfter DEF AttemptsInv, ChannelInv
  <2>3. Quiet /\ active = {} /\ starts # 0
    BY <1>3, <1>5, <2>1, <2>2 DEF AttemptsInv, StartsInv
  <2>4. /\ failed' = FALSE
        /\ \/ state_' = "kConnecting" /\ channel_' = "watched" /\ timers' = 0
           \/ /\ state_' = "kDisconnected" /\ channel_' = "none"
              /\ timers' = 0 \/ timers' = 1
    BY <1>3, <2>1, <2>3, StartIsSafe DEF Quiet
  <2>5. StartsInv'
    BY <1>3, <2>1, <2>2, <2>3 DEF StartsInv
  <2>6. AttemptsInv'
    BY <1>3, <2>1, <2>2, <2>3, <2>4 DEF AttemptsInv, Quiet
  <2>7. ChannelInv'
    BY <1>3, <2>1, <2>2, <2>3, <2>4 DEF ChannelInv, Quiet
  <2>8. QED
    BY <2>4, <2>5, <2>6, <2>7 DEF Safe
<1>14. CASE RunStop
  <2>1. /\ Runs("stopInLoop") /\ StopInLoop /\ phase = "functors" /\ due = 0 /\ active = {}
        /\ UNCHANGED <<due, phase, active, connect_, starts, stops>>
    BY <1>5, <1>14 DEF RunStop, Runs, callVars
  <2>2. /\ functors \in Seq(Functors) /\ pending \in Seq(Functors)
        /\ functors # <<>> /\ functors' = Tail(functors) /\ Head(functors) = "stopInLoop"
    BY <1>3, <2>1 DEF Runs, TypeOK
  <2>3. ASSUME NEW x
        PROVE  /\ Has(functors', x) => Has(functors, x)
               /\ x # "stopInLoop" => (Has(functors', x) <=> Has(functors, x))
               /\ Once(functors, x) => Once(functors', x)
               /\ Has(functors, "stopInLoop")
    BY <2>2, QueueTail
  <2>4. ~connect_ /\ stops > 0
    BY <1>3, <2>3 DEF StartsInv, Waiting
  <2>5. CASE state_ = "kConnecting"
    <3>1. /\ channel_ = "watched" /\ timers = 0 /\ starts # 0 /\ ~Waiting("startInLoop")
          /\ ~Waiting("resetChannel") /\ Single("startInLoop") /\ Single("resetChannel")
      BY <1>3, <2>5 DEF AttemptsInv, StartsInv, ChannelInv, Quiet
    <3>2. /\ channel_' = "removed" /\ pending' = Append(pending, "resetChannel")
          /\ failed' = failed /\ state_' = "kDisconnected" /\ timers' = timers
      BY <2>1, <2>4, <2>5 DEF StopInLoop, RemoveAndResetChannel, Retry, Again
    <3>3. ASSUME NEW x
          PROVE  /\ Has(pending', x) <=> Has(pending, x) \/ x = "resetChannel"
                 /\ Once(pending, x) /\ ~(x = "resetChannel" /\ Has(pending, x)) => Once(pending', x)
      BY <1>4, <2>2, <3>2, QueueAppend
    <3>4. /\ ~Waiting("startInLoop")' /\ Single("startInLoop")'
          /\ Waiting("resetChannel")' /\ Single("resetChannel")'
      BY <2>3, <3>1, <3>3 DEF Waiting, Single
    <3>5. StartsInv'
      BY <2>1, <2>4, <3>1 DEF StartsInv
    <3>6. AttemptsInv'
      BY <2>1, <3>1, <3>2, <3>4 DEF AttemptsInv
    <3>7. ChannelInv'
      BY <2>1, <2>4, <3>2, <3>4 DEF ChannelInv
    <3>8. QED
      BY <1>3, <3>2, <3>5, <3>6, <3>7 DEF Safe
  <2>6. CASE state_ # "kConnecting"
    <3>1. UNCHANGED <<failed, state_, channel_, timers, pending>>
      BY <2>1, <2>6 DEF StopInLoop, attemptVars, retryVars
    <3>2. ASSUME NEW x, x # "stopInLoop"
          PROVE  (Waiting(x)' <=> Waiting(x)) /\ (Single(x) => Single(x)')
      BY <2>3, <3>1, <3>2 DEF Waiting, Single
    <3>3. StartsInv'
      BY <1>3, <2>1, <2>4, <3>1, <3>2 DEF StartsInv, Quiet
    <3>4. AttemptsInv'
      BY <1>3, <2>1, <3>1, <3>2 DEF AttemptsInv, Quiet
    <3>5. ChannelInv'
      BY <1>3, <2>1, <2>4, <3>1, <3>2 DEF ChannelInv
    <3>6. QED
      BY <1>3, <3>1, <3>3, <3>4, <3>5 DEF Safe
  <2>7. QED
    BY <2>5, <2>6
<1>15. CASE RunReset
  <2>1. /\ Runs("resetChannel") /\ phase = "functors" /\ active = {}
        /\ UNCHANGED <<pending, due, phase, active, connect_, starts, stops, state_, timers>>
    BY <1>5, <1>15 DEF RunReset, Runs, callVars, retryVars
  <2>2. /\ Waiting("resetChannel") /\ ~Waiting("resetChannel")' /\ Single("resetChannel")'
        /\ (Waiting("startInLoop")' <=> Waiting("startInLoop")) /\ Single("startInLoop")'
        /\ Waiting("stopInLoop")' => Waiting("stopInLoop")
    BY <1>3, <2>1, RunAfter DEF AttemptsInv, ChannelInv
  <2>3. channel_ = "removed" /\ channel_' = "none" /\ failed' = failed /\ state_ # "kConnecting"
    BY <1>3, <1>15, <2>2 DEF ChannelInv, RunReset
  <2>4. starts # 0 /\ ~Waiting("startInLoop")
    BY <1>3, <2>3 DEF StartsInv, AttemptsInv, Quiet
  <2>5. StartsInv'
    BY <1>3, <2>1, <2>2, <2>4 DEF StartsInv
  <2>6. AttemptsInv'
    BY <1>3, <2>1, <2>2, <2>4 DEF AttemptsInv
  <2>7. ChannelInv'
    BY <1>3, <2>1, <2>2, <2>3 DEF ChannelInv
  <2>8. QED
    BY <1>3, <2>3, <2>5, <2>6, <2>7 DEF Safe
<1>16. CASE EndFunctors
  <2>1. /\ functors = <<>> /\ phase = "functors" /\ phase' = "poll"
        /\ UNCHANGED <<failed, state_, channel_, timers, due, active, functors, pending,
                       connect_, starts, stops>>
    BY <1>16 DEF EndFunctors, attemptVars, retryVars, callVars
  <2>2. ~(channel_ = "removed" /\ connect_)
    BY <1>3, <2>1, QueueEmpty DEF ChannelInv
  <2>3. StartsInv'
    BY <1>3, <1>6, <2>1 DEF StartsInv, Quiet
  <2>4. AttemptsInv'
    BY <1>3, <1>6, <2>1 DEF AttemptsInv, Quiet
  <2>5. ChannelInv'
    BY <1>3, <1>6, <2>1, <2>2 DEF ChannelInv
  <2>6. QED
    BY <1>3, <2>1, <2>3, <2>4, <2>5 DEF Safe
<1>17. CASE Start
  <2>1. /\ starts' = starts + 1 /\ starts = 0 /\ stops = 0 /\ connect_' = TRUE
        /\ pending' = Append(pending, "startInLoop")
        /\ UNCHANGED <<failed, state_, channel_, timers, due, active, phase, functors, stops>>
    BY <1>17 DEF Start, attemptVars, retryVars, loopVars
  <2>2. Quiet /\ ~Waiting("startInLoop") /\ starts' # 0
    BY <1>3, <2>1 DEF StartsInv
  <2>3. /\ Single("startInLoop")'
        /\ (Waiting("resetChannel")' <=> Waiting("resetChannel")) /\ Single("resetChannel")'
        /\ (Waiting("stopInLoop")' <=> Waiting("stopInLoop"))
    BY <1>3, <1>4, <2>1, <2>2, QueuedAfter DEF AttemptsInv, ChannelInv
  <2>4. StartsInv'
    BY <1>3, <2>1, <2>2, <2>3 DEF StartsInv
  <2>5. AttemptsInv'
    BY <1>3, <2>1, <2>2, <2>3 DEF AttemptsInv, Quiet
  <2>6. ChannelInv'
    BY <1>3, <2>1, <2>2, <2>3 DEF ChannelInv, Quiet
  <2>7. QED
    BY <1>3, <2>1, <2>4, <2>5, <2>6 DEF Safe
<1>18. CASE StartHere
  <2>1. /\ starts' = starts + 1 /\ starts = 0 /\ stops = 0 /\ connect_' = TRUE /\ StartInLoop
        /\ UNCHANGED <<due, active, phase, functors, pending, stops>>
    BY <1>18 DEF StartHere, loopVars
  <2>2. Quiet /\ ~Waiting("startInLoop") /\ starts' # 0 /\ ~connect_
    BY <1>3, <2>1 DEF StartsInv
  <2>3. /\ failed' = FALSE
        /\ \/ state_' = "kConnecting" /\ channel_' = "watched" /\ timers' = 0
           \/ /\ state_' = "kDisconnected" /\ channel_' = "none"
              /\ timers' = 0 \/ timers' = 1
    BY <1>3, <2>1, <2>2, StartIsSafe DEF Quiet
  <2>4. StartsInv'
    BY <1>3, <1>6, <2>1, <2>2 DEF StartsInv
  <2>5. AttemptsInv'
    BY <1>3, <1>6, <2>1, <2>2, <2>3 DEF AttemptsInv, Quiet
  <2>6. ChannelInv'
    BY <1>3, <1>6, <2>1, <2>2, <2>3 DEF ChannelInv, Quiet
  <2>7. QED
    BY <2>3, <2>4, <2>5, <2>6 DEF Safe
<1>19. CASE Stop
  <2>1. /\ stops' = stops + 1 /\ connect_' = FALSE /\ pending' = Append(pending, "stopInLoop")
        /\ UNCHANGED <<failed, state_, channel_, timers, due, active, phase, functors, starts>>
    BY <1>19 DEF Stop, attemptVars, retryVars, loopVars
  <2>2. stops' > 0
    BY <1>3, <2>1, ConnectorAssumption DEF TypeOK
  <2>3. /\ (Waiting("startInLoop")' <=> Waiting("startInLoop")) /\ Single("startInLoop")'
        /\ (Waiting("resetChannel")' <=> Waiting("resetChannel")) /\ Single("resetChannel")'
    BY <1>3, <1>4, <2>1, QueuedAfter DEF AttemptsInv, ChannelInv
  <2>4. StartsInv'
    BY <1>3, <2>1, <2>2, <2>3 DEF StartsInv, Quiet
  <2>5. AttemptsInv'
    BY <1>3, <2>1, <2>3 DEF AttemptsInv, Quiet
  <2>6. ChannelInv'
    BY <1>3, <2>1, <2>3 DEF ChannelInv
  <2>7. QED
    BY <1>3, <2>1, <2>4, <2>5, <2>6 DEF Safe
<1>20. CASE Restart
  <2>1. /\ state_ = "kConnected" /\ channel_ = "none" /\ stops = 0 /\ connect_' = TRUE
        /\ Connect(kInitRetryDelayMs)
        /\ UNCHANGED <<due, active, phase, functors, pending, starts, stops>>
    BY <1>20 DEF Restart, loopVars
  <2>2. /\ starts # 0 /\ ~Waiting("startInLoop") /\ timers = 0 /\ due = 0
        /\ "ERR" \notin active /\ "OUT" \notin active /\ ~Waiting("resetChannel")
    BY <1>3, <2>1 DEF StartsInv, AttemptsInv, ChannelInv, Quiet
  <2>3. /\ failed' = failed
        /\ \/ state_' = "kConnecting" /\ channel_' = "watched" /\ timers' = 0
           \/ /\ state_' = "kDisconnected" /\ channel_' = "none"
              /\ timers' = 0 \/ timers' = 1
    BY <2>1, <2>2 DEF Connect, Connecting, Retry, Again
  <2>4. StartsInv'
    BY <1>3, <1>6, <2>1, <2>2 DEF StartsInv
  <2>5. AttemptsInv'
    BY <1>3, <1>6, <2>1, <2>2, <2>3 DEF AttemptsInv
  <2>6. ChannelInv'
    BY <1>3, <1>6, <2>1, <2>2, <2>3 DEF ChannelInv
  <2>7. QED
    BY <1>3, <2>3, <2>4, <2>5, <2>6 DEF Safe
<1>21. CASE UNCHANGED vars
  <2>1. UNCHANGED <<failed, state_, channel_, timers, due, active, phase, functors, pending,
                    connect_, starts, stops>>
    BY <1>21 DEF vars, attemptVars, retryVars, loopVars, callVars
  <2>2. StartsInv'
    BY <1>3, <1>6, <2>1 DEF StartsInv, Quiet
  <2>3. AttemptsInv'
    BY <1>3, <1>6, <2>1 DEF AttemptsInv, Quiet
  <2>4. ChannelInv'
    BY <1>3, <1>6, <2>1 DEF ChannelInv
  <2>5. QED
    BY <1>3, <2>1, <2>2, <2>3, <2>4 DEF Safe
<1>22. QED
  BY <1>7, <1>8, <1>9, <1>10, <1>11, <1>12, <1>13, <1>14, <1>15, <1>16, <1>17, <1>18, <1>19,
     <1>20, <1>21 DEF Next, IoStep, ClientStep

(* A client that starts once and stops last meets no assertion, with no       *)
(* other timer in its loop: each attempt finds the Channel of the last one    *)
(* gone (Connector.cpp:35, 71, 138, 174, 180).                                *)
THEOREM OneStartIsSafeCorrect == Spec => []OneStartIsSafe
<1>1. Init => SafeInv
  <2> SUFFICES ASSUME Init PROVE SafeInv
    OBVIOUS
  <2>1. \A x : ~Waiting(x) /\ Single(x)
    BY QueueEmpty DEF Init, Waiting, Single
  <2>2. StartsInv /\ AttemptsInv /\ ChannelInv
    BY <2>1 DEF Init, StartsInv, AttemptsInv, ChannelInv, Quiet
  <2>3. QED
    BY <2>2 DEF Init, SafeInv, Safe
<1>2. Inv /\ SafeInv /\ [Next]_vars => SafeInv'
  <2> SUFFICES ASSUME Inv, SafeInv, [Next]_vars PROVE SafeInv'
    OBVIOUS
  <2>1. starts' = 0 => plain'
    BY FirstStartIsPlain
  <2>2. plain' /\ ~others' => Safe'
    BY SafeStep
  <2>3. QED
    BY <2>1, <2>2 DEF SafeInv
<1>3. SafeInv => OneStartIsSafe
  BY DEF SafeInv, Safe, OneStartIsSafe
<1>4. QED
  BY <1>1, <1>2, <1>3, InvHolds, PTL DEF Spec

----------------------------------------------------------------------------
(* WebBench.  What is printed is a sum over all clients, so the sums come    *)
(* first.  SumOf folds over a set; the partial sums are the values of one    *)
(* function over the subsets (AddsUp), and a set on which two of them differ *)
(* would have a smallest such subset.                                        *)

LEMMA LeastMember ==
  ASSUME NEW T \in SUBSET Nat, T # {}
  PROVE  \E x \in T : \A y \in T : x <= y
<1> DEFINE less == {p \in Nat \X Nat : p[1] < p[2]}
<1>1. IsWellFoundedOn(less, Nat)
  BY NatLessThanWellFounded, Zenon DEF OpToRel
<1>2. PICK x \in T : \A y \in T : ~(<<y, x>> \in less)
  <2> HIDE DEF less
  <2> QED
    BY <1>1, WFMin
<1>3. ASSUME NEW y \in T
      PROVE  x <= y
  <2>1. <<y, x>> \in Nat \X Nat /\ x \in Nat /\ y \in Nat
    OBVIOUS
  <2>2. ~(<<y, x>>[1] < <<y, x>>[2])
    BY <1>2, <2>1, Zenon
  <2> QED
    BY <2>1, <2>2
<1> QED
  BY <1>3

(* What the reports of the clients in S add up to, and one step of that sum: *)
(* a function over the subsets of S.                                         *)
SumOf(n, cl, S) == FoldFunctionOnSet(LAMBDA r, sum : r[n] + sum, 0, cl, S)

Adds(n, cl, p, T) ==
  IF T = {} THEN 0 ELSE cl[CHOOSE x \in T : TRUE][n] + p[T \ {CHOOSE x \in T : TRUE}]

Small(S, m) == {T \in SUBSET S : Cardinality(T) <= m}
AddsUp(n, cl, p, D) == p = [T \in D |-> Adds(n, cl, p, T)]

LEMMA Smaller ==
  ASSUME NEW S, IsFiniteSet(S), NEW T \in SUBSET S, T # {}
  PROVE  /\ (CHOOSE x \in T : TRUE) \in T
         /\ T \ {CHOOSE x \in T : TRUE} \in SUBSET S
         /\ Cardinality(T \ {CHOOSE x \in T : TRUE}) = Cardinality(T) - 1
         /\ Cardinality(T) \in Nat \ {0}
         /\ Cardinality(T) <= Cardinality(S)
<1>1. (CHOOSE x \in T : TRUE) \in T
  OBVIOUS
<1> DEFINE y == CHOOSE x \in T : TRUE
<1> HIDE DEF y
<1>2. y \in T
  BY <1>1 DEF y
<1>3. IsFiniteSet(T) /\ Cardinality(T) <= Cardinality(S)
  BY FS_Subset
<1>4. Cardinality(T \ {y}) = Cardinality(T) - 1 /\ Cardinality(T) \in Nat
  BY <1>2, <1>3, FS_RemoveElement, FS_CardinalityType
<1>5. Cardinality(T) # 0
  BY <1>3, FS_EmptySet
<1> QED
  BY <1>2, <1>3, <1>4, <1>5 DEF y

LEMMA SumExists ==
  ASSUME NEW n, NEW cl, NEW S, IsFiniteSet(S)
  PROVE  \E p : AddsUp(n, cl, p, SUBSET S)
<1> DEFINE HasRows(m) == \E p : AddsUp(n, cl, p, Small(S, m))
<1>1. HasRows(0)
  <2> DEFINE p == [T \in Small(S, 0) |-> 0]
  <2>1. ASSUME NEW T \in Small(S, 0)
        PROVE  Adds(n, cl, p, T) = 0
    <3>1. T \in SUBSET S /\ Cardinality(T) <= 0
      BY DEF Small
    <3>2. T = {}
      <4>1. T # {} => Cardinality(T) \in Nat \ {0}
        BY <3>1, Smaller
      <4> QED
        BY <3>1, <4>1
    <3> QED
      BY <3>2 DEF Adds
  <2>2. p = [T \in Small(S, 0) |-> Adds(n, cl, p, T)]
    BY <2>1, Zenon
  <2> QED
    BY <2>2 DEF AddsUp
<1>2. ASSUME NEW m \in Nat, HasRows(m)
      PROVE  HasRows(m + 1)
  <2>1. PICK p : AddsUp(n, cl, p, Small(S, m))
    BY <1>2
  <2> DEFINE D == Small(S, m + 1)
             r == [T \in D |-> IF T \in Small(S, m) THEN p[T] ELSE Adds(n, cl, p, T)]
  <2>2. \A T \in Small(S, m) : T \in D /\ r[T] = p[T] /\ p[T] = Adds(n, cl, p, T)
    <3>1. Small(S, m) \subseteq D
      BY FS_Subset, FS_CardinalityType DEF Small
    <3> QED
      BY <2>1, <3>1 DEF AddsUp
  <2>3. \A T \in D : T \notin Small(S, m) => r[T] = Adds(n, cl, p, T)
    OBVIOUS
  <2> HIDE DEF r
  <2>4. ASSUME NEW T \in D
        PROVE  Adds(n, cl, r, T) = Adds(n, cl, p, T)
    <3>1. CASE T = {}
      BY <3>1 DEF Adds
    <3>2. CASE T # {}
      <4>1. T \ {CHOOSE x \in T : TRUE} \in Small(S, m)
        BY <3>2, Smaller DEF Small
      <4>2. r[T \ {CHOOSE x \in T : TRUE}] = p[T \ {CHOOSE x \in T : TRUE}]
        BY <2>2, <4>1, Zenon
      <4> QED
        BY <4>2, Zenon DEF Adds
    <3> QED
      BY <3>1, <3>2
  <2>5. \A T \in D : r[T] = Adds(n, cl, r, T)
    BY <2>2, <2>3, <2>4
  <2>6. r = [T \in D |-> r[T]]
    BY DEF r
  <2>7. r = [T \in D |-> Adds(n, cl, r, T)]
    BY <2>5, <2>6, Zenon
  <2> QED
    BY <2>7 DEF AddsUp
<1>3. \A m \in Nat : HasRows(m)
  <2> DEFINE odd == {m \in Nat : ~HasRows(m)}
  <2> SUFFICES ASSUME odd # {} PROVE FALSE
    OBVIOUS
  <2>1. PICK m \in odd : \A k \in odd : m <= k
    <3>1. odd \in SUBSET Nat
      OBVIOUS
    <3> HIDE DEF odd
    <3> QED
      BY <3>1, LeastMember
  <2>2. m # 0
    BY <1>1, <2>1
  <2>3. m - 1 \in Nat /\ ~(m <= m - 1) /\ (m - 1) + 1 = m
    BY <2>1, <2>2
  <2>4. HasRows(m - 1)
    BY <2>1, <2>3
  <2>5. HasRows(m)
    <3> HIDE DEF HasRows
    <3> QED
      BY <1>2, <2>3, <2>4
  <2> QED
    BY <2>1, <2>5
<1>4. Small(S, Cardinality(S)) = SUBSET S /\ Cardinality(S) \in Nat
  BY FS_Subset, FS_CardinalityType DEF Small
<1> QED
  BY <1>3, <1>4

LEMMA SumRows ==
  ASSUME NEW n, NEW cl, NEW S, IsFiniteSet(S)
  PROVE  \E p : AddsUp(n, cl, p, SUBSET S) /\ SumOf(n, cl, S) = p[S]
<1>1. PICK p : AddsUp(n, cl, p, SUBSET S)
  BY SumExists
<1> QED
  BY <1>1, Zenon DEF SumOf, FoldFunctionOnSet, MapThenFoldSet, AddsUp, Adds

Agree(n, cl, dl, T) == \A c \in T : cl[c][n] = dl[c][n]
Counts(n, cl, S) == \A c \in S : cl[c][n] \in Nat
Sums(n, cl, p, R) == p[R] \in Nat /\ \A c \in R : p[R] = cl[c][n] + p[R \ {c}]

LEMMA RowsAgree ==
  ASSUME NEW n, NEW cl, NEW dl, NEW S, NEW T, IsFiniteSet(S), T \subseteq S,
         Agree(n, cl, dl, T),
         NEW p, NEW q, AddsUp(n, cl, p, SUBSET S), AddsUp(n, dl, q, SUBSET T)
  PROVE  \A R \in SUBSET T : p[R] = q[R]
<1> DEFINE odd == {R \in SUBSET T : p[R] # q[R]}
           sizes == {Cardinality(R) : R \in odd}
<1> SUFFICES ASSUME odd # {} PROVE FALSE
  OBVIOUS
<1>1. PICK m \in sizes : \A k \in sizes : m <= k
  <2>1. sizes \in SUBSET Nat /\ sizes # {}
    BY FS_Subset, FS_CardinalityType
  <2> HIDE DEF sizes
  <2> QED
    BY <2>1, LeastMember
<1>2. PICK R \in odd : m = Cardinality(R)
  BY <1>1
<1>3. p[R] = Adds(n, cl, p, R) /\ q[R] = Adds(n, dl, q, R) /\ p[R] # q[R] /\ R \in SUBSET T
  BY <1>2 DEF AddsUp
<1>4. R # {}
  BY <1>3 DEF Adds
<1> DEFINE y == CHOOSE x \in R : TRUE
<1>5. y \in R /\ R \ {y} \in SUBSET T /\ Cardinality(R \ {y}) = m - 1 /\ m \in Nat \ {0}
  <2>1. R \in SUBSET S
    BY <1>3
  <2> QED
    BY <1>2, <1>3, <1>4, <2>1, Smaller
<1>6. p[R] = cl[y][n] + p[R \ {y}] /\ q[R] = dl[y][n] + q[R \ {y}]
  BY <1>3, <1>4, Zenon DEF Adds
<1> HIDE DEF y
<1>7. p[R \ {y}] = q[R \ {y}]
  <2>1. ~(m <= m - 1)
    BY <1>5
  <2>2. m - 1 \notin sizes
    BY <1>1, <2>1
  <2> QED
    BY <1>5, <2>2
<1>8. cl[y][n] = dl[y][n]
  BY <1>3, <1>5 DEF Agree
<1> QED
  BY <1>3, <1>6, <1>7, <1>8

LEMMA RowsSum ==
  ASSUME NEW n, NEW cl, NEW S, IsFiniteSet(S), Counts(n, cl, S),
         NEW p, AddsUp(n, cl, p, SUBSET S)
  PROVE  \A R \in SUBSET S : Sums(n, cl, p, R)
<1> DEFINE Claim(R) == Sums(n, cl, p, R)
           odd == {R \in SUBSET S : ~Claim(R)}
           sizes == {Cardinality(R) : R \in odd}
<1> SUFFICES ASSUME odd # {} PROVE FALSE
  OBVIOUS
<1>1. PICK m \in sizes : \A k \in sizes : m <= k
  <2>1. sizes \in SUBSET Nat /\ sizes # {}
    <3>1. \A R \in SUBSET S : Cardinality(R) \in Nat
      BY FS_Subset, FS_CardinalityType
    <3> HIDE DEF Claim
    <3> QED
      BY <3>1
  <2> HIDE DEF sizes
  <2> QED
    BY <2>1, LeastMember
<1>2. PICK R \in odd : m = Cardinality(R)
  BY <1>1
<1>3. p[R] = Adds(n, cl, p, R) /\ R \in SUBSET S /\ ~Claim(R)
  BY <1>2 DEF AddsUp
<1>4. R # {}
  <2> SUFFICES ASSUME R = {} PROVE FALSE
    OBVIOUS
  <2>1. p[R] = 0
    BY <1>3 DEF Adds
  <2> QED
    BY <1>3, <2>1 DEF Sums
<1> DEFINE y == CHOOSE x \in R : TRUE
<1>5. y \in R /\ R \ {y} \in SUBSET S /\ Cardinality(R \ {y}) = m - 1 /\ m \in Nat \ {0}
  BY <1>2, <1>3, <1>4, Smaller
<1>6. p[R] = cl[y][n] + p[R \ {y}]
  BY <1>3, <1>4, Zenon DEF Adds
<1> HIDE DEF y
<1>7. ASSUME NEW T \in SUBSET S, Cardinality(T) = m - 1
      PROVE  Claim(T)
  <2>1. ~(m <= m - 1)
    BY <1>5
  <2>2. m - 1 \notin sizes
    BY <1>1, <2>1
  <2> QED
    BY <1>7, <2>2
<1>8. p[R] \in Nat
  <2>1. p[R \ {y}] \in Nat /\ cl[y][n] \in Nat
    BY <1>3, <1>5, <1>7 DEF Sums, Counts
  <2> QED
    BY <1>6, <2>1
<1>9. ASSUME NEW c \in R, c # y
      PROVE  p[R] = cl[c][n] + p[R \ {c}]
  <2> DEFINE T == R \ {c}
             U == T \ {y}
  <2>1. U = (R \ {y}) \ {c} /\ c \in R \ {y} /\ y \in T /\ T \in SUBSET S /\ U \in SUBSET S
    BY <1>3, <1>5, <1>9
  <2>2. Cardinality(T) = m - 1
    BY <1>2, <1>3, FS_Subset, FS_RemoveElement
  <2>3. p[R \ {y}] = cl[c][n] + p[U]
    <3>1. Sums(n, cl, p, R \ {y})
      BY <1>5, <1>7
    <3>2. \A d \in R \ {y} : p[R \ {y}] = cl[d][n] + p[(R \ {y}) \ {d}]
      BY <3>1 DEF Sums
    <3> HIDE DEF T, U
    <3> QED
      BY <2>1, <3>2
  <2>4. p[T] = cl[y][n] + p[U] /\ p[T] \in Nat
    BY <1>7, <2>1, <2>2 DEF Sums
  <2>5. p[U] \in Nat
    <3>1. IsFiniteSet(T)
      BY <2>1, FS_Subset
    <3>2. Cardinality(U) = Cardinality(T) - 1
      BY <2>1, <3>1, FS_RemoveElement
    <3>3. Cardinality(U) \notin sizes
      BY <1>1, <1>5, <2>2, <3>2
    <3>4. Claim(U)
      <4> HIDE DEF Claim
      <4> QED
        BY <2>1, <3>3
    <3> QED
      BY <3>4 DEF Sums
  <2>6. cl[c][n] \in Nat /\ cl[y][n] \in Nat
    BY <1>3, <1>5 DEF Counts
  <2> HIDE DEF T, U
  <2> QED
    BY <1>6, <2>3, <2>4, <2>5, <2>6 DEF T
<1> QED
  BY <1>3, <1>6, <1>8, <1>9 DEF Sums

(* The sum takes in a client whenever it comes, and depends on nothing else. *)
LEMMA SumOfEmpty == ASSUME NEW n, NEW cl PROVE SumOf(n, cl, {}) = 0
<1>1. IsFiniteSet({})
  BY FS_EmptySet
<1>2. PICK p : AddsUp(n, cl, p, SUBSET {}) /\ SumOf(n, cl, {}) = p[{}]
  BY <1>1, SumRows
<1>3. p[{}] = Adds(n, cl, p, {})
  BY <1>2 DEF AddsUp
<1> QED
  BY <1>2, <1>3 DEF Adds

LEMMA SumOfSame ==
  ASSUME NEW n, NEW cl, NEW dl, NEW S, IsFiniteSet(S), Agree(n, cl, dl, S)
  PROVE  SumOf(n, cl, S) = SumOf(n, dl, S)
<1>1. PICK p : AddsUp(n, cl, p, SUBSET S) /\ SumOf(n, cl, S) = p[S]
  BY SumRows
<1>2. PICK q : AddsUp(n, dl, q, SUBSET S) /\ SumOf(n, dl, S) = q[S]
  BY SumRows
<1>3. \A R \in SUBSET S : p[R] = q[R]
  BY <1>1, <1>2, RowsAgree
<1> QED
  BY <1>1, <1>2, <1>3

LEMMA SumOfMore ==
  ASSUME NEW n, NEW cl, NEW S, IsFiniteSet(S), NEW c, c \notin S,
         Counts(n, cl, S \union {c})
  PROVE  /\ SumOf(n, cl, S \union {c}) = SumOf(n, cl, S) + cl[c][n]
         /\ SumOf(n, cl, S) \in Nat
<1> DEFINE T == S \union {c}
<1>1. IsFiniteSet(T) /\ S \subseteq T /\ T \ {c} = S /\ c \in T
  BY FS_AddElement
<1> HIDE DEF T
<1>2. PICK p : AddsUp(n, cl, p, SUBSET T) /\ SumOf(n, cl, T) = p[T]
  BY <1>1, SumRows
<1>3. PICK q : AddsUp(n, cl, q, SUBSET S) /\ SumOf(n, cl, S) = q[S]
  BY SumRows
<1>4. p[S] = q[S]
  <2>1. \A R \in SUBSET S : p[R] = q[R]
    <3>1. Agree(n, cl, cl, S)
      BY DEF Agree
    <3> QED
      BY <1>1, <1>2, <1>3, <3>1, RowsAgree
  <2> QED
    BY <2>1
<1>5. p[T] = cl[c][n] + p[S]
  <2>1. Counts(n, cl, T)
    BY DEF T
  <2>2. Sums(n, cl, p, T)
    BY <1>1, <1>2, <2>1, RowsSum
  <2> QED
    BY <1>1, <2>2 DEF Sums
<1>6. q[S] \in Nat
  <2>1. Counts(n, cl, S)
    BY DEF Counts
  <2>2. Sums(n, cl, q, S)
    BY <1>3, <2>1, RowsSum
  <2> QED
    BY <2>2 DEF Sums
<1>7. cl[c][n] \in Nat
  BY DEF Counts
<1> QED
  BY <1>2, <1>3, <1>4, <1>5, <1>6, <1>7 DEF T

Counters == {"speed", "failed", "bytes"}
BenchPlaces == {"none", "connect", "top", "send", "read", "in read", "report", "done", "killed"}
ParentPlaces == {"getopt", "checking", "forking", "reading", "ended"}
ClientState ==
  [at : BenchPlaces, s : BOOLEAN, timerexpired : BOOLEAN,
   speed : Nat, failed : Nat, bytes : Nat, rounds : Nat]

ClientsOK == client \in [Client -> ClientState]

ParentOK ==
  /\ keep_alive \in BOOLEAN
  /\ parent \in ParentPlaces
  /\ forked \subseteq Client
  /\ clients \in Int
  /\ total \in [Counters -> Nat]
  /\ pipe \in Seq([Counters -> Nat])

OptionsOK ==
  options \in [method : {"GET", "HEAD", "OPTIONS", "TRACE"}, http10 : 0..2, force : BOOLEAN,
               force_reload : BOOLEAN, proxyhost : BOOLEAN, clients : Nat]

BenchTypeOK == ClientsOK /\ ParentOK /\ OptionsOK

LEMMA ClientMoves ==
  ASSUME ClientsOK, NEW c \in Client, NEW v \in ClientState, client' = [client EXCEPT ![c] = v]
  PROVE  ClientsOK' /\ client'[c] = v /\ \A d \in Client \ {c} : client'[d] = client[d]
<1> HIDE DEF ClientState
<1> QED
  BY DEF ClientsOK

LEMMA GoesTo ==
  ASSUME ClientsOK, NEW c \in Client, NEW at \in BenchPlaces, NEW s \in BOOLEAN, NEW counted,
         Goes(c, at, s, counted)
  PROVE  /\ ClientsOK'
         /\ \A d \in Client \ {c} : client'[d] = client[d]
         /\ client'[c].at = at
         /\ client'[c].rounds = client[c].rounds + (IF "round" \in counted THEN 1 ELSE 0)
         /\ client'[c].speed = client[c].speed + (IF "speed" \in counted THEN 1 ELSE 0)
         /\ client'[c].failed = client[c].failed + (IF "failed" \in counted THEN 1 ELSE 0)
         /\ UNCHANGED <<parentVars, pipe>>
<1> DEFINE r == client[c].rounds + (IF "round" \in counted THEN 1 ELSE 0)
           p == client[c].speed + (IF "speed" \in counted THEN 1 ELSE 0)
           f == client[c].failed + (IF "failed" \in counted THEN 1 ELSE 0)
           b == client[c].bytes + (IF "bytes" \in counted THEN 1 ELSE 0)
           u == [client[c] EXCEPT !.at = at, !.s = s, !.rounds = r, !.speed = p,
                                  !.failed = f, !.bytes = b]
<1>1. client[c] \in ClientState
  BY DEF ClientsOK
<1>2. client' = [client EXCEPT ![c] = u] /\ UNCHANGED <<parentVars, pipe>>
  BY <1>1 DEF Goes, ClientsOK
<1>3. r \in Nat /\ p \in Nat /\ f \in Nat /\ b \in Nat
  BY <1>1 DEF ClientState
<1> HIDE DEF r, p, f, b
<1>4. u \in ClientState
  BY <1>1, <1>3 DEF ClientState
<1>5. u.at = at /\ u.rounds = r /\ u.speed = p /\ u.failed = f
  BY <1>1 DEF ClientState
<1> HIDE DEF u
<1>6. ClientsOK' /\ client'[c] = u /\ \A d \in Client \ {c} : client'[d] = client[d]
  BY <1>2, <1>4, ClientMoves
<1> QED
  BY <1>2, <1>5, <1>6 DEF r, p, f

LEMMA AlarmTurns ==
  ASSUME ClientsOK, NEW c \in Client, Alarm(c)
  PROVE  /\ ClientsOK' /\ \A d \in Client \ {c} : client'[d] = client[d]
         /\ client'[c].at = client[c].at /\ client'[c].failed = client[c].failed
         /\ client'[c].rounds = client[c].rounds /\ client'[c].speed = client[c].speed
<1> DEFINE u == [client[c] EXCEPT !.timerexpired = TRUE]
<1>1. client[c] \in ClientState /\ client' = [client EXCEPT ![c] = u]
  BY DEF ClientsOK, Alarm
<1>2. u \in ClientState
  BY <1>1 DEF ClientState
<1>3. /\ u.at = client[c].at /\ u.failed = client[c].failed
      /\ u.rounds = client[c].rounds /\ u.speed = client[c].speed
  BY <1>1 DEF ClientState
<1> HIDE DEF u
<1> QED
  BY <1>1, <1>2, <1>3, ClientMoves

LEMMA AlarmInterruptsTurns ==
  ASSUME ClientsOK, NEW c \in Client, AlarmInterrupts(c)
  PROVE  /\ ClientsOK' /\ \A d \in Client \ {c} : client'[d] = client[d]
         /\ client'[c].at = "top" /\ client'[c].failed = client[c].failed + 1
         /\ client'[c].rounds = client[c].rounds /\ client'[c].speed = client[c].speed
<1> DEFINE f == client[c].failed + 1
           u == [client[c] EXCEPT !.timerexpired = TRUE, !.failed = f,
                                  !.at = "top", !.s = FALSE]
<1>1. client[c] \in ClientState
  BY DEF ClientsOK
<1>2. client' = [client EXCEPT ![c] = u]
  BY <1>1 DEF ClientsOK, AlarmInterrupts
<1>3. f \in Nat
  BY <1>1 DEF ClientState
<1> HIDE DEF f
<1>4. u \in ClientState
  BY <1>1, <1>3 DEF ClientState, BenchPlaces
<1>5. /\ u.at = "top" /\ u.failed = f
      /\ u.rounds = client[c].rounds /\ u.speed = client[c].speed
  BY <1>1 DEF ClientState
<1> HIDE DEF u
<1> QED
  BY <1>2, <1>4, <1>5, ClientMoves DEF f

LEMMA TimeIsUpTurns ==
  ASSUME ClientsOK, NEW c \in Client, TimeIsUp(c)
  PROVE  /\ ClientsOK' /\ \A d \in Client \ {c} : client'[d] = client[d]
         /\ client'[c].at = "report"
         /\ client'[c].failed = IF client[c].failed > 0 THEN client[c].failed - 1 ELSE client[c].failed
         /\ client'[c].rounds = client[c].rounds /\ client'[c].speed = client[c].speed
<1> DEFINE f == IF client[c].failed > 0 THEN client[c].failed - 1 ELSE client[c].failed
           u == [client[c] EXCEPT !.at = "report", !.failed = f]
<1>1. client[c] \in ClientState
  BY DEF ClientsOK
<1>2. client' = [client EXCEPT ![c] = u]
  BY <1>1 DEF ClientsOK, TimeIsUp
<1>3. f \in Nat
  BY <1>1 DEF ClientState
<1> HIDE DEF f
<1>4. u \in ClientState
  BY <1>1, <1>3 DEF ClientState, BenchPlaces
<1>5. /\ u.at = "report" /\ u.failed = f
      /\ u.rounds = client[c].rounds /\ u.speed = client[c].speed
  BY <1>1 DEF ClientState
<1> HIDE DEF u
<1> QED
  BY <1>2, <1>4, <1>5, ClientMoves DEF f

(* A change of place only. *)
LEMMA PlaceTurns ==
  ASSUME ClientsOK, NEW c \in Client, NEW at \in BenchPlaces,
         client' = [client EXCEPT ![c].at = at]
  PROVE  /\ ClientsOK' /\ \A d \in Client \ {c} : client'[d] = client[d]
         /\ client'[c].at = at /\ \A n \in Counters : client'[c][n] = client[c][n]
         /\ client'[c].failed = client[c].failed
         /\ client'[c].rounds = client[c].rounds /\ client'[c].speed = client[c].speed
<1> DEFINE u == [client[c] EXCEPT !.at = at]
<1>1. client[c] \in ClientState
  BY DEF ClientsOK
<1>2. client' = [client EXCEPT ![c] = u]
  OBVIOUS
<1>3. u \in ClientState
  BY <1>1 DEF ClientState
<1>4. /\ u.at = at /\ u.failed = client[c].failed
      /\ u.rounds = client[c].rounds /\ u.speed = client[c].speed
  BY <1>1 DEF ClientState
<1>5. \A n \in Counters : u[n] = client[c][n]
  BY <1>1 DEF ClientState, Counters
<1> HIDE DEF u
<1> QED
  BY <1>2, <1>3, <1>4, <1>5, ClientMoves

LEMMA CountsAreNat ==
  ASSUME ClientsOK, NEW c \in Client
  PROVE  /\ [n \in Counters |-> client[c][n]] \in [Counters -> Nat]
         /\ \A n \in Counters : client[c][n] \in Nat
BY DEF ClientsOK, ClientState, Counters

(* A request is counted once. *)
Asking == {"send", "read", "in read", "killed"}
Reporting == {"report", "done"}

Counted(c) ==
  LET counted == client[c].speed + client[c].failed
      asking  == IF client[c].at \in Asking THEN 1 ELSE 0
      taken   == IF client[c].at \in Reporting THEN 1 ELSE 0
  IN  /\ client[c].failed >= 0
      /\ counted + asking <= client[c].rounds
      /\ client[c].rounds <= counted + asking + taken

(* The parent counts the clients it has, and ends once.                      *)
ForkInv ==
  /\ \A c \in Client : client[c].at = "none" <=> c \notin forked
  /\ parent \in {"getopt", "checking"} => forked = {}
  /\ parent = "forking" => clients = options.clients
  /\ status = "printed" => parent = "ended"

(* R are the clients whose reports were read and summed up, q those whose    *)
(* reports are in the pipe.                                                  *)
Summed(R, q) ==
  /\ R \subseteq Client /\ \A c \in R : client[c].at = "done"
  /\ q \in Seq(Client) /\ Len(q) = Len(pipe)
  /\ \A i \in 1..Len(q) : /\ client[q[i]].at = "done" /\ q[i] \notin R
                          /\ pipe[i] = [n \in Counters |-> client[q[i]][n]]
  /\ \A i, j \in 1..Len(q) : q[i] = q[j] => i = j
  /\ \A n \in Counters : total[n] = SumOf(n, client, R)

Awaited(R) ==
  /\ parent \in {"getopt", "checking", "forking"} => R = {}
  /\ parent = "reading" => /\ Cardinality(R) = options.clients - clients
                           /\ Cardinality(forked) = options.clients
  /\ status = "printed" => R = forked /\ Cardinality(forked) = options.clients

BenchInv ==
  /\ BenchTypeOK /\ ForkInv
  /\ \A c \in Client : Counted(c)
  /\ \E R, q : Summed(R, q) /\ Awaited(R)

(* What a step of client c leaves: the others, who is a client, and what was *)
(* reported; and each request counted.                                       *)
Steps(c) ==
  /\ ClientsOK' /\ UNCHANGED <<parentVars, pipe>>
  /\ \A d \in Client \ {c} : client'[d] = client[d]
  /\ client[c].at \notin {"none", "done"} /\ client'[c].at \notin {"none", "done"}
  /\ Counted(c)'

LEMMA ClientSteps ==
  ASSUME BenchTypeOK, NEW c \in Client, Counted(c),
         Connects(c) \/ BenchClientStep(c) \/ Alarm(c) \/ AlarmInterrupts(c)
  PROVE  Steps(c) \/ Report(c)
<1> USE DEF BenchTypeOK
<1>1. client[c].speed \in Nat /\ client[c].failed \in Nat /\ client[c].rounds \in Nat
  BY DEF ClientsOK, ClientState
<1>2. keep_alive \in BOOLEAN /\ client[c].s \in BOOLEAN
  BY DEF ClientsOK, ClientState, ParentOK
<1>3. ASSUME NEW at \in BenchPlaces, NEW s \in BOOLEAN, NEW counted, Goes(c, at, s, counted),
             at \notin {"none", "done"}, client[c].at \notin {"none", "done"},
             \/ /\ client[c].at \in Asking <=>
                     at \in Asking
                /\ counted \intersect {"round", "speed", "failed"} = {}
             \/ /\ client[c].at \notin Asking
                /\ at \in Asking
                /\ counted \intersect {"round", "speed", "failed"} = {"round"}
             \/ /\ client[c].at \in Asking
                /\ at \notin Asking
                /\ counted \intersect {"round", "speed", "failed"} \in {{"speed"}, {"failed"}},
             client[c].at \notin Reporting, at \notin Reporting
      PROVE  Steps(c)
  <2>1. /\ ClientsOK' /\ \A d \in Client \ {c} : client'[d] = client[d]
        /\ client'[c].at = at
        /\ client'[c].rounds = client[c].rounds + (IF "round" \in counted THEN 1 ELSE 0)
        /\ client'[c].speed = client[c].speed + (IF "speed" \in counted THEN 1 ELSE 0)
        /\ client'[c].failed = client[c].failed + (IF "failed" \in counted THEN 1 ELSE 0)
        /\ UNCHANGED <<parentVars, pipe>>
    BY <1>3, GoesTo
  <2>2. /\ client[c].failed >= 0
        /\ client[c].speed + client[c].failed + (IF client[c].at \in Asking THEN 1 ELSE 0)
             = client[c].rounds
    BY <1>1, <1>3 DEF Counted
  <2>3. Counted(c)'
    <3>1. CASE /\ client[c].at \in Asking <=> at \in Asking
               /\ counted \intersect {"round", "speed", "failed"} = {}
      BY <1>1, <1>3, <2>1, <2>2, <3>1 DEF Counted
    <3>2. CASE /\ client[c].at \notin Asking /\ at \in Asking
               /\ counted \intersect {"round", "speed", "failed"} = {"round"}
      BY <1>1, <1>3, <2>1, <2>2, <3>2 DEF Counted
    <3>3. CASE /\ client[c].at \in Asking /\ at \notin Asking
               /\ counted \intersect {"round", "speed", "failed"} = {"speed"}
      BY <1>1, <1>3, <2>1, <2>2, <3>3 DEF Counted
    <3>4. CASE /\ client[c].at \in Asking /\ at \notin Asking
               /\ counted \intersect {"round", "speed", "failed"} = {"failed"}
      BY <1>1, <1>3, <2>1, <2>2, <3>4 DEF Counted
    <3> QED
      BY <1>3, <3>1, <3>2, <3>3, <3>4
  <2> QED
    BY <1>3, <2>1, <2>3 DEF Steps
<1>4. CASE Connects(c)
  BY <1>3, <1>4 DEF Connects, BenchPlaces, Asking, Reporting
<1>5. CASE TimeIsUp(c)
  <2>1. /\ ClientsOK' /\ \A d \in Client \ {c} : client'[d] = client[d]
        /\ client'[c].at = "report"
        /\ client'[c].failed = IF client[c].failed > 0 THEN client[c].failed - 1 ELSE client[c].failed
        /\ client'[c].rounds = client[c].rounds /\ client'[c].speed = client[c].speed
    BY <1>5, TimeIsUpTurns
  <2>2. client[c].at = "top" /\ UNCHANGED <<parentVars, pipe>>
    BY <1>5 DEF TimeIsUp
  <2>3. Counted(c)'
    BY <1>1, <2>1, <2>2 DEF Counted, Asking, Reporting
  <2> QED
    BY <2>1, <2>2, <2>3 DEF Steps
<1>6. CASE StartsRound(c)
  BY <1>2, <1>3, <1>6 DEF StartsRound, BenchPlaces, Asking, Reporting
<1>7. CASE SendsRequest(c)
  BY <1>2, <1>3, <1>7 DEF SendsRequest, BenchPlaces, Asking, Reporting
<1>8. CASE KeptConnectionFails(c)
  BY <1>2, <1>3, <1>8 DEF KeptConnectionFails, BenchPlaces, Asking, Reporting
<1>9. CASE SigPipe(c)
  BY <1>2, <1>3, <1>9 DEF SigPipe, BenchPlaces, Asking, Reporting
<1>10. CASE NewConnectionFails(c)
  BY <1>2, <1>3, <1>10 DEF NewConnectionFails, BenchPlaces, Asking, Reporting
<1>11. CASE LooksAtTimer(c)
  BY <1>2, <1>3, <1>11 DEF LooksAtTimer, BenchPlaces, Asking, Reporting
<1>12. CASE ReadsBytes(c)
  BY <1>2, <1>3, <1>12 DEF ReadsBytes, BenchPlaces, Asking, Reporting
<1>13. CASE ReadsEnd(c)
  BY <1>2, <1>3, <1>13 DEF ReadsEnd, BenchPlaces, Asking, Reporting
<1>14. CASE ReadFails(c)
  BY <1>2, <1>3, <1>14 DEF ReadFails, BenchPlaces, Asking, Reporting
<1>15. CASE Alarm(c)
  <2>1. /\ ClientsOK' /\ \A d \in Client \ {c} : client'[d] = client[d]
        /\ client'[c].at = client[c].at /\ client'[c].failed = client[c].failed
        /\ client'[c].rounds = client[c].rounds /\ client'[c].speed = client[c].speed
    BY <1>15, AlarmTurns
  <2>2. client[c].at \notin {"none", "done"} /\ UNCHANGED <<parentVars, pipe>>
    BY <1>15 DEF Alarm, Running
  <2>3. Counted(c)'
    BY <2>1 DEF Counted
  <2> QED
    BY <2>1, <2>2, <2>3 DEF Steps
<1>16. CASE AlarmInterrupts(c)
  <2>1. /\ ClientsOK' /\ \A d \in Client \ {c} : client'[d] = client[d]
        /\ client'[c].at = "top" /\ client'[c].failed = client[c].failed + 1
        /\ client'[c].rounds = client[c].rounds /\ client'[c].speed = client[c].speed
    BY <1>16, AlarmInterruptsTurns
  <2>2. client[c].at = "in read" /\ UNCHANGED <<parentVars, pipe>>
    BY <1>16 DEF AlarmInterrupts
  <2>3. client[c].at \in Asking /\ client[c].at \notin Reporting
    BY <2>2 DEF Asking, Reporting
  <2>4. client[c].speed + client[c].failed + 1 = client[c].rounds
    BY <1>1, <2>3 DEF Counted
  <2>5. client'[c].at \notin Asking /\ client'[c].at \notin Reporting
    BY <2>1 DEF Asking, Reporting
  <2>6. client'[c].failed >= 0 /\ client'[c].speed + client'[c].failed = client'[c].rounds
    BY <1>1, <2>1, <2>4
  <2>7. client'[c].speed + client'[c].failed \in Nat
    BY <1>1, <2>1
  <2>8. Counted(c)'
    BY <2>5, <2>6, <2>7 DEF Counted
  <2> QED
    BY <2>1, <2>2, <2>8 DEF Steps
<1> QED
  BY <1>4, <1>5, <1>6, <1>7, <1>8, <1>9, <1>10, <1>11, <1>12, <1>13, <1>14, <1>15, <1>16
     DEF BenchClientStep

AllCounted == \A c \in Client : Counted(c)
DoneStays == \A d \in Client : client[d].at = "done" => client'[d] = client[d]

LEMMA WaitingIsDone ==
  ASSUME NEW R, NEW q, Summed(R, q)
  PROVE  \A i \in 1..Len(q) : q[i] \in Client /\ client[q[i]].at = "done"
<1>1. q \in Seq(Client)
  BY DEF Summed
<1>2. \A i \in 1..Len(q) : q[i] \in Client
  BY <1>1
<1> QED
  BY <1>2 DEF Summed

LEMMA SummedStays ==
  ASSUME NEW R, NEW q, Summed(R, q), DoneStays, UNCHANGED <<total, pipe>>
  PROVE  Summed(R, q)'
<1>1. ASSUME NEW n \in Counters PROVE SumOf(n, client, R) = SumOf(n, client', R)
  <2>1. IsFiniteSet(R)
    BY WebBenchAssumption, FS_Subset DEF Summed
  <2>2. Agree(n, client, client', R)
    BY DEF Agree, Summed, DoneStays
  <2> QED
    BY <2>1, <2>2, SumOfSame
<1>2. \A c \in R : client'[c] = client[c]
  BY DEF Summed, DoneStays
<1>3. \A i \in 1..Len(q) : client'[q[i]] = client[q[i]]
  BY WaitingIsDone DEF DoneStays
<1>4. R \subseteq Client /\ \A c \in R : client'[c].at = "done"
  BY <1>2 DEF Summed
<1>5. q \in Seq(Client) /\ Len(q) = Len(pipe')
  BY DEF Summed
<1>6. \A i \in 1..Len(q) : /\ client'[q[i]].at = "done" /\ q[i] \notin R
                           /\ pipe'[i] = [n \in Counters |-> client'[q[i]][n]]
  BY <1>3 DEF Summed
<1>7. \A i, j \in 1..Len(q) : q[i] = q[j] => i = j
  BY DEF Summed
<1>8. \A n \in Counters : total'[n] = SumOf(n, client', R)
  BY <1>1 DEF Summed
<1> QED
  BY <1>4, <1>5, <1>6, <1>7, <1>8 DEF Summed

(* A client's own step. *)
LEMMA StepsKeep ==
  ASSUME BenchInv, NEW c \in Client, Steps(c)
  PROVE  BenchInv'
<1> USE DEF BenchInv
<1>1. BenchTypeOK'
  BY DEF BenchTypeOK, ParentOK, OptionsOK, Steps, parentVars
<1>2. ForkInv'
  BY DEF ForkInv, Steps, parentVars
<1>3. ASSUME NEW d \in Client PROVE Counted(d)'
  BY DEF Counted, Steps
<1>4. DoneStays
  BY DEF DoneStays, Steps
<1>5. PICK R, q : Summed(R, q) /\ Awaited(R)
  OBVIOUS
<1>6. Summed(R, q)'
  BY <1>4, <1>5, SummedStays DEF Steps, parentVars
<1>7. Awaited(R)'
  BY <1>5 DEF Awaited, Steps, parentVars
<1> QED
  BY <1>1, <1>2, <1>3, <1>6, <1>7

LEMMA ReportKeeps ==
  ASSUME BenchInv, NEW c \in Client, Report(c)
  PROVE  BenchInv'
<1> USE DEF BenchInv
<1>1. /\ ClientsOK' /\ \A d \in Client \ {c} : client'[d] = client[d]
      /\ client'[c].at = "done" /\ \A n \in Counters : client'[c][n] = client[c][n]
      /\ client'[c].failed = client[c].failed
      /\ client'[c].rounds = client[c].rounds /\ client'[c].speed = client[c].speed
  BY PlaceTurns DEF BenchTypeOK, Report, BenchPlaces
<1>2. client[c].at = "report" /\ UNCHANGED parentVars
  BY DEF Report
<1> DEFINE r == [n \in Counters |-> client[c][n]]
<1>3. pipe \in Seq([Counters -> Nat]) /\ pipe' = Append(pipe, r) /\ r \in [Counters -> Nat]
  BY CountsAreNat DEF BenchTypeOK, ParentOK, Report
<1>4. BenchTypeOK'
  <2> HIDE DEF r
  <2> QED
    BY <1>1, <1>2, <1>3 DEF BenchTypeOK, ParentOK, OptionsOK, parentVars
<1>5. ForkInv'
  BY <1>1, <1>2 DEF ForkInv, parentVars
<1>6. ASSUME NEW d \in Client PROVE Counted(d)'
  <2>1. CASE d = c
    <3>1. client[c].at \notin Asking /\ client[c].at \in Reporting
      BY <1>2 DEF Asking, Reporting
    <3>2. client'[c].at \notin Asking /\ client'[c].at \in Reporting
      BY <1>1 DEF Asking, Reporting
    <3> QED
      BY <1>1, <2>1, <3>1, <3>2 DEF Counted
  <2>2. CASE d # c
    BY <1>1, <2>2 DEF Counted
  <2> QED
    BY <2>1, <2>2
<1>7. PICK R, q : Summed(R, q) /\ Awaited(R)
  OBVIOUS
<1> DEFINE p == Append(q, c)
<1>8. /\ p \in Seq(Client) /\ Len(p) = Len(q) + 1 /\ p[Len(q) + 1] = c
      /\ \A i \in 1..Len(q) : p[i] = q[i]
      /\ Len(pipe') = Len(pipe) + 1 /\ pipe'[Len(pipe) + 1] = r
      /\ \A i \in 1..Len(pipe) : pipe'[i] = pipe[i]
      /\ Len(q) \in Nat /\ Len(pipe) = Len(q)
  <2> HIDE DEF r
  <2> QED
    BY <1>3, <1>7 DEF Summed
<1>9. c \notin R /\ \A i \in 1..Len(q) : q[i] # c
  BY <1>2, <1>7 DEF Summed
<1>10. \A i \in 1..Len(p) : i \in 1..Len(q) \/ i = Len(q) + 1
  BY <1>8
<1>11. r = [n \in Counters |-> client'[c][n]]
  BY <1>1
<1> HIDE DEF p, r
<1>12. DoneStays
  BY <1>1, <1>2 DEF DoneStays
<1>13. \A n \in Counters : total'[n] = SumOf(n, client', R)
  <2> SUFFICES ASSUME NEW n \in Counters PROVE total'[n] = SumOf(n, client', R)
    OBVIOUS
  <2>1. IsFiniteSet(R) /\ Agree(n, client, client', R)
    BY <1>7, <1>12, WebBenchAssumption, FS_Subset DEF Summed, Agree, DoneStays
  <2> QED
    BY <1>2, <1>7, <2>1, SumOfSame DEF Summed, parentVars
<1>14. R \subseteq Client /\ \A d \in R : client'[d].at = "done"
  BY <1>7, <1>12 DEF Summed, DoneStays
<1>15. \A i \in 1..Len(p) : /\ client'[p[i]].at = "done" /\ p[i] \notin R
                            /\ pipe'[i] = [n \in Counters |-> client'[p[i]][n]]
  <2> SUFFICES ASSUME NEW i \in 1..Len(p)
               PROVE  /\ client'[p[i]].at = "done" /\ p[i] \notin R
                      /\ pipe'[i] = [n \in Counters |-> client'[p[i]][n]]
    OBVIOUS
  <2>1. CASE i \in 1..Len(q)
    <3>1. p[i] = q[i] /\ pipe'[i] = pipe[i]
      BY <1>8, <2>1
    <3>2. q[i] \in Client /\ client[q[i]].at = "done"
      BY <1>7, <2>1, WaitingIsDone
    <3>3. client'[q[i]] = client[q[i]]
      BY <1>12, <3>2 DEF DoneStays
    <3> QED
      BY <1>7, <2>1, <3>1, <3>2, <3>3 DEF Summed
  <2>2. CASE i = Len(q) + 1
    BY <1>1, <1>8, <1>9, <1>11, <2>2
  <2> QED
    BY <1>10, <2>1, <2>2
<1>16. \A i, j \in 1..Len(p) : p[i] = p[j] => i = j
  <2> SUFFICES ASSUME NEW i \in 1..Len(p), NEW j \in 1..Len(p), p[i] = p[j] PROVE i = j
    OBVIOUS
  <2>1. CASE i = Len(q) + 1 \/ j = Len(q) + 1
    BY <1>8, <1>9, <1>10, <2>1
  <2>2. CASE i \in 1..Len(q) /\ j \in 1..Len(q)
    BY <1>7, <1>8, <2>2 DEF Summed
  <2> QED
    BY <1>10, <2>1, <2>2
<1>17. Summed(R, p)'
  <2>1. p \in Seq(Client) /\ Len(p) = Len(pipe')
    BY <1>8
  <2> QED
    BY <1>13, <1>14, <1>15, <1>16, <2>1 DEF Summed
<1>18. Awaited(R)'
  BY <1>2, <1>7 DEF Awaited, parentVars
<1> QED
  BY <1>4, <1>5, <1>6, <1>17, <1>18

LEMMA OptionsStay ==
  ASSUME OptionsOK, GetOption \/ UsageError \/ BuildRequest \/ ServerIsThere \/ BenchCannotStart
                    \/ ForkFails \/ AllForked
  PROVE  OptionsOK'
<1> DEFINE versions == 0..2
           numbers == Nat
           Options == [method : {"GET", "HEAD", "OPTIONS", "TRACE"}, http10 : versions,
                       force : BOOLEAN, force_reload : BOOLEAN, proxyhost : BOOLEAN,
                       clients : numbers]
<1>1. options \in Options /\ (options' \in Options => OptionsOK')
  BY DEF OptionsOK
<1>2. 1 \in versions /\ 1 \in numbers /\ \A n \in 0..Cardinality(Client) : n \in numbers
  BY WebBenchAssumption, FS_CardinalityType
<1>3. Version(options) \in versions
  BY <1>1 DEF Version
<1>4. options.clients \in numbers /\ options.force \in BOOLEAN
  BY <1>1
<1>5. (IF options.clients = 0 THEN 1 ELSE options.clients) \in numbers
  BY <1>1
<1> HIDE DEF versions, numbers
<1>6. Defaults \in Options
  BY <1>2, Zenon DEF Defaults
<1> SUFFICES options' \in Options
  BY <1>1
<1>7. CASE GetOption
  <2>1. [options EXCEPT !.force = TRUE] \in Options
    BY <1>1
  <2>2. [options EXCEPT !.force_reload = TRUE] \in Options
    BY <1>1
  <2>3. [options EXCEPT !.proxyhost = TRUE] \in Options
    BY <1>1
  <2>4. ASSUME NEW v \in versions PROVE [options EXCEPT !.http10 = v] \in Options
    BY <1>1
  <2>5. ASSUME NEW m \in {"GET", "HEAD", "OPTIONS", "TRACE"}
        PROVE  [options EXCEPT !.method = m] \in Options
    BY <1>1
  <2>6. ASSUME NEW n \in 0..Cardinality(Client) PROVE [options EXCEPT !.clients = n] \in Options
    BY <1>1, <1>2
  <2> HIDE DEF Options
  <2> QED
    BY <1>7, <2>1, <2>2, <2>3, <2>4, <2>5, <2>6, Zenon DEF GetOption, versions
<1>8. CASE BuildRequest
  <2> DEFINE n == IF options.clients = 0 THEN 1 ELSE options.clients
             v == Version(options)
  <2>1. options' = [options EXCEPT !.clients = n, !.http10 = v]
    BY <1>1, <1>8 DEF BuildRequest
  <2>2. n \in numbers /\ v \in versions
    BY <1>3, <1>5
  <2> HIDE DEF n, v
  <2> QED
    BY <1>1, <2>1, <2>2
<1>9. CASE ServerIsThere
  <2> DEFINE f == options.force
             n == options.clients
  <2>1. options' = [Defaults EXCEPT !.force = f, !.clients = n]
    BY <1>9 DEF ServerIsThere
  <2> HIDE DEF f, n
  <2>2. f \in BOOLEAN /\ n \in numbers
    BY <1>4 DEF f, n
  <2> HIDE DEF Defaults
  <2> QED
    BY <1>6, <2>1, <2>2
<1>10. CASE BenchCannotStart
  BY <1>6, <1>10 DEF BenchCannotStart
<1>11. CASE UsageError \/ ForkFails \/ AllForked
  BY <1>1, <1>11 DEF UsageError, ForkFails, AllForked
<1> QED
  BY <1>7, <1>8, <1>9, <1>10, <1>11

LEMMA ParentKeeps ==
  ASSUME BenchInv, GetOption \/ UsageError \/ BuildRequest \/ ServerIsThere \/ BenchCannotStart
                   \/ ForkFails \/ AllForked
  PROVE  BenchInv'
<1> USE DEF BenchInv
<1>1. UNCHANGED <<keep_alive, forked, total, pipe, client>>
  BY DEF GetOption, UsageError, BuildRequest, ServerIsThere, BenchCannotStart, ForkFails, AllForked
<1>2. ClientsOK'
  BY <1>1 DEF BenchTypeOK, ClientsOK
<1>3. clients' \in Int /\ parent' \in ParentPlaces
  <2>1. clients \in Int /\ options.clients \in Nat
    BY DEF BenchTypeOK, ParentOK, OptionsOK
  <2>2. clients' = clients \/ clients' = options.clients
    BY DEF GetOption, UsageError, BuildRequest, ServerIsThere, BenchCannotStart, ForkFails, AllForked
  <2>3. parent' \in {parent, "checking", "forking", "reading", "ended"}
    BY DEF ParentEnds, GetOption, UsageError, BuildRequest, ServerIsThere, BenchCannotStart,
           ForkFails, AllForked
  <2> QED
    BY <2>1, <2>2, <2>3 DEF BenchTypeOK, ParentOK, ParentPlaces
<1>4. ParentOK'
  BY <1>1, <1>3 DEF BenchTypeOK, ParentOK
<1>5. OptionsOK'
  BY OptionsStay DEF BenchTypeOK
<1>6. ForkInv'
  <2>1. \A c \in Client : client'[c].at = "none" <=> c \notin forked'
    BY <1>1 DEF ForkInv
  <2>2. parent' \in {"getopt", "checking"} => forked' = {}
    BY <1>1 DEF ForkInv, ParentEnds, GetOption, UsageError, BuildRequest, ServerIsThere,
                BenchCannotStart, ForkFails, AllForked
  <2>3. parent' = "forking" => clients' = options'.clients
    <3>1. CASE ServerIsThere
      <4>1. clients' = options.clients
        BY <3>1 DEF ServerIsThere
      <4>2. options' = [Defaults EXCEPT !.force = options.force, !.clients = options.clients]
        BY <3>1 DEF ServerIsThere
      <4>3. options'.clients = options.clients
        BY <4>2 DEF Defaults
      <4> QED
        BY <4>1, <4>3
    <3>2. CASE ~ServerIsThere
      BY <3>2 DEF ForkInv, ParentEnds, GetOption, UsageError, BuildRequest,
                  BenchCannotStart, ForkFails, AllForked
    <3> QED
      BY <3>1, <3>2
  <2>4. status' = "printed" => parent' = "ended"
    BY DEF ForkInv, ParentEnds, GetOption, UsageError, BuildRequest, ServerIsThere,
           BenchCannotStart, ForkFails, AllForked
  <2> QED
    BY <2>1, <2>2, <2>3, <2>4 DEF ForkInv
<1>7. \A c \in Client : Counted(c)'
  BY <1>1 DEF Counted
<1>8. PICK R, q : Summed(R, q) /\ Awaited(R)
  OBVIOUS
<1>9. Summed(R, q)'
  BY <1>1, <1>8, SummedStays DEF DoneStays
<1>10. Awaited(R)'
  <2>1. CASE GetOption
    BY <1>8, <2>1 DEF Awaited, ForkInv, GetOption
  <2>2. CASE UsageError
    BY <1>8, <2>2 DEF Awaited, ForkInv, UsageError, ParentEnds
  <2>3. CASE BuildRequest
    BY <1>8, <2>3 DEF Awaited, ForkInv, BuildRequest
  <2>4. CASE ServerIsThere
    BY <1>8, <2>4 DEF Awaited, ForkInv, ServerIsThere
  <2>5. CASE BenchCannotStart
    BY <1>8, <2>5 DEF Awaited, ForkInv, BenchCannotStart, ParentEnds
  <2>6. CASE ForkFails
    BY <1>8, <2>6 DEF Awaited, ForkInv, ForkFails, ParentEnds
  <2>7. CASE AllForked
    <3>1. R = {} /\ parent' = "reading" /\ status' # "printed"
      BY <1>8, <2>7 DEF Awaited, ForkInv, AllForked
    <3>2. Cardinality(R) = options'.clients - clients' /\ Cardinality(forked') = options'.clients
      BY <2>7, <3>1, FS_EmptySet DEF AllForked, ForkInv, BenchTypeOK, OptionsOK
    <3> QED
      BY <3>1, <3>2 DEF Awaited
  <2> QED
    BY <2>1, <2>2, <2>3, <2>4, <2>5, <2>6, <2>7
<1> QED
  BY <1>2, <1>4, <1>5, <1>6, <1>7, <1>9, <1>10 DEF BenchTypeOK

LEMMA ForkKeeps ==
  ASSUME BenchInv, NEW c \in Client, Fork(c)
  PROVE  BenchInv'
<1> USE DEF BenchInv
<1>1. c \notin forked /\ parent = "forking" /\ forked' = forked \union {c}
      /\ UNCHANGED <<keep_alive, options, request, parent, status, clients, total, pipe>>
  BY DEF Fork
<1>2. client[c].at = "none"
  BY <1>1 DEF ForkInv
<1>3. PICK at \in {"connect", "top"} : client' = [client EXCEPT ![c].at = at]
  BY DEF Fork
<1>4. /\ ClientsOK' /\ \A d \in Client \ {c} : client'[d] = client[d]
      /\ client'[c].at = at
      /\ client'[c].failed = client[c].failed
      /\ client'[c].rounds = client[c].rounds /\ client'[c].speed = client[c].speed
  BY <1>3, PlaceTurns DEF BenchTypeOK, BenchPlaces
<1>5. BenchTypeOK'
  BY <1>1, <1>4 DEF BenchTypeOK, ParentOK, OptionsOK
<1>6. ForkInv'
  BY <1>1, <1>2, <1>3, <1>4 DEF ForkInv
<1>7. ASSUME NEW d \in Client PROVE Counted(d)'
  <2>1. CASE d = c
    <3>1. client[c].at \notin Asking /\ client[c].at \notin Reporting
      BY <1>2 DEF Asking, Reporting
    <3>2. client'[c].at \notin Asking /\ client'[c].at \notin Reporting
      BY <1>3, <1>4 DEF Asking, Reporting
    <3> QED
      BY <1>4, <2>1, <3>1, <3>2 DEF Counted
  <2>2. CASE d # c
    BY <1>4, <2>2 DEF Counted
  <2> QED
    BY <2>1, <2>2
<1>8. PICK R, q : Summed(R, q) /\ Awaited(R)
  OBVIOUS
<1>9. Summed(R, q)'
  BY <1>1, <1>2, <1>4, <1>8, SummedStays DEF DoneStays
<1>10. Awaited(R)'
  BY <1>1, <1>8 DEF Awaited, ForkInv
<1> QED
  BY <1>5, <1>6, <1>7, <1>9, <1>10

LEMMA ReadReportKeeps ==
  ASSUME BenchInv, ReadReport
  PROVE  BenchInv'
<1> USE DEF BenchInv
<1>1. PICK R, q : Summed(R, q) /\ Awaited(R)
  OBVIOUS
<1>2. /\ parent = "reading" /\ pipe # <<>> /\ pipe' = Tail(pipe)
      /\ total' = [n \in DOMAIN total |-> total[n] + Head(pipe)[n]]
      /\ clients' = clients - 1
      /\ UNCHANGED <<keep_alive, options, request, forked, client>>
  BY DEF ReadReport
<1>3. \/ clients' = 0 /\ parent' = "ended" /\ status' = "printed"
      \/ clients' # 0 /\ parent' = parent /\ status' = status
  BY DEF ReadReport, ParentEnds
<1> DEFINE c == q[1]
           p == Tail(q)
           T == R \union {c}
<1>4. /\ pipe \in Seq([Counters -> Nat]) /\ q \in Seq(Client) /\ Len(q) = Len(pipe)
      /\ total \in [Counters -> Nat]
  BY <1>1 DEF Summed, BenchTypeOK, ParentOK
<1>5. 1 \in 1..Len(q) /\ Head(pipe) = pipe[1] /\ Head(pipe) \in [Counters -> Nat]
  BY <1>2, <1>4
<1>6. pipe' \in Seq([Counters -> Nat]) /\ Len(pipe') = Len(pipe) - 1
      /\ \A i \in 1..Len(pipe') : pipe'[i] = pipe[i + 1]
  BY <1>2, <1>4
<1>7. p \in Seq(Client) /\ Len(p) = Len(q) - 1
      /\ \A i \in 1..Len(p) : p[i] = q[i + 1] /\ i + 1 \in 1..Len(q) /\ i + 1 # 1
  BY <1>4, <1>5
<1>8. c \in Client /\ client[c].at = "done" /\ c \notin R
      /\ pipe[1] = [n \in Counters |-> client[c][n]]
  BY <1>1, <1>5, WaitingIsDone DEF Summed
<1>9. total' \in [Counters -> Nat]
  BY <1>2, <1>4, <1>5
<1>10. BenchTypeOK'
  BY <1>2, <1>3, <1>6, <1>9 DEF BenchTypeOK, ClientsOK, ParentOK, OptionsOK, ParentPlaces
<1>11. ForkInv'
  BY <1>2, <1>3 DEF ForkInv
<1>12. \A d \in Client : Counted(d)'
  BY <1>2 DEF Counted
<1>13. IsFiniteSet(R) /\ Cardinality(T) = Cardinality(R) + 1 /\ R \subseteq Client
       /\ Cardinality(R) \in Nat
  BY <1>1, <1>8, WebBenchAssumption, FS_Subset, FS_AddElement, FS_CardinalityType DEF Summed
<1> HIDE DEF c, p, T
<1>14. ASSUME NEW n \in Counters PROVE total'[n] = SumOf(n, client', T)
  <2>1. Counts(n, client, R \union {c})
    BY <1>8, <1>13, CountsAreNat DEF Counts, BenchTypeOK
  <2>2. SumOf(n, client, T) = SumOf(n, client, R) + client[c][n]
    BY <1>8, <1>13, <2>1, SumOfMore DEF T
  <2>3. total'[n] = total[n] + client[c][n]
    BY <1>2, <1>4, <1>5, <1>8
  <2> QED
    BY <1>1, <1>2, <2>2, <2>3 DEF Summed
<1>15. \A i \in 1..Len(p) : /\ client'[p[i]].at = "done" /\ p[i] \notin T
                            /\ pipe'[i] = [n \in Counters |-> client'[p[i]][n]]
  <2> SUFFICES ASSUME NEW i \in 1..Len(p)
               PROVE  /\ client'[p[i]].at = "done" /\ p[i] \notin T
                      /\ pipe'[i] = [n \in Counters |-> client'[p[i]][n]]
    OBVIOUS
  <2>1. p[i] = q[i + 1] /\ i + 1 \in 1..Len(q) /\ i + 1 # 1 /\ pipe'[i] = pipe[i + 1]
    BY <1>4, <1>6, <1>7
  <2>2. q[i + 1] # c
    BY <1>1, <1>5, <2>1 DEF Summed, c
  <2> QED
    BY <1>1, <1>2, <2>1, <2>2 DEF Summed, T
<1>16. \A i, j \in 1..Len(p) : p[i] = p[j] => i = j
  <2> SUFFICES ASSUME NEW i \in 1..Len(p), NEW j \in 1..Len(p), p[i] = p[j] PROVE i = j
    OBVIOUS
  <2>1. q[i + 1] = q[j + 1] /\ i + 1 \in 1..Len(q) /\ j + 1 \in 1..Len(q)
    BY <1>7
  <2>2. i + 1 = j + 1
    BY <1>1, <2>1 DEF Summed
  <2> QED
    BY <2>2
<1>17. T \subseteq Client /\ \A d \in T : client'[d].at = "done"
  BY <1>1, <1>2, <1>8 DEF Summed, T
<1>18. Summed(T, p)'
  <2>1. p \in Seq(Client) /\ Len(p) = Len(pipe')
    BY <1>4, <1>6, <1>7
  <2> QED
    BY <1>14, <1>15, <1>16, <1>17, <2>1 DEF Summed
<1>19. Awaited(T)'
  <2>1. /\ Cardinality(T) = options.clients - clients' /\ Cardinality(forked) = options.clients
        /\ options.clients \in Nat /\ clients \in Int /\ status # "printed"
    BY <1>1, <1>2, <1>13 DEF Awaited, BenchTypeOK, OptionsOK, ParentOK, ForkInv
  <2>2. CASE clients' = 0
    <3>1. T \subseteq forked
      BY <1>2, <1>17 DEF ForkInv
    <3>2. IsFiniteSet(forked) /\ Cardinality(T) = Cardinality(forked)
      BY <2>1, <2>2, WebBenchAssumption, FS_Subset DEF BenchTypeOK, ParentOK
    <3>3. T = forked
      BY <3>1, <3>2, FS_Subset
    <3> QED
      BY <1>2, <1>3, <2>1, <2>2, <3>3 DEF Awaited
  <2>3. CASE clients' # 0
    BY <1>2, <1>3, <2>1, <2>3 DEF Awaited
  <2> QED
    BY <2>2, <2>3
<1> QED
  BY <1>10, <1>11, <1>12, <1>18, <1>19

LEMMA InitBenchInv == BenchInit => BenchInv
<1> SUFFICES ASSUME BenchInit PROVE BenchInv
  OBVIOUS
<1>1. ClientsOK
  <2>1. 0 \in Nat
    OBVIOUS
  <2> DEFINE numbers == Nat
  <2>2. NewClient \in [at : BenchPlaces, s : BOOLEAN, timerexpired : BOOLEAN, speed : numbers,
                       failed : numbers, bytes : numbers, rounds : numbers]
    <3> HIDE DEF numbers
    <3>1. 0 \in numbers
      BY <2>1 DEF numbers
    <3> QED
      BY <3>1, Zenon DEF NewClient, BenchPlaces
  <2>3. NewClient \in ClientState
    BY <2>2 DEF ClientState
  <2> HIDE DEF NewClient, ClientState
  <2> QED
    BY <2>3 DEF BenchInit, ClientsOK
<1>2. ParentOK
  <2>1. total \in [Counters -> Nat]
    BY DEF BenchInit, Counters
  <2>2. pipe \in Seq([Counters -> Nat])
    BY DEF BenchInit
  <2> QED
    BY <2>1, <2>2 DEF BenchInit, ParentOK, ParentPlaces
<1>3. OptionsOK
  <2> DEFINE versions == 0..2
             numbers == Nat
  <2>1. 1 \in versions /\ 1 \in numbers
    OBVIOUS
  <2> HIDE DEF versions, numbers
  <2>2. Defaults \in [method : {"GET", "HEAD", "OPTIONS", "TRACE"}, http10 : versions,
                      force : BOOLEAN, force_reload : BOOLEAN, proxyhost : BOOLEAN,
                      clients : numbers]
    BY <2>1, Zenon DEF Defaults
  <2> QED
    BY <2>2 DEF BenchInit, OptionsOK, versions, numbers
<1>4. \A c \in Client : client[c].at = "none" /\ client[c].speed = 0 /\ client[c].failed = 0
                        /\ client[c].rounds = 0
  BY DEF BenchInit, NewClient
<1>5. ForkInv
  BY <1>4 DEF BenchInit, ForkInv
<1>6. ASSUME NEW c \in Client PROVE Counted(c)
  <2>1. client[c].at \notin Asking /\ client[c].at \notin Reporting
    BY <1>4 DEF Asking, Reporting
  <2> QED
    BY <1>4, <2>1 DEF Counted
<1>7. Summed({}, <<>>)
  <2>1. \A n \in Counters : total[n] = SumOf(n, client, {})
    BY SumOfEmpty DEF BenchInit, Counters
  <2>2. pipe = <<>> /\ <<>> \in Seq(Client) /\ Len(<<>>) = 0
    BY DEF BenchInit
  <2> QED
    BY <2>1, <2>2 DEF Summed
<1>8. Awaited({})
  BY DEF BenchInit, Awaited
<1> QED
  BY <1>1, <1>2, <1>3, <1>5, <1>6, <1>7, <1>8 DEF BenchInv, BenchTypeOK

LEMMA StutterKeeps ==
  ASSUME BenchInv, UNCHANGED benchVars
  PROVE  BenchInv'
<1> USE DEF BenchInv, benchVars, parentVars
<1>1. BenchTypeOK' /\ ForkInv'
  BY DEF BenchTypeOK, ClientsOK, ParentOK, OptionsOK, ForkInv
<1>2. \A c \in Client : Counted(c)'
  BY DEF Counted
<1>3. PICK R, q : Summed(R, q) /\ Awaited(R)
  OBVIOUS
<1>4. Summed(R, q)'
  BY <1>3, SummedStays DEF DoneStays
<1>5. Awaited(R)'
  BY <1>3 DEF Awaited
<1> QED
  BY <1>1, <1>2, <1>4, <1>5

LEMMA BenchInvSuffices == BenchInv => ResultIsTheRequests
<1> SUFFICES ASSUME BenchInv PROVE ResultIsTheRequests
  OBVIOUS
<1>1. ASSUME NEW c \in Client
      PROVE LET counted == client[c].speed + client[c].failed
                asking  == IF client[c].at \in {"send", "read", "in read", "killed"} THEN 1 ELSE 0
                taken   == IF client[c].at \in {"report", "done"} THEN 1 ELSE 0
            IN  /\ client[c].failed >= 0
                /\ counted + asking <= client[c].rounds
                /\ client[c].rounds <= counted + asking + taken
  BY DEF BenchInv, Counted, Asking, Reporting
<1>2. ASSUME status = "printed"
      PROVE  /\ Cardinality(forked) = options.clients
             /\ \A c \in forked : client[c].at = "done"
             /\ \A n \in Counters : total[n] = SumOf(n, client, forked)
  BY <1>2 DEF BenchInv, Summed, Awaited
<1>3. DOMAIN total = Counters
  BY DEF BenchInv, BenchTypeOK, ParentOK
<1> QED
  BY <1>1, <1>2, <1>3, Zenon DEF ResultIsTheRequests, SumOf

(* benchcore() and bench() count each request of a client once, and print    *)
(* the sum over all clients and never of fewer, for any number of clients    *)
(* and of requests, in whatever order they report and wherever the alarm     *)
(* comes.                                                                    *)
THEOREM ResultCorrect == BenchSpec => []ResultIsTheRequests
<1>1. BenchInv /\ [BenchNext]_benchVars => BenchInv'
  <2> SUFFICES ASSUME BenchInv, BenchNext PROVE BenchInv'
    BY StutterKeeps
  <2>1. CASE \E c \in Client : Fork(c)
    BY <2>1, ForkKeeps
  <2>2. CASE ReadReport
    BY <2>2, ReadReportKeeps
  <2>3. CASE GetOption \/ UsageError \/ BuildRequest \/ ServerIsThere \/ BenchCannotStart
             \/ ForkFails \/ AllForked
    BY <2>3, ParentKeeps
  <2>4. ASSUME NEW c \in Client, Connects(c) \/ BenchClientStep(c) \/ Alarm(c) \/ AlarmInterrupts(c)
        PROVE  BenchInv'
    <3>1. BenchTypeOK /\ Counted(c)
      BY DEF BenchInv
    <3>2. Steps(c) \/ Report(c)
      BY <2>4, <3>1, ClientSteps
    <3> QED
      BY <3>2, StepsKeep, ReportKeeps
  <2> QED
    BY <2>1, <2>2, <2>3, <2>4 DEF BenchNext, ParentStep
<1> QED
  BY <1>1, InitBenchInv, BenchInvSuffices, PTL DEF BenchSpec

----------------------------------------------------------------------------
(* build_request(). *)

(* u is s with t behind it. *)
Grown(S, s, t, u) ==
  /\ u \in Seq(S) /\ Len(u) = Len(s) + Len(t) /\ Len(u) >= 1 /\ u[1] = s[1]
  /\ ToSet(s) \subseteq ToSet(u) /\ ToSet(t) \subseteq ToSet(u)
  /\ Len(t) = 1 => Last(u) = t[1]

LEMMA Behind ==
  ASSUME NEW S, NEW s \in Seq(S), Len(s) >= 1, NEW t \in Seq(S)
  PROVE  Grown(S, s, t, s \o t)
<1>1. s \o t \in Seq(S) /\ Len(s \o t) = Len(s) + Len(t) /\ (s \o t)[1] = s[1]
  OBVIOUS
<1>2. \A i \in 1..Len(s) : i \in 1..Len(s \o t) /\ (s \o t)[i] = s[i]
  OBVIOUS
<1>3. \A i \in 1..Len(t) : Len(s) + i \in 1..Len(s \o t) /\ (s \o t)[Len(s) + i] = t[i]
  OBVIOUS
<1>4. ToSet(s) \subseteq ToSet(s \o t)
  BY <1>2 DEF ToSet
<1>5. ToSet(t) \subseteq ToSet(s \o t)
  BY <1>3, SMTT(30) DEF ToSet
<1>6. Len(t) = 1 => Last(s \o t) = t[1]
  BY <1>1, <1>3 DEF Last
<1>7. Len(s) + Len(t) >= 1
  OBVIOUS
<1> HIDE DEF Last, ToSet
<1> QED
  BY <1>1, <1>4, <1>5, <1>6, <1>7 DEF Grown

(* What RequestSuitsItsVersion says of a request r to options o. *)
Suits(r, o) ==
  /\ Len(r) > 1 <=> r[1][3] # ""
  /\ Len(r) > 1 => Last(r) = <<>>
  /\ r[1][3] = "" => r[1][1] = "GET"
  /\ r[1][1] \in {"OPTIONS", "TRACE"} => r[1][3] = "HTTP/1.1"
  /\ o.force_reload /\ o.proxyhost => <<"Pragma">> \in ToSet(r)

LEMMA LinesSuit ==
  ASSUME OptionsOK
  PROVE  Suits(RequestLines(options), options)
<1> DEFINE o == options
           v == Version(o)
           If(b, line) == IF b THEN <<line>> ELSE <<>>
           first == <<o.method, IF o.proxyhost THEN "url" ELSE "path",
                      CASE v = 0 -> "" [] v = 1 -> "HTTP/1.0" [] v = 2 -> "HTTP/1.1">>
           Lines == {first, <<"User-Agent">>, <<"Host">>, <<"Pragma">>,
                     <<"Connection", keep_alive>>, <<>>}
           a == <<first>>
           b == If(v > 0, <<"User-Agent">>)
           c == If(~o.proxyhost /\ v > 0, <<"Host">>)
           d == If(o.force_reload /\ o.proxyhost, <<"Pragma">>)
           e == If(v > 1, <<"Connection", keep_alive>>)
           f == If(v > 0, <<>>)
<1>1. /\ v \in 0..2
      /\ o.method \in {"GET", "HEAD", "OPTIONS", "TRACE"}
      /\ v = 0 => o.method = "GET" /\ ~(o.force_reload /\ o.proxyhost)
      /\ o.method \in {"OPTIONS", "TRACE"} => v = 2
  BY DEF OptionsOK, Version
<1>2. RequestLines(o) = a \o b \o c \o d \o e \o f
  BY DEF RequestLines
<1>3. /\ first[1] = o.method
      /\ v = 0 => first[3] = ""
      /\ v = 1 => first[3] = "HTTP/1.0"
      /\ v = 2 => first[3] = "HTTP/1.1"
  <2> HIDE DEF v
  <2>1. /\ first[1] = o.method
        /\ first[3] = CASE v = 0 -> "" [] v = 1 -> "HTTP/1.0" [] v = 2 -> "HTTP/1.1"
    OBVIOUS
  <2>2. 0 # 1 /\ 0 # 2 /\ 1 # 2
    OBVIOUS
  <2> HIDE DEF first
  <2> QED
    BY <2>1, <2>2, Zenon
<1> HIDE DEF v, first
<1>4. ASSUME NEW p \in BOOLEAN, NEW line \in Lines
      PROVE  /\ If(p, line) \in Seq(Lines)
             /\ p => Len(If(p, line)) = 1 /\ If(p, line)[1] = line /\ line \in ToSet(If(p, line))
             /\ ~p => Len(If(p, line)) = 0
  <2> HIDE DEF Lines
  <2>1. CASE p
    BY <1>4, <2>1 DEF ToSet
  <2>2. CASE ~p
    BY <1>4, <2>2
  <2> QED
    BY <2>1, <2>2
<1>5. /\ first \in Lines /\ <<"User-Agent">> \in Lines /\ <<"Host">> \in Lines
      /\ <<"Pragma">> \in Lines /\ <<"Connection", keep_alive>> \in Lines /\ <<>> \in Lines
  OBVIOUS
<1> HIDE DEF Lines
<1>6. a \in Seq(Lines) /\ Len(a) = 1 /\ Len(a) >= 1 /\ a[1] = first
  BY <1>5
<1>7. b \in Seq(Lines) /\ Len(b) = IF v > 0 THEN 1 ELSE 0
  BY <1>4, <1>5
<1>8. c \in Seq(Lines) /\ Len(c) = IF ~o.proxyhost /\ v > 0 THEN 1 ELSE 0
  BY <1>4, <1>5
<1>9. d \in Seq(Lines) /\ (Len(d) = IF o.force_reload /\ o.proxyhost THEN 1 ELSE 0)
      /\ (o.force_reload /\ o.proxyhost => <<"Pragma">> \in ToSet(d))
  BY <1>4, <1>5
<1>10. e \in Seq(Lines) /\ Len(e) = IF v > 1 THEN 1 ELSE 0
  BY <1>4, <1>5
<1>11. f \in Seq(Lines) /\ (Len(f) = IF v > 0 THEN 1 ELSE 0) /\ (v > 0 => f[1] = <<>>)
  BY <1>4, <1>5
<1> HIDE DEF a, b, c, d, e, f, If
<1> DEFINE ab == a \o b
           ac == ab \o c
           ad == ac \o d
           ae == ad \o e
           af == ae \o f
<1>12. Grown(Lines, a, b, ab)
  BY <1>6, <1>7, Behind
<1> HIDE DEF ab
<1>13. Grown(Lines, ab, c, ac)
  <2>1. ab \in Seq(Lines) /\ Len(ab) >= 1
    BY <1>12 DEF Grown
  <2> QED
    BY <1>8, <2>1, Behind
<1> HIDE DEF ac
<1>14. Grown(Lines, ac, d, ad)
  <2>1. ac \in Seq(Lines) /\ Len(ac) >= 1
    BY <1>13 DEF Grown
  <2> QED
    BY <1>9, <2>1, Behind
<1> HIDE DEF ad
<1>15. Grown(Lines, ad, e, ae)
  <2>1. ad \in Seq(Lines) /\ Len(ad) >= 1
    BY <1>14 DEF Grown
  <2> QED
    BY <1>10, <2>1, Behind
<1> HIDE DEF ae
<1>16. Grown(Lines, ae, f, af)
  <2>1. ae \in Seq(Lines) /\ Len(ae) >= 1
    BY <1>15 DEF Grown
  <2> QED
    BY <1>11, <2>1, Behind
<1> HIDE DEF af
<1>17. af[1] = first /\ Len(af) = Len(a) + Len(b) + Len(c) + Len(d) + Len(e) + Len(f)
  BY <1>6, <1>7, <1>8, <1>9, <1>10, <1>11, <1>12, <1>13, <1>14, <1>15, <1>16 DEF Grown
<1>18. ToSet(d) \subseteq ToSet(af) /\ (Len(f) = 1 => Last(af) = f[1])
  BY <1>14, <1>15, <1>16 DEF Grown
<1>19. RequestLines(o) = af
  BY <1>2 DEF ab, ac, ad, ae, af
<1>20. Len(af) > 1 <=> v > 0
  BY <1>1, <1>6, <1>7, <1>8, <1>9, <1>10, <1>11, <1>17
<1>21. first[3] = "" <=> v = 0
  <2>1. v = 0 \/ v = 1 \/ v = 2
    BY <1>1
  <2> QED
    BY <1>3, <2>1, Zenon
<1>22. Len(af) > 1 <=> af[1][3] # ""
  <2>1. v > 0 <=> ~(v = 0)
    BY <1>1
  <2> QED
    BY <1>17, <1>20, <1>21, <2>1
<1>23. Len(af) > 1 => Last(af) = <<>>
  BY <1>11, <1>18, <1>20
<1>24. af[1][3] = "" => af[1][1] = "GET"
  BY <1>1, <1>3, <1>17, <1>21
<1>25. af[1][1] \in {"OPTIONS", "TRACE"} => af[1][3] = "HTTP/1.1"
  BY <1>1, <1>3, <1>17
<1>26. o.force_reload /\ o.proxyhost => <<"Pragma">> \in ToSet(af)
  BY <1>9, <1>18
<1> HIDE DEF o
<1>27. Suits(af, o)
  BY <1>22, <1>23, <1>24, <1>25, <1>26 DEF Suits
<1> QED
  BY <1>19, <1>27 DEF o

(* A request is there only between build_request() and the first connection, *)
(* when no option can come any more.                                         *)
RequestInv ==
  /\ OptionsOK
  /\ parent # "checking" => request = <<>>
  /\ request # <<>> => Suits(request, options)

(* Whatever the options are and in whatever order they come, a header field  *)
(* is only sent under a version that has them, with the empty line at their  *)
(* end (webbench.c:234-237, 300-331).                                        *)
THEOREM RequestCorrect == BenchSpec => []RequestSuitsItsVersion
<1>1. BenchInit => RequestInv
  BY InitBenchInv DEF BenchInv, BenchTypeOK, RequestInv, BenchInit
<1>2. RequestInv => RequestSuitsItsVersion
  BY DEF RequestInv, Suits, RequestSuitsItsVersion
<1>3. RequestInv /\ [BenchNext]_benchVars => RequestInv'
  <2> SUFFICES ASSUME RequestInv, [BenchNext]_benchVars PROVE RequestInv'
    OBVIOUS
  <2>1. CASE BuildRequest
    <3>1. /\ request' = RequestLines(options) /\ parent' = "checking"
          /\ options' = [options EXCEPT !.clients = IF @ = 0 THEN 1 ELSE @,
                                        !.http10 = Version(options)]
      BY <2>1 DEF BuildRequest
    <3>2. OptionsOK'
      BY <2>1, OptionsStay DEF RequestInv
    <3>3. options'.force_reload = options.force_reload /\ options'.proxyhost = options.proxyhost
      BY <3>1 DEF RequestInv, OptionsOK
    <3>4. Suits(request', options')
      BY <3>1, <3>3, LinesSuit DEF RequestInv, Suits
    <3> QED
      BY <3>1, <3>2, <3>4 DEF RequestInv
  <2>2. CASE GetOption \/ UsageError \/ ServerIsThere \/ BenchCannotStart \/ ForkFails \/ AllForked
    <3>1. OptionsOK'
      BY <2>2, OptionsStay DEF RequestInv
    <3>2. request' = <<>>
      BY <2>2 DEF RequestInv, GetOption, UsageError, ServerIsThere, BenchCannotStart,
                  ForkFails, AllForked
    <3> QED
      BY <3>1, <3>2 DEF RequestInv
  <2>3. CASE ReadReport \/ \E c \in Client : Fork(c)
    <3>1. parent # "checking" /\ parent' # "checking" /\ UNCHANGED <<options, request>>
      BY <2>3 DEF ReadReport, Fork, ParentEnds
    <3> QED
      BY <3>1 DEF RequestInv, OptionsOK
  <2>4. CASE UNCHANGED parentVars
    BY <2>4 DEF RequestInv, OptionsOK, parentVars
  <2>5. CASE \E c \in Client : Connects(c) \/ BenchClientStep(c) \/ Alarm(c) \/ AlarmInterrupts(c)
    <3>1. ASSUME NEW c \in Client, NEW at, NEW s, NEW counted, Goes(c, at, s, counted)
          PROVE  UNCHANGED parentVars
      BY <3>1 DEF Goes
    <3>2. UNCHANGED parentVars
      BY <2>5, <3>1 DEF Connects, BenchClientStep, Alarm, AlarmInterrupts, TimeIsUp, StartsRound,
                  SendsRequest, KeptConnectionFails, SigPipe, NewConnectionFails, LooksAtTimer,
                  ReadsBytes, ReadsEnd, ReadFails, Report
    <3> QED
      BY <2>4, <3>2
  <2> QED
    BY <2>1, <2>2, <2>3, <2>4, <2>5 DEF BenchNext, ParentStep, benchVars
<1> QED
  BY <1>1, <1>2, <1>3, PTL DEF BenchSpec
=============================================================================
