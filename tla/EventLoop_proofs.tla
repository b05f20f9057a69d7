-------------------------- MODULE EventLoop_proofs --------------------------
(***************************************************************************)
(* For every set of threads and functors: EventLoop keeps its phases apart,*)
(* never leaves the IO thread asleep on work, and every step of it is a    *)
(* step of TaskQueue or a stutter; and EventLoopThread, which hands out    *)
(* such a loop of another thread, uses it as it may be used.               *)
(***************************************************************************)
EXTENDS EventLoopThread, SequenceTheorems, TLAPS

LEMMA InitTypeOK == Init => TypeOK
<1>1. <<>> \in Seq(Tasks)
  OBVIOUS
<1>2. QED
  BY <1>1, EventLoopAssumption DEF Init, TypeOK, PCs, Channels

LEMMA TypeOKStep == TypeOK /\ [Next]_vars => TypeOK'
<1> SUFFICES ASSUME TypeOK, [Next]_vars PROVE TypeOK'
  OBVIOUS
<1> USE EventLoopAssumption DEF TypeOK, PCs
<1>1. CASE EnterLoop
  BY <1>1 DEF EnterLoop
<1>2. CASE TestQuit
  BY <1>2 DEF TestQuit
<1>3. CASE \E ready \in SUBSET Channels : PollReturns(ready)
  BY <1>3 DEF PollReturns
<1>4. CASE PollTimesOut
  BY <1>4 DEF PollTimesOut
<1>5. CASE HandleRead
  BY <1>5 DEF HandleRead
<1>6. CASE HandleOther
  BY <1>6 DEF HandleOther
<1>7. CASE SwapFunctors
  BY <1>7 DEF SwapFunctors
<1>8. CASE RunFunctor
  <2>1. Head(functors) \in Tasks /\ Tail(functors) \in Seq(Tasks)
    BY <1>8, HeadTailProperties DEF RunFunctor
  <2>2. QED
    BY <1>8, <2>1 DEF RunFunctor
<1>9. CASE BodyReturns
  BY <1>9 DEF BodyReturns
<1>10. CASE EndFunctors
  BY <1>10 DEF EndFunctors
<1>11. ASSUME NEW t \in Tasks, QueueInLoopHere(t)
       PROVE  TypeOK'
  <2>1. Append(pendingFunctors_, t) \in Seq(Tasks)
    BY AppendProperties
  <2>2. QED
    BY <1>11, <2>1 DEF QueueInLoopHere
<1>12. CASE QuitHere
  BY <1>12 DEF QuitHere
<1>13. ASSUME NEW th \in Threads, NEW t \in Tasks, QueueInLoop(th, t)
       PROVE  TypeOK'
  <2>1. Append(pendingFunctors_, t) \in Seq(Tasks)
    BY AppendProperties
  <2>2. QED
    BY <1>13, <2>1 DEF QueueInLoop
<1>14. ASSUME NEW th \in Threads, Quit(th)
       PROVE  TypeOK'
  BY <1>14 DEF Quit
<1>15. ASSUME NEW th \in Threads, Wakeup(th)
       PROVE  TypeOK'
  BY <1>15 DEF Wakeup
<1>16. CASE UNCHANGED vars
  BY <1>16 DEF vars
<1>17. QED
  BY <1>1, <1>2, <1>3, <1>4, <1>5, <1>6, <1>7, <1>8, <1>9, <1>10, <1>11,
     <1>12, <1>13, <1>14, <1>15, <1>16 DEF Next, IoNext

(* TypeOK, phases included, is inductive. *)
THEOREM TypeCorrect == Spec => []TypeOK
BY InitTypeOK, TypeOKStep, PTL DEF Spec

----------------------------------------------------------------------------
(* NoLostWakeup speaks of the poll alone.  What makes it inductive: outside *)
(* the handling phase, which always swaps the queue afterwards, a non-empty *)
(* queue has its wakeup written or on the way.                              *)
WakeupInv ==
  /\ pc # "events" /\ pendingFunctors_ # <<>> => wakeupFd_ \/ waking # {}
  /\ pc = "poll" /\ quit_ => wakeupFd_ \/ waking # {}

LEMMA WakeupInvStep == TypeOK /\ WakeupInv /\ [Next]_vars => WakeupInv'
<1> SUFFICES ASSUME TypeOK, WakeupInv, [Next]_vars PROVE WakeupInv'
  OBVIOUS
<1> USE DEF WakeupInv
<1>1. CASE EnterLoop
  BY <1>1 DEF EnterLoop
<1>2. CASE TestQuit
  BY <1>2 DEF TestQuit
<1>3. CASE \E ready \in SUBSET Channels : PollReturns(ready)
  BY <1>3 DEF PollReturns
<1>4. CASE PollTimesOut
  BY <1>4 DEF PollTimesOut
<1>5. CASE HandleRead
  BY <1>5 DEF HandleRead
<1>6. CASE HandleOther
  BY <1>6 DEF HandleOther
<1>7. CASE SwapFunctors
  BY <1>7 DEF SwapFunctors
<1>8. CASE RunFunctor
  BY <1>8 DEF RunFunctor
<1>9. CASE BodyReturns
  BY <1>9 DEF BodyReturns
<1>10. CASE EndFunctors
  BY <1>10 DEF EndFunctors
<1>11. ASSUME NEW t \in Tasks, QueueInLoopHere(t)
       PROVE  WakeupInv'
  (* The caller is a callback, in the handling phase, or a functor, whose *)
  (* flag makes it write the eventfd.                                     *)
  <2>1. pc = "events" \/ callingPendingFuntors_
    BY <1>11 DEF QueueInLoopHere, TypeOK
  <2>2. pc = "poll" => ~callingPendingFuntors_
    BY DEF TypeOK
  <2>3. QED
    BY <1>11, <2>1, <2>2 DEF QueueInLoopHere
<1>12. CASE QuitHere
  <2>1. pc # "poll"
    BY <1>12 DEF QuitHere, TypeOK
  <2>2. QED
    BY <1>12, <2>1 DEF QuitHere
<1>13. ASSUME NEW th \in Threads, NEW t \in Tasks, QueueInLoop(th, t)
       PROVE  WakeupInv'
  BY <1>13 DEF QueueInLoop
<1>14. ASSUME NEW th \in Threads, Quit(th)
       PROVE  WakeupInv'
  BY <1>14 DEF Quit
<1>15. ASSUME NEW th \in Threads, Wakeup(th)
       PROVE  WakeupInv'
  BY <1>15 DEF Wakeup
<1>16. CASE UNCHANGED vars
  BY <1>16 DEF vars
<1>17. QED
  BY <1>1, <1>2, <1>3, <1>4, <1>5, <1>6, <1>7, <1>8, <1>9, <1>10, <1>11,
     <1>12, <1>13, <1>14, <1>15, <1>16 DEF Next, IoNext

LEMMA InitWakeupInv == Init => WakeupInv
BY DEF Init, WakeupInv

LEMMA WakeupInvSuffices == WakeupInv => NoLostWakeup
BY DEF WakeupInv, NoLostWakeup

(* No functor and no quit of another thread is slept on (NoLostWakeup). *)
THEOREM WakeupCorrect == Spec => []NoLostWakeup
BY InitWakeupInv, WakeupInvSuffices, TypeCorrect, WakeupInvStep, PTL DEF Spec

----------------------------------------------------------------------------
(* Appending to the second of two sequences appends to both of them. *)
LEMMA AppendConcat ==
  ASSUME NEW S, NEW s \in Seq(S), NEW r \in Seq(S), NEW e \in S
  PROVE  s \o Append(r, e) = Append(s \o r, e)
  OBVIOUS

(* Taking the head of the first takes the head of the two. *)
LEMMA HeadConcat ==
  ASSUME NEW S, NEW s \in Seq(S), NEW r \in Seq(S), s # <<>>
  PROVE  /\ s \o r # <<>>
         /\ Head(s \o r) = Head(s)
         /\ Tail(s \o r) = Tail(s) \o r
  OBVIOUS

LEMMA EmptyConcat ==
  ASSUME NEW S, NEW s \in Seq(S)
  PROVE  <<>> \o s = s /\ s \o <<>> = s
  OBVIOUS

LEMMA InitImplements == Init => Promise!Init
BY EmptyConcat, EventLoopAssumption DEF Init, Promise!Init

LEMMA StepImplements == TypeOK /\ TypeOK' /\ [Next]_vars => [Promise!Next]_Promise!vars
<1> SUFFICES ASSUME TypeOK, TypeOK', [Next]_vars
             PROVE  [Promise!Next]_Promise!vars
  OBVIOUS
<1> USE EventLoopAssumption DEF TypeOK
<1> DEFINE queue == functors \o pendingFunctors_
           running == IF body \in Tasks THEN body ELSE Nobody
           closed == pc = "exited"
<1>1. CASE EnterLoop
  BY <1>1 DEF EnterLoop, Promise!vars
<1>2. CASE TestQuit
  BY <1>2 DEF TestQuit, Promise!vars, Promise!Next, Promise!Close
<1>3. CASE \E ready \in SUBSET Channels : PollReturns(ready)
  BY <1>3 DEF PollReturns, Promise!vars
<1>4. CASE PollTimesOut
  BY <1>4 DEF PollTimesOut, Promise!vars
<1>5. CASE HandleRead
  BY <1>5 DEF HandleRead, Promise!vars
<1>6. CASE HandleOther
  BY <1>6 DEF HandleOther, Promise!vars
<1>7. CASE SwapFunctors
  <2>1. functors = <<>>
    BY <1>7 DEF SwapFunctors
  <2>2. functors' \o pendingFunctors_' = functors \o pendingFunctors_
    BY <1>7, <2>1, EmptyConcat DEF SwapFunctors
  <2>3. QED
    BY <1>7, <2>2 DEF SwapFunctors, Promise!vars
<1>8. CASE RunFunctor
  <2>1. /\ queue # <<>>
        /\ body' = Head(queue)
        /\ queue' = Tail(queue)
    BY <1>8, HeadConcat DEF RunFunctor
  <2>2. body' \in Tasks /\ running = Nobody /\ ~closed /\ ~closed'
    BY <1>8, HeadTailProperties DEF RunFunctor
  <2>3. Promise!Run
    BY <2>1, <2>2 DEF Promise!Run
  <2>4. QED
    BY <2>3 DEF Promise!Next
<1>9. CASE BodyReturns
  BY <1>9 DEF BodyReturns, Promise!vars, Promise!Next, Promise!Return
<1>10. CASE EndFunctors
  BY <1>10 DEF EndFunctors, Promise!vars
<1>11. ASSUME NEW t \in Tasks, QueueInLoopHere(t)
       PROVE  Promise!Submit(t)
  BY <1>11, AppendConcat DEF QueueInLoopHere, Promise!Submit
<1>12. CASE QuitHere
  BY <1>12 DEF QuitHere, Promise!vars
<1>13. ASSUME NEW th \in Threads, NEW t \in Tasks, QueueInLoop(th, t)
       PROVE  Promise!Submit(t)
  BY <1>13, AppendConcat DEF QueueInLoop, Promise!Submit
<1>14. ASSUME NEW th \in Threads, Quit(th)
       PROVE  UNCHANGED Promise!vars
  BY <1>14 DEF Quit, Promise!vars
<1>15. ASSUME NEW th \in Threads, Wakeup(th)
       PROVE  UNCHANGED Promise!vars
  BY <1>15 DEF Wakeup, Promise!vars
<1>16. CASE UNCHANGED vars
  BY <1>16 DEF vars, Promise!vars
<1>17. QED
  BY <1>1, <1>2, <1>3, <1>4, <1>5, <1>6, <1>7, <1>8, <1>9, <1>10, <1>11,
     <1>12, <1>13, <1>14, <1>15, <1>16 DEF Next, IoNext, Promise!Next

(* The safety part of the promise: FIFO, exactly once, nothing after exit. *)
THEOREM RefinesTaskQueue == Spec => Promise!Init /\ [][Promise!Next]_Promise!vars
BY InitImplements, StepImplements, TypeCorrect, PTL DEF Spec

----------------------------------------------------------------------------
(* EventLoopThread. *)

(* Until startThread() no thread runs; the owner that waits has started one. *)
HandedOut ==
  /\ StartHandsOutTheLoop
  /\ owner = "new" => thread = "none"
  /\ owner \in {"checking", "waiting"} => thread # "none"

LEMMA HandedOutStep == HandedOut /\ [ThreadNext]_allVars => HandedOut'
<1> SUFFICES ASSUME HandedOut, [ThreadNext]_allVars PROVE HandedOut'
  OBVIOUS
<1> USE DEF HandedOut, StartHandsOutTheLoop, ThreadStates, OwnerStates, lifeVars, vars
<1>1. CASE StartThread
  BY <1>1 DEF StartThread
<1>2. CASE CheckLoop
  BY <1>2 DEF CheckLoop
<1>3. CASE SpuriousWakeup
  BY <1>3 DEF SpuriousWakeup
<1>4. CASE Destruct
  BY <1>4 DEF Destruct
<1>5. CASE DestructorQuit
  BY <1>5 DEF DestructorQuit, Quit
<1>6. CASE Join
  BY <1>6 DEF Join
<1>7. CASE Publish
  BY <1>7 DEF Publish
<1>8. CASE Loop
  (* Whatever loop() does, it does while the thread is in it. *)
  BY <1>8 DEF Loop
<1>9. CASE Return
  BY <1>9 DEF Return
<1>10. CASE Call
  BY <1>10 DEF Call, Quit, QueueInLoop
<1>11. ASSUME NEW th \in Threads, FinishCall(th) PROVE HandedOut'
  BY <1>11 DEF FinishCall, Wakeup
<1>12. CASE UNCHANGED allVars
  BY <1>12 DEF allVars
<1>13. QED
  BY <1>1, <1>2, <1>3, <1>4, <1>5, <1>6, <1>7, <1>8, <1>9, <1>10, <1>11, <1>12
     DEF ThreadNext

(* startThread() returns the pointer of an EventLoop that is built, and that *)
(* loop runs inside its thread only, whatever wakes the owner                *)
(* (StartHandsOutTheLoop).                                                   *)
THEOREM HandsOutCorrect == ThreadSpec => []StartHandsOutTheLoop
<1>1. ThreadInit => HandedOut
  BY DEF ThreadInit, Init, HandedOut, StartHandsOutTheLoop, ThreadStates, OwnerStates
<1>2. HandedOut => StartHandsOutTheLoop
  BY DEF HandedOut
<1>3. QED
  BY <1>1, <1>2, HandedOutStep, PTL DEF ThreadSpec

LEMMA ThreadStepIsLoopStep == [ThreadNext]_allVars => [Next]_vars
BY EventLoopThreadAssumption
   DEF ThreadNext, allVars, StartThread, CheckLoop, SpuriousWakeup, Destruct,
       DestructorQuit, Join, Publish, Loop, Return, Call, FinishCall, Next

(* Every step of the composition is one that EventLoop allows, or none of    *)
(* its own: owner, IO thread and callers use the loop as it may be used.     *)
THEOREM ThreadUsesTheLoop == ThreadSpec => Init /\ [][Next]_vars
<1>1. ThreadInit => Init
  BY DEF ThreadInit
<1>2. QED
  BY <1>1, ThreadStepIsLoopStep, PTL DEF ThreadSpec

(* So what is proved of EventLoop holds of the loop of an EventLoopThread,   *)
(* its destruction and the calls that finish after it included: no wakeup is *)
(* lost (NoLostWakeup) ...                                                   *)
THEOREM ThreadWakeupCorrect == ThreadSpec => []NoLostWakeup
BY ThreadUsesTheLoop, InitTypeOK, TypeOKStep, InitWakeupInv, WakeupInvStep,
   WakeupInvSuffices, PTL

(* ... and functors run in order, once each, and none after the thread.      *)
THEOREM ThreadRefinesTaskQueue ==
  ThreadSpec => Promise!Init /\ [][Promise!Next]_Promise!vars
BY ThreadUsesTheLoop, InitTypeOK, TypeOKStep, InitImplements, StepImplements, PTL
============================================================================
