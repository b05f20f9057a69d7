---------------------------- MODULE MCThreadPool ----------------------------
(* The parts of base/, one at a time.                                        *)
(*                                                                           *)
(* ThreadPool: three workers, one in a task, one woken and one still         *)
(* waiting; three tasks, so that each of the woken has had one taken from    *)
(* under it; what task[w] is before w takes one makes no difference.         *)
(* BaseThreads: three threads of two calls, so that two wait when the third  *)
(* puts twice, or counts the latch down to zero.                             *)
(* AsyncLogging: up to two full buffers, with the current one more than    *)
(* are written.  LogStream: numbers of up to two digits, a line that has     *)
(* room for several and then for one that is shorter than the longest.       *)
EXTENDS ThreadPool, BaseThreads, AsyncLogging, LogStream, BoundedQueue

MCMonitors == {"queue", "latch"}

(* After any eight calls a bounded queue for one to three elements holds the  *)
(* last of those that were put and not taken, in order, never full; if the   *)
(* array had room for two more than it has.                                   *)
AfterCalls(capacity, cs) ==
  FoldLeft(LAMBDA r, c :
             IF c = 0
             THEN IF TakeWaits(r.queue) THEN r
                  ELSE [queue |-> PopFront(r.queue), held |-> Tail(r.held)]
             ELSE LET held == Append(r.held, c)
                  IN  [queue |-> PushBack(r.queue, c),
                       held  |-> IF Len(held) > capacity THEN Tail(held) ELSE held],
           [queue |-> NewQueue(capacity), held |-> <<>>], cs)

ASSUME BoundedQueueHoldsTheLast ==
  \A capacity \in 1 .. 3, takes \in SUBSET (1 .. 8) :
    LET cs == [i \in 1 .. 8 |-> IF i \in takes THEN 0 ELSE i]
        r  == AfterCalls(capacity, cs)
    IN  /\ QueueElements(r.queue) = r.held /\ ~PutWaits(r.queue)
        /\ r.held # <<>> =>
             /\ QueueSize(r.queue) = Len(r.held)
             /\ QueueFront(r.queue) = Head(r.held) /\ QueueBack(r.queue) = Last(r.held)
        /\ 8 - Cardinality(takes) <= capacity => InsideArray(r.queue)

VARIABLE part

MCInit ==
  /\ Init /\ ThreadsInit /\ LoggingInit /\ LineInit
  /\ part \in {"ThreadPool", "BaseThreads", "AsyncLogging", "LogStream"}
  /\ part # "AsyncLogging" => ~withAsserts
  /\ task = [w \in Workers |-> CHOOSE t \in Tasks : TRUE]

MCNext ==
  /\ UNCHANGED part
  /\ \/ part = "ThreadPool" /\ Next
        /\ UNCHANGED <<threadsVars, loggingVars, lineVars>>
     \/ part = "BaseThreads" /\ ThreadsNext
        /\ UNCHANGED <<vars, loggingVars, lineVars>>
     \/ part = "AsyncLogging" /\ LoggingNext
        /\ UNCHANGED <<vars, threadsVars, lineVars>>
     \/ part = "LogStream" /\ LineNext
        /\ UNCHANGED <<vars, threadsVars, loggingVars>>

(* Nothing that either fairness is about can happen in the other parts. *)
MCSpec ==
  /\ MCInit /\ [][MCNext]_<<vars, threadsVars, loggingVars, lineVars, part>>
  /\ Fairness /\ ThreadsFairness
=============================================================================
