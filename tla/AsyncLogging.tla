---------------------------- MODULE AsyncLogging ----------------------------
(***************************************************************************)
(* base/AsyncLogging.cpp: any thread appends lines, a thread of its own     *)
(* writes them, and buffers go round between the two, so that neither waits *)
(* for the other's work.                                                    *)
(*                                                                          *)
(* The body of FixedBuffer::append() is empty: a line that fits changes     *)
(* nothing, and what is written of each buffer has no length.  What is left *)
(* is who owns which buffer.  A critical section is one step;               *)
(* waitForSecond() ends by itself, so the thread may go on at any time.     *)
(* Whether assertions are compiled in is a choice of the build: with them   *)
(* the thread, which begins with assert(running_ = false), aborts.          *)
(***************************************************************************)
EXTENDS Integers, Sequences, SequencesExt

CONSTANTS
  kLargeBuffer,  (* 4000000 in the code                                     *)
  Lens,          (* lengths that append() is called with                    *)
  MaxToWrite,    (* 25: from more buffers than that the first is dropped    *)
  MaxFull        (* bound: full buffers that the thread has not taken yet   *)

ASSUME AsyncLoggingAssumption ==
  /\ kLargeBuffer \in Nat /\ Lens \subseteq Nat
  /\ MaxToWrite \in Nat \ {0, 1} /\ MaxFull \in Nat

VARIABLES
  withAsserts,   (* NDEBUG is not defined                                   *)
  logRunning,    (* running_                                                *)
  currentBuffer_, nextBuffer_, buffers_,
  newBuffer1, newBuffer2, buffersToWrite,   (* locals of threadFunction()   *)
  loggingThread, (* where the thread is                                     *)
  user           (* where the one who starts and stops it is                *)

sharedBuffers == <<currentBuffer_, nextBuffer_, buffers_>>
threadBuffers == <<newBuffer1, newBuffer2, buffersToWrite>>
loggingVars ==
  <<withAsserts, logRunning, sharedBuffers, threadBuffers, loggingThread, user>>

(* shared_ptr<Buffer>: null, or a Buffer by its number. *)
Null == 0
Buffers == 1 .. 2 * MaxFull + 5

LoggingInit ==
  /\ withAsserts \in BOOLEAN
  /\ logRunning = FALSE
  /\ currentBuffer_ = 1 /\ nextBuffer_ = 2 /\ buffers_ = <<>>
  /\ newBuffer1 = Null /\ newBuffer2 = Null /\ buffersToWrite = <<>>
  /\ loggingThread = "new" /\ user = "constructed"

Owned ==
  {currentBuffer_, nextBuffer_, newBuffer1, newBuffer2}
    \union ToSet(buffers_) \union ToSet(buffersToWrite)

(* The next Buffer that is allocated. *)
Fresh(taken) == CHOOSE b \in Buffers : b \notin taken

-----------------------------------------------------------------------------
(* By the threads that log. *)

(* Mutant: nextBuffer_ is copied instead of moved. *)
AppendLineCopies(len) ==
  /\ loggingThread # "aborted"
  /\ kLargeBuffer <= len /\ Len(buffers_) < MaxFull
  /\ buffers_' = Append(buffers_, currentBuffer_)
  /\ currentBuffer_' = IF nextBuffer_ # Null THEN nextBuffer_ ELSE Fresh(Owned)
  /\ UNCHANGED <<withAsserts, logRunning, nextBuffer_, threadBuffers, loggingThread, user>>

(* append() of a line for which there is no room. *)
AppendLine(len) ==
  /\ loggingThread # "aborted"
  /\ kLargeBuffer <= len /\ Len(buffers_) < MaxFull
  /\ buffers_' = Append(buffers_, currentBuffer_)
  /\ currentBuffer_' = IF nextBuffer_ # Null THEN nextBuffer_ ELSE Fresh(Owned)
  /\ nextBuffer_' = Null
  /\ UNCHANGED <<withAsserts, logRunning, threadBuffers, loggingThread, user>>

LoggingStart ==
  /\ user = "constructed"
  /\ logRunning' = TRUE
  /\ loggingThread' = "started"
  /\ user' = "starting"
  /\ UNCHANGED <<withAsserts, sharedBuffers, threadBuffers>>

(* latch_.wait() returns. *)
LoggingStarted ==
  /\ user = "starting" /\ loggingThread \notin {"started", "aborted"}
  /\ user' = "started"
  /\ UNCHANGED <<withAsserts, logRunning, sharedBuffers, threadBuffers, loggingThread>>

(* stop(), called or by the destructor ... *)
LoggingStop ==
  /\ user = "started"
  /\ logRunning' = FALSE
  /\ user' = "joining"
  /\ UNCHANGED <<withAsserts, sharedBuffers, threadBuffers, loggingThread>>

(* ... and its join(). *)
LoggingJoined ==
  /\ user = "joining" /\ loggingThread = "ended"
  /\ user' = "joined"
  /\ UNCHANGED <<withAsserts, logRunning, sharedBuffers, threadBuffers, loggingThread>>

-----------------------------------------------------------------------------
(* threadFunction() *)

ThreadBegins ==
  /\ loggingThread = "started"
  /\ \/ withAsserts /\ loggingThread' = "aborted" /\ UNCHANGED threadBuffers
     \/ /\ ~withAsserts
        /\ loggingThread' = "test"
        /\ newBuffer1' = Fresh(Owned)
        /\ newBuffer2' = Fresh(Owned \union {newBuffer1'})
        /\ UNCHANGED buffersToWrite
  /\ UNCHANGED <<withAsserts, logRunning, sharedBuffers, user>>

TestsRunning ==
  /\ loggingThread = "test"
  /\ loggingThread' = IF logRunning THEN "swap" ELSE "ended"
  /\ UNCHANGED <<withAsserts, logRunning, sharedBuffers, threadBuffers, user>>

(* The critical section takes what is full, and the current one. *)
SwapsBuffers ==
  /\ loggingThread = "swap"
  /\ buffersToWrite' = Append(buffers_, currentBuffer_)
  /\ buffers_' = <<>>
  /\ currentBuffer_' = newBuffer1
  /\ newBuffer1' = Null
  /\ IF nextBuffer_ = Null
     THEN nextBuffer_' = newBuffer2 /\ newBuffer2' = Null
     ELSE UNCHANGED <<nextBuffer_, newBuffer2>>
  /\ loggingThread' = "write"
  /\ UNCHANGED <<withAsserts, logRunning, user>>

(* Of too many the first is dropped, and the others are written. *)
WritesBuffers ==
  /\ loggingThread = "write"
  /\ buffersToWrite' = IF Len(buffersToWrite) > MaxToWrite THEN Tail(buffersToWrite)
                       ELSE buffersToWrite
  /\ loggingThread' = "recycle"
  /\ UNCHANGED <<withAsserts, logRunning, sharedBuffers, newBuffer1, newBuffer2, user>>

(* Mutant: newBuffer1 is not popped. *)
RecyclesBuffersTwice ==
  LET left == IF Len(buffersToWrite) > 2 THEN SubSeq(buffersToWrite, 1, 2) ELSE buffersToWrite
  IN  /\ loggingThread = "recycle"
      /\ newBuffer1' = Last(left)
      /\ newBuffer2' = IF newBuffer2 = Null THEN Last(left) ELSE newBuffer2
      /\ buffersToWrite' = <<>>
      /\ loggingThread' = "test"
      /\ UNCHANGED <<withAsserts, logRunning, sharedBuffers, user>>

(* Two at most are kept, to be the thread's spare buffers again. *)
RecyclesBuffers ==
  LET left == IF Len(buffersToWrite) > 2 THEN SubSeq(buffersToWrite, 1, 2) ELSE buffersToWrite
  IN  /\ loggingThread = "recycle"
      /\ newBuffer1' = Last(left)
      /\ newBuffer2' = IF newBuffer2 = Null THEN Last(Front(left)) ELSE newBuffer2
      /\ buffersToWrite' = <<>>
      /\ loggingThread' = "test"
      /\ UNCHANGED <<withAsserts, logRunning, sharedBuffers, user>>

-----------------------------------------------------------------------------
ThreadFunction ==
  \/ ThreadBegins
  \/ TestsRunning
  \/ SwapsBuffers
  \/ WritesBuffers
  \/ RecyclesBuffers

LoggingNext ==
  \/ \E len \in Lens : AppendLine(len)
  \/ LoggingStart \/ LoggingStarted \/ LoggingStop \/ LoggingJoined
  \/ ThreadFunction

LoggingSpec == LoggingInit /\ [][LoggingNext]_loggingVars

(* AsyncLogging.cpp:36-51, 76-92, 110-127: no Buffer is with two owners, so *)
(* that the thread writes memory nobody appends to; append() always has a   *)
(* buffer, and the thread both its spare ones when it comes to take others. *)
BuffersHaveOneOwner ==
  LET held == <<currentBuffer_, nextBuffer_, newBuffer1, newBuffer2>>
                \o buffers_ \o buffersToWrite
  IN  /\ \A i, j \in DOMAIN held : i # j /\ held[i] = held[j] => held[i] = Null
      /\ Null \notin {currentBuffer_} \union ToSet(buffers_) \union ToSet(buffersToWrite)
      /\ loggingThread \in {"test", "swap"} =>
           newBuffer1 # Null /\ newBuffer2 # Null /\ buffersToWrite = <<>>
=============================================================================
