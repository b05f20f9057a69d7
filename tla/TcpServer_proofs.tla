-------------------------- MODULE TcpServer_proofs --------------------------
(***************************************************************************)
(* For every number of loops, connections and descriptors: epoll's map and *)
(* the channels a loop is about to handle lead to connections that are     *)
(* there, and no assertion of the server, its connections or their         *)
(* channels fails.  Provided that the server of a pool is not destroyed:   *)
(* that fails (TcpServer.cpp:34-46), and the run leaves it out likewise.   *)
(***************************************************************************)
EXTENDS TcpServer, SequenceTheorems, WellFoundedInduction, TLAPS

AllFunctors == [run : FunctorNames, conn : Connections]

(* The functors of a loop that have not run yet, in the order they will.    *)
Left(fs, n, ps) == SubSeq(fs, n + 1, Len(fs)) \o ps
Todo == [l \in Loops |-> Left(functors[l], ran[l], pendingFunctors_[l])]
JobsOf(T) == [l \in Loops |-> {f \in AllFunctors : \E i \in 1..Len(T[l]) : T[l][i] = f}]
Jobs == JobsOf(Todo)

CountsOK ==
  /\ numThreads \in 0..MaxThreads
  /\ next_ \in Nat /\ (next_ = 0 \/ next_ < numThreads)
  /\ nextConnectionId_ \in Nat \ {0} /\ backlog \in Nat /\ arrived \in 0..MaxConnections
  /\ nextConnectionId_ + backlog = arrived + 1

QueuesOK ==
  /\ pendingFunctors_ \in [Loops -> Seq(AllFunctors)]
  /\ functors \in [Loops -> Seq(AllFunctors)]
  /\ ran \in [Loops -> Nat]

(* Only a loop that handles events has active channels, and only one that   *)
(* runs functors a vector of them; the loops beyond the pool never begin.   *)
PhasesOK ==
  /\ phase \in [Loops -> Phases]
  /\ \A l \in Loops :
       /\ phase[l] # "functors" => functors[l] = <<>>
       /\ phase[l] \notin {"events", "accepting"} => activeChannels_[l] = {}
       /\ l > numThreads => phase[l] = "setup"
       /\ ~started_ => phase[l] = "setup"
       /\ phase[l] = "exited" => l = Base /\ numThreads = 0

Queued(T, k, f) == [T EXCEPT ![k] = Append(@, f)]
Ran(T, l) == [T EXCEPT ![l] = Tail(@)]
Added(J, k, f) == [J EXCEPT ![k] = @ \union {f}]
Removed(J, l, f) == [J EXCEPT ![l] = @ \ {f}]
Without(J, c) == \A l \in Loops : \A g \in J[l] : g.conn # c

(* No connection has two functors that are still to run. *)
OnceEach(T) ==
  \A l, k \in Loops : \A i \in 1..Len(T[l]), j \in 1..Len(T[k]) :
    T[l][i].conn = T[k][j].conn => l = k /\ i = j

QueuesInv == QueuesOK /\ OnceEach(Todo)

TablesOK ==
  /\ conn \in [Connections -> [state_ : States, loop : Loops, fd : 0..MaxFds,
                               status : Statuses, reading : BOOLEAN]]
  /\ channels_ \in [Loops -> [Fds -> 0..MaxConnections]]
  /\ connectionMap_ \subseteq Connections

(* What a connection is in each of its states; from "kDisconnected" on it   *)
(* leaves the server's map, then epoll's, and a functor leads to the next.  *)
StageOK(c) ==
  /\ c >= nextConnectionId_ => conn[c].state_ = "none"
  /\ Live(c) => conn[c].fd \in Fds /\ (conn[c].loop = Base <=> numThreads = 0)
  /\ conn[c].state_ = "kConnecting" =>
       conn[c].status = "kNew" /\ c \in connectionMap_ /\ conn[c].loop # Base
  /\ conn[c].state_ = "kConnected" =>
       conn[c].status = "kAdded" /\ c \in connectionMap_
  /\ conn[c].state_ = "kDisconnected" =>
       /\ conn[c].status \in {"kDeleted", "kNew"} /\ ~conn[c].reading
       /\ c \in connectionMap_ => conn[c].loop # Base /\ conn[c].status = "kDeleted"
       /\ c \notin connectionMap_ /\ conn[c].status # "kNew" =>
            Functor("connectionDestroyed", c) \in Jobs[conn[c].loop]
  /\ c \in connectionMap_ => Live(c)
  /\ Live(c) /\ conn[c].status # "kNew" => channels_[conn[c].loop][conn[c].fd] = c

StagesOK == \A c \in Connections : StageOK(c)

FdsOK ==
  \A c, d \in Connections : c # d /\ Live(c) /\ Live(d) => conn[c].fd # conn[d].fd

ChannelsOK ==
  \A l \in Loops, fd \in Fds :
    channels_[l][fd] # NoConnection =>
      /\ Live(channels_[l][fd]) /\ conn[channels_[l][fd]].loop = l
      /\ conn[channels_[l][fd]].fd = fd /\ conn[channels_[l][fd]].status # "kNew"

ActiveOK ==
  /\ activeChannels_ \in [Loops -> SUBSET ({AcceptChannel, WakeupChannel} \union Connections)]
  /\ \A l \in Loops : \A c \in activeChannels_[l] \ {AcceptChannel, WakeupChannel} :
       conn[c].state_ = "kConnected" /\ conn[c].loop = l

(* What a functor may rely on when its turn comes. *)
DueFor(l, f) ==
  /\ f.run = "connectionEstablished" =>
       conn[f.conn].state_ = "kConnecting" /\ conn[f.conn].loop = l
  /\ f.run = "removeConnectionInLoop" =>
       /\ l = Base /\ f.conn \in connectionMap_ /\ conn[f.conn].loop # Base
       /\ conn[f.conn].state_ = "kDisconnected" /\ conn[f.conn].status = "kDeleted"
  /\ f.run = "connectionDestroyed" =>
       /\ f.conn \notin connectionMap_ /\ conn[f.conn].loop = l
       /\ conn[f.conn].state_ = "kDisconnected" /\ conn[f.conn].status = "kDeleted"

DueOK == \A l \in Loops : \A f \in Jobs[l] : DueFor(l, f)

ConnectionsInv ==
  TablesOK /\ StagesOK /\ FdsOK /\ ChannelsOK /\ ActiveOK /\ DueOK

ServerInv ==
  /\ failed \in {"none", "undefined"}
  /\ CountsOK /\ PhasesOK /\ QueuesInv /\ ConnectionsInv

-----------------------------------------------------------------------------
(* What is left of a loop's functors. *)

LEMMA LeftElements ==
  ASSUME NEW S, NEW fs \in Seq(S), NEW ps \in Seq(S), NEW n \in Nat
  PROVE  LET m == IF n < Len(fs) THEN Len(fs) - n ELSE 0
         IN  /\ Left(fs, n, ps) \in Seq(S) /\ Len(fs) \in Nat /\ Len(ps) \in Nat
             /\ Len(Left(fs, n, ps)) = m + Len(ps)
             /\ \A i \in 1..m : Left(fs, n, ps)[i] = fs[n + i]
             /\ \A i \in 1..Len(ps) : Left(fs, n, ps)[m + i] = ps[i]
<1> DEFINE m == IF n < Len(fs) THEN Len(fs) - n ELSE 0
           r == SubSeq(fs, n + 1, Len(fs))
<1>1. Len(fs) \in Nat /\ Len(ps) \in Nat
  OBVIOUS
<1>2. r \in Seq(S) /\ Len(r) = m /\ \A i \in 1..m : r[i] = fs[n + i]
  <2>1. \A i \in n + 1 .. Len(fs) : fs[i] \in S
    BY <1>1, ElementOfSeq
  <2>2. /\ r \in Seq(S)
        /\ Len(r) = IF n + 1 <= Len(fs) THEN Len(fs) - (n + 1) + 1 ELSE 0
        /\ \A i \in 1 .. Len(fs) - (n + 1) + 1 : r[i] = fs[n + 1 + i - 1]
    BY <1>1, <2>1, SubSeqProperties
  <2> HIDE DEF r
  <2>3. Len(r) = m
    BY <1>1, <2>2
  <2>4. \A i \in 1..m : i \in 1 .. Len(fs) - (n + 1) + 1 /\ n + 1 + i - 1 = n + i
    BY <1>1
  <2>5. QED
    BY <2>2, <2>3, <2>4
<1>3. m \in Nat
  BY <1>1
<1> HIDE DEF r, m
<1>4. /\ r \o ps \in Seq(S) /\ Len(r \o ps) = m + Len(ps)
      /\ \A i \in 1 .. m + Len(ps) : (r \o ps)[i] = IF i <= m THEN r[i] ELSE ps[i - m]
  <2>1. /\ r \o ps \in Seq(S) /\ Len(r \o ps) = Len(r) + Len(ps)
        /\ \A i \in 1 .. Len(r) + Len(ps) :
             (r \o ps)[i] = IF i <= Len(r) THEN r[i] ELSE ps[i - Len(r)]
    BY <1>2, ConcatProperties
  <2>2. QED
    BY <1>2, <2>1
<1>5. Left(fs, n, ps) = r \o ps
  BY DEF Left, r
<1>6. \A i \in 1..m : i \in 1 .. m + Len(ps) /\ i <= m
  BY <1>1, <1>3
<1>7. \A i \in 1..Len(ps) : m + i \in 1 .. m + Len(ps) /\ ~(m + i <= m) /\ (m + i) - m = i
  BY <1>1, <1>3
<1>8. \A i \in 1..m : (r \o ps)[i] = fs[n + i]
  BY <1>2, <1>4, <1>6
<1>9. \A i \in 1..Len(ps) : (r \o ps)[m + i] = ps[i]
  BY <1>4, <1>7
<1>10. QED
  BY <1>1, <1>4, <1>5, <1>8, <1>9 DEF m

(* A functor is queued; the next one runs; the vectors are swapped.          *)
LEMMA LeftSteps ==
  ASSUME NEW S, NEW fs \in Seq(S), NEW ps \in Seq(S), NEW n \in Nat
  PROVE  /\ \A f \in S : Left(fs, n, Append(ps, f)) = Append(Left(fs, n, ps), f)
         /\ n < Len(fs) => /\ Left(fs, n, ps) # <<>>
                           /\ Left(fs, n, ps)[1] = fs[n + 1]
                           /\ Left(fs, n + 1, ps) = Tail(Left(fs, n, ps))
         /\ fs = <<>> \/ n >= Len(fs) => Left(fs, n, ps) = ps
<1> DEFINE m == IF n < Len(fs) THEN Len(fs) - n ELSE 0
           r == Left(fs, n, ps)
<1>1. /\ r \in Seq(S) /\ Len(fs) \in Nat /\ Len(ps) \in Nat
      /\ Len(r) = m + Len(ps)
      /\ \A i \in 1..m : r[i] = fs[n + i]
      /\ \A i \in 1..Len(ps) : r[m + i] = ps[i]
  BY LeftElements
<1>2. m \in Nat /\ (n < Len(fs) => m = Len(fs) - n) /\ (n >= Len(fs) => m = 0)
  BY <1>1
<1>3. ASSUME NEW f \in S PROVE Left(fs, n, Append(ps, f)) = Append(r, f)
  <2> DEFINE qs == Append(ps, f)
             q == Left(fs, n, qs)
             t == Append(r, f)
  <2>1. /\ qs \in Seq(S) /\ Len(qs) = Len(ps) + 1 /\ qs[Len(ps) + 1] = f
        /\ \A i \in 1..Len(ps) : qs[i] = ps[i]
    BY AppendProperties
  <2>2. /\ q \in Seq(S) /\ Len(q) = m + Len(qs)
        /\ \A i \in 1..m : q[i] = fs[n + i]
        /\ \A i \in 1..Len(qs) : q[m + i] = qs[i]
    <3>1. qs \in Seq(S)
      BY <2>1
    <3> HIDE DEF qs
    <3>2. QED
      BY <3>1, LeftElements
  <2>a. r \in Seq(S)
    BY <1>1
  <2> HIDE DEF r
  <2>3. /\ t \in Seq(S) /\ Len(t) = Len(r) + 1 /\ t[Len(r) + 1] = f
        /\ \A i \in 1..Len(r) : t[i] = r[i]
    BY <2>a, AppendProperties
  <2> HIDE DEF m, qs, q, t
  <2>4. ASSUME NEW i \in 1..Len(q) PROVE q[i] = t[i]
    <3>1. i \in 1..m + (Len(ps) + 1)
      BY <2>1, <2>2
    <3>2. CASE i \in 1..m
      <4>1. i \in 1..Len(r)
        BY <1>1, <1>2, <3>2
      <4>2. QED
        BY <1>1, <2>2, <2>3, <3>2, <4>1
    <3>3. CASE i = m + (Len(ps) + 1)
      <4>1. Len(ps) + 1 \in 1..Len(qs) /\ Len(r) + 1 = i
        BY <1>1, <1>2, <2>1, <3>3
      <4>2. QED
        BY <2>1, <2>2, <2>3, <3>3, <4>1
    <3>4. CASE ~(i \in 1..m) /\ i # m + (Len(ps) + 1)
      <4>1. PICK k \in 1..Len(ps) : i = m + k
        <5>1. i - m \in 1..Len(ps) /\ i = m + (i - m)
          BY <1>1, <1>2, <3>1, <3>4, SMTT(30)
        <5>2. QED
          BY <5>1
      <4>2. k \in 1..Len(qs) /\ i \in 1..Len(r)
        BY <1>1, <1>2, <2>1, <4>1
      <4>3. QED
        BY <1>1, <2>1, <2>2, <2>3, <4>1, <4>2
    <3>5. QED
      BY <3>2, <3>3, <3>4
  <2>5. Len(q) = Len(t)
    BY <1>1, <1>2, <2>1, <2>2, <2>3
  <2>6. q = t
    BY <2>2, <2>3, <2>4, <2>5, SeqEqual
  <2>7. QED
    BY <2>6 DEF q, t, qs, r
<1>4. ASSUME n < Len(fs)
      PROVE  r # <<>> /\ r[1] = fs[n + 1] /\ Left(fs, n + 1, ps) = Tail(r)
  <2> DEFINE q == Left(fs, n + 1, ps)
             t == Tail(r)
  <2>1. n + 1 \in Nat /\ m = Len(fs) - n /\ m >= 1
        /\ (IF n + 1 < Len(fs) THEN Len(fs) - (n + 1) ELSE 0) = m - 1
    <3>1. m = Len(fs) - n
      BY <1>2, <1>4
    <3>2. ASSUME NEW k \in Nat, n < k
          PROVE  k - n >= 1 /\ (IF n + 1 < k THEN k - (n + 1) ELSE 0) = (k - n) - 1
      BY <3>2
    <3>3. Len(fs) - n >= 1
          /\ (IF n + 1 < Len(fs) THEN Len(fs) - (n + 1) ELSE 0) = (Len(fs) - n) - 1
      BY <1>1, <1>4, <3>2, Zenon
    <3> HIDE DEF m
    <3>4. QED
      BY <3>1, <3>3
  <2>2. /\ q \in Seq(S)
        /\ LET k == IF n + 1 < Len(fs) THEN Len(fs) - (n + 1) ELSE 0
           IN  /\ Len(q) = k + Len(ps)
               /\ \A i \in 1..k : q[i] = fs[n + 1 + i]
               /\ \A i \in 1..Len(ps) : q[k + i] = ps[i]
    <3>1. n + 1 \in Nat
      OBVIOUS
    <3>2. QED
      BY <3>1, LeftElements
  <2> HIDE DEF m, q, r
  <2>3. /\ Len(q) = (m - 1) + Len(ps)
        /\ \A i \in 1..m - 1 : q[i] = fs[n + 1 + i]
        /\ \A i \in 1..Len(ps) : q[(m - 1) + i] = ps[i]
    BY <2>1, <2>2
  <2>4. r # <<>> /\ r[1] = fs[n + 1]
    <3>1. Len(r) # 0 /\ 1 \in 1..m
      BY <1>1, <1>2, <2>1
    <3>2. QED
      BY <1>1, <3>1
  <2>5. /\ t \in Seq(S) /\ Len(t) = Len(r) - 1
        /\ \A i \in 1..Len(t) : t[i] = r[i + 1]
    BY <1>1, <2>4, HeadTailProperties
  <2> HIDE DEF t
  <2>6. Len(q) = Len(t)
    BY <1>1, <1>2, <2>3, <2>5
  <2>7. ASSUME NEW i \in 1..Len(q) PROVE q[i] = t[i]
    <3>1. t[i] = r[i + 1]
      BY <2>5, <2>6
    <3>2. CASE i \in 1..m - 1
      <4>1. i + 1 \in 1..m /\ n + (i + 1) = n + 1 + i
        BY <1>2, <3>2
      <4>2. QED
        BY <1>1, <2>3, <3>1, <3>2, <4>1
    <3>3. CASE ~(i \in 1..m - 1)
      <4>1. i - (m - 1) \in 1..Len(ps) /\ (m - 1) + (i - (m - 1)) = i
            /\ m + (i - (m - 1)) = i + 1
        BY <1>1, <1>2, <2>1, <2>3, <3>3
      <4>2. q[i] = ps[i - (m - 1)]
        BY <2>3, <4>1
      <4>3. r[i + 1] = ps[i - (m - 1)]
        BY <1>1, <4>1
      <4>4. QED
        BY <3>1, <4>2, <4>3
    <3>4. QED
      BY <3>2, <3>3
  <2>8. q = t
    BY <2>2, <2>5, <2>6, <2>7, SeqEqual
  <2>9. QED
    BY <2>4, <2>8 DEF q, t, r
<1>5. ASSUME fs = <<>> \/ n >= Len(fs) PROVE r = ps
  <2>1. m = 0
    <3>1. n >= Len(fs)
      BY <1>1, <1>5
    <3>2. QED
      BY <1>2, <3>1
  <2> HIDE DEF m, r
  <2>2. Len(r) = Len(ps) /\ \A i \in 1..Len(r) : r[i] = ps[i]
    <3>1. Len(r) = Len(ps)
      BY <1>1, <2>1
    <3>2. \A i \in 1..Len(ps) : m + i = i
      BY <2>1
    <3>3. QED
      BY <1>1, <3>1, <3>2
  <2>3. QED
    BY <1>1, <2>2, SeqEqual
<1>6. QED
  BY <1>3, <1>4, <1>5

LEMMA LeftAtEnd ==
  ASSUME NEW S, NEW fs \in Seq(S), NEW ps \in Seq(S), NEW n \in Nat, n = Len(fs)
  PROVE  Left(fs, n, ps) = ps
<1>1. n >= Len(fs)
  OBVIOUS
<1>2. QED
  BY <1>1, LeftSteps

LEMMA LeftOfNone ==
  ASSUME NEW S, NEW ps \in Seq(S), NEW n \in Nat
  PROVE  Left(<<>>, n, ps) = ps /\ Left(ps, 0, <<>>) = ps
<1>1. <<>> \in Seq(S) /\ Len(<<>>) = 0
  BY EmptySeq
<1>2. Left(<<>>, n, ps) = ps
  <2>1. ASSUME NEW e \in Seq(S), e = <<>> PROVE Left(e, n, ps) = ps
    BY <2>1, LeftSteps
  <2>2. QED
    BY <1>1, <2>1
<1>3. Left(ps, 0, <<>>) = ps
  <2>1. ASSUME NEW e \in Seq(S), Len(e) = 0 PROVE Left(ps, 0, e) = ps
    <3> DEFINE t == Left(ps, 0, e)
               m == IF 0 < Len(ps) THEN Len(ps) - 0 ELSE 0
    <3>1. /\ t \in Seq(S) /\ Len(ps) \in Nat /\ Len(t) = m + Len(e)
          /\ \A i \in 1..m : t[i] = ps[0 + i]
      BY LeftElements
    <3>2. m = Len(ps)
      BY <3>1
    <3> HIDE DEF t, m
    <3>3. Len(t) = Len(ps) /\ \A i \in 1..Len(t) : t[i] = ps[i]
      BY <2>1, <3>1, <3>2
    <3>4. QED
      BY <3>1, <3>3, SeqEqual DEF t
  <2>2. QED
    BY <1>1, <2>1
<1>4. QED
  BY <1>2, <1>3

LEMMA LeftQueued ==
  ASSUME NEW S, NEW fs \in Seq(S), NEW ps \in Seq(S), NEW n \in Nat, NEW f \in S
  PROVE  Left(fs, n, Append(ps, f)) = Append(Left(fs, n, ps), f)
BY LeftSteps

(* The same as sets: of functors of different connections one is added, or   *)
(* one is taken away.                                                        *)
LEMMA QueuedJobs ==
  ASSUME NEW T \in [Loops -> Seq(AllFunctors)], OnceEach(T),
         NEW k \in Loops, NEW f \in AllFunctors,
         Without(JobsOf(T), f.conn)
  PROVE  /\ Queued(T, k, f) \in [Loops -> Seq(AllFunctors)] /\ OnceEach(Queued(T, k, f))
         /\ JobsOf(Queued(T, k, f)) = Added(JobsOf(T), k, f)
<1> DEFINE U == [T EXCEPT ![k] = Append(@, f)]
<1>a. \A l \in Loops : \A g \in JobsOf(T)[l] : g.conn # f.conn
  BY DEF Without
<1>1. /\ U[k] \in Seq(AllFunctors) /\ Len(U[k]) = Len(T[k]) + 1 /\ U[k][Len(T[k]) + 1] = f
      /\ \A i \in 1..Len(T[k]) : U[k][i] = T[k][i]
  <2>1. U[k] = Append(T[k], f) /\ T[k] \in Seq(AllFunctors)
    OBVIOUS
  <2> HIDE DEF U
  <2>2. QED
    BY <2>1, AppendProperties
<1>2. \A l \in Loops : l # k => U[l] = T[l]
  OBVIOUS
<1>3. \A l \in Loops : Len(T[l]) \in Nat
  OBVIOUS
<1>4. U \in [Loops -> Seq(AllFunctors)]
  BY <1>1
<1> HIDE DEF U
<1>5. \A l \in Loops : \A i \in 1..Len(T[l]) : T[l][i] \in JobsOf(T)[l]
  BY ElementOfSeq DEF JobsOf
<1>6. \A l \in Loops : \A i \in 1..Len(U[l]) :
        \/ l = k /\ i = Len(T[k]) + 1 /\ U[l][i] = f
        \/ i \in 1..Len(T[l]) /\ U[l][i] = T[l][i]
  BY <1>1, <1>2, <1>3
<1>7. OnceEach(U)
  <2> SUFFICES ASSUME NEW l \in Loops, NEW m \in Loops, NEW i \in 1..Len(U[l]),
                      NEW j \in 1..Len(U[m]), U[l][i].conn = U[m][j].conn
               PROVE  l = m /\ i = j
    BY DEF OnceEach
  <2>1. \A h \in Loops : \A n \in 1..Len(T[h]) : T[h][n].conn # f.conn
    BY <1>5, <1>a
  <2>2. CASE i \in 1..Len(T[l]) /\ U[l][i] = T[l][i]
    <3>1. j \in 1..Len(T[m]) /\ U[m][j] = T[m][j]
      BY <1>6, <2>1, <2>2
    <3>2. QED
      BY <2>2, <3>1 DEF OnceEach
  <2>3. CASE l = k /\ i = Len(T[k]) + 1 /\ U[l][i] = f
    <3>1. m = k /\ j = Len(T[k]) + 1
      BY <1>6, <2>1, <2>3
    <3>2. QED
      BY <2>3, <3>1
  <2>4. QED
    BY <1>6, <2>2, <2>3
<1>8. JobsOf(U) = [JobsOf(T) EXCEPT ![k] = @ \union {f}]
  <2>1. ASSUME NEW l \in Loops, l # k PROVE JobsOf(U)[l] = JobsOf(T)[l]
    BY <1>2, <2>1 DEF JobsOf
  <2>2. JobsOf(U)[k] = JobsOf(T)[k] \union {f}
    <3>1. ASSUME NEW g \in JobsOf(U)[k] PROVE g \in JobsOf(T)[k] \union {f}
      <4>1. PICK i \in 1..Len(U[k]) : U[k][i] = g
        BY DEF JobsOf
      <4>2. QED
        BY <1>5, <1>6, <4>1
    <3>2. ASSUME NEW g \in JobsOf(T)[k] PROVE g \in JobsOf(U)[k]
      <4>1. g \in AllFunctors /\ \E i \in 1..Len(T[k]) : T[k][i] = g
        BY DEF JobsOf
      <4>2. PICK i \in 1..Len(T[k]) : T[k][i] = g
        BY <4>1
      <4>3. i \in 1..Len(U[k]) /\ U[k][i] = g
        BY <1>1, <1>3, <4>2
      <4>4. QED
        BY <4>1, <4>3 DEF JobsOf
    <3>3. f \in JobsOf(U)[k]
      <4>1. Len(T[k]) + 1 \in 1..Len(U[k])
        BY <1>1, <1>3
      <4>2. QED
        BY <1>1, <4>1 DEF JobsOf
    <3>4. QED
      BY <3>1, <3>2, <3>3
  <2>3. /\ JobsOf(U) = [l \in Loops |-> JobsOf(U)[l]]
        /\ JobsOf(T) = [l \in Loops |-> JobsOf(T)[l]]
    BY DEF JobsOf
  <2> DEFINE A == JobsOf(U)
             B == JobsOf(T)
  <2> HIDE DEF A, B
  <2>4. A = [B EXCEPT ![k] = @ \union {f}]
    BY <2>1, <2>2, <2>3 DEF A, B
  <2>5. QED
    BY <2>4 DEF A, B
<1>9. QED
  BY <1>4, <1>7, <1>8 DEF U, Queued, Added

LEMMA RunJobs ==
  ASSUME NEW T \in [Loops -> Seq(AllFunctors)], OnceEach(T),
         NEW l \in Loops, T[l] # <<>>, NEW f, f = T[l][1]
  PROVE  /\ Ran(T, l) \in [Loops -> Seq(AllFunctors)] /\ OnceEach(Ran(T, l))
         /\ JobsOf(Ran(T, l)) = Removed(JobsOf(T), l, f)
         /\ f \in JobsOf(T)[l] /\ Without(JobsOf(Ran(T, l)), f.conn)
<1> DEFINE U == [T EXCEPT ![l] = Tail(@)]
<1>1. /\ U[l] \in Seq(AllFunctors) /\ Len(U[l]) = Len(T[l]) - 1
      /\ \A i \in 1..Len(U[l]) : U[l][i] = T[l][i + 1]
  <2>1. U[l] = Tail(T[l]) /\ T[l] \in Seq(AllFunctors)
    OBVIOUS
  <2> HIDE DEF U
  <2>2. QED
    BY <2>1, HeadTailProperties
<1>2. \A k \in Loops : k # l => U[k] = T[k]
  OBVIOUS
<1>3. /\ \A k \in Loops : Len(T[k]) \in Nat
      /\ Len(T[l]) >= 1
  BY EmptySeq
<1>4. U \in [Loops -> Seq(AllFunctors)]
  BY <1>1
<1> HIDE DEF U
<1>5. \A k \in Loops : \A i \in 1..Len(T[k]) : T[k][i] \in JobsOf(T)[k] /\ T[k][i] \in AllFunctors
  BY ElementOfSeq DEF JobsOf
<1>6. \A k \in Loops : \A i \in 1..Len(U[k]) :
        \/ k = l /\ i + 1 \in 1..Len(T[l]) /\ U[k][i] = T[l][i + 1] /\ i + 1 # 1
        \/ k # l /\ i \in 1..Len(T[k]) /\ U[k][i] = T[k][i]
  BY <1>1, <1>2, <1>3
<1>7. OnceEach(U)
  <2> SUFFICES ASSUME NEW k \in Loops, NEW m \in Loops, NEW i \in 1..Len(U[k]),
                      NEW j \in 1..Len(U[m]), U[k][i].conn = U[m][j].conn
               PROVE  k = m /\ i = j
    BY DEF OnceEach
  <2> DEFINE at(h, n) == IF h = l THEN n + 1 ELSE n
  <2>1. /\ at(k, i) \in 1..Len(T[k]) /\ U[k][i] = T[k][at(k, i)]
        /\ at(m, j) \in 1..Len(T[m]) /\ U[m][j] = T[m][at(m, j)]
    BY <1>6
  <2> HIDE DEF at
  <2>2. k = m /\ at(k, i) = at(m, j)
    BY <2>1 DEF OnceEach
  <2>3. i \in Int /\ j \in Int
    OBVIOUS
  <2>4. QED
    BY <2>2, <2>3 DEF at
<1>8. 1 \in 1..Len(T[l]) /\ f \in JobsOf(T)[l]
  BY <1>3, <1>5
<1>9. ASSUME NEW k \in Loops, NEW i \in 1..Len(U[k]) PROVE U[k][i].conn # f.conn
  <2>1. \A h \in Loops : \A n \in 1..Len(T[h]) : T[h][n].conn = f.conn => h = l /\ n = 1
    BY <1>8 DEF OnceEach
  <2>2. QED
    BY <1>6, <2>1, SMTT(30)
<1>10. JobsOf(U) = [JobsOf(T) EXCEPT ![l] = @ \ {f}]
  <2>1. ASSUME NEW k \in Loops, k # l PROVE JobsOf(U)[k] = JobsOf(T)[k]
    BY <1>2, <2>1 DEF JobsOf
  <2>2. JobsOf(U)[l] = JobsOf(T)[l] \ {f}
    <3>1. ASSUME NEW g \in JobsOf(U)[l] PROVE g \in JobsOf(T)[l] \ {f}
      <4>1. PICK i \in 1..Len(U[l]) : U[l][i] = g
        BY DEF JobsOf
      <4>2. g # f
        BY <1>9, <4>1
      <4>3. QED
        BY <1>5, <1>6, <4>1, <4>2
    <3>2. ASSUME NEW g \in JobsOf(T)[l], g # f PROVE g \in JobsOf(U)[l]
      <4>1. g \in AllFunctors /\ \E i \in 1..Len(T[l]) : T[l][i] = g
        BY DEF JobsOf
      <4>2. PICK i \in 1..Len(T[l]) : T[l][i] = g
        BY <4>1
      <4>3. i # 1
        BY <3>2, <4>2
      <4>4. i - 1 \in 1..Len(U[l]) /\ (i - 1) + 1 = i
        BY <1>1, <1>3, <4>3
      <4>5. U[l][i - 1] = g
        BY <1>1, <4>2, <4>4
      <4>6. QED
        BY <4>1, <4>4, <4>5 DEF JobsOf
    <3>3. QED
      BY <3>1, <3>2
  <2>3. /\ JobsOf(U) = [k \in Loops |-> JobsOf(U)[k]]
        /\ JobsOf(T) = [k \in Loops |-> JobsOf(T)[k]]
    BY DEF JobsOf
  <2> DEFINE A == JobsOf(U)
             B == JobsOf(T)
  <2> HIDE DEF A, B
  <2>4. A = [B EXCEPT ![l] = @ \ {f}]
    BY <2>1, <2>2, <2>3 DEF A, B
  <2>5. QED
    BY <2>4 DEF A, B
<1>11. \A k \in Loops : \A g \in JobsOf(U)[k] : g.conn # f.conn
  BY <1>9 DEF JobsOf
<1>12. QED
  BY <1>4, <1>7, <1>8, <1>10, <1>11 DEF U, Ran, Removed, Without

-----------------------------------------------------------------------------
(* What the steps do to the functors that are left. *)

LEMMA TodoIsLeft ==
  ASSUME QueuesOK
  PROVE  /\ Todo \in [Loops -> Seq(AllFunctors)]
         /\ \A l \in Loops : Todo[l] = Left(functors[l], ran[l], pendingFunctors_[l])
<1>1. \A l \in Loops : /\ functors[l] \in Seq(AllFunctors) /\ ran[l] \in Nat
                       /\ pendingFunctors_[l] \in Seq(AllFunctors)
  BY DEF QueuesOK
<1>2. \A l \in Loops : Left(functors[l], ran[l], pendingFunctors_[l]) \in Seq(AllFunctors)
  BY <1>1, LeftElements
<1>3. QED
  BY <1>2 DEF Todo

LEMMA QueuesStay ==
  ASSUME QueuesInv, UNCHANGED <<pendingFunctors_, functors, ran>>
  PROVE  QueuesInv' /\ Jobs' = Jobs
<1>1. Todo' = Todo
  BY DEF Todo
<1>2. Jobs' = Jobs
  BY <1>1 DEF Jobs
<1>3. QueuesInv'
  BY <1>1 DEF QueuesInv, QueuesOK
<1>4. QED
  BY <1>2, <1>3

(* The vector is made of what is queued, or destroyed after its last one.    *)
LEMMA QueuesMove ==
  ASSUME QueuesInv, NEW l \in Loops,
         \/ /\ functors[l] = <<>>
            /\ functors' = [functors EXCEPT ![l] = pendingFunctors_[l]]
            /\ pendingFunctors_' = [pendingFunctors_ EXCEPT ![l] = <<>>]
            /\ ran' = [ran EXCEPT ![l] = 0]
         \/ /\ ran[l] = Len(functors[l])
            /\ functors' = [functors EXCEPT ![l] = <<>>]
            /\ UNCHANGED <<pendingFunctors_, ran>>
  PROVE  QueuesInv' /\ Jobs' = Jobs
<1>1. QueuesOK /\ <<>> \in Seq(AllFunctors) /\ 0 \in Nat
  BY DEF QueuesInv
<1>2. QueuesOK'
  BY <1>1 DEF QueuesOK
<1>3. ASSUME NEW k \in Loops
      PROVE  Left(functors'[k], ran'[k], pendingFunctors_'[k])
               = Left(functors[k], ran[k], pendingFunctors_[k])
  <2>1. CASE k # l
    BY <1>1, <2>1 DEF QueuesOK
  <2>2. CASE /\ k = l /\ functors[l] = <<>>
             /\ functors' = [functors EXCEPT ![l] = pendingFunctors_[l]]
             /\ pendingFunctors_' = [pendingFunctors_ EXCEPT ![l] = <<>>]
             /\ ran' = [ran EXCEPT ![l] = 0]
    <3> DEFINE ps == pendingFunctors_[l]
    <3>1. /\ functors'[l] = ps /\ pendingFunctors_'[l] = <<>> /\ ran'[l] = 0
          /\ ps \in Seq(AllFunctors) /\ ran[l] \in Nat
      BY <1>1, <2>2 DEF QueuesOK
    <3> HIDE DEF ps
    <3>2. Left(<<>>, ran[l], ps) = ps
      BY <3>1, LeftOfNone
    <3>3. Left(ps, 0, <<>>) = ps
      BY <3>1, LeftOfNone
    <3>4. QED
      BY <2>2, <3>1, <3>2, <3>3 DEF ps
  <2>3. CASE /\ k = l /\ ran[l] = Len(functors[l])
             /\ functors' = [functors EXCEPT ![l] = <<>>]
             /\ UNCHANGED <<pendingFunctors_, ran>>
    <3>1. /\ functors'[l] = <<>> /\ ran[l] \in Nat /\ Len(functors[l]) \in Nat
          /\ pendingFunctors_[l] \in Seq(AllFunctors) /\ functors[l] \in Seq(AllFunctors)
      BY <1>1, <2>3 DEF QueuesOK
    <3>2. Left(<<>>, ran[l], pendingFunctors_[l]) = pendingFunctors_[l]
      BY <3>1, LeftOfNone
    <3>3. Left(functors[l], ran[l], pendingFunctors_[l]) = pendingFunctors_[l]
      BY <2>3, <3>1, LeftAtEnd
    <3>4. QED
      BY <2>3, <3>1, <3>2, <3>3
  <2>4. QED
    BY <2>1, <2>2, <2>3
<1>4. Todo' = Todo
  BY <1>3 DEF Todo
<1>5. QED
  BY <1>2, <1>4 DEF QueuesInv, Jobs

LEMMA TodoQueued ==
  ASSUME QueuesOK, NEW k \in Loops, NEW f \in AllFunctors,
         pendingFunctors_' = [pendingFunctors_ EXCEPT ![k] = Append(@, f)],
         UNCHANGED <<functors, ran>>
  PROVE  QueuesOK' /\ Todo' = [Todo EXCEPT ![k] = Append(@, f)]
<1>1. QueuesOK'
  <2>1. pendingFunctors_[k] \in Seq(AllFunctors)
    BY DEF QueuesOK
  <2>2. Append(pendingFunctors_[k], f) \in Seq(AllFunctors)
    BY <2>1, AppendProperties
  <2>3. QED
    BY <2>2 DEF QueuesOK
<1>2. ASSUME NEW l \in Loops
      PROVE  Left(functors'[l], ran'[l], pendingFunctors_'[l])
               = IF l = k THEN Append(Todo[k], f) ELSE Todo[l]
  <2>1. /\ functors[l] \in Seq(AllFunctors) /\ ran[l] \in Nat
        /\ pendingFunctors_[l] \in Seq(AllFunctors)
        /\ functors'[l] = functors[l] /\ ran'[l] = ran[l]
        /\ pendingFunctors_'[l] = IF l = k THEN Append(pendingFunctors_[l], f)
                                  ELSE pendingFunctors_[l]
    BY DEF QueuesOK
  <2>2. Left(functors[l], ran[l], Append(pendingFunctors_[l], f))
          = Append(Left(functors[l], ran[l], pendingFunctors_[l]), f)
    BY <2>1, LeftSteps
  <2>3. QED
    BY <2>1, <2>2, TodoIsLeft
<1>3. Todo \in [Loops -> Seq(AllFunctors)]
  BY TodoIsLeft
<1>4. Todo' = [l \in Loops |-> IF l = k THEN Append(Todo[k], f) ELSE Todo[l]]
  BY <1>2 DEF Todo
<1>5. QED
  BY <1>1, <1>3, <1>4

LEMMA TodoRuns ==
  ASSUME QueuesOK, NEW l \in Loops, ran[l] < Len(functors[l]),
         ran' = [ran EXCEPT ![l] = @ + 1],
         UNCHANGED <<functors, pendingFunctors_>>
  PROVE  /\ QueuesOK' /\ Todo' = [Todo EXCEPT ![l] = Tail(@)]
         /\ Todo[l] # <<>> /\ Todo[l][1] = functors[l][ran[l] + 1]
<1>1. QueuesOK'
  BY DEF QueuesOK
<1>2. ASSUME NEW k \in Loops
      PROVE  Left(functors'[k], ran'[k], pendingFunctors_'[k])
               = IF k = l THEN Tail(Todo[l]) ELSE Todo[k]
  <2>1. /\ functors[k] \in Seq(AllFunctors) /\ ran[k] \in Nat
        /\ pendingFunctors_[k] \in Seq(AllFunctors)
        /\ functors'[k] = functors[k] /\ pendingFunctors_'[k] = pendingFunctors_[k]
        /\ ran'[k] = IF k = l THEN ran[k] + 1 ELSE ran[k]
    BY DEF QueuesOK
  <2>2. k = l => Left(functors[k], ran[k] + 1, pendingFunctors_[k])
                   = Tail(Left(functors[k], ran[k], pendingFunctors_[k]))
    BY <2>1, LeftSteps, ZenonT(30)
  <2>3. QED
    BY <2>1, <2>2, TodoIsLeft
<1>3. Todo \in [Loops -> Seq(AllFunctors)]
  BY TodoIsLeft
<1>4. Todo' = [k \in Loops |-> IF k = l THEN Tail(Todo[l]) ELSE Todo[k]]
  BY <1>2 DEF Todo
<1>5. Todo[l] # <<>> /\ Todo[l][1] = functors[l][ran[l] + 1]
  <2>1. /\ functors[l] \in Seq(AllFunctors) /\ ran[l] \in Nat
        /\ pendingFunctors_[l] \in Seq(AllFunctors)
    BY DEF QueuesOK
  <2>2. /\ Left(functors[l], ran[l], pendingFunctors_[l]) # <<>>
        /\ Left(functors[l], ran[l], pendingFunctors_[l])[1] = functors[l][ran[l] + 1]
    BY <2>1, LeftSteps
  <2>3. QED
    BY <2>2, TodoIsLeft
<1>6. QED
  BY <1>1, <1>3, <1>4, <1>5

LEMMA TodoRunsAndQueues ==
  ASSUME QueuesOK, NEW l \in Loops, ran[l] < Len(functors[l]),
         NEW k \in Loops, k # l, NEW f \in AllFunctors,
         ran' = [ran EXCEPT ![l] = @ + 1],
         pendingFunctors_' = [pendingFunctors_ EXCEPT ![k] = Append(@, f)],
         UNCHANGED functors
  PROVE  /\ QueuesOK'
         /\ Todo' = [[Todo EXCEPT ![l] = Tail(@)] EXCEPT ![k] = Append(@, f)]
         /\ Todo[l] # <<>> /\ Todo[l][1] = functors[l][ran[l] + 1]
<1>1. QueuesOK'
  <2>1. pendingFunctors_[k] \in Seq(AllFunctors)
    BY DEF QueuesOK
  <2>2. Append(pendingFunctors_[k], f) \in Seq(AllFunctors)
    BY <2>1, AppendProperties
  <2>3. QED
    BY <2>2 DEF QueuesOK
<1>2. ASSUME NEW m \in Loops
      PROVE  Left(functors'[m], ran'[m], pendingFunctors_'[m])
               = IF m = l THEN Tail(Todo[l])
                 ELSE IF m = k THEN Append(Todo[k], f) ELSE Todo[m]
  <2>1. /\ functors[m] \in Seq(AllFunctors) /\ ran[m] \in Nat
        /\ pendingFunctors_[m] \in Seq(AllFunctors)
        /\ functors'[m] = functors[m]
        /\ pendingFunctors_'[m] = IF m = k THEN Append(pendingFunctors_[m], f)
                                  ELSE pendingFunctors_[m]
        /\ ran'[m] = IF m = l THEN ran[m] + 1 ELSE ran[m]
    BY DEF QueuesOK
  <2>2. m = l => Left(functors[m], ran[m] + 1, pendingFunctors_[m])
                   = Tail(Left(functors[m], ran[m], pendingFunctors_[m]))
    BY <2>1, LeftSteps, SMTT(30)
  <2>3. Left(functors[m], ran[m], Append(pendingFunctors_[m], f))
          = Append(Left(functors[m], ran[m], pendingFunctors_[m]), f)
    <3>1. /\ functors[m] \in Seq(AllFunctors) /\ ran[m] \in Nat
          /\ pendingFunctors_[m] \in Seq(AllFunctors)
      BY <2>1
    <3>2. QED
      BY <3>1, LeftQueued
  <2>4. QED
    BY <2>1, <2>2, <2>3, TodoIsLeft
<1>3. Todo \in [Loops -> Seq(AllFunctors)]
  BY TodoIsLeft
<1>4. Todo' = [m \in Loops |-> IF m = l THEN Tail(Todo[l])
                               ELSE IF m = k THEN Append(Todo[k], f) ELSE Todo[m]]
  BY <1>2 DEF Todo
<1>5. Todo[l] # <<>> /\ Todo[l][1] = functors[l][ran[l] + 1]
  <2>1. /\ functors[l] \in Seq(AllFunctors) /\ ran[l] \in Nat
        /\ pendingFunctors_[l] \in Seq(AllFunctors)
    BY DEF QueuesOK
  <2>2. /\ Left(functors[l], ran[l], pendingFunctors_[l]) # <<>>
        /\ Left(functors[l], ran[l], pendingFunctors_[l])[1] = functors[l][ran[l] + 1]
    BY <2>1, LeftSteps, SMTT(30)
  <2>3. QED
    BY <2>2, TodoIsLeft
<1>6. QED
  BY <1>1, <1>3, <1>4, <1>5

LEMMA FunctorQueued ==
  ASSUME QueuesInv, NEW k \in Loops, NEW f \in AllFunctors, Without(Jobs, f.conn),
         pendingFunctors_' = [pendingFunctors_ EXCEPT ![k] = Append(@, f)],
         UNCHANGED <<functors, ran>>
  PROVE  QueuesInv' /\ Jobs' = Added(Jobs, k, f)
<1>1. QueuesOK /\ OnceEach(Todo) /\ Todo \in [Loops -> Seq(AllFunctors)]
  BY TodoIsLeft DEF QueuesInv
<1>2. QueuesOK' /\ Todo' = Queued(Todo, k, f)
  BY <1>1, TodoQueued DEF Queued
<1>3. /\ OnceEach(Queued(Todo, k, f))
      /\ JobsOf(Queued(Todo, k, f)) = Added(JobsOf(Todo), k, f)
  BY <1>1, QueuedJobs DEF Jobs
<1>4. QED
  BY <1>2, <1>3 DEF QueuesInv, Jobs

LEMMA FunctorRuns ==
  ASSUME QueuesInv, NEW l \in Loops, ran[l] < Len(functors[l]),
         NEW f, f = functors[l][ran[l] + 1],
         ran' = [ran EXCEPT ![l] = @ + 1],
         UNCHANGED <<functors, pendingFunctors_>>
  PROVE  /\ QueuesInv' /\ f \in Jobs[l] /\ Jobs' = Removed(Jobs, l, f)
         /\ Without(Jobs', f.conn)
<1>1. QueuesOK /\ OnceEach(Todo) /\ Todo \in [Loops -> Seq(AllFunctors)]
  BY TodoIsLeft DEF QueuesInv
<1>2. /\ QueuesOK' /\ Todo' = Ran(Todo, l)
      /\ Todo[l] # <<>> /\ f = Todo[l][1]
  BY <1>1, TodoRuns DEF Ran
<1>3. /\ OnceEach(Ran(Todo, l)) /\ JobsOf(Ran(Todo, l)) = Removed(JobsOf(Todo), l, f)
      /\ f \in JobsOf(Todo)[l] /\ Without(JobsOf(Ran(Todo, l)), f.conn)
  BY <1>1, <1>2, RunJobs
<1>4. QED
  BY <1>2, <1>3 DEF QueuesInv, Jobs

(* A functor about a connection that queues the next one about it. *)
LEMMA FunctorRunsAndQueues ==
  ASSUME QueuesInv, NEW l \in Loops, ran[l] < Len(functors[l]),
         NEW f, f = functors[l][ran[l] + 1],
         NEW k \in Loops, k # l, NEW g \in AllFunctors, g.conn = f.conn,
         ran' = [ran EXCEPT ![l] = @ + 1],
         pendingFunctors_' = [pendingFunctors_ EXCEPT ![k] = Append(@, g)],
         UNCHANGED functors
  PROVE  /\ QueuesInv' /\ f \in Jobs[l]
         /\ Jobs' = Added(Removed(Jobs, l, f), k, g)
         /\ Without(Removed(Jobs, l, f), f.conn)
<1>1. QueuesOK /\ OnceEach(Todo) /\ Todo \in [Loops -> Seq(AllFunctors)]
  BY TodoIsLeft DEF QueuesInv
<1> DEFINE T == Ran(Todo, l)
<1>2. /\ QueuesOK' /\ Todo' = Queued(T, k, g)
      /\ Todo[l] # <<>> /\ f = Todo[l][1]
  BY <1>1, TodoRunsAndQueues DEF Ran, Queued
<1>3. /\ T \in [Loops -> Seq(AllFunctors)]
      /\ OnceEach(T) /\ JobsOf(T) = Removed(JobsOf(Todo), l, f)
      /\ f \in JobsOf(Todo)[l] /\ Without(JobsOf(T), g.conn)
  BY <1>1, <1>2, RunJobs
<1> HIDE DEF T
<1>4. OnceEach(Queued(T, k, g)) /\ JobsOf(Queued(T, k, g)) = Added(JobsOf(T), k, g)
  BY <1>3, QueuedJobs
<1>5. QED
  BY <1>2, <1>3, <1>4 DEF QueuesInv, Jobs

(* What is left of a loop's functors is in its vector or is queued. *)
LEMMA JobsAreHeld ==
  ASSUME QueuesOK, NEW l \in Loops
  PROVE  /\ \A f \in Jobs[l] : \/ HeldBy(pendingFunctors_[l], f.conn)
                               \/ ran[l] # Len(functors[l]) /\ HeldBy(functors[l], f.conn)
         /\ \A c : HeldBy(pendingFunctors_[l], c) => \E f \in Jobs[l] : f.conn = c
<1> DEFINE fs == functors[l]
           ps == pendingFunctors_[l]
           n == ran[l]
           m == IF n < Len(fs) THEN Len(fs) - n ELSE 0
           t == Left(fs, n, ps)
<1>1. fs \in Seq(AllFunctors) /\ ps \in Seq(AllFunctors) /\ n \in Nat /\ Todo[l] = t
  BY TodoIsLeft DEF QueuesOK
<1> HIDE DEF fs, ps, n
<1>2. /\ t \in Seq(AllFunctors) /\ Len(fs) \in Nat /\ Len(ps) \in Nat /\ Len(t) = m + Len(ps)
      /\ \A i \in 1..m : t[i] = fs[n + i]
      /\ \A i \in 1..Len(ps) : t[m + i] = ps[i]
  BY <1>1, LeftElements
<1>3. m \in Nat /\ (m # 0 => n # Len(fs) /\ m = Len(fs) - n)
  BY <1>1, <1>2
<1> HIDE DEF t, m
<1>4. Jobs[l] = {f \in AllFunctors : \E i \in 1..Len(t) : t[i] = f}
  BY <1>1 DEF Jobs, JobsOf
<1>5. DOMAIN ps = 1..Len(ps) /\ DOMAIN fs = 1..Len(fs)
  BY <1>1
<1>6. ASSUME NEW f \in Jobs[l]
      PROVE  HeldBy(ps, f.conn) \/ (n # Len(fs) /\ HeldBy(fs, f.conn))
  <2>1. PICK i \in 1..Len(t) : t[i] = f
    BY <1>4
  <2>2. CASE i \in 1..m
    <3>1. n + i \in 1..Len(fs) /\ fs[n + i] = f /\ n # Len(fs)
      BY <1>1, <1>2, <1>3, <2>1, <2>2
    <3>2. QED
      BY <1>5, <3>1 DEF HeldBy
  <2>3. CASE ~(i \in 1..m)
    <3>1. i - m \in 1..Len(ps) /\ m + (i - m) = i
      BY <1>2, <1>3, <2>3
    <3>2. PICK j \in 1..Len(ps) : m + j = i
      BY <3>1
    <3>3. j \in DOMAIN ps /\ ps[j] = f
      BY <1>2, <1>5, <2>1, <3>2
    <3>4. HeldBy(ps, f.conn)
      BY <3>3 DEF HeldBy
    <3>5. QED
      BY <3>4
  <2>4. QED
    BY <2>2, <2>3
<1>7. ASSUME NEW c, HeldBy(ps, c) PROVE \E f \in Jobs[l] : f.conn = c
  <2>1. PICK i \in 1..Len(ps) : ps[i].conn = c
    BY <1>5, <1>7 DEF HeldBy
  <2>2. m + i \in 1..Len(t) /\ t[m + i] = ps[i] /\ ps[i] \in AllFunctors
    BY <1>1, <1>2, <1>3, ElementOfSeq
  <2>3. ps[i] \in Jobs[l]
    BY <1>4, <2>2
  <2>4. QED
    BY <2>1, <2>3
<1>8. QED
  BY <1>6, <1>7 DEF fs, ps, n

-----------------------------------------------------------------------------
(* What the steps do to the connections. *)

LEMMA JobTypes ==
  /\ \A l \in Loops : \A f \in Jobs[l] : f \in AllFunctors
  /\ \A name \in FunctorNames, c \in Connections :
       Functor(name, c) \in AllFunctors /\ Functor(name, c).run = name /\ Functor(name, c).conn = c
  /\ \A f \in AllFunctors : f = Functor(f.run, f.conn) /\ f.run \in FunctorNames
BY DEF Jobs, JobsOf, AllFunctors, Functor

LEMMA BaseIsALoop == Base \in Loops /\ \A l \in Loops : l \in Nat
BY TcpServerAssumption DEF Base, Loops

(* A connection that is not waiting for its functor has none. *)
LEMMA NoJobs ==
  ASSUME DueOK, NEW c, conn[c].state_ \in {"none", "kConnected", "freed"}
         \/ (conn[c].state_ = "kDisconnected" /\ conn[c].status = "kNew")
  PROVE  Without(Jobs, c)
<1>1. ASSUME NEW l \in Loops, NEW f \in Jobs[l] PROVE f.conn # c
  <2>1. f.run \in {"connectionEstablished", "removeConnectionInLoop", "connectionDestroyed"}
    BY JobTypes DEF FunctorNames
  <2>2. QED
    BY <2>1 DEF DueOK, DueFor
<1>2. QED
  BY <1>1 DEF Without

LEMMA AddedJobs ==
  ASSUME NEW k \in Loops, NEW f, NEW l \in Loops
  PROVE  Added(Jobs, k, f)[l] = IF l = k THEN Jobs[l] \union {f} ELSE Jobs[l]
<1>1. Jobs = [m \in Loops |-> Jobs[m]]
  BY DEF Jobs, JobsOf
<1>2. QED
  BY <1>1 DEF Added

LEMMA RemovedJobs ==
  ASSUME NEW k \in Loops, NEW f, NEW l \in Loops
  PROVE  Removed(Jobs, k, f)[l] = IF l = k THEN Jobs[l] \ {f} ELSE Jobs[l]
<1>1. Jobs = [m \in Loops |-> Jobs[m]]
  BY DEF Jobs, JobsOf
<1>2. QED
  BY <1>1 DEF Removed

(* A step about the connection c: what it leaves alone, and what it must    *)
(* make true of c itself.                                                   *)
OnlyTouches(c) ==
  /\ numThreads' = numThreads
  /\ \A d \in Connections : d # c =>
       /\ conn'[d] = conn[d]
       /\ d \in connectionMap_' <=> d \in connectionMap_
       /\ d >= nextConnectionId_' => d >= nextConnectionId_
  /\ \A k \in Loops :
       /\ \A f \in Jobs'[k] : f.conn # c => f \in Jobs[k]
       /\ \A f \in Jobs[k] : f.conn # c => f \in Jobs'[k]
       /\ activeChannels_'[k] \subseteq activeChannels_[k] \ {c}
       /\ \A fd \in Fds : channels_'[k][fd] # channels_[k][fd] =>
            channels_[k][fd] \in {NoConnection, c} /\ channels_'[k][fd] \in {NoConnection, c}

FdIsOwn(c) == \A d \in Connections : d # c /\ Live(c) /\ Live(d) => conn[d].fd # conn[c].fd
ChannelIsOwn(c) ==
  \A k \in Loops, fd \in Fds : channels_[k][fd] = c =>
    Live(c) /\ conn[c].loop = k /\ conn[c].fd = fd /\ conn[c].status # "kNew"
FunctorsAreDue(c) == \A k \in Loops : \A f \in Jobs[k] : f.conn = c => DueFor(k, f)

LEMMA OneConnection ==
  ASSUME ConnectionsInv, NEW c \in Connections, OnlyTouches(c), TablesOK',
         activeChannels_' \in [Loops -> SUBSET ({AcceptChannel, WakeupChannel} \union Connections)],
         StageOK(c)', FdIsOwn(c)', ChannelIsOwn(c)', FunctorsAreDue(c)'
  PROVE  ConnectionsInv'
<1>1. TablesOK /\ StagesOK /\ FdsOK /\ ChannelsOK /\ ActiveOK /\ DueOK
  BY DEF ConnectionsInv
<1>2. \A d \in Connections : d # NoConnection /\ d # AcceptChannel /\ d # WakeupChannel
  BY DEF Connections, NoConnection, AcceptChannel, WakeupChannel
<1>3. \A d \in Connections : d # c => (Live(d)' <=> Live(d))
  BY DEF OnlyTouches, Live
<1>4. \A d \in Connections : conn[d].loop \in Loops
  BY <1>1 DEF TablesOK
<1>5. StagesOK'
  <2>1. ASSUME NEW d \in Connections, d # c PROVE StageOK(d)'
    <3>1. /\ conn'[d] = conn[d] /\ numThreads' = numThreads
          /\ d \in connectionMap_' <=> d \in connectionMap_
          /\ d >= nextConnectionId_' => d >= nextConnectionId_
          /\ Live(d)' <=> Live(d)
      BY <1>3, <2>1 DEF OnlyTouches
    <3>2. ASSUME NEW k \in Loops, Functor("connectionDestroyed", d) \in Jobs[k]
          PROVE  Functor("connectionDestroyed", d) \in Jobs'[k]
      <4>1. Functor("connectionDestroyed", d).conn = d
        BY DEF Functor
      <4>2. QED
        BY <2>1, <3>2, <4>1 DEF OnlyTouches
    <3>3. ASSUME NEW k \in Loops, NEW fd \in Fds, channels_[k][fd] = d
          PROVE  channels_'[k][fd] = d
      BY <1>2, <2>1, <3>3 DEF OnlyTouches
    <3>4. StageOK(d)
      BY <1>1 DEF StagesOK
    <3>5. QED
      BY <1>4, <3>1, <3>2, <3>3, <3>4 DEF StageOK
  <2>2. QED
    BY <2>1 DEF StagesOK
<1>6. FdsOK'
  <2>1. ASSUME NEW d \in Connections, NEW e \in Connections, d # e, Live(d)', Live(e)'
        PROVE  conn'[d].fd # conn'[e].fd
    <3>1. CASE d # c /\ e # c
      BY <1>1, <1>3, <2>1, <3>1 DEF FdsOK, OnlyTouches
    <3>2. CASE d = c
      BY <2>1, <3>2 DEF FdIsOwn
    <3>3. CASE e = c
      BY <2>1, <3>3 DEF FdIsOwn
    <3>4. QED
      BY <3>1, <3>2, <3>3
  <2>2. QED
    BY <2>1 DEF FdsOK
<1>7. ChannelsOK'
  <2>1. ASSUME NEW k \in Loops, NEW fd \in Fds, NEW d, d = channels_'[k][fd], d # NoConnection
        PROVE  (Live(d) /\ conn[d].loop = k /\ conn[d].fd = fd /\ conn[d].status # "kNew")'
    <3>1. CASE d = c
      BY <2>1, <3>1 DEF ChannelIsOwn
    <3>2. CASE d # c
      <4>1. channels_[k][fd] = d
        BY <2>1, <3>2 DEF OnlyTouches
      <4>2. d \in Connections
        BY <1>1, <2>1, <4>1 DEF TablesOK, Connections, NoConnection
      <4>3. Live(d) /\ conn[d].loop = k /\ conn[d].fd = fd /\ conn[d].status # "kNew"
        BY <1>1, <2>1, <4>1 DEF ChannelsOK
      <4>4. conn'[d] = conn[d]
        BY <3>2, <4>2 DEF OnlyTouches
      <4>5. QED
        BY <1>3, <3>2, <4>2, <4>3, <4>4
    <3>3. QED
      BY <3>1, <3>2
  <2>2. QED
    BY <2>1 DEF ChannelsOK
<1>8. ActiveOK'
  <2>1. ASSUME NEW k \in Loops, NEW d \in activeChannels_'[k] \ {AcceptChannel, WakeupChannel}
        PROVE  conn'[d].state_ = "kConnected" /\ conn'[d].loop = k
    <3>1. d \in activeChannels_[k] /\ d # c
      BY <2>1 DEF OnlyTouches
    <3>2. d \in Connections
      BY <1>1, <2>1, <3>1 DEF ActiveOK
    <3>3. QED
      BY <1>1, <2>1, <3>1, <3>2 DEF ActiveOK, OnlyTouches
  <2>2. QED
    BY <2>1 DEF ActiveOK
<1>9. DueOK'
  <2>1. ASSUME NEW k \in Loops, NEW f \in Jobs'[k] PROVE DueFor(k, f)'
    <3>1. f.conn \in Connections
      BY <2>1 DEF Jobs, JobsOf, AllFunctors
    <3>2. CASE f.conn = c
      BY <2>1, <3>2 DEF FunctorsAreDue
    <3>3. CASE f.conn # c
      <4>1. DueFor(k, f)
        BY <1>1, <2>1, <3>3 DEF DueOK, OnlyTouches
      <4>2. /\ conn'[f.conn] = conn[f.conn]
            /\ f.conn \in connectionMap_' <=> f.conn \in connectionMap_
        BY <3>1, <3>3 DEF OnlyTouches
      <4>3. QED
        BY <4>1, <4>2 DEF DueFor
    <3>4. QED
      BY <3>2, <3>3
  <2>2. QED
    BY <2>1 DEF DueOK
<1>10. QED
  BY <1>5, <1>6, <1>7, <1>8, <1>9 DEF ConnectionsInv

LEMMA HandleEventKeeps ==
  ASSUME ServerInv, NEW l \in Loops, NEW c \in Connections, HandleEvent(l, c)
  PROVE  ServerInv'
<1> DEFINE r == [Silenced(conn[c]) EXCEPT !.state_ = "kDisconnected"]
           f == Functor(IF l = Base THEN "connectionDestroyed" ELSE "removeConnectionInLoop", c)
<1>1. /\ failed = "none" /\ CountsOK /\ PhasesOK /\ QueuesInv /\ ConnectionsInv
      /\ TablesOK /\ StagesOK /\ FdsOK /\ ChannelsOK /\ ActiveOK /\ DueOK
  BY DEF ServerInv, ConnectionsInv, HandleEvent, Running
<1>2. /\ conn[c] \in [state_ : States, loop : Loops, fd : 0..MaxFds,
                      status : Statuses, reading : BOOLEAN]
      /\ conn[c].state_ = "kConnected" /\ conn[c].loop = l /\ conn[c].status = "kAdded"
      /\ c \in connectionMap_ /\ Live(c) /\ (l = Base <=> numThreads = 0)
      /\ channels_[l][conn[c].fd] = c /\ conn[c].fd \in Fds
  <2>1. conn[c].state_ = "kConnected" /\ conn[c].loop = l
    BY <1>1 DEF HandleEvent, ActiveOK
  <2>2. Live(c)
    BY <2>1 DEF Live
  <2>3. QED
    BY <1>1, <2>1, <2>2 DEF StagesOK, StageOK, TablesOK
<1>3. /\ activeChannels_' = [activeChannels_ EXCEPT ![l] = @ \ {c}]
      /\ HandleClose(l, c)
      /\ UNCHANGED <<serverVars, next_, nextConnectionId_, phase, functors,
                     ran, channels_, events_, peerVars>>
  <2>1. MapAgrees(c)
    BY <1>2 DEF MapAgrees
  <2>2. QED
    BY <1>2, <2>1 DEF HandleEvent
<1>4. /\ conn' = [conn EXCEPT ![c] = r]
      /\ connectionMap_' = IF l = Base THEN connectionMap_ \ {c} ELSE connectionMap_
      /\ pendingFunctors_' = [pendingFunctors_ EXCEPT ![Base] = Append(@, f)]
      /\ failed' = "none"
  <2>1. CASE l = Base
    BY <1>1, <1>2, <1>3, <2>1 DEF HandleClose, RemoveConnection, RemoveConnectionInLoop, Asserts
  <2>2. CASE l # Base
    BY <1>1, <1>3, <2>2 DEF HandleClose, RemoveConnection
  <2>3. QED
    BY <2>1, <2>2
<1>5. /\ r \in [state_ : States, loop : Loops, fd : 0..MaxFds,
                status : Statuses, reading : BOOLEAN]
      /\ r.state_ = "kDisconnected" /\ r.loop = l /\ r.status = "kDeleted"
      /\ r.fd = conn[c].fd /\ ~r.reading
  BY <1>2 DEF Silenced, States, Statuses
<1> HIDE DEF r
<1>6. conn'[c] = r /\ \A d \in Connections : d # c => conn'[d] = conn[d]
  BY <1>1, <1>4 DEF TablesOK
<1>7. /\ f \in AllFunctors /\ f.conn = c
      /\ f.run = IF l = Base THEN "connectionDestroyed" ELSE "removeConnectionInLoop"
  BY JobTypes DEF FunctorNames
<1>8. Without(Jobs, c)
  BY <1>1, <1>2, NoJobs
<1>9. QueuesInv' /\ Jobs' = Added(Jobs, Base, f)
  BY <1>1, <1>3, <1>4, <1>7, <1>8, BaseIsALoop, FunctorQueued
<1>10. \A k \in Loops : Jobs'[k] = IF k = Base THEN Jobs[k] \union {f} ELSE Jobs[k]
  BY <1>9, BaseIsALoop, AddedJobs
<1>11. Live(c)' /\ \A d \in Connections : d # c => (Live(d)' <=> Live(d))
  BY <1>5, <1>6 DEF Live
<1>12. TablesOK'
  BY <1>1, <1>3, <1>4, <1>5 DEF TablesOK
<1>13. ASSUME NEW d \in Connections, d # c
       PROVE  d \in connectionMap_' <=> d \in connectionMap_
  BY <1>4, <1>13
<1>14. /\ activeChannels_' \in [Loops -> SUBSET ({AcceptChannel, WakeupChannel} \union Connections)]
       /\ \A k \in Loops : activeChannels_'[k] \subseteq activeChannels_[k] \ {c}
  <2>1. activeChannels_' \in [Loops -> SUBSET ({AcceptChannel, WakeupChannel} \union Connections)]
    BY <1>1, <1>3 DEF ActiveOK
  <2>2. ASSUME NEW k \in Loops PROVE activeChannels_'[k] \subseteq activeChannels_[k] \ {c}
    <3>1. CASE k = l
      BY <1>1, <1>3, <3>1 DEF ActiveOK
    <3>2. CASE k # l
      <4>1. c \notin {AcceptChannel, WakeupChannel}
        BY DEF HandleEvent
      <4>2. c \notin activeChannels_[k]
        BY <1>1, <1>2, <3>2, <4>1 DEF ActiveOK
      <4>3. QED
        BY <1>1, <1>3, <3>2, <4>2 DEF ActiveOK
    <3>3. QED
      BY <3>1, <3>2
  <2>3. QED
    BY <2>1, <2>2
<1>15. OnlyTouches(c)
  <2>1. UNCHANGED <<channels_, nextConnectionId_, numThreads>>
    BY <1>3 DEF serverVars
  <2>2. ASSUME NEW k \in Loops
        PROVE  /\ \A g \in Jobs'[k] : g.conn # c => g \in Jobs[k]
               /\ \A g \in Jobs[k] : g.conn # c => g \in Jobs'[k]
    BY <1>7, <1>10
  <2>3. QED
    BY <1>6, <1>13, <1>14, <2>1, <2>2 DEF OnlyTouches
<1>16. StageOK(c)'
  <2>1. UNCHANGED <<channels_, nextConnectionId_, numThreads>>
    BY <1>3 DEF serverVars
  <2>2. ~(c >= nextConnectionId_)
    BY <1>1, <1>2 DEF StagesOK, StageOK
  <2>3. l = Base => Functor("connectionDestroyed", c) \in Jobs'[l]
    BY <1>10, BaseIsALoop
  <2>4. c \in connectionMap_' <=> l # Base
    BY <1>2, <1>4
  <2>5. QED
    BY <1>2, <1>5, <1>6, <1>11, <2>1, <2>2, <2>3, <2>4 DEF StageOK
<1>17. FdIsOwn(c)' /\ ChannelIsOwn(c)' /\ FunctorsAreDue(c)'
  <2>1. FdIsOwn(c)'
    BY <1>1, <1>2, <1>5, <1>6, <1>11 DEF FdsOK, FdIsOwn
  <2>2. c # NoConnection
    BY DEF Connections, NoConnection
  <2>3. ChannelIsOwn(c)'
    BY <1>1, <1>2, <1>3, <1>5, <1>6, <1>11, <2>2 DEF ChannelsOK, ChannelIsOwn
  <2>4. ASSUME NEW k \in Loops, NEW g \in Jobs'[k], g.conn = c PROVE DueFor(k, g)'
    <3>1. k = Base /\ g = f
      BY <1>8, <1>10, <2>4 DEF Without
    <3>2. (l = Base => c \notin connectionMap_') /\ (l # Base => c \in connectionMap_')
      BY <1>2, <1>4
    <3>3. CASE l = Base
      BY <1>5, <1>6, <1>7, <2>4, <3>1, <3>2, <3>3 DEF DueFor
    <3>4. CASE l # Base
      BY <1>5, <1>6, <1>7, <2>4, <3>1, <3>2, <3>4 DEF DueFor
    <3>5. QED
      BY <3>3, <3>4
  <2>5. QED
    BY <2>1, <2>3, <2>4 DEF FunctorsAreDue
<1>18. CountsOK'
  BY <1>1, <1>3 DEF CountsOK, serverVars, peerVars
<1>19. PhasesOK'
  BY <1>1, <1>3 DEF PhasesOK, ActiveOK, serverVars
<1>20. QED
  <2>1. ConnectionsInv'
    BY <1>1, <1>12, <1>14, <1>15, <1>16, <1>17, OneConnection
  <2>2. QED
    BY <1>4, <1>9, <1>18, <1>19, <2>1 DEF ServerInv

-----------------------------------------------------------------------------
(* Steps that no connection takes part in. *)

LEMMA QuietKeeps ==
  ASSUME ServerInv, failed' \in {"none", "undefined"},
         UNCHANGED <<conn, connectionMap_, channels_, numThreads, nextConnectionId_>>,
         QueuesInv', Jobs' = Jobs, ActiveOK', CountsOK', PhasesOK'
  PROVE  ServerInv'
<1>1. TablesOK /\ StagesOK /\ FdsOK /\ ChannelsOK /\ DueOK
  BY DEF ServerInv, ConnectionsInv
<1>2. TablesOK' /\ FdsOK' /\ ChannelsOK'
  BY <1>1 DEF TablesOK, FdsOK, ChannelsOK, Live
<1>3. StagesOK'
  BY <1>1 DEF StagesOK, StageOK, Live
<1>4. DueOK'
  BY <1>1 DEF DueOK, DueFor
<1>5. QED
  BY <1>2, <1>3, <1>4 DEF ServerInv, ConnectionsInv

LEMMA PollKeeps ==
  ASSUME ServerInv, NEW l \in Loops, Poll(l)
  PROVE  ServerInv'
<1>1. CountsOK /\ PhasesOK /\ QueuesInv /\ StagesOK /\ ActiveOK
  BY DEF ServerInv, ConnectionsInv
<1>2. /\ failed = "none" /\ phase[l] = "poll" /\ phase' = [phase EXCEPT ![l] = "events"]
      /\ UNCHANGED <<serverVars, tableVars, conn, pendingFunctors_, functors, ran,
                     channels_, peerVars, failed>>
  BY DEF Poll, Running
<1>3. PICK active \in SUBSET Ready(l) :
        activeChannels_' = [activeChannels_ EXCEPT ![l] = active]
  BY DEF Poll, kSubset, FillActiveChannels
<1>4. QueuesInv' /\ Jobs' = Jobs
  BY <1>1, <1>2, QueuesStay
<1>5. ActiveOK'
  <2>1. ASSUME NEW c \in active \ {AcceptChannel, WakeupChannel}
        PROVE  c \in Connections /\ conn[c].state_ = "kConnected" /\ conn[c].loop = l
    <3>1. /\ c \in Connections /\ Live(c) /\ conn[c].loop = l /\ conn[c].status = "kAdded"
      BY <1>3, <2>1 DEF Ready, Readable
    <3>2. StageOK(c)
      BY <1>1, <3>1 DEF StagesOK
    <3>3. QED
      BY <3>1, <3>2 DEF StageOK, Live
  <2>2. active \in SUBSET ({AcceptChannel, WakeupChannel} \union Connections)
    BY <2>1
  <2>3. activeChannels_' \in [Loops -> SUBSET ({AcceptChannel, WakeupChannel} \union Connections)]
    BY <1>1, <1>3, <2>2 DEF ActiveOK
  <2>4. conn' = conn
    BY <1>2
  <2>5. ASSUME NEW k \in Loops, NEW c \in activeChannels_'[k] \ {AcceptChannel, WakeupChannel}
        PROVE  conn[c].state_ = "kConnected" /\ conn[c].loop = k
    <3>1. CASE k = l
      BY <1>1, <1>3, <2>1, <2>5, <3>1 DEF ActiveOK
    <3>2. CASE k # l
      BY <1>1, <1>3, <2>5, <3>2 DEF ActiveOK
    <3>3. QED
      BY <3>1, <3>2
  <2>6. QED
    BY <2>3, <2>4, <2>5 DEF ActiveOK
<1>6. CountsOK'
  BY <1>1, <1>2 DEF CountsOK, serverVars, tableVars, peerVars
<1>7. PhasesOK'
  <2>1. activeChannels_ \in [Loops -> SUBSET ({AcceptChannel, WakeupChannel} \union Connections)]
    BY <1>1 DEF ActiveOK
  <2>2. QED
    BY <1>1, <1>2, <1>3, <2>1 DEF PhasesOK, Phases, serverVars
<1>8. QED
  BY <1>2, <1>4, <1>5, <1>6, <1>7, QuietKeeps DEF serverVars, tableVars

LEMMA EventsKeep ==
  ASSUME ServerInv, NEW l \in Loops, HandleWakeup(l) \/ (l = Base /\ HandleAccept)
  PROVE  ServerInv'
<1>1. CountsOK /\ PhasesOK /\ QueuesInv /\ ActiveOK
  BY DEF ServerInv, ConnectionsInv
<1>2. PICK channel \in {AcceptChannel, WakeupChannel} :
        activeChannels_' = [activeChannels_ EXCEPT ![l] = @ \ {channel}]
  BY DEF HandleWakeup, HandleAccept
<1>3. /\ failed = "none" /\ phase[l] = "events"
      /\ phase' = phase \/ (l = Base /\ phase' = [phase EXCEPT ![l] = "accepting"])
      /\ UNCHANGED <<serverVars, tableVars, conn, pendingFunctors_, functors, ran,
                     channels_, peerVars, failed>>
  BY DEF HandleWakeup, HandleAccept, Running, queueVars
<1>4. QueuesInv' /\ Jobs' = Jobs
  BY <1>1, <1>3, QueuesStay
<1>5. ActiveOK'
  BY <1>1, <1>2, <1>3 DEF ActiveOK
<1>6. CountsOK'
  BY <1>1, <1>3 DEF CountsOK, serverVars, tableVars, peerVars
<1>7. PhasesOK'
  <2>1. activeChannels_ \in [Loops -> SUBSET ({AcceptChannel, WakeupChannel} \union Connections)]
    BY <1>1 DEF ActiveOK
  <2>2. QED
    BY <1>1, <1>2, <1>3, <2>1 DEF PhasesOK, Phases, serverVars
<1>8. QED
  BY <1>3, <1>4, <1>5, <1>6, <1>7, QuietKeeps DEF serverVars, tableVars

LEMMA SwapFunctorsKeeps ==
  ASSUME ServerInv, NEW l \in Loops, SwapFunctors(l)
  PROVE  ServerInv'
<1>1. CountsOK /\ PhasesOK /\ QueuesInv /\ ActiveOK
  BY DEF ServerInv, ConnectionsInv
<1>2. /\ failed = "none" /\ phase[l] = "events" /\ activeChannels_[l] = {}
      /\ functors' = [functors EXCEPT ![l] = pendingFunctors_[l]]
      /\ pendingFunctors_' = [pendingFunctors_ EXCEPT ![l] = <<>>]
      /\ ran' = [ran EXCEPT ![l] = 0]
      /\ phase' = [phase EXCEPT ![l] = "functors"]
      /\ UNCHANGED <<serverVars, tableVars, conn, epollVars, peerVars, failed>>
  BY DEF SwapFunctors, Running
<1>3. functors[l] = <<>>
  BY <1>1, <1>2 DEF PhasesOK
<1>4. QueuesInv' /\ Jobs' = Jobs
  BY <1>1, <1>2, <1>3, QueuesMove
<1>5. ActiveOK'
  BY <1>1, <1>2 DEF ActiveOK, epollVars
<1>6. CountsOK'
  BY <1>1, <1>2 DEF CountsOK, serverVars, tableVars, peerVars
<1>7. PhasesOK'
  <2>1. functors \in [Loops -> Seq(AllFunctors)]
    BY <1>1 DEF QueuesInv, QueuesOK
  <2>2. QED
    BY <1>1, <1>2, <2>1 DEF PhasesOK, Phases, serverVars, epollVars
<1>8. QED
  BY <1>2, <1>4, <1>5, <1>6, <1>7, QuietKeeps DEF serverVars, tableVars, epollVars

LEMMA OthersKeep ==
  ASSUME ServerInv, TeardownPools \subseteq {0},
         \/ Start \/ EnterLoop \/ LeaveLoop \/ AcceptFails \/ AcceptReturnsAnything
         \/ Connect \/ \E c \in Connections : ConnectionEnds(c)
  PROVE  ServerInv'
<1>1. CountsOK /\ PhasesOK /\ QueuesInv /\ ActiveOK
  BY DEF ServerInv, ConnectionsInv
<1>2. UNCHANGED <<conn, connectionMap_, channels_, numThreads, nextConnectionId_, next_,
                  activeChannels_, pendingFunctors_, functors, ran>>
  BY DEF Start, EnterLoop, LeaveLoop, AcceptFails, AcceptReturnsAnything, Connect, Dies,
         ConnectionEnds, serverVars, tableVars, queueVars, epollVars
<1>3. failed' \in {"none", "undefined"}
  BY DEF Start, EnterLoop, LeaveLoop, AcceptFails, AcceptReturnsAnything, Connect, Dies,
         ConnectionEnds, ServerInv
<1>4. QueuesInv' /\ Jobs' = Jobs
  BY <1>1, <1>2, QueuesStay
<1>5. ActiveOK'
  BY <1>1, <1>2 DEF ActiveOK
<1>6. CountsOK'
  <2>1. CASE Connect
    BY <1>1, <1>2, <2>1, TcpServerAssumption DEF CountsOK, Connect
  <2>2. CASE ~Connect
    <3>1. UNCHANGED <<backlog, arrived>>
      BY <2>2 DEF Start, EnterLoop, LeaveLoop, AcceptFails, AcceptReturnsAnything, Dies,
                  ConnectionEnds, peerVars
    <3>2. QED
      BY <1>1, <1>2, <3>1 DEF CountsOK
  <2>3. QED
    BY <2>1, <2>2
<1>7. PhasesOK'
  <2>1. CASE Start
    <3>1. /\ started_' = TRUE
          /\ phase' = [k \in Loops |-> IF k \in 1..numThreads THEN "poll" ELSE phase[k]]
      BY <2>1 DEF Start, StartPool
    <3>2. \A k \in Loops : phase[k] = "setup"
      BY <1>1, <2>1 DEF PhasesOK, Start
    <3>3. numThreads \in Nat
      BY <1>1, TcpServerAssumption DEF CountsOK
    <3>4. QED
      BY <1>1, <1>2, <3>1, <3>2, <3>3, BaseIsALoop DEF PhasesOK, Phases
  <2>2. CASE EnterLoop
    <3>1. phase[Base] = "setup" /\ started_ /\ phase' = [phase EXCEPT ![Base] = "poll"]
          /\ started_' = started_
      BY <2>2 DEF EnterLoop, serverVars
    <3>2. numThreads \in Nat
      BY <1>1, TcpServerAssumption DEF CountsOK
    <3>3. QED
      BY <1>1, <1>2, <3>1, <3>2, BaseIsALoop DEF PhasesOK, Phases, Base
  <2>3. CASE LeaveLoop
    <3>1. phase[Base] = "poll" /\ numThreads = 0 /\ phase' = [phase EXCEPT ![Base] = "exited"]
          /\ started_' = started_
      BY <2>3 DEF LeaveLoop, serverVars
    <3>2. QED
      BY <1>1, <1>2, <3>1, BaseIsALoop DEF PhasesOK, Phases, Base
  <2>4. CASE AcceptFails
    <3>1. phase[Base] = "accepting" /\ phase' = [phase EXCEPT ![Base] = "events"]
          /\ started_' = started_
      BY <2>4 DEF AcceptFails, serverVars
    <3>2. QED
      BY <1>1, <1>2, <3>1, BaseIsALoop DEF PhasesOK, Phases, Base
  <2>5. CASE AcceptReturnsAnything \/ Connect \/ \E c \in Connections : ConnectionEnds(c)
    <3>1. UNCHANGED <<phase, started_>>
      BY <2>5 DEF AcceptReturnsAnything, Dies, Connect, ConnectionEnds, serverVars, queueVars
    <3>2. QED
      BY <1>1, <1>2, <3>1 DEF PhasesOK
  <2>6. QED
    BY <2>1, <2>2, <2>3, <2>4, <2>5
<1>8. QED
  BY <1>2, <1>3, <1>4, <1>5, <1>6, <1>7, QuietKeeps

-----------------------------------------------------------------------------
(* The functors of a connection. *)

LEMMA NextFunctorIsDue ==
  ASSUME ServerInv, NEW l \in Loops, NEW name \in FunctorNames, NEW c \in Connections,
         NextFunctor(l, name, c)
  PROVE  /\ Functor(name, c) \in Jobs[l] /\ DueFor(l, Functor(name, c))
         /\ ran[l] < Len(functors[l]) /\ Functor(name, c) = functors[l][ran[l] + 1]
         /\ pendingFunctors_' = pendingFunctors_ =>
              /\ QueuesInv' /\ Jobs' = Removed(Jobs, l, Functor(name, c))
              /\ Without(Jobs', c)
         /\ CountsOK' /\ PhasesOK' /\ failed = "none"
<1> DEFINE f == Functor(name, c)
<1>1. CountsOK /\ PhasesOK /\ QueuesInv /\ QueuesOK /\ ActiveOK /\ DueOK
  BY DEF ServerInv, ConnectionsInv, QueuesInv
<1>2. /\ failed = "none" /\ phase[l] = "functors" /\ ran[l] < Len(functors[l])
      /\ f = functors[l][ran[l] + 1] /\ ran' = [ran EXCEPT ![l] = @ + 1]
      /\ UNCHANGED <<serverVars, next_, nextConnectionId_, phase, functors,
                     activeChannels_, events_, peerVars>>
  BY DEF NextFunctor, Running
<1>3. f.conn = c
  BY JobTypes
<1> HIDE DEF f
<1>4. f \in Jobs[l]
  <2>1. /\ functors[l] \in Seq(AllFunctors) /\ ran[l] \in Nat
        /\ pendingFunctors_[l] \in Seq(AllFunctors)
    BY <1>1 DEF QueuesOK
  <2>2. Todo[l] = Left(functors[l], ran[l], pendingFunctors_[l])
    BY <1>1, TodoIsLeft
  <2>3. Todo[l] # <<>> /\ Todo[l][1] = f /\ Todo[l] \in Seq(AllFunctors)
    BY <1>1, <1>2, <2>1, <2>2, LeftSteps, TodoIsLeft
  <2>4. 1 \in 1..Len(Todo[l]) /\ f \in AllFunctors
    BY <2>3, ElementOfSeq
  <2>5. QED
    BY <2>3, <2>4 DEF Jobs, JobsOf
<1>5. pendingFunctors_' = pendingFunctors_ =>
        QueuesInv' /\ Jobs' = Removed(Jobs, l, f) /\ Without(Jobs', c)
  BY <1>1, <1>2, <1>3, FunctorRuns
<1>6. CountsOK'
  BY <1>1, <1>2 DEF CountsOK, serverVars, peerVars
<1>7. PhasesOK'
  BY <1>1, <1>2 DEF PhasesOK, serverVars
<1>8. DueFor(l, f)
  BY <1>1, <1>4 DEF DueOK
<1>9. QED
  BY <1>2, <1>4, <1>5, <1>6, <1>7, <1>8 DEF f

LEMMA EstablishedKeeps ==
  ASSUME ServerInv, NEW l \in Loops, NEW c \in Connections, ConnectionEstablished(l, c)
  PROVE  ServerInv'
<1> DEFINE f == Functor("connectionEstablished", c)
           r == Reading([conn[c] EXCEPT !.state_ = "kConnected"])
<1>1. TablesOK /\ StagesOK /\ FdsOK /\ ChannelsOK /\ ActiveOK /\ ConnectionsInv
  BY DEF ServerInv, ConnectionsInv
<1>2. /\ NextFunctor(l, "connectionEstablished", c)
      /\ "connectionEstablished" \in FunctorNames
      /\ conn' = [conn EXCEPT ![c] = r]
      /\ channels_' = Mapped(c, c)
      /\ failed' = IF conn[c].loop # l THEN "wrong thread"
                   ELSE IF conn[c].state_ = "kConnecting" /\ MapAgrees(c) THEN "none"
                   ELSE "assertion"
      /\ UNCHANGED <<connectionMap_, pendingFunctors_>>
  BY DEF ConnectionEstablished, FunctorNames
<1>3. /\ f \in Jobs[l] /\ DueFor(l, f) /\ QueuesInv' /\ Jobs' = Removed(Jobs, l, f)
      /\ Without(Jobs', c) /\ CountsOK' /\ PhasesOK'
  BY <1>2, NextFunctorIsDue
<1>4. /\ conn[c] \in [state_ : States, loop : Loops, fd : 0..MaxFds,
                      status : Statuses, reading : BOOLEAN]
      /\ conn[c].state_ = "kConnecting" /\ conn[c].loop = l /\ conn[c].status = "kNew"
      /\ c \in connectionMap_ /\ conn[c].fd \in Fds /\ (l = Base <=> numThreads = 0)
      /\ ~(c >= nextConnectionId_) /\ Live(c)
  <2>1. conn[c].state_ = "kConnecting" /\ conn[c].loop = l
    BY <1>3, JobTypes, <1>2, ZenonT(30) DEF DueFor
  <2>2. StageOK(c)
    BY <1>1 DEF StagesOK
  <2>3. QED
    BY <1>1, <2>1, <2>2 DEF StageOK, TablesOK, Live
<1>5. channels_[l][conn[c].fd] = NoConnection
  <2> SUFFICES ASSUME NEW d, d = channels_[l][conn[c].fd], d # NoConnection
               PROVE  FALSE
    OBVIOUS
  <2>1. Live(d) /\ conn[d].fd = conn[c].fd /\ conn[d].status # "kNew"
    BY <1>1, <1>4 DEF ChannelsOK
  <2>2. d \in Connections
    BY <1>1, <1>4 DEF TablesOK, Connections, NoConnection
  <2>3. QED
    BY <1>1, <1>4, <2>1, <2>2 DEF FdsOK
<1>6. failed' = "none"
  BY <1>2, <1>4, <1>5 DEF MapAgrees
<1>7. /\ r \in [state_ : States, loop : Loops, fd : 0..MaxFds,
                status : Statuses, reading : BOOLEAN]
      /\ r.state_ = "kConnected" /\ r.loop = l /\ r.status = "kAdded" /\ r.fd = conn[c].fd
  BY <1>4 DEF Reading, States, Statuses
<1> HIDE DEF r
<1>8. conn'[c] = r /\ \A d \in Connections : d # c => conn'[d] = conn[d]
  BY <1>1, <1>2 DEF TablesOK
<1>9. /\ channels_'[l][conn[c].fd] = c
      /\ \A k \in Loops, fd \in Fds :
           k # l \/ fd # conn[c].fd => channels_'[k][fd] = channels_[k][fd]
      /\ channels_' \in [Loops -> [Fds -> 0..MaxConnections]]
  <2>1. channels_' = [channels_ EXCEPT ![l][conn[c].fd] = c]
    BY <1>2, <1>4 DEF Mapped
  <2>2. c \in 0..MaxConnections
    BY DEF Connections
  <2>3. QED
    BY <1>1, <1>4, <2>1, <2>2 DEF TablesOK
<1>10. Live(c)' /\ \A d \in Connections : d # c => (Live(d)' <=> Live(d))
  BY <1>7, <1>8 DEF Live
<1>11. UNCHANGED <<numThreads, nextConnectionId_, activeChannels_>>
  BY <1>2 DEF NextFunctor, serverVars
<1>12. TablesOK'
  BY <1>1, <1>2, <1>7, <1>9 DEF TablesOK
<1>13. OnlyTouches(c)
  <2>1. ASSUME NEW k \in Loops
        PROVE  /\ \A g \in Jobs'[k] : g.conn # c => g \in Jobs[k]
               /\ \A g \in Jobs[k] : g.conn # c => g \in Jobs'[k]
    <3>1. f.conn = c
      BY DEF Functor
    <3>2. Jobs'[k] = IF k = l THEN Jobs[k] \ {f} ELSE Jobs[k]
      BY <1>3, RemovedJobs
    <3>3. QED
      BY <3>1, <3>2
  <2>2. \A k \in Loops : activeChannels_'[k] \subseteq activeChannels_[k] \ {c}
    <3>1. c \notin {AcceptChannel, WakeupChannel}
      BY DEF Connections, AcceptChannel, WakeupChannel
    <3>2. QED
      BY <1>1, <1>4, <1>11, <3>1 DEF ActiveOK
  <2>3. QED
    BY <1>2, <1>5, <1>8, <1>9, <1>11, <2>1, <2>2, ZenonT(30) DEF OnlyTouches
<1>14. StageOK(c)'
  BY <1>2, <1>4, <1>7, <1>8, <1>9, <1>11 DEF StageOK, Live
<1>15. FdIsOwn(c)'
  BY <1>1, <1>4, <1>7, <1>8, <1>10 DEF FdsOK, FdIsOwn
<1>16. ChannelIsOwn(c)'
  <2>1. c # NoConnection
    BY DEF Connections, NoConnection
  <2>2. QED
    BY <1>1, <1>4, <1>7, <1>8, <1>9, <1>10, <2>1 DEF ChannelsOK, ChannelIsOwn
<1>17. FunctorsAreDue(c)'
  BY <1>3 DEF Without, FunctorsAreDue
<1>18. ConnectionsInv'
  <2>1. activeChannels_' \in [Loops -> SUBSET ({AcceptChannel, WakeupChannel} \union Connections)]
    BY <1>1, <1>11 DEF ActiveOK
  <2>2. QED
    BY <1>1, <1>12, <1>13, <1>14, <1>15, <1>16, <1>17, <2>1, OneConnection
<1>19. QED
  BY <1>3, <1>6, <1>18 DEF ServerInv

LEMMA RemoveInLoopKeeps ==
  ASSUME ServerInv, NEW l \in Loops, NEW c \in Connections, RemoveInLoop(l, c)
  PROVE  ServerInv'
<1> DEFINE f == Functor("removeConnectionInLoop", c)
           g == Functor("connectionDestroyed", c)
           k == conn[c].loop
<1>1. /\ TablesOK /\ StagesOK /\ FdsOK /\ ChannelsOK /\ ActiveOK /\ ConnectionsInv
      /\ QueuesInv
  BY DEF ServerInv, ConnectionsInv
<1>2. /\ NextFunctor(l, "removeConnectionInLoop", c)
      /\ "removeConnectionInLoop" \in FunctorNames
      /\ connectionMap_' = connectionMap_ \ {c}
      /\ pendingFunctors_' = [pendingFunctors_ EXCEPT ![k] = Append(@, g)]
      /\ failed' = IF l # Base THEN "wrong thread"
                   ELSE IF c \in connectionMap_ THEN "none" ELSE "assertion"
      /\ UNCHANGED <<conn, channels_>>
  BY DEF RemoveInLoop, RemoveConnectionInLoop, FunctorNames
<1>3. /\ f \in Jobs[l] /\ DueFor(l, f) /\ CountsOK' /\ PhasesOK'
      /\ ran[l] < Len(functors[l]) /\ f = functors[l][ran[l] + 1]
  BY <1>2, NextFunctorIsDue
<1>4. /\ f.conn = c /\ g.conn = c /\ g \in AllFunctors /\ f.run = "removeConnectionInLoop"
      /\ g.run = "connectionDestroyed"
  BY JobTypes, <1>2 DEF FunctorNames
<1>5. /\ l = Base /\ c \in connectionMap_ /\ k # Base /\ k \in Loops
      /\ conn[c].state_ = "kDisconnected" /\ conn[c].status = "kDeleted"
  BY <1>1, <1>3, <1>4 DEF DueFor, TablesOK
<1>6. UNCHANGED <<numThreads, nextConnectionId_, activeChannels_, functors>>
      /\ ran' = [ran EXCEPT ![l] = @ + 1]
  BY <1>2 DEF NextFunctor, serverVars
<1> HIDE DEF f, g
<1>7. /\ QueuesInv' /\ Jobs' = Added(Removed(Jobs, l, f), k, g)
      /\ Without(Removed(Jobs, l, f), c)
  BY <1>1, <1>2, <1>3, <1>4, <1>5, <1>6, FunctorRunsAndQueues
<1>8. \A j \in Loops :
        Jobs'[j] = (IF j = l THEN Jobs[j] \ {f} ELSE Jobs[j]) \union (IF j = k THEN {g} ELSE {})
  <2>1. \A j \in Loops : Removed(Jobs, l, f)[j] = IF j = l THEN Jobs[j] \ {f} ELSE Jobs[j]
    BY RemovedJobs
  <2>2. Removed(Jobs, l, f) = [j \in Loops |-> Removed(Jobs, l, f)[j]]
    BY DEF Removed, Jobs, JobsOf
  <2>3. \A j \in Loops : Jobs'[j] = Removed(Jobs, l, f)[j] \union (IF j = k THEN {g} ELSE {})
    BY <1>5, <1>7, <2>2 DEF Added
  <2>4. QED
    BY <2>1, <2>3
<1>9. \A j \in Loops : \A h \in Jobs'[j] : h.conn = c => j = k /\ h = g
  <2>1. ASSUME NEW j \in Loops, NEW h \in Jobs'[j], h.conn = c PROVE j = k /\ h = g
    <3>1. h \notin Removed(Jobs, l, f)[j]
      BY <1>7, <2>1 DEF Without
    <3>2. Removed(Jobs, l, f)[j] = IF j = l THEN Jobs[j] \ {f} ELSE Jobs[j]
      BY RemovedJobs
    <3>3. QED
      BY <1>8, <2>1, <3>1, <3>2
  <2>2. QED
    BY <2>1
<1>10. failed' = "none"
  BY <1>2, <1>5
<1>11. TablesOK'
  BY <1>1, <1>2 DEF TablesOK
<1>12. OnlyTouches(c)
  <2>1. ASSUME NEW j \in Loops
        PROVE  /\ \A h \in Jobs'[j] : h.conn # c => h \in Jobs[j]
               /\ \A h \in Jobs[j] : h.conn # c => h \in Jobs'[j]
    BY <1>4, <1>8
  <2>2. \A j \in Loops : activeChannels_'[j] \subseteq activeChannels_[j] \ {c}
    <3>1. c \notin {AcceptChannel, WakeupChannel}
      BY DEF Connections, AcceptChannel, WakeupChannel
    <3>2. QED
      BY <1>1, <1>5, <1>6, <3>1 DEF ActiveOK
  <2>3. QED
    BY <1>2, <1>6, <2>1, <2>2 DEF OnlyTouches
<1>13. StageOK(c)'
  <2>1. StageOK(c)
    BY <1>1 DEF StagesOK
  <2>2. g \in Jobs'[k]
    BY <1>5, <1>8
  <2>3. c \notin connectionMap_'
    BY <1>2
  <2>4. QED
    BY <1>2, <1>5, <1>6, <2>1, <2>2, <2>3 DEF StageOK, Live, g
<1>14. FdIsOwn(c)' /\ ChannelIsOwn(c)'
  <2>1. c # NoConnection
    BY DEF Connections, NoConnection
  <2>2. conn' = conn /\ channels_' = channels_
    BY <1>2
  <2>3. FdIsOwn(c)'
    BY <1>1, <2>2 DEF FdsOK, FdIsOwn, Live
  <2>4. ChannelIsOwn(c)
    BY <1>1, <2>1 DEF ChannelsOK, ChannelIsOwn
  <2>5. QED
    BY <2>2, <2>3, <2>4 DEF ChannelIsOwn, Live
<1>15. FunctorsAreDue(c)'
  <2>1. DueFor(k, g)'
    BY <1>2, <1>4, <1>5 DEF DueFor
  <2>2. QED
    BY <1>2, <1>9, <2>1 DEF FunctorsAreDue
<1>16. ConnectionsInv'
  <2>1. activeChannels_' \in [Loops -> SUBSET ({AcceptChannel, WakeupChannel} \union Connections)]
    BY <1>1, <1>6 DEF ActiveOK
  <2>2. QED
    BY <1>1, <1>11, <1>12, <1>13, <1>14, <1>15, <2>1, OneConnection
<1>17. QED
  BY <1>3, <1>7, <1>10, <1>16 DEF ServerInv

LEMMA DestroyedKeeps ==
  ASSUME ServerInv, NEW l \in Loops, NEW c \in Connections, ConnectionDestroyed(l, c)
  PROVE  ServerInv'
<1> DEFINE f == Functor("connectionDestroyed", c)
           r == [conn[c] EXCEPT !.status = "kNew"]
<1>1. TablesOK /\ StagesOK /\ FdsOK /\ ChannelsOK /\ ActiveOK /\ ConnectionsInv
  BY DEF ServerInv, ConnectionsInv
<1>2. /\ NextFunctor(l, "connectionDestroyed", c)
      /\ "connectionDestroyed" \in FunctorNames
      /\ conn' = [conn EXCEPT ![c].status = "kNew"]
      /\ channels_' = Mapped(c, NoConnection)
      /\ failed' = IF conn[c].loop # l THEN "wrong thread"
                   ELSE IF conn[c].reading THEN "assertion" ELSE "none"
      /\ UNCHANGED <<connectionMap_, pendingFunctors_>>
  BY DEF ConnectionDestroyed, FunctorNames
<1>3. /\ f \in Jobs[l] /\ DueFor(l, f) /\ QueuesInv' /\ Jobs' = Removed(Jobs, l, f)
      /\ Without(Jobs', c) /\ CountsOK' /\ PhasesOK'
  BY <1>2, NextFunctorIsDue
<1>4. /\ conn[c] \in [state_ : States, loop : Loops, fd : 0..MaxFds,
                      status : Statuses, reading : BOOLEAN]
      /\ conn[c].state_ = "kDisconnected" /\ conn[c].loop = l /\ conn[c].status = "kDeleted"
      /\ c \notin connectionMap_ /\ conn[c].fd \in Fds /\ (l = Base <=> numThreads = 0)
      /\ ~(c >= nextConnectionId_) /\ Live(c) /\ ~conn[c].reading
      /\ channels_[l][conn[c].fd] = c
  <2>1. /\ conn[c].state_ = "kDisconnected" /\ conn[c].loop = l /\ conn[c].status = "kDeleted"
        /\ c \notin connectionMap_
    BY <1>3, JobTypes, <1>2 DEF DueFor
  <2>2. StageOK(c)
    BY <1>1 DEF StagesOK
  <2>3. QED
    BY <1>1, <2>1, <2>2 DEF StageOK, TablesOK, Live
<1>5. failed' = "none"
  BY <1>2, <1>4
<1>6. /\ r \in [state_ : States, loop : Loops, fd : 0..MaxFds,
                status : Statuses, reading : BOOLEAN]
      /\ r.state_ = "kDisconnected" /\ r.loop = l /\ r.status = "kNew" /\ r.fd = conn[c].fd
      /\ ~r.reading
  BY <1>4 DEF Statuses
<1>7. conn' = [conn EXCEPT ![c] = r]
  BY <1>2
<1> HIDE DEF r
<1>8. conn'[c] = r /\ \A d \in Connections : d # c => conn'[d] = conn[d]
  BY <1>1, <1>7 DEF TablesOK
<1>9. /\ channels_'[l][conn[c].fd] = NoConnection
      /\ \A k \in Loops, fd \in Fds :
           k # l \/ fd # conn[c].fd => channels_'[k][fd] = channels_[k][fd]
      /\ channels_' \in [Loops -> [Fds -> 0..MaxConnections]]
  <2>1. channels_' = [channels_ EXCEPT ![l][conn[c].fd] = NoConnection]
    BY <1>2, <1>4 DEF Mapped
  <2>2. NoConnection \in 0..MaxConnections
    BY TcpServerAssumption DEF NoConnection
  <2>3. QED
    BY <1>1, <1>4, <2>1, <2>2 DEF TablesOK
<1>10. Live(c)' /\ \A d \in Connections : d # c => (Live(d)' <=> Live(d))
  BY <1>6, <1>8 DEF Live
<1>11. UNCHANGED <<numThreads, nextConnectionId_, activeChannels_>>
  BY <1>2 DEF NextFunctor, serverVars
<1>12. TablesOK'
  BY <1>1, <1>2, <1>6, <1>7, <1>9 DEF TablesOK
<1>13. OnlyTouches(c)
  <2>1. ASSUME NEW k \in Loops
        PROVE  /\ \A g \in Jobs'[k] : g.conn # c => g \in Jobs[k]
               /\ \A g \in Jobs[k] : g.conn # c => g \in Jobs'[k]
    <3>1. f.conn = c
      BY DEF Functor
    <3>2. Jobs'[k] = IF k = l THEN Jobs[k] \ {f} ELSE Jobs[k]
      BY <1>3, RemovedJobs
    <3>3. QED
      BY <3>1, <3>2
  <2>2. \A k \in Loops : activeChannels_'[k] \subseteq activeChannels_[k] \ {c}
    <3>1. c \notin {AcceptChannel, WakeupChannel}
      BY DEF Connections, AcceptChannel, WakeupChannel
    <3>2. QED
      BY <1>1, <1>4, <1>11, <3>1 DEF ActiveOK
  <2>3. QED
    BY <1>2, <1>4, <1>8, <1>9, <1>11, <2>1, <2>2 DEF OnlyTouches
<1>14. StageOK(c)'
  BY <1>2, <1>4, <1>6, <1>8, <1>9, <1>11 DEF StageOK, Live
<1>15. FdIsOwn(c)'
  BY <1>1, <1>4, <1>6, <1>8, <1>10 DEF FdsOK, FdIsOwn
<1>16. ChannelIsOwn(c)'
  <2>1. c # NoConnection
    BY DEF Connections, NoConnection
  <2>2. ASSUME NEW k \in Loops, NEW fd \in Fds, channels_'[k][fd] = c PROVE FALSE
    <3>1. (k # l \/ fd # conn[c].fd) /\ channels_[k][fd] = c
      BY <1>9, <2>1, <2>2
    <3>2. QED
      BY <1>1, <1>4, <2>1, <3>1 DEF ChannelsOK
  <2>3. QED
    BY <2>2 DEF ChannelIsOwn
<1>17. FunctorsAreDue(c)'
  BY <1>3 DEF Without, FunctorsAreDue
<1>18. ConnectionsInv'
  <2>1. activeChannels_' \in [Loops -> SUBSET ({AcceptChannel, WakeupChannel} \union Connections)]
    BY <1>1, <1>11 DEF ActiveOK
  <2>2. QED
    BY <1>1, <1>12, <1>13, <1>14, <1>15, <1>16, <1>17, <2>1, OneConnection
<1>19. QED
  BY <1>3, <1>5, <1>18 DEF ServerInv

-----------------------------------------------------------------------------
(* A connection comes. *)

LEMMA FreeFdIsFree ==
  ASSUME FreeFds # {}
  PROVE  /\ Min(FreeFds) \in Fds
         /\ \A d \in Connections : Live(d) => conn[d].fd # Min(FreeFds)
<1> DEFINE less == {p \in Nat \X Nat : p[1] < p[2]}
           T == FreeFds
<1>1. T \in SUBSET Nat /\ T # {}
  BY TcpServerAssumption DEF FreeFds, Fds
<1> HIDE DEF T
<1>2. PICK x \in T : \A y \in T : ~(<<y, x>> \in less)
  <2>1. IsWellFoundedOn(less, Nat)
    BY NatLessThanWellFounded, Zenon DEF OpToRel
  <2> HIDE DEF less
  <2>2. QED
    BY <1>1, <2>1, WFMin
<1>3. ASSUME NEW y \in T
      PROVE  x <= y
  <2>1. <<y, x>> \in Nat \X Nat /\ x \in Nat /\ y \in Nat
    BY <1>1
  <2>2. ~(<<y, x>>[1] < <<y, x>>[2])
    BY <1>2, <2>1, Zenon
  <2>3. QED
    BY <2>1, <2>2
<1>4. Min(T) \in T
  BY <1>3 DEF Min
<1>5. Min(FreeFds) \in FreeFds
  BY <1>4 DEF T
<1>6. QED
  BY <1>5 DEF FreeFds

(* The object r that newConnection() makes for the connection c, in the     *)
(* loop k and with the free descriptor fd.                                  *)
Comes(c, k, fd, r) ==
  /\ c = nextConnectionId_ /\ nextConnectionId_ \in Nat /\ nextConnectionId_' = c + 1
  /\ k = Base <=> numThreads = 0
  /\ \A d \in Connections : Live(d) => conn[d].fd # fd
  /\ r.loop = k /\ r.fd = fd
  /\ conn' = [conn EXCEPT ![c] = r]
  /\ connectionMap_' = connectionMap_ \union {c}
  /\ UNCHANGED <<numThreads, activeChannels_, functors, ran>>
  /\ k = Base =>
       /\ r.state_ = "kConnected" /\ r.status = "kAdded"
       /\ channels_' = [channels_ EXCEPT ![Base][fd] = c]
       /\ UNCHANGED pendingFunctors_
  /\ k # Base =>
       /\ r.state_ = "kConnecting" /\ r.status = "kNew"
       /\ pendingFunctors_' =
            [pendingFunctors_ EXCEPT ![k] = Append(@, Functor("connectionEstablished", c))]
       /\ UNCHANGED channels_

LEMMA NewConnectionKeeps ==
  ASSUME ConnectionsInv, QueuesInv, NEW c \in Connections, NEW k \in Loops, NEW fd \in Fds,
         NEW r \in [state_ : States, loop : Loops, fd : 0..MaxFds,
                    status : Statuses, reading : BOOLEAN],
         Comes(c, k, fd, r)
  PROVE  ConnectionsInv' /\ QueuesInv' /\ channels_[Base][fd] = NoConnection
<1> DEFINE f == Functor("connectionEstablished", c)
<1>1. TablesOK /\ StagesOK /\ FdsOK /\ ChannelsOK /\ ActiveOK /\ DueOK
  BY DEF ConnectionsInv
<1> USE DEF Comes
<1>2. /\ c # NoConnection /\ c \notin {AcceptChannel, WakeupChannel} /\ c \in 0..MaxConnections
      /\ "connectionEstablished" \in FunctorNames
  BY DEF Connections, NoConnection, AcceptChannel, WakeupChannel, FunctorNames
<1>3. conn[c].state_ = "none" /\ ~Live(c) /\ c \notin connectionMap_
  <2>1. StageOK(c) /\ c >= nextConnectionId_
    BY <1>1 DEF StagesOK
  <2>2. QED
    BY <2>1 DEF StageOK, Live
<1>4. f \in AllFunctors /\ f.conn = c /\ f.run = "connectionEstablished"
  BY <1>2, JobTypes
<1> HIDE DEF f
<1>5. Without(Jobs, c) /\ Without(Jobs, f.conn)
  BY <1>1, <1>3, <1>4, NoJobs
<1>6. /\ QueuesInv'
      /\ \A j \in Loops : Jobs'[j] = IF j = k /\ k # Base THEN Jobs[j] \union {f} ELSE Jobs[j]
  <2>1. CASE k = Base
    <3>1. UNCHANGED <<pendingFunctors_, functors, ran>>
      BY <2>1
    <3>2. QueuesInv' /\ Jobs' = Jobs
      BY <3>1, QueuesStay
    <3>3. QED
      BY <2>1, <3>2
  <2>2. CASE k # Base
    <3>1. pendingFunctors_' = [pendingFunctors_ EXCEPT ![k] = Append(@, f)]
          /\ UNCHANGED <<functors, ran>>
      BY <2>2 DEF f
    <3>2. QueuesInv' /\ Jobs' = Added(Jobs, k, f)
      <4> HIDE DEF Comes
      <4>1. QED
        BY <1>4, <1>5, <3>1, FunctorQueued
    <3>3. \A j \in Loops : Jobs'[j] = IF j = k THEN Jobs[j] \union {f} ELSE Jobs[j]
      <4> HIDE DEF Comes
      <4>1. \A j \in Loops :
              Added(Jobs, k, f)[j] = IF j = k THEN Jobs[j] \union {f} ELSE Jobs[j]
        BY AddedJobs
      <4>2. QED
        BY <3>2, <4>1
    <3>4. QED
      BY <2>2, <3>2, <3>3
  <2>3. QED
    BY <2>1, <2>2
<1>7. \A j \in Loops : channels_[j][fd] = NoConnection \/ j # k
  <2> SUFFICES ASSUME NEW d, d = channels_[k][fd], d # NoConnection
               PROVE  FALSE
    OBVIOUS
  <2>1. Live(d) /\ conn[d].fd = fd
    BY <1>1 DEF ChannelsOK
  <2>2. d \in Connections
    BY <1>1 DEF TablesOK, Connections, NoConnection
  <2>3. QED
    BY <2>1, <2>2
<1>8. channels_[Base][fd] = NoConnection
  <2> SUFFICES ASSUME NEW d, d = channels_[Base][fd], d # NoConnection
               PROVE  FALSE
    OBVIOUS
  <2>1. Live(d) /\ conn[d].fd = fd
    BY <1>1, BaseIsALoop DEF ChannelsOK
  <2>2. d \in Connections
    BY <1>1, BaseIsALoop DEF TablesOK, Connections, NoConnection
  <2>3. QED
    BY <2>1, <2>2
<1>9. conn'[c] = r /\ \A d \in Connections : d # c => conn'[d] = conn[d]
  BY <1>1 DEF TablesOK
<1>10. Live(c)' /\ \A d \in Connections : d # c => (Live(d)' <=> Live(d))
  BY <1>9 DEF Live
<1>11. /\ k = Base => channels_'[k][fd] = c
       /\ \A j \in Loops, e \in Fds :
            j # k \/ e # fd \/ k # Base => channels_'[j][e] = channels_[j][e]
       /\ channels_' \in [Loops -> [Fds -> 0..MaxConnections]]
  <2>1. CASE k = Base
    <3>1. channels_' = [channels_ EXCEPT ![k][fd] = c]
      BY <2>1
    <3>2. channels_' \in [Loops -> [Fds -> 0..MaxConnections]]
      BY <1>1, <1>2, <3>1 DEF TablesOK
    <3>3. \A j \in Loops, e \in Fds :
            channels_'[j][e] = IF j = k /\ e = fd THEN c ELSE channels_[j][e]
      BY <1>1, <3>1 DEF TablesOK
    <3>4. QED
      BY <2>1, <3>2, <3>3
  <2>2. CASE k # Base
    BY <1>1, <2>2 DEF TablesOK
  <2>3. QED
    BY <2>1, <2>2
<1>12. TablesOK'
  BY <1>1, <1>11 DEF TablesOK
<1>13. OnlyTouches(c)
  <2>1. ASSUME NEW j \in Loops
        PROVE  /\ \A g \in Jobs'[j] : g.conn # c => g \in Jobs[j]
               /\ \A g \in Jobs[j] : g.conn # c => g \in Jobs'[j]
    <3>1. Jobs'[j] = Jobs[j] \/ Jobs'[j] = Jobs[j] \union {f}
      BY <1>6, Zenon
    <3>2. QED
      BY <1>4, <3>1
  <2>2. \A j \in Loops : activeChannels_'[j] \subseteq activeChannels_[j] \ {c}
    BY <1>1, <1>2, <1>3 DEF ActiveOK
  <2>3. ASSUME NEW j \in Loops, NEW e \in Fds, channels_'[j][e] # channels_[j][e]
        PROVE  channels_[j][e] \in {NoConnection, c} /\ channels_'[j][e] \in {NoConnection, c}
    BY <1>8, <1>11, <2>3
  <2>4. ASSUME NEW d \in Connections, d # c
        PROVE  /\ conn'[d] = conn[d]
               /\ d \in connectionMap_' <=> d \in connectionMap_
               /\ d >= nextConnectionId_' => d >= nextConnectionId_
    <3>1. d >= c + 1 => d >= c
      BY TcpServerAssumption DEF Connections
    <3>2. QED
      BY <1>9, <2>4, <3>1
  <2>5. QED
    BY <2>1, <2>2, <2>3, <2>4 DEF OnlyTouches
<1>14. StageOK(c)'
  <2>1. ~(c >= nextConnectionId_')
    BY TcpServerAssumption DEF Connections
  <2>2. c \in connectionMap_' /\ numThreads' = numThreads
    OBVIOUS
  <2>3. QED
    BY <1>9, <1>10, <1>11, <2>1, <2>2 DEF StageOK, Live
<1>15. FdIsOwn(c)'
  BY <1>9, <1>10 DEF FdIsOwn
<1>16. ChannelIsOwn(c)'
  <2>1. ASSUME NEW j \in Loops, NEW e \in Fds, channels_'[j][e] = c
        PROVE  k = Base /\ j = k /\ e = fd
    <3>1. channels_[j][e] # c
      BY <1>1, <1>2, <1>3 DEF ChannelsOK
    <3>2. QED
      BY <1>11, <2>1, <3>1
  <2>2. k = Base => r.status # "kNew"
    OBVIOUS
  <2>3. QED
    BY <1>9, <1>10, <2>1, <2>2 DEF ChannelIsOwn
<1>17. FunctorsAreDue(c)'
  <2>1. ASSUME NEW j \in Loops, NEW g \in Jobs'[j], g.conn = c
        PROVE  DueFor(j, g)'
    <3>1. j = k /\ k # Base /\ g = f
      BY <1>5, <1>6, <2>1, ZenonT(30) DEF Without
    <3>2. QED
      BY <1>4, <1>9, <3>1 DEF DueFor
  <2>2. QED
    BY <2>1 DEF FunctorsAreDue
<1>18. ConnectionsInv'
  <2>1. activeChannels_' \in [Loops -> SUBSET ({AcceptChannel, WakeupChannel} \union Connections)]
    BY <1>1 DEF ActiveOK
  <2>2. QED
    BY <1>1, <1>12, <1>13, <1>14, <1>15, <1>16, <1>17, <2>1, OneConnection
<1>19. QED
  BY <1>6, <1>8, <1>18

LEMMA AcceptKeeps ==
  ASSUME ServerInv, Accept
  PROVE  ServerInv'
<1> DEFINE c == nextConnectionId_
           k == GetNextLoop.loop
           fd == Min(FreeFds)
           o == [NewObject EXCEPT !.state_ = "kConnecting", !.loop = k, !.fd = fd]
           r == IF k = Base THEN Reading([o EXCEPT !.state_ = "kConnected"]) ELSE o
<1>1. /\ CountsOK /\ PhasesOK /\ QueuesInv /\ ConnectionsInv /\ ActiveOK
  BY DEF ServerInv, ConnectionsInv
<1>2. /\ failed = "none" /\ phase[Base] = "accepting" /\ backlog > 0 /\ FreeFds # {}
      /\ backlog' = backlog - 1 /\ NewConnection
      /\ phase' = IF acceptsOnce THEN [phase EXCEPT ![Base] = "events"] ELSE phase
      /\ UNCHANGED <<serverVars, functors, ran, activeChannels_, events_, arrived, ended>>
  BY DEF Accept, Running
<1>3. c \in Connections /\ c \in Nat
  BY <1>1, <1>2, TcpServerAssumption DEF CountsOK, Connections
<1>4. /\ k \in Loops /\ (k = Base <=> numThreads = 0)
      /\ GetNextLoop.next \in Nat
      /\ (GetNextLoop.next = 0 \/ GetNextLoop.next < numThreads)
  <2>1. CASE numThreads = 0
    BY <2>1, BaseIsALoop DEF GetNextLoop
  <2>2. CASE numThreads # 0
    <3>1. k = next_ + 1
          /\ GetNextLoop.next = IF next_ + 1 >= numThreads THEN 0 ELSE next_ + 1
      BY <2>2 DEF GetNextLoop
    <3>2. numThreads \in Nat /\ numThreads <= MaxThreads /\ next_ \in Nat
          /\ (next_ = 0 \/ next_ < numThreads)
      BY <1>1, TcpServerAssumption DEF CountsOK
    <3> HIDE DEF k
    <3>3. QED
      BY <2>2, <3>1, <3>2, TcpServerAssumption DEF Loops, Base
  <2>3. QED
    BY <2>1, <2>2
<1>5. fd \in Fds /\ \A d \in Connections : Live(d) => conn[d].fd # fd
  BY <1>2, FreeFdIsFree
<1>6. /\ nextConnectionId_' = c + 1 /\ next_' = GetNextLoop.next
      /\ connectionMap_' = connectionMap_ \union {c}
      /\ conn' = [conn EXCEPT ![c] = r]
      /\ k = Base =>
           /\ channels_' = [channels_ EXCEPT ![Base][fd] = c]
           /\ failed' = IF channels_[Base][fd] = NoConnection THEN "none" ELSE "assertion"
           /\ UNCHANGED pendingFunctors_
      /\ k # Base =>
           /\ pendingFunctors_' =
                [pendingFunctors_ EXCEPT ![k] = Append(@, Functor("connectionEstablished", c))]
           /\ UNCHANGED <<channels_, failed>>
  BY <1>2 DEF NewConnection, Asserts
<1> HIDE DEF k, fd
<1>7. /\ r \in [state_ : States, loop : Loops, fd : 0..MaxFds,
                status : Statuses, reading : BOOLEAN]
      /\ r.loop = k /\ r.fd = fd
      /\ k = Base => r.state_ = "kConnected" /\ r.status = "kAdded"
      /\ k # Base => r.state_ = "kConnecting" /\ r.status = "kNew"
  <2>1. fd \in 0..MaxFds
    BY <1>5, TcpServerAssumption DEF Fds
  <2>2. CASE k = Base
    BY <1>4, <2>1, <2>2 DEF Reading, NewObject, States, Statuses
  <2>3. CASE k # Base
    BY <1>4, <2>1, <2>3 DEF NewObject, States, Statuses
  <2>4. QED
    BY <2>2, <2>3
<1> HIDE DEF r, o
<1>8. ConnectionsInv' /\ QueuesInv' /\ channels_[Base][fd] = NoConnection
  <2>1. UNCHANGED <<numThreads, activeChannels_, functors, ran>>
    BY <1>2 DEF serverVars
  <2>2. Comes(c, k, fd, r)
    BY <1>3, <1>4, <1>5, <1>6, <1>7, <2>1 DEF Comes
  <2>3. QED
    BY <1>1, <1>3, <1>4, <1>5, <1>7, <2>2, NewConnectionKeeps
<1>9. failed' = "none"
  BY <1>2, <1>6, <1>8
<1>10. CountsOK'
  <2>1. UNCHANGED <<numThreads, arrived>>
    BY <1>2 DEF serverVars
  <2>2. QED
    BY <1>1, <1>2, <1>4, <1>6, <2>1 DEF CountsOK
<1>11. PhasesOK'
  <2>1. numThreads \in Nat /\ UNCHANGED <<numThreads, started_>>
    BY <1>1, <1>2, TcpServerAssumption DEF CountsOK, serverVars
  <2>2. QED
    BY <1>1, <1>2, <2>1, BaseIsALoop DEF PhasesOK, Phases, Base
<1>12. QED
  BY <1>8, <1>9, <1>10, <1>11 DEF ServerInv

-----------------------------------------------------------------------------
(* Connections are freed. *)

LEMMA FreedKeeps ==
  ASSUME ConnectionsInv, NEW gone \in SUBSET Connections,
         \A c \in gone : conn[c].state_ # "none" /\ Without(Jobs, c),
         \A k \in Loops : \A c \in gone : c \notin activeChannels_[k],
         conn' = [c \in Connections |->
                    IF c \in gone THEN [conn[c] EXCEPT !.state_ = "freed"] ELSE conn[c]],
         connectionMap_' = connectionMap_ \ gone,
         channels_' = [k \in Loops |-> [fd \in Fds |->
                         IF channels_[k][fd] \in gone THEN NoConnection ELSE channels_[k][fd]]],
         Jobs' = Jobs, UNCHANGED <<activeChannels_, numThreads, nextConnectionId_>>
  PROVE  ConnectionsInv'
<1>1. TablesOK /\ StagesOK /\ FdsOK /\ ChannelsOK /\ ActiveOK /\ DueOK
  BY DEF ConnectionsInv
<1>2. NoConnection \in 0..MaxConnections /\ NoConnection \notin Connections
  BY TcpServerAssumption DEF Connections, NoConnection
<1>3. /\ \A c \in gone : conn'[c].state_ = "freed"
      /\ \A c \in Connections : c \notin gone => conn'[c] = conn[c]
      /\ conn' \in [Connections -> [state_ : States, loop : Loops, fd : 0..MaxFds,
                                     status : Statuses, reading : BOOLEAN]]
  BY <1>1 DEF TablesOK, States
<1>4. \A c \in Connections : Live(c)' <=> Live(c) /\ c \notin gone
  BY <1>3 DEF Live
<1>5. \A k \in Loops, fd \in Fds :
        channels_'[k][fd] = IF channels_[k][fd] \in gone THEN NoConnection ELSE channels_[k][fd]
  OBVIOUS
<1>6. TablesOK'
  BY <1>1, <1>2, <1>3 DEF TablesOK
<1>7. StagesOK'
  <2>1. ASSUME NEW c \in Connections PROVE StageOK(c)'
    <3>1. StageOK(c) /\ conn[c].loop \in Loops
      BY <1>1 DEF StagesOK, TablesOK
    <3>2. CASE c \in gone
      <4>1. conn'[c].state_ = "freed" /\ ~Live(c)' /\ c \notin connectionMap_'
        BY <1>3, <1>4, <3>2
      <4>2. ~(c >= nextConnectionId_)
        BY <3>1, <3>2 DEF StageOK
      <4>3. QED
        BY <4>1, <4>2 DEF StageOK
    <3>3. CASE c \notin gone
      <4>1. conn'[c] = conn[c] /\ (Live(c)' <=> Live(c))
            /\ (c \in connectionMap_' <=> c \in connectionMap_)
        BY <1>3, <1>4, <3>3
      <4>2. ASSUME NEW k \in Loops, NEW fd \in Fds, channels_[k][fd] = c
            PROVE  channels_'[k][fd] = c
        BY <1>5, <3>3, <4>2
      <4>3. QED
        BY <3>1, <4>1, <4>2 DEF StageOK
    <3>4. QED
      BY <3>2, <3>3
  <2>2. QED
    BY <2>1 DEF StagesOK
<1>8. FdsOK'
  BY <1>1, <1>3, <1>4 DEF FdsOK
<1>9. ChannelsOK'
  <2>1. ASSUME NEW k \in Loops, NEW fd \in Fds, NEW d, d = channels_'[k][fd], d # NoConnection
        PROVE  (Live(d) /\ conn[d].loop = k /\ conn[d].fd = fd /\ conn[d].status # "kNew")'
    <3>1. channels_[k][fd] = d /\ d \notin gone
      BY <1>5, <2>1
    <3>2. d \in Connections
      BY <1>1, <2>1, <3>1 DEF TablesOK, Connections, NoConnection
    <3>3. Live(d) /\ conn[d].loop = k /\ conn[d].fd = fd /\ conn[d].status # "kNew"
      BY <1>1, <2>1, <3>1 DEF ChannelsOK
    <3>4. QED
      BY <1>3, <1>4, <3>1, <3>2, <3>3
  <2>2. QED
    BY <2>1 DEF ChannelsOK
<1>10. ActiveOK'
  <2>1. ASSUME NEW k \in Loops, NEW c \in activeChannels_[k] \ {AcceptChannel, WakeupChannel}
        PROVE  conn'[c].state_ = "kConnected" /\ conn'[c].loop = k
    <3>1. c \in Connections /\ c \notin gone
      BY <1>1, <2>1 DEF ActiveOK
    <3>2. QED
      BY <1>1, <1>3, <2>1, <3>1 DEF ActiveOK
  <2>2. QED
    BY <1>1, <2>1 DEF ActiveOK
<1>11. DueOK'
  <2>1. ASSUME NEW k \in Loops, NEW f \in Jobs[k] PROVE DueFor(k, f)'
    <3>1. f.conn \in Connections
      BY <2>1, JobTypes DEF AllFunctors
    <3>2. f.conn \notin gone
      BY <2>1 DEF Without
    <3>3. DueFor(k, f)
      BY <1>1, <2>1 DEF DueOK
    <3>4. conn'[f.conn] = conn[f.conn]
          /\ (f.conn \in connectionMap_' <=> f.conn \in connectionMap_)
      BY <1>3, <3>1, <3>2
    <3>5. QED
      BY <3>3, <3>4 DEF DueFor
  <2>2. QED
    BY <2>1 DEF DueOK
<1>12. QED
  BY <1>6, <1>7, <1>8, <1>9, <1>10, <1>11 DEF ConnectionsInv

LEMMA EndFunctorsKeeps ==
  ASSUME ServerInv, NEW l \in Loops, EndFunctors(l)
  PROVE  ServerInv'
<1> DEFINE gone == {c \in Connections : Live(c) /\ ~HeldElsewhere(l, c)}
<1>1. /\ CountsOK /\ PhasesOK /\ QueuesInv /\ QueuesOK /\ ConnectionsInv
      /\ TablesOK /\ StagesOK /\ ChannelsOK /\ ActiveOK /\ DueOK
  BY DEF ServerInv, ConnectionsInv, QueuesInv
<1>2. /\ failed = "none" /\ phase[l] = "functors" /\ ran[l] = Len(functors[l])
      /\ conn' = Freed(gone) /\ Asserts(\A c \in gone : MayBeDestroyed(c))
      /\ functors' = [functors EXCEPT ![l] = <<>>]
      /\ phase' = [phase EXCEPT ![l] = "poll"]
      /\ UNCHANGED <<serverVars, tableVars, pendingFunctors_, ran, epollVars, peerVars>>
  BY DEF EndFunctors, Running
<1>3. ASSUME NEW c \in gone
      PROVE  /\ conn[c].state_ = "kDisconnected" /\ conn[c].status = "kNew"
             /\ c \notin connectionMap_
  <2>1. Live(c) /\ c \in Connections /\ c \notin connectionMap_ /\ ~HeldElsewhere(l, c)
    BY <1>3 DEF HeldElsewhere
  <2>2. StageOK(c) /\ conn[c].loop \in Loops
    BY <1>1, <2>1 DEF StagesOK, TablesOK
  <2>3. conn[c].state_ = "kDisconnected"
    BY <2>1, <2>2 DEF StageOK, Live
  <2>4. ASSUME conn[c].status # "kNew" PROVE FALSE
    <3> DEFINE k == conn[c].loop
    <3>1. Functor("connectionDestroyed", c) \in Jobs[k] /\ k \in Loops
      BY <2>1, <2>2, <2>3, <2>4 DEF StageOK
    <3> HIDE DEF k
    <3>2. Functor("connectionDestroyed", c).conn = c
      BY DEF Functor
    <3>3. \/ HeldBy(pendingFunctors_[k], c)
          \/ ran[k] # Len(functors[k]) /\ HeldBy(functors[k], c)
      BY <1>1, <3>1, <3>2, JobsAreHeld
    <3>4. QED
      BY <1>2, <2>1, <3>1, <3>3 DEF HeldElsewhere
  <2>5. QED
    BY <2>1, <2>3, <2>4
<1> HIDE DEF gone
<1>4. gone \in SUBSET Connections
  BY DEF gone
<1>5. failed' = "none"
  BY <1>2, <1>3 DEF Asserts, MayBeDestroyed
<1>6. QueuesInv' /\ Jobs' = Jobs
  BY <1>1, <1>2, QueuesMove
<1>7. ConnectionsInv'
  <2>1. \A c \in gone : conn[c].state_ # "none" /\ Without(Jobs, c)
    BY <1>1, <1>3, NoJobs
  <2>2. \A k \in Loops : \A c \in gone : c \notin activeChannels_[k]
    <3>1. \A c \in gone : c \notin {AcceptChannel, WakeupChannel}
      BY <1>4 DEF Connections, AcceptChannel, WakeupChannel
    <3>2. QED
      BY <1>1, <1>3, <3>1 DEF ActiveOK
  <2>3. conn' = [c \in Connections |->
                   IF c \in gone THEN [conn[c] EXCEPT !.state_ = "freed"] ELSE conn[c]]
    BY <1>2 DEF Freed
  <2>4. connectionMap_' = connectionMap_ \ gone
    BY <1>2, <1>3 DEF tableVars
  <2>5. channels_' = [k \in Loops |-> [fd \in Fds |->
                        IF channels_[k][fd] \in gone THEN NoConnection ELSE channels_[k][fd]]]
    <3>1. \A k \in Loops, fd \in Fds : channels_[k][fd] \notin gone
      <4>1. NoConnection \notin gone
        BY <1>4 DEF Connections, NoConnection
      <4>2. QED
        BY <1>1, <1>3, <4>1 DEF ChannelsOK
    <3>2. channels_' = channels_
      BY <1>2 DEF epollVars
    <3>3. QED
      BY <1>1, <3>1, <3>2 DEF TablesOK
  <2>6. UNCHANGED <<activeChannels_, numThreads, nextConnectionId_>>
    BY <1>2 DEF serverVars, tableVars, epollVars
  <2>7. QED
    BY <1>1, <1>4, <1>6, <2>1, <2>2, <2>3, <2>4, <2>5, <2>6, FreedKeeps
<1>8. CountsOK'
  BY <1>1, <1>2 DEF CountsOK, serverVars, tableVars, peerVars
<1>9. PhasesOK'
  <2>1. functors \in [Loops -> Seq(AllFunctors)]
    BY <1>1 DEF QueuesOK
  <2>2. QED
    BY <1>1, <1>2, <2>1 DEF PhasesOK, Phases, serverVars, epollVars
<1>10. QED
  BY <1>5, <1>6, <1>7, <1>8, <1>9 DEF ServerInv

(* The base loop has left and there is no other: every connection of the    *)
(* server's map is its own, open, and without a functor.                    *)
LEMMA DestroyServerKeeps ==
  ASSUME ServerInv, DestroyServer
  PROVE  ServerInv'
<1> DEFINE mine == {c \in connectionMap_ : conn[c].loop = Base}
           gone == {c \in connectionMap_ : \A l \in Loops : ~HeldBy(pendingFunctors_[l], c)
                                                         /\ ~HeldBy(functors[l], c)}
<1>1. /\ CountsOK /\ PhasesOK /\ QueuesInv /\ QueuesOK /\ ConnectionsInv
      /\ TablesOK /\ StagesOK /\ ChannelsOK /\ ActiveOK /\ DueOK
  BY DEF ServerInv, ConnectionsInv, QueuesInv
<1>2. /\ failed = "none" /\ phase[Base] = "exited"
      /\ conn' = [c \in Connections |->
                    IF c \in gone THEN [conn[c] EXCEPT !.state_ = "freed"] ELSE conn[c]]
      /\ channels_' = [channels_ EXCEPT
                         ![Base] = [fd \in Fds |-> IF @[fd] \in mine THEN NoConnection
                                                   ELSE @[fd]]]
      /\ connectionMap_' = {}
      /\ Asserts(gone \subseteq mine)
      /\ UNCHANGED <<serverVars, next_, nextConnectionId_, queueVars,
                     activeChannels_, events_, peerVars>>
  BY DEF DestroyServer, Running
<1>3. numThreads = 0 /\ \A l \in Loops : functors[l] = <<>> /\ activeChannels_[l] = {}
  <2>1. numThreads = 0
    BY <1>1, <1>2, BaseIsALoop DEF PhasesOK
  <2>2. ASSUME NEW l \in Loops PROVE phase[l] \in {"setup", "exited"}
    <3>1. l = Base \/ l > numThreads
      BY <2>1, BaseIsALoop DEF Base
    <3>2. QED
      BY <1>1, <1>2, <3>1 DEF PhasesOK
  <2>3. QED
    BY <1>1, <2>1, <2>2 DEF PhasesOK
<1>4. ASSUME NEW c \in connectionMap_
      PROVE  /\ c \in Connections /\ conn[c].loop = Base /\ conn[c].state_ = "kConnected"
             /\ Without(Jobs, c)
  <2>1. c \in Connections /\ StageOK(c)
    BY <1>1 DEF TablesOK, StagesOK
  <2>2. Live(c) /\ conn[c].loop = Base
    BY <1>3, <2>1 DEF StageOK
  <2>3. conn[c].state_ = "kConnected"
    BY <2>1, <2>2 DEF StageOK, Live
  <2>4. QED
    BY <1>1, <2>1, <2>2, <2>3, NoJobs
<1>5. gone = connectionMap_ /\ mine = connectionMap_
  <2>1. ASSUME NEW c \in connectionMap_, NEW l \in Loops
        PROVE  ~HeldBy(pendingFunctors_[l], c) /\ ~HeldBy(functors[l], c)
    <3>1. ~HeldBy(pendingFunctors_[l], c)
      BY <1>1, <1>4, JobsAreHeld DEF Without
    <3>2. ~HeldBy(functors[l], c)
      BY <1>3 DEF HeldBy
    <3>3. QED
      BY <3>1, <3>2
  <2>2. QED
    BY <1>4, <2>1
<1> HIDE DEF mine, gone
<1>6. failed' = "none"
  BY <1>2, <1>5 DEF Asserts
<1>7. QueuesInv' /\ Jobs' = Jobs
  BY <1>1, <1>2, QueuesStay DEF queueVars
<1>8. ConnectionsInv'
  <2>1. gone \in SUBSET Connections /\ connectionMap_' = connectionMap_ \ gone
    BY <1>2, <1>4, <1>5
  <2>2. \A c \in gone : conn[c].state_ # "none" /\ Without(Jobs, c)
    BY <1>4, <1>5
  <2>3. \A k \in Loops : \A c \in gone : c \notin activeChannels_[k]
    BY <1>3
  <2>4. channels_' = [k \in Loops |-> [fd \in Fds |->
                        IF channels_[k][fd] \in gone THEN NoConnection ELSE channels_[k][fd]]]
    <3>1. ASSUME NEW k \in Loops, NEW fd \in Fds, channels_[k][fd] \in gone PROVE k = Base
      <4>1. channels_[k][fd] # NoConnection
        BY <2>1, <3>1 DEF Connections, NoConnection
      <4>2. QED
        BY <1>1, <1>4, <1>5, <3>1, <4>1 DEF ChannelsOK
    <3>2. channels_' = [channels_ EXCEPT
                         ![Base] = [fd \in Fds |-> IF channels_[Base][fd] \in gone THEN NoConnection
                                                   ELSE channels_[Base][fd]]]
      BY <1>2, <1>5
    <3>3. channels_ = [k \in Loops |-> [fd \in Fds |-> channels_[k][fd]]]
      BY <1>1 DEF TablesOK
    <3>4. QED
      BY <3>1, <3>2, <3>3, BaseIsALoop
  <2>5. UNCHANGED <<activeChannels_, numThreads, nextConnectionId_>>
    BY <1>2 DEF serverVars
  <2>6. QED
    BY <1>1, <1>2, <1>7, <2>1, <2>2, <2>3, <2>4, <2>5, FreedKeeps
<1>9. CountsOK'
  BY <1>1, <1>2 DEF CountsOK, serverVars, peerVars
<1>10. PhasesOK'
  BY <1>1, <1>2 DEF PhasesOK, serverVars, queueVars
<1>11. QED
  BY <1>6, <1>7, <1>8, <1>9, <1>10 DEF ServerInv

-----------------------------------------------------------------------------
(* The server. *)

LEMMA ServerInvInit ==
  Init => ServerInv
<1> SUFFICES ASSUME Init PROVE ServerInv
  OBVIOUS
<1>1. <<>> \in Seq(AllFunctors) /\ Len(<<>>) = 0
  BY EmptySeq
<1>2. CountsOK
  BY TcpServerAssumption DEF Init, CountsOK
<1>3. QueuesOK
  BY <1>1 DEF Init, QueuesOK
<1>4. \A l \in Loops : Todo[l] = <<>>
  <2>1. \A l \in Loops : Left(functors[l], ran[l], pendingFunctors_[l]) = <<>>
    BY <1>1, LeftOfNone DEF Init
  <2>2. QED
    BY <2>1 DEF Todo
<1>5. QueuesInv
  BY <1>1, <1>3, <1>4 DEF QueuesInv, OnceEach
<1>6. \A l \in Loops : Jobs[l] = {}
  BY <1>1, <1>4 DEF Jobs, JobsOf
<1>7. PhasesOK
  BY DEF Init, PhasesOK, Phases
<1>8. \A c \in Connections : conn[c] = NewObject /\ ~Live(c)
  BY DEF Init, Live, NewObject
<1>9. TablesOK
  BY BaseIsALoop, TcpServerAssumption
     DEF Init, TablesOK, NewObject, States, Statuses, NoConnection
<1>10. StagesOK
  BY <1>8 DEF Init, StagesOK, StageOK, NewObject
<1>11. FdsOK /\ DueOK
  BY <1>6, <1>8 DEF FdsOK, DueOK
<1>12. ChannelsOK /\ ActiveOK
  BY DEF Init, ChannelsOK, ActiveOK
<1>13. QED
  BY <1>2, <1>5, <1>7, <1>9, <1>10, <1>11, <1>12 DEF ServerInv, ConnectionsInv, Init

(* Every step of the server and of its clients keeps the invariant, when     *)
(* the server of a pool is not destroyed.                                    *)
THEOREM ServerInvCorrect ==
  ASSUME TeardownPools \subseteq {0}
  PROVE  Spec => []ServerInv
<1>1. Init => ServerInv
  BY ServerInvInit
<1>2. ASSUME ServerInv, [Next]_vars PROVE ServerInv'
  <2>1. CASE \/ Start \/ EnterLoop \/ LeaveLoop \/ Connect
             \/ \E c \in Connections : ConnectionEnds(c)
    BY <1>2, <2>1, OthersKeep
  <2>2. CASE DestroyServer
    BY <1>2, <2>2, DestroyServerKeeps
  <2>3. ASSUME NEW l \in Loops, LoopStep(l) PROVE ServerInv'
    <3>1. CASE Poll(l)
      BY <1>2, <3>1, PollKeeps
    <3>2. CASE HandleWakeup(l) \/ (l = Base /\ HandleAccept)
      BY <1>2, <3>2, EventsKeep
    <3>3. CASE \E c \in Connections : HandleEvent(l, c)
      BY <1>2, <3>3, HandleEventKeeps
    <3>4. CASE SwapFunctors(l)
      BY <1>2, <3>4, SwapFunctorsKeeps
    <3>5. CASE \E c \in Connections : ConnectionEstablished(l, c)
      BY <1>2, <3>5, EstablishedKeeps
    <3>6. CASE \E c \in Connections : RemoveInLoop(l, c)
      BY <1>2, <3>6, RemoveInLoopKeeps
    <3>7. CASE \E c \in Connections : ConnectionDestroyed(l, c)
      BY <1>2, <3>7, DestroyedKeeps
    <3>8. CASE EndFunctors(l)
      BY <1>2, <3>8, EndFunctorsKeeps
    <3>9. CASE Accept
      BY <1>2, <3>9, AcceptKeeps
    <3>10. CASE AcceptFails \/ AcceptReturnsAnything
      BY <1>2, <3>10, OthersKeep
    <3>11. QED
      BY <2>3, <3>1, <3>2, <3>3, <3>4, <3>5, <3>6, <3>7, <3>8, <3>9, <3>10 DEF LoopStep
  <2>4. CASE UNCHANGED vars
    <3>1. UNCHANGED <<failed, conn, connectionMap_, channels_, numThreads, nextConnectionId_,
                      next_, backlog, arrived, phase, started_, activeChannels_,
                      pendingFunctors_, functors, ran>>
      BY <2>4 DEF vars, serverVars, tableVars, queueVars, epollVars, peerVars
    <3>2. CountsOK /\ PhasesOK /\ QueuesInv /\ ActiveOK /\ failed \in {"none", "undefined"}
      BY <1>2 DEF ServerInv, ConnectionsInv
    <3>3. QueuesInv' /\ Jobs' = Jobs
      BY <3>1, <3>2, QueuesStay
    <3>4. CountsOK' /\ PhasesOK' /\ ActiveOK'
      BY <3>1, <3>2 DEF CountsOK, PhasesOK, ActiveOK
    <3>5. QED
      BY <1>2, <3>1, <3>2, <3>3, <3>4, QuietKeeps
  <2>5. QED
    BY <1>2, <2>1, <2>2, <2>3, <2>4 DEF Next
<1>3. QED
  BY <1>1, <1>2, PTL DEF Spec

(* Whatever order its loops and clients take: epoll's map and the channels   *)
(* about to be handled lead to connections that are there, no two of which   *)
(* have one descriptor, and neither updateChannel() nor the destructors of a *)
(* connection and its channel find what their assertions forbid              *)
(* (Epoll.cpp:72-112, TcpServer.cpp:101-121).                                *)
THEOREM EpollCorrect ==
  ASSUME TeardownPools \subseteq {0}
  PROVE  Spec => []EpollHoldsLiveChannels
<1>1. ServerInv => EpollHoldsLiveChannels
  BY DEF ServerInv, ConnectionsInv, ChannelsOK, ActiveOK, FdsOK, Live, EpollHoldsLiveChannels
<1>2. Spec => []ServerInv
  BY ServerInvCorrect
<1>3. QED
  BY <1>1, <1>2, PTL
=============================================================================
