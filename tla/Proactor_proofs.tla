-------------------------- MODULE Proactor_proofs ---------------------------
(***************************************************************************)
(* For every finite set of descriptors and workers, and any number of      *)
(* connections: EPOLLONESHOT keeps main thread and workers apart but for   *)
(* the connections that tick() closes, no connection is forgotten, and the *)
(* sorted list of timers is that of the open connections.                  *)
(***************************************************************************)
EXTENDS Proactor, FiniteSetTheorems, SequenceTheorems, WellFoundedInduction, TLAPS

Places == {"wait", "woken"} \union Steps

SocketsOK ==
  /\ conn \in [Fd -> Nat]
  /\ open \in [Fd -> BOOLEAN]
  /\ interest \in [Fd -> {"IN", "OUT", "off"}]
  /\ peer \in [Fd -> {"quiet", "sent", "closed"}]

BuffersOK ==
  /\ unparsed \in [Fd -> BOOLEAN]
  /\ output \in [Fd -> Seq(Nat)]
  /\ linger \in [Fd -> BOOLEAN]

QueueOK == m_workqueue \in Seq(Fd) /\ m_queuestat \in Nat

WorkersOK ==
  /\ worker \in [Worker -> [at : Places, fd : Fd \union {NULL}, to : Nat]]
  /\ \A w \in Worker : worker[w].at \in Steps => worker[w].fd \in Fd

TypeOK ==
  SocketsOK /\ BuffersOK /\ QueueOK /\ WorkersOK /\ answers \subseteq Nat \X Nat

(* What Handlers(f) counts. *)
Queued(f) == {i \in DOMAIN m_workqueue : m_workqueue[i] = f}
InHand(f) == Queued(f) # {} \/ Processing(f) # {}

(* One place in the queue, or one worker. *)
Once(f) ==
  /\ \A i, j \in Queued(f) : i = j
  /\ \A v, w \in Processing(f) : v = w
  /\ Queued(f) = {} \/ Processing(f) = {}

(* What is handled is open, and handled once, unless tick() closed it.      *)
QuietInv ==
  /\ \A f \in Fd : ~open[f] => interest[f] = "off"
  /\ \A f \in Fd \ overtaken :
       InHand(f) => open[f] /\ interest[f] = "off" /\ Once(f)

WatchedInv ==
  \A f \in Fd : open[f] /\ interest[f] = "off" => InHand(f) \/ conn[f] \in turnedAway

(* A response waits for epoll, or for the modfd() of the worker that made it.*)
Flushing(f) == \E w \in Processing(f) : worker[w].at = "modfd OUT"

OutputOK ==
  \A f \in Fd : output[f] = <<>> \/ output[f] = <<conn[f]>>

OutputIsSeen ==
  \A f \in Fd : open[f] /\ output[f] # <<>> => interest[f] = "OUT" \/ Flushing(f)

WritersOK ==
  \A w \in Worker : worker[w].at = "process_write" => worker[w].to = conn[worker[w].fd]

AnswersInv ==
  /\ \A a \in answers : a[1] = a[2]
  /\ OutputOK /\ OutputIsSeen /\ WritersOK

IInv ==
  /\ TypeOK /\ QuietInv /\ WatchedInv
  /\ overtaken = {} => AnswersInv

----------------------------------------------------------------------------
(* A set of naturals has a least member ...                                 *)
LEMMA LeastMember ==
  ASSUME NEW T \in SUBSET Nat, T # {}
  PROVE  \E x \in T : \A y \in T : x <= y
<1> DEFINE less == {p \in Nat \X Nat : p[1] < p[2]}
<1>1. IsWellFoundedOn(less, Nat)
  BY NatLessThanWellFounded, Zenon DEF OpToRel
<1>2. PICK x \in T : \A y \in T : ~(<<y, x>> \in less)
  <2> HIDE DEF less
  <2> QED
    BY <1>1, WFMin
<1>3. ASSUME NEW y \in T
      PROVE  x <= y
  <2>1. <<y, x>> \in Nat \X Nat /\ x \in Nat /\ y \in Nat
    OBVIOUS
  <2>2. ~(<<y, x>>[1] < <<y, x>>[2])
    BY <1>2, <2>1, Zenon
  <2> QED
    BY <2>1, <2>2
<1> QED
  BY <1>3

HasMax(T) == \E x \in T : \A y \in T : x >= y

(* ... and a finite one a greatest: the smallest set that had none would    *)
(* have one less a member.                                                  *)
LEMMA GreatestMember ==
  ASSUME NEW T \in SUBSET Nat, T # {}, IsFiniteSet(T)
  PROVE  Max(T) \in T
<1> DEFINE Odd(S) == S # {} /\ IsFiniteSet(S) /\ ~HasMax(S)
           sizes == {n \in Nat : \E S \in SUBSET Nat : Odd(S) /\ Cardinality(S) = n}
<1>1. ~Odd(T)
  <2> SUFFICES ASSUME Odd(T) PROVE FALSE
    OBVIOUS
  <2>1. Cardinality(T) \in sizes
    BY FS_CardinalityType
  <2>2. PICK n \in sizes : \A m \in sizes : n <= m
    <3> HIDE DEF sizes
    <3>1. sizes # {} /\ sizes \in SUBSET Nat
      BY <2>1 DEF sizes
    <3> QED
      BY <3>1, LeastMember
  <2>3. PICK S \in SUBSET Nat : Odd(S) /\ Cardinality(S) = n
    OBVIOUS
  <2>4. PICK x \in S : TRUE
    BY <2>3
  <2>5. /\ IsFiniteSet(S \ {x})
        /\ Cardinality(S \ {x}) = n - 1
    BY <2>3, <2>4, FS_RemoveElement
  <2>6. n - 1 \in Nat
    BY <2>5, FS_CardinalityType
  <2>7. ~Odd(S \ {x})
    <3> SUFFICES ASSUME Odd(S \ {x}) PROVE FALSE
      OBVIOUS
    <3>1. n - 1 \in sizes
      BY <2>5, <2>6
    <3> QED
      BY <2>2, <2>6, <3>1
  <2>8. CASE S \ {x} = {}
    BY <2>3, <2>4, <2>8 DEF HasMax
  <2>9. CASE S \ {x} # {}
    <3>1. PICK m \in S \ {x} : \A y \in S \ {x} : m >= y
      BY <2>5, <2>7, <2>9 DEF HasMax
    <3>2. CASE m >= x
      BY <2>3, <3>1, <3>2 DEF HasMax
    <3>3. CASE x >= m
      <4>1. \A y \in S : x >= y
        BY <3>1, <3>3
      <4> QED
        BY <2>3, <4>1 DEF HasMax
    <3>4. m \in Nat /\ x \in Nat
      BY <2>4
    <3> QED
      BY <3>2, <3>3, <3>4
  <2> QED
    BY <2>8, <2>9
<1>2. HasMax(T)
  BY <1>1
<1> QED
  BY <1>2 DEF HasMax, Max

----------------------------------------------------------------------------
(* The timer list.  First, the nodes that Path finds are those of a sequence *)
(* that the next pointers follow: its rows are shown to exist by induction,  *)
(* as a least row that did not would have one before it that did.            *)

(* A sequence as a place by place function, with the null pointer behind it. *)
At(s, i) == IF i \in 1 .. Len(s) THEN s[i] ELSE NULL

Simple(s) ==
  s \in Seq(Fd) /\ \A i, j \in 1 .. Len(s) : s[i] = s[j] => i = j

Following(next, s) == \A i \in 1 .. Len(s) : next[s[i]] = At(s, i + 1)

(* One row of the recursive function in Path, and its first m rows. *)
Row(next, p, n) ==
  [g \in Fd \union {NULL} |->
     IF g = NULL \/ n = 0 THEN <<>> ELSE <<g>> \o p[n - 1][next[g]]]
Rows(next, p, m) == p = [n \in 0 .. m |-> Row(next, p, n)]

LEMMA MaxPathIsNat ==
  /\ MaxPath \in Nat \ {0} /\ Cardinality(Fd) \in Nat
  /\ MaxPath = Cardinality(Fd) + 1
BY TimerListAssumption, FS_CardinalityType DEF MaxPath

LEMMA RowsExist ==
  ASSUME NEW next
  PROVE  \E p : Rows(next, p, MaxPath)
<1> DEFINE Has(m) == \E p : Rows(next, p, m)
           bad == {m \in 0 .. MaxPath : ~Has(m)}
<1>1. Has(0)
  <2> DEFINE p == [n \in 0 .. 0 |-> [g \in Fd \union {NULL} |-> <<>>]]
  <2>1. \A n \in 0 .. 0 : Row(next, p, n) = [g \in Fd \union {NULL} |-> <<>>]
    BY DEF Row
  <2>2. p = [n \in 0 .. 0 |-> Row(next, p, n)]
    BY <2>1, Zenon
  <2> QED
    BY <2>2 DEF Rows
<1>2. ASSUME NEW m \in Nat, Has(m)
      PROVE  Has(m + 1)
  <2>1. PICK p : Rows(next, p, m)
    BY <1>2
  <2> DEFINE r == [n \in 0 .. (m + 1) |-> IF n = m + 1 THEN Row(next, p, n) ELSE p[n]]
  <2>2. \A n \in 0 .. m : r[n] = p[n] /\ p[n] = Row(next, p, n)
    BY <2>1 DEF Rows
  <2>3. r[m + 1] = Row(next, p, m + 1)
    OBVIOUS
  <2> HIDE DEF r
  <2>4. ASSUME NEW n \in 0 .. (m + 1)
        PROVE  Row(next, r, n) = Row(next, p, n)
    <3>1. n # 0 => n - 1 \in 0 .. m
      OBVIOUS
    <3>2. n # 0 => r[n - 1] = p[n - 1]
      BY <2>2, <3>1
    <3> QED
      BY <3>2, Zenon DEF Row
  <2>5. \A n \in 0 .. (m + 1) : r[n] = Row(next, r, n)
    BY <2>2, <2>3, <2>4
  <2>6. r = [n \in 0 .. (m + 1) |-> r[n]]
    BY DEF r
  <2>7. r = [n \in 0 .. (m + 1) |-> Row(next, r, n)]
    BY <2>5, <2>6, Zenon
  <2> QED
    BY <2>7 DEF Rows
<1>3. bad = {}
  <2> SUFFICES ASSUME bad # {} PROVE FALSE
    OBVIOUS
  <2>1. bad \in SUBSET Nat
    BY MaxPathIsNat
  <2>2. PICK m \in bad : \A k \in bad : m <= k
    <3> HIDE DEF bad
    <3> QED
      BY <2>1, LeastMember
  <2>3. m # 0
    BY <1>1, <2>2
  <2>4. m - 1 \in 0 .. MaxPath /\ ~(m <= m - 1) /\ m = (m - 1) + 1 /\ m - 1 \in Nat
    BY <2>2, <2>3, MaxPathIsNat
  <2>5. Has(m - 1)
    BY <2>2, <2>4
  <2>6. Has(m)
    <3> HIDE DEF Has
    <3> QED
      BY <1>2, <2>4, <2>5
  <2> QED
    BY <2>2, <2>6
<1>4. MaxPath \in 0 .. MaxPath
  BY MaxPathIsNat
<1> QED
  BY <1>3, <1>4

LEMMA PathRows ==
  ASSUME NEW next, NEW f
  PROVE  \E p : Rows(next, p, MaxPath) /\ Path(next, f) = p[MaxPath][f]
<1>1. PICK p : Rows(next, p, MaxPath)
  BY RowsExist
<1> QED
  BY <1>1, Zenon DEF Path, Rows, Row

LEMMA SimpleLength ==
  ASSUME NEW s, Simple(s)
  PROVE  Len(s) \in Nat /\ Len(s) <= Cardinality(Fd) /\ Len(s) < MaxPath
<1>1. Len(s) \in Nat
  BY DEF Simple
<1>2. s \in Injection(1 .. Len(s), Fd)
  BY DEF Simple, Injection, IsInjective
<1>3. IsFiniteSet(1 .. Len(s)) /\ Cardinality(1 .. Len(s)) = Len(s)
  <2>1. Cardinality(1 .. Len(s)) = IF 1 > Len(s) THEN 0 ELSE Len(s) - 1 + 1
    BY <1>1, FS_Interval
  <2>2. Cardinality(1 .. Len(s)) = Len(s)
    BY <1>1, <2>1
  <2>3. IsFiniteSet(1 .. Len(s))
    BY <1>1, FS_Interval
  <2> QED
    BY <2>2, <2>3
<1>4. Cardinality(1 .. Len(s)) <= Cardinality(Fd)
  BY <1>2, TimerListAssumption, FS_Injection
<1> QED
  BY <1>1, <1>3, <1>4, MaxPathIsNat

(* The nodes that lead from the first of a sequence to its last are those of *)
(* the sequence.                                                             *)
LEMMA PathFollows ==
  ASSUME NEW next \in [Fd -> Fd \union {NULL}], NEW s, Simple(s), Following(next, s)
  PROVE  Path(next, At(s, 1)) = s
<1>1. PICK p : Rows(next, p, MaxPath) /\ Path(next, At(s, 1)) = p[MaxPath][At(s, 1)]
  BY PathRows
<1> DEFINE L == Len(s)
           Claim(k) == \A n \in k .. MaxPath : p[n][At(s, L - k + 1)] = SubSeq(s, L - k + 1, L)
           bad == {k \in 0 .. L : ~Claim(k)}
<1>2. s \in Seq(Fd) /\ L \in Nat /\ L < MaxPath /\ MaxPath \in Nat
  BY SimpleLength, MaxPathIsNat DEF Simple
<1>3. ASSUME NEW n \in 0 .. MaxPath, NEW g \in Fd \union {NULL}
      PROVE  p[n][g] = IF g = NULL \/ n = 0 THEN <<>> ELSE <<g>> \o p[n - 1][next[g]]
  <2>1. p[n] = Row(next, p, n)
    BY <1>1 DEF Rows
  <2> QED
    BY <2>1, Zenon DEF Row
<1>4. Claim(0)
  <2> SUFFICES ASSUME NEW n \in 0 .. MaxPath
               PROVE  p[n][At(s, L - 0 + 1)] = SubSeq(s, L - 0 + 1, L)
    OBVIOUS
  <2>1. At(s, L - 0 + 1) = NULL /\ L - 0 + 1 = L + 1
    BY <1>2 DEF At
  <2>2. SubSeq(s, L + 1, L) = <<>>
    BY <1>2
  <2> QED
    BY <1>3, <2>1, <2>2
<1>5. ASSUME NEW k \in 0 .. (L - 1), Claim(k)
      PROVE  Claim(k + 1)
  <2> SUFFICES ASSUME NEW n \in (k + 1) .. MaxPath
               PROVE  p[n][At(s, L - (k + 1) + 1)] = SubSeq(s, L - (k + 1) + 1, L)
    OBVIOUS
  <2> DEFINE i == L - k
  <2>1. /\ i \in 1 .. L /\ L - (k + 1) + 1 = i /\ L - k + 1 = i + 1
        /\ n \in 0 .. MaxPath /\ n # 0 /\ n - 1 \in k .. MaxPath
    BY <1>2
  <2>2. At(s, i) = s[i] /\ s[i] \in Fd /\ s[i] # NULL /\ next[s[i]] = At(s, i + 1)
    BY <1>2, <2>1, TimerListAssumption DEF At, Following
  <2>3. p[n - 1][At(s, i + 1)] = SubSeq(s, i + 1, L)
    BY <1>5, <2>1
  <2> HIDE DEF i
  <2>4. p[n][s[i]] = <<s[i]>> \o SubSeq(s, i + 1, L)
    <3>1. p[n][s[i]] = IF s[i] = NULL \/ n = 0 THEN <<>>
                       ELSE <<s[i]>> \o p[n - 1][next[s[i]]]
      BY <1>3, <2>1, <2>2
    <3> QED
      BY <2>1, <2>2, <2>3, <3>1
  <2>5. <<s[i]>> \o SubSeq(s, i + 1, L) = SubSeq(s, i, L)
    BY <1>2, <2>1
  <2> QED
    BY <2>1, <2>2, <2>4, <2>5
<1>6. bad = {}
  <2> SUFFICES ASSUME bad # {} PROVE FALSE
    OBVIOUS
  <2>1. bad \in SUBSET Nat
    BY <1>2
  <2>2. PICK m \in bad : \A k \in bad : m <= k
    <3> HIDE DEF bad
    <3> QED
      BY <2>1, LeastMember
  <2>3. m # 0
    BY <1>4, <2>2
  <2>4. /\ m - 1 \in 0 .. (L - 1) /\ m - 1 \in 0 .. L
        /\ ~(m <= m - 1) /\ m = (m - 1) + 1
    BY <1>2, <2>2, <2>3
  <2>5. Claim(m - 1)
    BY <2>2, <2>4
  <2>6. Claim(m)
    <3> HIDE DEF Claim
    <3> QED
      BY <1>5, <2>4, <2>5
  <2> QED
    BY <2>2, <2>6
<1>7. Claim(L)
  <2>1. L \in 0 .. L
    BY <1>2
  <2> HIDE DEF Claim
  <2> QED
    BY <1>6, <2>1
<1>8. MaxPath \in L .. MaxPath /\ L - L + 1 = 1
  BY <1>2
<1>9. p[MaxPath][At(s, 1)] = SubSeq(s, 1, L)
  BY <1>7, <1>8
<1>10. SubSeq(s, 1, L) = s
  BY <1>2
<1> QED
  BY <1>1, <1>9, <1>10

(* A list of timers whose nodes are s, one after the other.                  *)
Pointers == [Fd -> Fd \union {NULL}]
Lists == [head : Fd \union {NULL}, tail : Fd \union {NULL},
          prev : Pointers, next : Pointers, expire : [Fd -> Nat]]

Linked(lst, s) ==
  /\ lst.head = At(s, 1)
  /\ s # <<>> => lst.tail = s[Len(s)]
  /\ Following(lst.next, s)
  /\ \A i \in 2 .. Len(s) : lst.prev[s[i]] = s[i - 1]
  /\ \A i \in 2 .. Len(s) : lst.expire[s[i - 1]] <= lst.expire[s[i]]

IsList(lst, s) == lst \in Lists /\ Simple(s) /\ Linked(lst, s)

LEMMA NodesOfList ==
  ASSUME NEW lst, NEW s, IsList(lst, s)
  PROVE  Nodes(lst) = s /\ WellLinked(lst)
<1>1. Nodes(lst) = s
  <2>1. lst.next \in Pointers /\ lst.head = At(s, 1) /\ Following(lst.next, s) /\ Simple(s)
    BY DEF IsList, Lists, Linked
  <2> QED
    BY <2>1, PathFollows DEF Nodes, Pointers
<1>2. Len(s) <= Cardinality(Fd)
  BY SimpleLength DEF IsList
<1>3. s # <<>> => lst.tail = Last(s)
  BY DEF IsList, Linked, Last
<1> QED
  BY <1>1, <1>2, <1>3, Zenon DEF WellLinked, IsList, Linked

(* A node put in at place k, ... *)
Inserted(s, k, f) ==
  [i \in 1 .. (Len(s) + 1) |-> IF i < k THEN s[i] ELSE IF i = k THEN f ELSE s[i - 1]]

LEMMA InsertedSimple ==
  ASSUME NEW s, Simple(s), NEW k \in 1 .. (Len(s) + 1),
         NEW f \in Fd, f \notin ToSet(s)
  PROVE  /\ Simple(Inserted(s, k, f)) /\ Len(Inserted(s, k, f)) = Len(s) + 1
         /\ ToSet(Inserted(s, k, f)) = ToSet(s) \union {f}
<1> DEFINE t == Inserted(s, k, f)
<1>1. /\ s \in Seq(Fd) /\ Len(s) \in Nat /\ DOMAIN s = 1 .. Len(s)
      /\ \A i \in 1 .. Len(s) : s[i] \in Fd /\ s[i] # f
  BY DEF Simple, ToSet
<1>2. t \in [1 .. (Len(s) + 1) -> Fd]
  BY <1>1 DEF Inserted
<1>3. t \in Seq(Fd) /\ Len(t) = Len(s) + 1 /\ DOMAIN t = 1 .. (Len(s) + 1)
  <2> HIDE DEF t
  <2> QED
    BY <1>1, <1>2
<1>4. \A i \in 1 .. (Len(s) + 1) :
        t[i] = IF i < k THEN s[i] ELSE IF i = k THEN f ELSE s[i - 1]
  BY <1>1 DEF Inserted
<1>5. ASSUME NEW i \in 1 .. Len(t), NEW j \in 1 .. Len(t), t[i] = t[j]
      PROVE  i = j
  <2> HIDE DEF t
  <2> QED
    BY <1>1, <1>3, <1>4, <1>5 DEF Simple
<1>6. ToSet(t) = ToSet(s) \union {f}
  <2> HIDE DEF t
  <2>1. ASSUME NEW g \in ToSet(t)
        PROVE  g \in ToSet(s) \union {f}
    <3>1. PICK i \in 1 .. (Len(s) + 1) : g = t[i]
      BY <1>3 DEF ToSet
    <3> QED
      BY <1>1, <1>4, <3>1 DEF ToSet
  <2>2. f \in ToSet(t)
    BY <1>1, <1>3, <1>4 DEF ToSet
  <2>3. ASSUME NEW i \in 1 .. Len(s)
        PROVE  s[i] \in ToSet(t)
    <3>1. CASE i < k
      BY <1>1, <1>3, <1>4, <3>1 DEF ToSet
    <3>2. CASE ~(i < k)
      <4>1. i + 1 \in 1 .. (Len(s) + 1) /\ t[i + 1] = s[i]
        BY <1>1, <1>4, <3>2
      <4> QED
        BY <1>3, <4>1 DEF ToSet
    <3> QED
      BY <3>1, <3>2
  <2> QED
    BY <1>1, <2>1, <2>2, <2>3 DEF ToSet
<1> QED
  BY <1>3, <1>5, <1>6 DEF Simple

(* ... and the links that make it so, from list l to list r. *)
Inserts(l, r, s, k, f) ==
  /\ r.head = IF k = 1 THEN f ELSE l.head
  /\ r.tail = IF k = Len(s) + 1 THEN f ELSE l.tail
  /\ \A i \in 1 .. Len(s) : r.next[s[i]] = IF i = k - 1 THEN f ELSE l.next[s[i]]
  /\ r.next[f] = At(s, k)
  /\ \A i \in 1 .. Len(s) : r.prev[s[i]] = IF i = k THEN f ELSE l.prev[s[i]]
  /\ k # 1 => r.prev[f] = s[k - 1]
  /\ \A i \in 1 .. Len(s) : r.expire[s[i]] = l.expire[s[i]]
  /\ k # 1 => r.expire[s[k - 1]] <= r.expire[f]
  /\ k # Len(s) + 1 => r.expire[f] <= r.expire[s[k]]

LEMMA InsertedLinks ==
  ASSUME NEW s, Simple(s), NEW k \in 1 .. (Len(s) + 1),
         NEW f \in Fd, f \notin ToSet(s), NEW l, Linked(l, s), NEW r, Inserts(l, r, s, k, f)
  PROVE  Linked(r, Inserted(s, k, f))
<1> USE DEF Inserts
<1> DEFINE t == Inserted(s, k, f)
<1>1. /\ Len(s) \in Nat /\ Len(t) = Len(s) + 1
      /\ \A i \in 1 .. Len(s) : s[i] \in Fd /\ s[i] # f
  BY InsertedSimple DEF Simple, ToSet
<1>2. \A i \in 1 .. (Len(s) + 1) :
        t[i] = IF i < k THEN s[i] ELSE IF i = k THEN f ELSE s[i - 1]
  BY <1>1 DEF Inserted
<1> HIDE DEF t
<1>3. r.head = At(t, 1)
  BY <1>1, <1>2 DEF At, Linked
<1>4. r.tail = t[Len(t)]
  BY <1>1, <1>2 DEF Linked
<1>5. Following(r.next, t)
  <2> SUFFICES ASSUME NEW i \in 1 .. Len(t) PROVE r.next[t[i]] = At(t, i + 1)
    BY DEF Following
  <2>1. CASE i = k
    <3>1. CASE k = Len(s) + 1
      BY <1>1, <1>2, <2>1, <3>1 DEF At
    <3>2. CASE k # Len(s) + 1
      <4>1. k + 1 \in 1 .. Len(t) /\ t[k + 1] = s[k] /\ k \in 1 .. Len(s)
        BY <1>1, <1>2, <3>2
      <4> QED
        BY <1>1, <1>2, <2>1, <4>1 DEF At
    <3> QED
      BY <3>1, <3>2
  <2>2. CASE i < k
    <3>1. /\ i \in 1 .. Len(s) /\ i + 1 \in 1 .. Len(t) /\ t[i] = s[i]
          /\ At(t, i + 1) = t[i + 1]
      BY <1>1, <1>2, <2>2 DEF At
    <3>2. CASE i = k - 1
      BY <1>1, <1>2, <3>1, <3>2
    <3>3. CASE i # k - 1
      <4>1. i + 1 \in 1 .. Len(s) /\ t[i + 1] = s[i + 1]
        <5>1. i + 1 < k /\ i + 1 \in 1 .. Len(s) /\ i + 1 \in 1 .. (Len(s) + 1)
          BY <1>1, <2>2, <3>3
        <5> QED
          BY <1>2, <5>1
      <4> QED
        <5>1. r.next[t[i]] = l.next[s[i]]
          BY <3>1, <3>3
        <5>2. l.next[s[i]] = At(s, i + 1)
          BY <3>1 DEF Linked, Following
        <5> QED
          BY <3>1, <4>1, <5>1, <5>2 DEF At
    <3> QED
      BY <3>2, <3>3
  <2>3. CASE i > k
    <3>1. i - 1 \in 1 .. Len(s) /\ i - 1 # k - 1 /\ t[i] = s[i - 1]
      BY <1>1, <1>2, <2>3
    <3>2. r.next[t[i]] = At(s, i)
      BY <3>1 DEF Linked, Following
    <3>3. At(s, i) = At(t, i + 1)
      BY <1>1, <1>2, <2>3 DEF At
    <3> QED
      BY <3>2, <3>3
  <2> QED
    BY <1>1, <2>1, <2>2, <2>3
<1>6. \A i \in 2 .. Len(t) : r.prev[t[i]] = t[i - 1]
  <2> SUFFICES ASSUME NEW i \in 2 .. Len(t) PROVE r.prev[t[i]] = t[i - 1]
    OBVIOUS
  <2>1. CASE i = k
    BY <1>1, <1>2, <2>1
  <2>2. CASE i < k
    BY <1>1, <1>2, <2>2, SMTT(30) DEF Linked
  <2>3. CASE i = k + 1
    BY <1>1, <1>2, <2>3
  <2>4. CASE i > k + 1
    <3>1. i - 1 \in 2 .. Len(s) /\ i - 1 # k /\ t[i] = s[i - 1] /\ t[i - 1] = s[(i - 1) - 1]
      BY <1>1, <1>2, <2>4
    <3> QED
      BY <3>1 DEF Linked
  <2> QED
    BY <1>1, <2>1, <2>2, <2>3, <2>4
<1>7. \A i \in 2 .. Len(t) : r.expire[t[i - 1]] <= r.expire[t[i]]
  <2> SUFFICES ASSUME NEW i \in 2 .. Len(t) PROVE r.expire[t[i - 1]] <= r.expire[t[i]]
    OBVIOUS
  <2>1. CASE i = k
    <3>1. t[i] = f /\ t[i - 1] = s[k - 1] /\ k # 1
      BY <1>1, <1>2, <2>1
    <3> QED
      BY <3>1
  <2>2. CASE i < k
    <3>1. /\ i \in 2 .. Len(s) /\ i \in 1 .. Len(s) /\ i - 1 \in 1 .. Len(s)
          /\ t[i] = s[i] /\ t[i - 1] = s[i - 1]
      BY <1>1, <1>2, <2>2
    <3> QED
      BY <3>1 DEF Linked
  <2>3. CASE i = k + 1
    <3>1. t[i] = s[k] /\ t[i - 1] = f /\ k # Len(s) + 1
      BY <1>1, <1>2, <2>3
    <3> QED
      BY <3>1
  <2>4. CASE i > k + 1
    <3>1. i - 1 \in 2 .. Len(s) /\ t[i] = s[i - 1] /\ t[i - 1] = s[(i - 1) - 1]
      BY <1>1, <1>2, <2>4
    <3>2. i - 1 \in 1 .. Len(s) /\ (i - 1) - 1 \in 1 .. Len(s)
      BY <1>1, <3>1
    <3> QED
      BY <3>1, <3>2 DEF Linked
  <2> QED
    BY <1>1, <2>1, <2>2, <2>3, <2>4
<1> QED
  BY <1>3, <1>4, <1>5, <1>6, <1>7 DEF Linked, t

LEMMA MinIsLeast ==
  ASSUME NEW T \in SUBSET Nat, T # {}
  PROVE  Min(T) \in T /\ \A x \in T : Min(T) <= x
BY LeastMember DEF Min

(* The place of node f among the nodes of path, behind the first of them;    *)
(* and what InsertAfter makes of list l, when those are the nodes from       *)
(* lst_head on.                                                              *)
Fits(l, path, k, f) ==
  /\ k \in 2 .. (Len(path) + 1)
  /\ \A i \in 2 .. (k - 1) : ~(l.expire[f] < l.expire[path[i]])
  /\ k # Len(path) + 1 => l.expire[f] < l.expire[path[k]]

PutAt(l, r, path, k, f) ==
  LET tmp == IF k = Len(path) + 1 THEN NULL ELSE path[k]
  IN  /\ r \in Lists
      /\ r.head = l.head
      /\ r.tail = IF k = Len(path) + 1 THEN f ELSE l.tail
      /\ r.next = [l.next EXCEPT ![path[k - 1]] = f, ![f] = tmp]
      /\ r.prev = [g \in Fd |-> IF g = f THEN path[k - 1]
                                ELSE IF g = tmp THEN f ELSE l.prev[g]]
      /\ r.expire = l.expire

LEMMA InsertAfterWrites ==
  ASSUME NEW lst \in Lists, NEW f \in Fd, NEW lst_head, NEW path, path \in Seq(Fd),
         path # <<>>, Path(lst.next, lst_head) = path,
         NEW k, Fits(lst, path, k, f)
  PROVE  PutAt(lst, InsertAfter(lst, f, lst_head), path, k, f)
<1> USE DEF Fits
<1> DEFINE later == {i \in DOMAIN path \ {1} : lst.expire[f] < lst.expire[path[i]]}
           pre == IF later = {} THEN Last(path) ELSE path[Min(later) - 1]
           nxt == IF later = {} THEN NULL ELSE path[Min(later)]
           tmp == IF k = Len(path) + 1 THEN NULL ELSE path[k]
           r == [lst EXCEPT !.next = [@ EXCEPT ![pre] = f, ![f] = nxt],
                            !.prev = [g \in Fd |-> IF g = f THEN pre
                                                  ELSE IF g = nxt THEN f ELSE @[g]],
                            !.tail = IF nxt = NULL THEN f ELSE @]
<1>1. InsertAfter(lst, f, lst_head) = r
  BY ZenonT(60) DEF InsertAfter
<1>2. /\ DOMAIN path = 1 .. Len(path) /\ Len(path) \in Nat \ {0}
      /\ \A i \in 1 .. Len(path) : path[i] \in Fd
      /\ NULL \notin Fd /\ k - 1 \in 1 .. Len(path)
  BY TimerListAssumption
<1>3. pre = path[k - 1] /\ nxt = tmp
  <2>1. CASE k = Len(path) + 1
    <3>1. later = {}
      BY <1>2, <2>1
    <3> QED
      BY <1>2, <2>1, <3>1 DEF Last
  <2>2. CASE k # Len(path) + 1
    <3>1. k \in later /\ later \in SUBSET Nat
      BY <1>2, <2>2
    <3>2. \A i \in later : k <= i
      BY <1>2, <2>2
    <3>3. Min(later) = k
      <4> HIDE DEF later
      <4>1. Min(later) \in later /\ Min(later) <= k
        BY <3>1, MinIsLeast
      <4>2. k <= Min(later) /\ Min(later) \in Nat /\ k \in Nat
        BY <3>1, <3>2, <4>1
      <4> QED
        BY <4>1, <4>2
    <3> QED
      BY <2>2, <3>1, <3>3
  <2> QED
    BY <2>1, <2>2
<1> HIDE DEF pre, nxt
<1>4. /\ path[k - 1] \in Fd /\ tmp \in Fd \union {NULL}
      /\ tmp = NULL <=> k = Len(path) + 1
  BY <1>2
<1> HIDE DEF tmp
<1>5. /\ r.head = lst.head /\ r.expire = lst.expire
      /\ r.tail = IF k = Len(path) + 1 THEN f ELSE lst.tail
      /\ r.next = [lst.next EXCEPT ![path[k - 1]] = f, ![f] = tmp]
      /\ r.prev = [g \in Fd |-> IF g = f THEN path[k - 1]
                                ELSE IF g = tmp THEN f ELSE lst.prev[g]]
  BY <1>3, <1>4 DEF Lists
<1>6. r \in Lists
  <2>1. /\ [lst.next EXCEPT ![path[k - 1]] = f, ![f] = tmp] \in Pointers
        /\ [g \in Fd |-> IF g = f THEN path[k - 1] ELSE IF g = tmp THEN f ELSE lst.prev[g]]
              \in Pointers
    BY <1>4 DEF Lists, Pointers
  <2>2. (IF nxt = NULL THEN f ELSE lst.tail) \in Fd \union {NULL}
    BY DEF Lists
  <2> QED
    BY <1>3, <2>1, <2>2 DEF Lists
<1> QED
  BY <1>1, <1>5, <1>6 DEF PutAt, tmp

(* add_timer() puts the node in its place, whatever its time of expiry.      *)
LEMMA AddTimerCorrect ==
  ASSUME NEW lst, NEW s, IsList(lst, s), NEW f \in Fd, f \notin ToSet(s), NEW expire \in Nat
  PROVE  \E t : IsList(AddTimer(lst, f, expire), t) /\ ToSet(t) = ToSet(s) \union {f}
<1> DEFINE new == [lst EXCEPT !.prev[f] = NULL, !.next[f] = NULL, !.expire[f] = expire]
           one == IF new.head = NULL THEN [new EXCEPT !.head = f, !.tail = f] ELSE new
           first == [one EXCEPT !.next[f] = one.head, !.prev[one.head] = f, !.head = f]
           R == AddTimer(lst, f, expire)
<1> SUFFICES \E t : IsList(R, t) /\ ToSet(t) = ToSet(s) \union {f}
  OBVIOUS
<1>1. /\ lst \in Lists /\ Simple(s) /\ Linked(lst, s)
      /\ s \in Seq(Fd) /\ Len(s) \in Nat /\ DOMAIN s = 1 .. Len(s)
      /\ \A i \in 1 .. Len(s) : s[i] \in Fd /\ s[i] # f /\ s[i] # NULL
  BY TimerListAssumption DEF IsList, Simple, ToSet
<1>2. /\ new \in Lists /\ new.head = lst.head /\ new.tail = lst.tail
      /\ new.prev = [lst.prev EXCEPT ![f] = NULL]
      /\ new.next = [lst.next EXCEPT ![f] = NULL]
      /\ new.expire = [lst.expire EXCEPT ![f] = expire]
  BY <1>1 DEF Lists, Pointers
<1>3. R = IF expire < one.expire[one.head] THEN first ELSE InsertAfter(one, f, one.head)
  BY Zenon DEF AddTimer
<1> HIDE DEF new, R
<1>4. /\ new.expire[f] = expire /\ new.next[f] = NULL
      /\ \A g \in Fd : g # f => /\ new.expire[g] = lst.expire[g]
                               /\ new.next[g] = lst.next[g]
                               /\ new.prev[g] = lst.prev[g]
  BY <1>1, <1>2 DEF Lists, Pointers
<1>5. ASSUME NEW k \in 1 .. (Len(s) + 1), R \in Lists, Linked(R, Inserted(s, k, f))
      PROVE  \E t : IsList(R, t) /\ ToSet(t) = ToSet(s) \union {f}
  BY <1>1, <1>5, InsertedSimple DEF IsList
<1>6. CASE s = <<>>
  <2>1. lst.head = NULL
    BY <1>1, <1>6 DEF Linked, At
  <2>2. /\ one \in Lists /\ one.head = f /\ one.expire[f] = expire /\ one.next[f] = NULL
        /\ one.tail = f
    BY <1>2, <1>4, <2>1 DEF Lists
  <2> HIDE DEF one
  <2>3. R = InsertAfter(one, f, f)
    BY <1>3, <2>2
  <2>4. Path(one.next, f) = <<f>>
    <3>1. Simple(<<f>>) /\ At(<<f>>, 1) = f
      BY DEF Simple, At
    <3>2. Following(one.next, <<f>>)
      BY <2>2 DEF Following, At
    <3> QED
      BY <2>2, <3>1, <3>2, PathFollows DEF Lists, Pointers
  <2>5. /\ R \in Lists /\ R.head = f /\ R.tail = f
        /\ R.next = [one.next EXCEPT ![f] = f, ![f] = NULL]
    <3> DEFINE path == <<f>>
    <3>1. path \in Seq(Fd) /\ path # <<>> /\ Len(path) = 1 /\ path[1] = f
      OBVIOUS
    <3>2. Path(one.next, f) = path
      BY <2>4
    <3> HIDE DEF path
    <3>3. Fits(one, path, 2, f)
      BY <3>1 DEF Fits
    <3>4. PutAt(one, R, path, 2, f)
      BY <2>2, <2>3, <3>1, <3>2, <3>3, InsertAfterWrites
    <3>5. 2 = Len(path) + 1 /\ 2 - 1 = 1
      BY <3>1
    <3> QED
      BY <2>2, <3>1, <3>4, <3>5 DEF PutAt
  <2>6. R.next[f] = NULL
    BY <2>2, <2>5 DEF Lists, Pointers
  <2>7. Linked(R, Inserted(s, 1, f))
    <3>1. Len(s) = 0 /\ 1 \in 1 .. (Len(s) + 1) /\ At(s, 1) = NULL
      BY <1>6 DEF At
    <3>2. Inserts(lst, R, s, 1, f)
      BY <2>5, <2>6, <3>1 DEF Inserts
    <3> QED
      BY <1>1, <3>1, <3>2, InsertedLinks
  <2> QED
    BY <1>5, <1>6, <2>5, <2>7
<1>7. CASE s # <<>>
  <2>1. Len(s) # 0 /\ lst.head = s[1] /\ At(s, 1) = s[1] /\ 1 \in 1 .. Len(s)
    BY <1>1, <1>7 DEF Linked, At
  <2>2. one = new /\ new.head = s[1] /\ s[1] # f /\ s[1] \in Fd
    BY <1>1, <1>2, <2>1
  <2> HIDE DEF one
  <2>3. CASE expire < new.expire[s[1]]
    <3>1. R = [new EXCEPT !.next[f] = s[1], !.prev[s[1]] = f, !.head = f]
      BY <1>3, <2>2, <2>3
    <3>2. /\ R \in Lists /\ R.head = f /\ R.tail = lst.tail
          /\ R.next = [new.next EXCEPT ![f] = s[1]]
          /\ R.prev = [new.prev EXCEPT ![s[1]] = f]
          /\ R.expire = new.expire
      BY <1>2, <2>2, <3>1 DEF Lists, Pointers
    <3>3. /\ R.next[f] = s[1] /\ R.prev[s[1]] = f
          /\ \A g \in Fd : g # f => R.next[g] = lst.next[g] /\ R.expire[g] = lst.expire[g]
          /\ \A g \in Fd : g # f /\ g # s[1] => R.prev[g] = lst.prev[g]
          /\ R.expire[f] = expire
      BY <1>2, <1>4, <2>2, <3>2 DEF Lists, Pointers
    <3>4. Linked(R, Inserted(s, 1, f))
      <4>1. 1 \in 1 .. (Len(s) + 1) /\ 1 # Len(s) + 1
        BY <1>1, <2>1
      <4>2. \A i \in 1 .. Len(s) : R.next[s[i]] = IF i = 1 - 1 THEN f ELSE lst.next[s[i]]
        BY <1>1, <3>3
      <4>3. \A i \in 1 .. Len(s) : R.prev[s[i]] = IF i = 1 THEN f ELSE lst.prev[s[i]]
        BY <1>1, <2>1, <3>3 DEF Simple
      <4>4. \A i \in 1 .. Len(s) : R.expire[s[i]] = lst.expire[s[i]]
        BY <1>1, <3>3
      <4>5. R.expire[f] <= R.expire[s[1]]
        BY <1>2, <1>4, <2>2, <2>3, <3>2 DEF Lists
      <4> QED
        <5>1. Inserts(lst, R, s, 1, f)
          BY <2>1, <3>2, <3>3, <4>1, <4>2, <4>3, <4>4, <4>5 DEF Inserts
        <5> QED
          BY <1>1, <4>1, <5>1, InsertedLinks
    <3> QED
      BY <1>1, <1>5, <3>2, <3>4
  <2>4. CASE ~(expire < new.expire[s[1]])
    <3>1. R = InsertAfter(new, f, s[1])
      BY <1>3, <2>2, <2>4
    <3>2. Path(new.next, s[1]) = s
      <4>1. \A i \in 1 .. Len(s) : new.next[s[i]] = lst.next[s[i]]
        BY <1>1, <1>4
      <4>2. Following(new.next, s)
        BY <1>1, <4>1 DEF Following, Linked
      <4> QED
        BY <1>1, <1>2, <2>1, <4>2, PathFollows, ZenonT(30) DEF Lists, Pointers
    <3> DEFINE later == {i \in 2 .. Len(s) : expire < new.expire[s[i]]}
    <3>3. PICK k \in 2 .. (Len(s) + 1) :
            /\ \A i \in 2 .. (k - 1) : ~(expire < new.expire[s[i]])
            /\ k # Len(s) + 1 => expire < new.expire[s[k]]
      <4>1. CASE later = {}
        <5>1. Len(s) + 1 \in 2 .. (Len(s) + 1) /\ (Len(s) + 1) - 1 = Len(s)
          BY <1>1, <2>1
        <5> QED
          BY <4>1, <5>1
      <4>2. CASE later # {}
        <5>1. later \in SUBSET Nat
          BY <1>1
        <5>2. PICK k \in later : \A i \in later : k <= i
          <6> HIDE DEF later
          <6> QED
            BY <4>2, <5>1, LeastMember
        <5>3. k \in 2 .. (Len(s) + 1) /\ \A i \in 2 .. (k - 1) : i \in 2 .. Len(s) /\ ~(k <= i)
          BY <1>1
        <5> QED
          BY <5>2, <5>3
      <4> QED
        BY <4>1, <4>2
    <3> DEFINE tmp == IF k = Len(s) + 1 THEN NULL ELSE s[k]
    <3>4. /\ R \in Lists /\ R.head = new.head
          /\ R.tail = IF k = Len(s) + 1 THEN f ELSE new.tail
          /\ R.next = [new.next EXCEPT ![s[k - 1]] = f, ![f] = tmp]
          /\ R.prev = [g \in Fd |-> IF g = f THEN s[k - 1]
                                    ELSE IF g = tmp THEN f ELSE new.prev[g]]
          /\ R.expire = new.expire
      <4>1. Fits(new, s, k, f)
        BY <1>4, <3>3 DEF Fits
      <4>2. PutAt(new, R, s, k, f)
        BY <1>1, <1>2, <1>7, <3>1, <3>2, <4>1, InsertAfterWrites
      <4> QED
        BY <4>2 DEF PutAt
    <3>5. /\ k - 1 \in 1 .. Len(s) /\ k # 1 /\ k \in 1 .. (Len(s) + 1)
          /\ tmp = At(s, k) /\ tmp # f /\ s[k - 1] \in Fd /\ s[k - 1] # f
      BY <1>1, <2>1, TimerListAssumption DEF At
    <3>6. \A i \in 1 .. Len(s) : s[i] = tmp <=> i = k
      BY <1>1, <3>5, TimerListAssumption DEF Simple
    <3> HIDE DEF tmp
    <3>7. \A i \in 1 .. Len(s) : R.next[s[i]] = IF i = k - 1 THEN f ELSE lst.next[s[i]]
      <4> SUFFICES ASSUME NEW i \in 1 .. Len(s)
                   PROVE  R.next[s[i]] = IF i = k - 1 THEN f ELSE lst.next[s[i]]
        OBVIOUS
      <4>1. s[i] \in Fd /\ s[i] # f /\ (s[i] = s[k - 1] <=> i = k - 1)
        BY <1>1, <3>5 DEF Simple
      <4> QED
        BY <1>2, <1>4, <3>4, <3>5, <4>1 DEF Lists, Pointers
    <3>8. R.next[f] = At(s, k) /\ R.prev[f] = s[k - 1]
      BY <1>2, <3>4, <3>5 DEF Lists, Pointers
    <3>9. \A i \in 1 .. Len(s) : R.prev[s[i]] = IF i = k THEN f ELSE lst.prev[s[i]]
      BY <1>1, <1>4, <3>4, <3>6
    <3>10. \A i \in 1 .. Len(s) : R.expire[s[i]] = lst.expire[s[i]]
      BY <1>1, <1>4, <3>4
    <3>11. R.expire[s[k - 1]] <= R.expire[f]
      <4>1. ~(expire < new.expire[s[k - 1]])
        BY <2>4, <3>3, <3>5
      <4> QED
        BY <1>2, <1>4, <3>4, <3>5, <4>1 DEF Lists
    <3>12. k # Len(s) + 1 => R.expire[f] <= R.expire[s[k]]
      <4>1. k # Len(s) + 1 => s[k] \in Fd
        BY <1>1
      <4> QED
        BY <1>2, <1>4, <3>3, <3>4, <4>1 DEF Lists
    <3>13. Linked(R, Inserted(s, k, f))
      <4>1. Inserts(lst, R, s, k, f)
        BY <1>2, <3>4, <3>5, <3>7, <3>8, <3>9, <3>10, <3>11, <3>12 DEF Inserts
      <4> QED
        BY <1>1, <3>5, <4>1, InsertedLinks
    <3> QED
      BY <1>5, <3>4, <3>5, <3>13
  <2> QED
    BY <2>3, <2>4
<1> QED
  BY <1>6, <1>7

(* A node taken out from place k, and the links that make it so. *)
Removed(s, k) == [i \in 1 .. (Len(s) - 1) |-> IF i < k THEN s[i] ELSE s[i + 1]]

LEMMA RemovedSimple ==
  ASSUME NEW s, Simple(s), NEW k \in 1 .. Len(s)
  PROVE  /\ Simple(Removed(s, k)) /\ Len(Removed(s, k)) = Len(s) - 1
         /\ ToSet(Removed(s, k)) = ToSet(s) \ {s[k]}
<1> DEFINE t == Removed(s, k)
<1>1. /\ s \in Seq(Fd) /\ Len(s) \in Nat /\ DOMAIN s = 1 .. Len(s) /\ Len(s) - 1 \in Nat
      /\ \A i \in 1 .. Len(s) : s[i] \in Fd
      /\ \A i, j \in 1 .. Len(s) : s[i] = s[j] => i = j
  BY DEF Simple
<1>2. t \in [1 .. (Len(s) - 1) -> Fd]
  BY <1>1 DEF Removed
<1>3. t \in Seq(Fd) /\ Len(t) = Len(s) - 1 /\ DOMAIN t = 1 .. (Len(s) - 1)
  <2> HIDE DEF t
  <2>1. \A n \in Nat : t \in [1 .. n -> Fd] => t \in Seq(Fd) /\ Len(t) = n /\ DOMAIN t = 1 .. n
    OBVIOUS
  <2> QED
    BY <1>1, <1>2, <2>1
<1>4. \A i \in 1 .. (Len(s) - 1) : t[i] = IF i < k THEN s[i] ELSE s[i + 1]
  BY <1>1 DEF Removed
<1> HIDE DEF t
<1>5. ASSUME NEW i \in 1 .. Len(t), NEW j \in 1 .. Len(t), t[i] = t[j]
      PROVE  i = j
  BY <1>1, <1>3, <1>4, <1>5
<1>6. ToSet(t) = ToSet(s) \ {s[k]}
  <2>1. ASSUME NEW g \in ToSet(t)
        PROVE  g \in ToSet(s)
    <3>1. PICK i \in 1 .. (Len(s) - 1) : g = t[i]
      BY <1>3 DEF ToSet
    <3> QED
      BY <1>1, <1>4, <3>1 DEF ToSet
  <2>2. ASSUME NEW i \in 1 .. Len(s), s[i] # s[k]
        PROVE  s[i] \in ToSet(t)
    <3>1. CASE i < k
      BY <1>1, <1>3, <1>4, <3>1 DEF ToSet
    <3>2. CASE ~(i < k)
      <4>1. i # k
        BY <2>2
      <4>2. i - 1 \in 1 .. (Len(s) - 1) /\ ~(i - 1 < k) /\ (i - 1) + 1 = i
        BY <1>1, <3>2, <4>1
      <4>3. t[i - 1] = s[i]
        BY <1>4, <4>2
      <4> QED
        BY <1>3, <4>2, <4>3 DEF ToSet
    <3> QED
      BY <3>1, <3>2
  <2>3. s[k] \notin ToSet(t)
    <3> SUFFICES ASSUME NEW i \in 1 .. (Len(s) - 1), t[i] = s[k] PROVE FALSE
      BY <1>3 DEF ToSet
    <3> QED
      BY <1>1, <1>4
  <2>4. \A g \in ToSet(s) : g # s[k] => g \in ToSet(t)
    <3>1. \A g \in ToSet(s) : \E i \in 1 .. Len(s) : g = s[i]
      BY <1>1 DEF ToSet
    <3> QED
      BY <2>2, <3>1
  <2> QED
    BY <2>1, <2>3, <2>4
<1> QED
  BY <1>3, <1>5, <1>6 DEF Simple, t

Removes(l, r, s, k) ==
  /\ r.head = IF k = 1 THEN At(s, 2) ELSE l.head
  /\ k = Len(s) /\ k # 1 => r.tail = s[k - 1]
  /\ k # Len(s) => r.tail = l.tail
  /\ \A i \in 1 .. Len(s) :
       i # k => /\ r.next[s[i]] = IF i = k - 1 THEN At(s, k + 1) ELSE l.next[s[i]]
                /\ r.expire[s[i]] = l.expire[s[i]]
                /\ i # k + 1 => r.prev[s[i]] = l.prev[s[i]]
                /\ i = k + 1 /\ k # 1 => r.prev[s[i]] = s[k - 1]

LEMMA RemovedLinks ==
  ASSUME NEW s, Simple(s), NEW k \in 1 .. Len(s),
         NEW l, Linked(l, s), l \in Lists, NEW r, Removes(l, r, s, k)
  PROVE  Linked(r, Removed(s, k))
<1> USE DEF Removes
<1> DEFINE t == Removed(s, k)
<1>1. /\ Len(s) \in Nat \ {0} /\ Len(t) = Len(s) - 1
      /\ \A i \in 1 .. Len(s) : s[i] \in Fd
      /\ l.expire \in [Fd -> Nat]
  BY RemovedSimple DEF Simple, Lists
<1>2. \A i \in 1 .. (Len(s) - 1) : t[i] = IF i < k THEN s[i] ELSE s[i + 1]
  BY <1>1 DEF Removed
<1> HIDE DEF t
<1>3. r.head = At(t, 1)
  BY <1>1, <1>2 DEF At, Linked
<1>4. t # <<>> => r.tail = t[Len(t)]
  <2>1. CASE Len(s) = 1
    BY <1>1, <2>1 DEF t, Removed
  <2>2. CASE Len(s) # 1
    BY <1>1, <1>2, <2>2 DEF Linked
  <2> QED
    BY <2>1, <2>2
<1>5. Following(r.next, t)
  <2> SUFFICES ASSUME NEW i \in 1 .. Len(t) PROVE r.next[t[i]] = At(t, i + 1)
    BY DEF Following
  <2>1. CASE i < k
    <3>1. i \in 1 .. Len(s) /\ i # k /\ t[i] = s[i]
      BY <1>1, <1>2, <2>1
    <3>2. CASE i = k - 1
      <4>1. r.next[t[i]] = At(s, k + 1) /\ i + 1 = k
        BY <1>1, <3>1, <3>2
      <4>2. At(s, k + 1) = At(t, k)
        BY <1>1, <1>2 DEF At
      <4> QED
        BY <4>1, <4>2
    <3>3. CASE i # k - 1
      <4>1. r.next[t[i]] = At(s, i + 1)
        BY <3>1, <3>3 DEF Linked, Following
      <4>2. i + 1 < k /\ i + 1 \in 1 .. (Len(s) - 1)
        BY <1>1, <2>1, <3>3
      <4>3. At(s, i + 1) = At(t, i + 1)
        BY <1>1, <1>2, <4>2 DEF At
      <4> QED
        BY <4>1, <4>3
    <3> QED
      BY <3>2, <3>3
  <2>2. CASE ~(i < k)
    <3>1. i + 1 \in 1 .. Len(s) /\ i + 1 # k /\ i + 1 # k - 1 /\ t[i] = s[i + 1]
      BY <1>1, <1>2, <2>2
    <3>2. r.next[t[i]] = At(s, (i + 1) + 1)
      BY <3>1 DEF Linked, Following
    <3>3. At(s, (i + 1) + 1) = At(t, i + 1)
      BY <1>1, <1>2, <2>2 DEF At
    <3> QED
      BY <3>2, <3>3
  <2> QED
    BY <2>1, <2>2
<1>6. ASSUME NEW i \in 2 .. Len(t)
      PROVE  r.prev[t[i]] = t[i - 1] /\ r.expire[t[i - 1]] <= r.expire[t[i]]
  <2>1. CASE i < k
    <3>1. /\ i \in 2 .. Len(s) /\ i \in 1 .. (Len(s) - 1) /\ i \in 1 .. Len(s)
          /\ i # k /\ i # k + 1 /\ i - 1 < k /\ i - 1 # k
          /\ i - 1 \in 1 .. (Len(s) - 1) /\ i - 1 \in 1 .. Len(s)
      BY <1>1, <2>1
    <3>2. t[i] = s[i] /\ t[i - 1] = s[i - 1]
      BY <1>2, <2>1, <3>1
    <3> QED
      BY <3>1, <3>2 DEF Linked
  <2>2. CASE i = k
    <3>1. /\ k + 1 \in 2 .. Len(s) /\ k + 1 \in 1 .. Len(s) /\ k + 1 # k /\ k # 1 /\ (k + 1) - 1 = k
          /\ k - 1 \in 1 .. Len(s) /\ k - 1 # k /\ k \in 2 .. Len(s)
          /\ t[i] = s[k + 1] /\ t[i - 1] = s[k - 1]
      BY <1>1, <1>2, <2>2
    <3>2. r.prev[t[i]] = t[i - 1]
      BY <3>1
    <3>3. l.expire[s[k - 1]] <= l.expire[s[k]] /\ l.expire[s[k]] <= l.expire[s[k + 1]]
      BY <3>1 DEF Linked
    <3>4. l.expire[s[k - 1]] \in Nat /\ l.expire[s[k]] \in Nat /\ l.expire[s[k + 1]] \in Nat
      BY <1>1, <3>1
    <3>5. r.expire[t[i - 1]] = l.expire[s[k - 1]] /\ r.expire[t[i]] = l.expire[s[k + 1]]
      BY <3>1
    <3> QED
      BY <3>2, <3>3, <3>4, <3>5
  <2>3. CASE i > k
    <3>1. /\ i + 1 \in 2 .. Len(s) /\ i + 1 \in 1 .. Len(s) /\ i + 1 # k /\ i + 1 # k + 1
          /\ i \in 1 .. Len(s) /\ i # k /\ (i + 1) - 1 = i
          /\ t[i] = s[i + 1] /\ t[i - 1] = s[i]
      BY <1>1, <1>2, <2>3
    <3>2. l.prev[s[i + 1]] = s[i] /\ l.expire[s[i]] <= l.expire[s[i + 1]]
      BY <3>1 DEF Linked
    <3> QED
      BY <3>1, <3>2
  <2> QED
    BY <1>1, <2>1, <2>2, <2>3
<1> QED
  BY <1>3, <1>4, <1>5, <1>6 DEF Linked, t

LEMMA FreedFields ==
  ASSUME NEW lst \in Lists, NEW S
  PROVE  /\ Freed(lst, S) \in Lists
         /\ Freed(lst, S).head = lst.head /\ Freed(lst, S).tail = lst.tail
         /\ \A g \in Fd : g \notin S => /\ Freed(lst, S).next[g] = lst.next[g]
                                        /\ Freed(lst, S).prev[g] = lst.prev[g]
                                        /\ Freed(lst, S).expire[g] = lst.expire[g]
<1> DEFINE P == [f \in Fd |-> IF f \in S THEN NULL ELSE lst.prev[f]]
           N == [f \in Fd |-> IF f \in S THEN NULL ELSE lst.next[f]]
           E == [f \in Fd |-> IF f \in S THEN 0 ELSE lst.expire[f]]
<1>1. P \in Pointers /\ N \in Pointers
  BY DEF Lists, Pointers
<1>2. E \in [Fd -> Nat]
  BY DEF Lists
<1>3. \A g \in Fd : g \notin S => /\ P[g] = lst.prev[g] /\ N[g] = lst.next[g]
                                  /\ E[g] = lst.expire[g]
  OBVIOUS
<1>4. Freed(lst, S) = [lst EXCEPT !.prev = P, !.next = N, !.expire = E]
  BY DEF Freed, Lists
<1> HIDE DEF P, N, E
<1> QED
  BY <1>1, <1>2, <1>3, <1>4 DEF Lists

LEMMA UnlinkRemoves ==
  ASSUME NEW lst, NEW s, IsList(lst, s), NEW k \in 1 .. Len(s)
  PROVE  Unlink(lst, s[k]) \in Lists /\ Removes(lst, Unlink(lst, s[k]), s, k)
<1> DEFINE f == s[k]
           u == Unlink(lst, f)
<1>1. /\ lst \in Lists /\ Simple(s) /\ Linked(lst, s) /\ Len(s) \in Nat \ {0} /\ f \in Fd
      /\ \A i \in 1 .. Len(s) : s[i] \in Fd /\ s[i] # NULL
      /\ \A i, j \in 1 .. Len(s) : s[i] = s[j] => i = j
  BY TimerListAssumption DEF IsList, Simple
<1>2. /\ lst.head = s[1] /\ lst.tail = s[Len(s)] /\ lst.next[f] = At(s, k + 1)
      /\ k # 1 => lst.prev[f] = s[k - 1]
      /\ \A i \in 1 .. Len(s) : lst.next[s[i]] = At(s, i + 1)
      /\ 1 \in 1 .. Len(s) /\ Len(s) \in 1 .. Len(s)
  BY <1>1 DEF Linked, Following, At
<1>3. (f = lst.head <=> k = 1) /\ (f = lst.tail <=> k = Len(s))
  BY <1>1, <1>2
<1>4. /\ lst.next \in Pointers /\ lst.prev \in Pointers
      /\ lst.expire \in [Fd -> Nat]
  BY <1>1 DEF Lists
<1> SUFFICES u \in Lists /\ Removes(lst, u, s, k)
  OBVIOUS
<1>5. CASE k = 1 /\ k = Len(s)
  <2>1. u = [lst EXCEPT !.head = NULL, !.tail = NULL]
    BY <1>3, <1>5, Zenon DEF Unlink
  <2> HIDE DEF u, f
  <2>2. u \in Lists /\ u.head = NULL
    BY <1>1, <2>1 DEF Lists
  <2>3. At(s, 2) = NULL
    <3>1. Len(s) = 1 /\ 2 \notin 1 .. 1
      BY <1>5
    <3> QED
      BY <3>1 DEF At
  <2>4. \A i \in 1 .. Len(s) : i = k
    <3>1. Len(s) = 1 /\ k = 1 /\ \A i \in 1 .. 1 : i = 1
      BY <1>5
    <3> QED
      BY <3>1
  <2> QED
    BY <1>5, <2>2, <2>3, <2>4 DEF Removes
<1>6. CASE k = 1 /\ k # Len(s)
  <2>1. 2 \in 1 .. Len(s) /\ At(s, k + 1) = s[2] /\ At(s, 2) = s[2] /\ s[2] \in Fd
    BY <1>1, <1>6 DEF At
  <2>2. u = [lst EXCEPT !.head = s[2], !.prev[s[2]] = NULL]
    BY <1>2, <1>3, <1>6, <2>1, Zenon DEF Unlink
  <2> HIDE DEF u, f
  <2>3. /\ u \in Lists /\ u.head = s[2] /\ u.tail = lst.tail
        /\ u.next = lst.next /\ u.prev = [lst.prev EXCEPT ![s[2]] = NULL]
        /\ u.expire = lst.expire
    BY <1>1, <2>1, <2>2 DEF Lists, Pointers
  <2>4. \A i \in 1 .. Len(s) : i # 2 => u.prev[s[i]] = lst.prev[s[i]]
    BY <1>1, <1>4, <2>1, <2>3 DEF Pointers
  <2> QED
    BY <1>6, <2>1, <2>3, <2>4 DEF Removes
<1>7. CASE k # 1 /\ k = Len(s)
  <2>1. k - 1 \in 1 .. Len(s) /\ At(s, k + 1) = NULL /\ s[k - 1] \in Fd /\ lst.prev[f] = s[k - 1]
    BY <1>1, <1>2, <1>7 DEF At
  <2>2. u = [lst EXCEPT !.tail = s[k - 1], !.next[s[k - 1]] = NULL]
    BY <1>3, <1>7, <2>1, Zenon DEF Unlink
  <2> HIDE DEF u, f
  <2>3. /\ u \in Lists /\ u.head = lst.head /\ u.tail = s[k - 1]
        /\ u.next = [lst.next EXCEPT ![s[k - 1]] = NULL] /\ u.prev = lst.prev
        /\ u.expire = lst.expire
    BY <1>1, <2>1, <2>2 DEF Lists, Pointers
  <2>4. \A i \in 1 .. Len(s) : u.next[s[i]] = IF i = k - 1 THEN NULL ELSE lst.next[s[i]]
    BY <1>1, <1>4, <2>1, <2>3 DEF Pointers
  <2>5. \A i \in 1 .. Len(s) : i # k + 1
    BY <1>1, <1>7
  <2> QED
    BY <1>7, <2>1, <2>3, <2>4, <2>5 DEF Removes
<1>8. CASE k # 1 /\ k # Len(s)
  <2>1. /\ k - 1 \in 1 .. Len(s) /\ s[k - 1] \in Fd /\ lst.prev[f] = s[k - 1]
        /\ k + 1 \in 1 .. Len(s) /\ s[k + 1] \in Fd /\ At(s, k + 1) = s[k + 1]
    BY <1>1, <1>2, <1>8 DEF At
  <2>2. u = [lst EXCEPT !.next[s[k - 1]] = s[k + 1], !.prev[s[k + 1]] = s[k - 1]]
    BY <1>2, <1>3, <1>8, <2>1, Zenon DEF Unlink
  <2> HIDE DEF u, f
  <2>3. /\ u \in Lists /\ u.head = lst.head /\ u.tail = lst.tail
        /\ u.next = [lst.next EXCEPT ![s[k - 1]] = s[k + 1]]
        /\ u.prev = [lst.prev EXCEPT ![s[k + 1]] = s[k - 1]]
        /\ u.expire = lst.expire
    BY <1>1, <2>1, <2>2 DEF Lists, Pointers
  <2>4. \A i \in 1 .. Len(s) : u.next[s[i]] = IF i = k - 1 THEN s[k + 1] ELSE lst.next[s[i]]
    BY <1>1, <1>4, <2>1, <2>3 DEF Pointers
  <2>5. \A i \in 1 .. Len(s) : u.prev[s[i]] = IF i = k + 1 THEN s[k - 1] ELSE lst.prev[s[i]]
    BY <1>1, <1>4, <2>1, <2>3 DEF Pointers
  <2> QED
    BY <1>8, <2>1, <2>3, <2>4, <2>5 DEF Removes
<1> QED
  BY <1>5, <1>6, <1>7, <1>8

(* del_timer() takes the node out, wherever it is, and frees it.             *)
LEMMA DelTimerCorrect ==
  ASSUME NEW lst, NEW s, IsList(lst, s), NEW f \in ToSet(s)
  PROVE  \E t : IsList(DelTimer(lst, f), t) /\ ToSet(t) = ToSet(s) \ {f}
<1>1. PICK k \in 1 .. Len(s) : f = s[k]
  BY DEF ToSet, IsList, Simple
<1> DEFINE u == Unlink(lst, f)
           R == Freed(u, {f})
<1>2. lst \in Lists /\ Simple(s) /\ Linked(lst, s) /\ u \in Lists /\ Removes(lst, u, s, k)
  BY <1>1, UnlinkRemoves DEF IsList
<1> HIDE DEF u
<1>3. /\ R \in Lists /\ R.head = u.head /\ R.tail = u.tail
      /\ \A g \in Fd : g # f => /\ R.next[g] = u.next[g] /\ R.prev[g] = u.prev[g]
                               /\ R.expire[g] = u.expire[g]
  BY <1>2, FreedFields
<1> HIDE DEF R
<1>4. \A i \in 1 .. Len(s) : i # k => s[i] \in Fd /\ s[i] # f
  BY <1>1, <1>2 DEF Simple
<1>5. \A i \in 1 .. Len(s) : i # k => /\ R.next[s[i]] = u.next[s[i]]
                                      /\ R.prev[s[i]] = u.prev[s[i]]
                                      /\ R.expire[s[i]] = u.expire[s[i]]
  BY <1>3, <1>4
<1>6. Removes(lst, R, s, k)
  BY <1>2, <1>3, <1>5 DEF Removes
<1>7. Linked(R, Removed(s, k))
  BY <1>2, <1>6, RemovedLinks
<1>8. Simple(Removed(s, k)) /\ ToSet(Removed(s, k)) = ToSet(s) \ {f}
  BY <1>1, <1>2, RemovedSimple
<1>9. DelTimer(lst, f) = R
  BY DEF DelTimer, R, u
<1> QED
  BY <1>3, <1>7, <1>8, <1>9 DEF IsList

LEMMA NewTimerListCorrect == IsList(NewTimerList, <<>>) /\ ToSet(<<>>) = {}
<1>1. NewTimerList \in Lists
  BY DEF NewTimerList, Lists, Pointers
<1>2. Simple(<<>>) /\ ToSet(<<>>) = {}
  BY DEF Simple, ToSet
<1>3. Linked(NewTimerList, <<>>)
  BY DEF Linked, Following, At, NewTimerList
<1> QED
  BY <1>1, <1>2, <1>3 DEF IsList

LEMMA AgedCorrect ==
  ASSUME NEW lst, NEW s, IsList(lst, s)
  PROVE  IsList(Aged(lst), s)
<1> DEFINE E == [f \in Fd |-> IF lst.expire[f] = 0 THEN 0 ELSE lst.expire[f] - 1]
<1>1. lst \in Lists /\ Simple(s) /\ Linked(lst, s)
  BY DEF IsList
<1>2. Aged(lst) = [lst EXCEPT !.expire = E]
  BY <1>1 DEF Aged, Lists
<1>3. lst.expire \in [Fd -> Nat] /\ E \in [Fd -> Nat]
  BY <1>1 DEF Lists
<1>4. \A f, g \in Fd : lst.expire[f] <= lst.expire[g] => E[f] <= E[g]
  BY <1>3
<1> HIDE DEF E
<1>5. /\ Aged(lst) \in Lists /\ Aged(lst).head = lst.head /\ Aged(lst).tail = lst.tail
      /\ Aged(lst).next = lst.next /\ Aged(lst).prev = lst.prev /\ Aged(lst).expire = E
  BY <1>1, <1>2, <1>3 DEF Lists
<1>6. ASSUME NEW i \in 2 .. Len(s)
      PROVE  E[s[i - 1]] <= E[s[i]]
  <2>1. s[i - 1] \in Fd /\ s[i] \in Fd
    BY <1>1 DEF Simple
  <2> QED
    BY <1>1, <1>4, <2>1 DEF Linked
<1> QED
  BY <1>1, <1>5, <1>6 DEF IsList, Linked

(* The nodes behind the first m. *)
Behind(s, m) == [i \in 1 .. (Len(s) - m) |-> s[i + m]]

LEMMA BehindSimple ==
  ASSUME NEW s, Simple(s), NEW m \in 0 .. Len(s)
  PROVE  /\ Simple(Behind(s, m)) /\ Len(Behind(s, m)) = Len(s) - m
         /\ ToSet(Behind(s, m)) = ToSet(s) \ {s[i] : i \in 1 .. m}
<1> DEFINE t == Behind(s, m)
<1>1. /\ s \in Seq(Fd) /\ Len(s) \in Nat /\ DOMAIN s = 1 .. Len(s) /\ Len(s) - m \in Nat
      /\ \A i \in 1 .. Len(s) : s[i] \in Fd
      /\ \A i, j \in 1 .. Len(s) : s[i] = s[j] => i = j
  BY DEF Simple
<1>2. t \in [1 .. (Len(s) - m) -> Fd]
  BY <1>1 DEF Behind
<1>3. t \in Seq(Fd) /\ Len(t) = Len(s) - m /\ DOMAIN t = 1 .. (Len(s) - m)
  <2> HIDE DEF t
  <2>1. \A n \in Nat : t \in [1 .. n -> Fd] => t \in Seq(Fd) /\ Len(t) = n /\ DOMAIN t = 1 .. n
    OBVIOUS
  <2> QED
    BY <1>1, <1>2, <2>1
<1>4. \A i \in 1 .. (Len(s) - m) : t[i] = s[i + m]
  BY <1>1 DEF Behind
<1> HIDE DEF t
<1>5. ASSUME NEW i \in 1 .. Len(t), NEW j \in 1 .. Len(t), t[i] = t[j]
      PROVE  i = j
  BY <1>1, <1>3, <1>4, <1>5
<1>6. \A i \in 1 .. (Len(s) - m) : i + m \in 1 .. Len(s) /\ i + m \notin 1 .. m
  BY <1>1
<1>7. ASSUME NEW g \in ToSet(t)
      PROVE  g \in ToSet(s) \ {s[i] : i \in 1 .. m}
  <2>1. PICK i \in 1 .. (Len(s) - m) : g = s[i + m]
    BY <1>3, <1>4 DEF ToSet
  <2>2. \A j \in 1 .. m : j \in 1 .. Len(s) /\ j # i + m
    BY <1>1, <1>6
  <2> QED
    BY <1>1, <1>6, <2>1, <2>2 DEF ToSet
<1>8. ASSUME NEW g \in ToSet(s), g \notin {s[i] : i \in 1 .. m}
      PROVE  g \in ToSet(t)
  <2>1. PICK i \in 1 .. Len(s) : g = s[i]
    BY <1>1 DEF ToSet
  <2>2. i - m \in 1 .. (Len(s) - m) /\ (i - m) + m = i
    <3>1. i \notin 1 .. m
      BY <1>8, <2>1
    <3> QED
      BY <1>1, <3>1
  <2>3. t[i - m] = g
    BY <1>4, <2>1, <2>2
  <2> QED
    BY <1>3, <2>2, <2>3 DEF ToSet
<1> QED
  BY <1>3, <1>5, <1>7, <1>8 DEF Simple, t

(* The links from list l to r, when the first m nodes are gone. *)
Drops(l, r, s, m) ==
  /\ r.head = At(s, m + 1) /\ r.tail = l.tail
  /\ \A i \in (m + 1) .. Len(s) : r.next[s[i]] = l.next[s[i]] /\ r.expire[s[i]] = l.expire[s[i]]
  /\ \A i \in (m + 2) .. Len(s) : r.prev[s[i]] = l.prev[s[i]]

LEMMA BehindLinks ==
  ASSUME NEW s, Simple(s), NEW m \in 0 .. Len(s),
         NEW l, Linked(l, s), NEW r, Drops(l, r, s, m)
  PROVE  Linked(r, Behind(s, m))
<1> DEFINE t == Behind(s, m)
<1>1. Len(s) \in Nat /\ Len(t) = Len(s) - m
  BY BehindSimple DEF Simple
<1>2. \A i \in 1 .. (Len(s) - m) : t[i] = s[i + m]
  BY <1>1 DEF Behind
<1> HIDE DEF t
<1>3. r.head = At(t, 1)
  BY <1>1, <1>2 DEF At, Drops
<1>4. t # <<>> => r.tail = t[Len(t)]
  <2>1. CASE m = Len(s)
    BY <1>1, <2>1 DEF t, Behind
  <2>2. CASE m # Len(s)
    <3>1. Len(s) - m \in 1 .. (Len(s) - m) /\ (Len(s) - m) + m = Len(s) /\ Len(s) # 0
      BY <1>1, <2>2
    <3> QED
      BY <1>1, <1>2, <3>1 DEF Linked, Drops
  <2> QED
    BY <2>1, <2>2
<1>5. Following(r.next, t)
  <2> SUFFICES ASSUME NEW i \in 1 .. Len(t) PROVE r.next[t[i]] = At(t, i + 1)
    BY DEF Following
  <2>1. i + m \in 1 .. Len(s) /\ i + m \in (m + 1) .. Len(s) /\ t[i] = s[i + m]
    BY <1>1, <1>2
  <2>2. r.next[t[i]] = At(s, (i + m) + 1)
    BY <2>1 DEF Linked, Following, Drops
  <2>3. At(s, (i + m) + 1) = At(t, i + 1)
    BY <1>1, <1>2 DEF At
  <2> QED
    BY <2>2, <2>3
<1>6. ASSUME NEW i \in 2 .. Len(t)
      PROVE  r.prev[t[i]] = t[i - 1] /\ r.expire[t[i - 1]] <= r.expire[t[i]]
  <2>1. /\ i + m \in 2 .. Len(s) /\ i + m \in (m + 1) .. Len(s) /\ i + m \in (m + 2) .. Len(s)
        /\ (i - 1) + m = (i + m) - 1 /\ (i + m) - 1 \in (m + 1) .. Len(s)
        /\ i \in 1 .. (Len(s) - m) /\ i - 1 \in 1 .. (Len(s) - m)
    BY <1>1
  <2>2. t[i] = s[i + m] /\ t[i - 1] = s[(i + m) - 1]
    BY <1>2, <2>1
  <2> QED
    BY <2>1, <2>2 DEF Linked, Drops
<1> QED
  BY <1>3, <1>4, <1>5, <1>6 DEF Linked, t

(* tick() takes the nodes that have expired from the front. *)
LEMMA UnlinkDueCorrect ==
  ASSUME NEW lst, NEW s, IsList(lst, s)
  PROVE  /\ Due(lst, 0) \subseteq ToSet(s)
         /\ \E t : /\ IsList(UnlinkDue(lst, Due(lst, 0)), t)
                   /\ ToSet(t) = ToSet(s) \ Due(lst, 0)
<1> DEFINE due == Due(lst, 0)
           R == UnlinkDue(lst, due)
           J == {j \in 1 .. Len(s) : \A i \in 1 .. j : lst.expire[s[i]] <= 0}
           K == (1 .. Len(s)) \ J
<1>1. /\ lst \in Lists /\ Simple(s) /\ Linked(lst, s) /\ Nodes(lst) = s
      /\ s \in Seq(Fd) /\ Len(s) \in Nat /\ DOMAIN s = 1 .. Len(s)
      /\ \A i \in 1 .. Len(s) : s[i] \in Fd
      /\ \A i, j \in 1 .. Len(s) : s[i] = s[j] => i = j
  BY NodesOfList DEF IsList, Simple
<1>2. due = {s[i] : i \in J}
  BY <1>1, Zenon DEF Due
<1>3. PICK m \in 0 .. Len(s) : J = 1 .. m
  <2>1. CASE K = {}
    <3>1. J = 1 .. Len(s) /\ Len(s) \in 0 .. Len(s)
      BY <1>1, <2>1
    <3> QED
      BY <3>1
  <2>2. CASE K # {}
    <3>1. PICK k \in K : \A i \in K : k <= i
      <4>1. K \in SUBSET Nat
        BY <1>1
      <4> HIDE DEF K
      <4> QED
        BY <2>2, <4>1, LeastMember
    <3>2. k \in 1 .. Len(s) /\ k - 1 \in 0 .. Len(s)
      BY <1>1, <3>1
    <3>3. ASSUME NEW j \in 1 .. Len(s)
          PROVE  j \in J <=> j <= k - 1
      <4>1. CASE j <= k - 1
        BY <3>1, <3>2, <4>1
      <4>2. CASE ~(j <= k - 1)
        <5>1. PICK i \in 1 .. k : ~(lst.expire[s[i]] <= 0)
          BY <3>1
        <5>2. i \in 1 .. j
          BY <3>2, <4>2, <5>1
        <5> QED
          BY <4>2, <5>1, <5>2
      <4> QED
        BY <4>1, <4>2
    <3>4. J = 1 .. (k - 1)
      BY <3>2, <3>3
    <3> QED
      BY <3>2, <3>4
  <2> QED
    BY <2>1, <2>2
<1> HIDE DEF J
<1>4. due = {s[i] : i \in 1 .. m} /\ due \subseteq ToSet(s)
  <2>1. due = {s[i] : i \in 1 .. m}
    BY <1>2, <1>3
  <2>2. \A i \in 1 .. m : i \in 1 .. Len(s)
    BY <1>1
  <2> QED
    BY <1>1, <2>1, <2>2 DEF ToSet
<1>5. \A i \in 1 .. Len(s) : s[i] \in due <=> i <= m
  <2> SUFFICES ASSUME NEW i \in 1 .. Len(s) PROVE s[i] \in due <=> i <= m
    OBVIOUS
  <2>1. \A j \in 1 .. m : j \in 1 .. Len(s)
    BY <1>1
  <2>2. i <= m => i \in 1 .. m
    OBVIOUS
  <2>3. i \in 1 .. m => i <= m
    OBVIOUS
  <2> QED
    BY <1>1, <1>4, <2>1, <2>2, <2>3
<1> DEFINE left == {i \in DOMAIN s : s[i] \notin due}
<1>6. R = IF due = {} THEN lst
          ELSE IF left = {} THEN Freed([lst EXCEPT !.head = NULL], due)
          ELSE Freed([lst EXCEPT !.head = s[Min(left)], !.prev[s[Min(left)]] = NULL], due)
  <2> DEFINE out == {i \in DOMAIN Nodes(lst) : Nodes(lst)[i] \notin due}
             first == Nodes(lst)[Min(out)]
  <2>1. R = IF due = {} THEN lst
            ELSE IF out = {} THEN Freed([lst EXCEPT !.head = NULL], due)
            ELSE Freed([lst EXCEPT !.head = first, !.prev[first] = NULL], due)
    BY Zenon DEF UnlinkDue
  <2>2. out = left /\ first = s[Min(left)]
    BY <1>1
  <2> QED
    BY <2>1, <2>2
<1> SUFFICES \E t : IsList(R, t) /\ ToSet(t) = ToSet(s) \ due
  BY <1>4
<1> HIDE DEF due, R
<1>7. ASSUME R \in Lists, Drops(lst, R, s, m)
      PROVE  \E t : IsList(R, t) /\ ToSet(t) = ToSet(s) \ due
  <2>1. Linked(R, Behind(s, m))
    BY <1>1, <1>7, BehindLinks
  <2>2. Simple(Behind(s, m)) /\ ToSet(Behind(s, m)) = ToSet(s) \ {s[i] : i \in 1 .. m}
    <3>1. m \in 0 .. Len(s) /\ Simple(s)
      BY <1>1, <1>3
    <3> QED
      BY <3>1, BehindSimple
  <2> QED
    BY <1>4, <1>7, <2>1, <2>2 DEF IsList
<1>8. CASE due = {}
  <2>1. R = lst
    BY <1>6, <1>8
  <2> QED
    BY <1>1, <1>8, <2>1 DEF IsList
<1>9. CASE due # {} /\ left = {}
  <2>1. m = Len(s)
    <3>1. \A i \in 1 .. Len(s) : i <= m
      BY <1>1, <1>5, <1>9
    <3> HIDE DEF left
    <3>2. Len(s) # 0 => Len(s) <= m
      BY <1>1, <3>1
    <3> QED
      <4>1. Len(s) \in Nat /\ m \in 0 .. Len(s)
        BY <1>1, <1>3
      <4> QED
        BY <3>2, <4>1
  <2> DEFINE l == [lst EXCEPT !.head = NULL]
  <2>2. l \in Lists /\ l.head = NULL /\ l.tail = lst.tail
    BY <1>1 DEF Lists
  <2>3. R = Freed(l, due)
    BY <1>6, <1>9
  <2> HIDE DEF l
  <2>4. R \in Lists /\ R.head = NULL /\ R.tail = lst.tail
    BY <2>2, <2>3, FreedFields
  <2>5. Drops(lst, R, s, m)
    <3>1. At(s, m + 1) = NULL /\ (m + 1) .. Len(s) = {} /\ (m + 2) .. Len(s) = {}
      BY <1>1, <2>1 DEF At
    <3> QED
      BY <2>4, <3>1 DEF Drops
  <2> QED
    BY <1>7, <2>4, <2>5
<1>10. CASE due # {} /\ left # {}
  <2>1. m + 1 \in left /\ \A i \in left : m + 1 <= i
    BY <1>1, <1>5, <1>10
  <2>2. Min(left) = m + 1
    <3>1. left \in SUBSET Nat
      BY <1>1
    <3> HIDE DEF left
    <3>2. Min(left) \in left /\ Min(left) <= m + 1
      BY <2>1, <3>1, MinIsLeast
    <3>3. m + 1 <= Min(left) /\ Min(left) \in Nat /\ m + 1 \in Nat
      BY <2>1, <3>1, <3>2
    <3> QED
      BY <3>2, <3>3
  <2> DEFINE f == s[m + 1]
             l == [lst EXCEPT !.head = f, !.prev[f] = NULL]
  <2>3. m + 1 \in 1 .. Len(s) /\ f \in Fd /\ At(s, m + 1) = f
    BY <1>1, <2>1 DEF At
  <2>4. R = Freed(l, due)
    BY <1>6, <1>10, <2>2
  <2> HIDE DEF f
  <2>5. /\ l \in Lists /\ l.head = f /\ l.tail = lst.tail /\ l.next = lst.next
        /\ l.expire = lst.expire /\ l.prev = [lst.prev EXCEPT ![f] = NULL]
    BY <1>1, <2>3 DEF Lists, Pointers
  <2> HIDE DEF l
  <2>6. /\ R \in Lists /\ R.head = f /\ R.tail = lst.tail
        /\ \A g \in Fd : g \notin due => /\ R.next[g] = lst.next[g]
                                         /\ R.prev[g] = l.prev[g]
                                         /\ R.expire[g] = lst.expire[g]
    <3> DEFINE F == Freed(l, due)
    <3>1. l \in Lists
      BY <2>5
    <3>2. /\ F \in Lists /\ F.head = l.head /\ F.tail = l.tail
          /\ \A g \in Fd : g \notin due => /\ F.next[g] = l.next[g]
                                           /\ F.prev[g] = l.prev[g]
                                           /\ F.expire[g] = l.expire[g]
      BY <3>1, FreedFields
    <3> HIDE DEF F
    <3>3. R = F
      BY <2>4 DEF F
    <3> QED
      BY <2>5, <3>2, <3>3
  <2>7. \A i \in (m + 1) .. Len(s) : i \in 1 .. Len(s) /\ s[i] \notin due
    BY <1>1, <1>5
  <2>8. ASSUME NEW i \in (m + 2) .. Len(s)
        PROVE  R.prev[s[i]] = lst.prev[s[i]]
    <3>1. i \in (m + 1) .. Len(s) /\ i # m + 1
      BY <1>1
    <3>2. s[i] # f /\ s[i] \in Fd /\ s[i] \notin due
      BY <1>1, <2>3, <2>7, <3>1 DEF f
    <3> QED
      BY <1>1, <2>5, <2>6, <3>2 DEF Lists, Pointers
  <2>9. Drops(lst, R, s, m)
    BY <1>1, <2>3, <2>6, <2>7, <2>8 DEF Drops
  <2> QED
    BY <1>7, <2>6, <2>9
<1> QED
  BY <1>8, <1>9, <1>10

(* The list holds the nodes of S: what its operations do to that set.        *)
Listed(lst, S) == \E s : IsList(lst, s) /\ ToSet(s) = S

LEMMA ListedNew == Listed(NewTimerList, {})
BY NewTimerListCorrect DEF Listed

LEMMA ListedAdd ==
  ASSUME NEW lst, NEW S, Listed(lst, S), NEW f \in Fd \ S, NEW expire \in Nat
  PROVE  Listed(AddTimer(lst, f, expire), S \union {f})
<1>1. PICK s : IsList(lst, s) /\ ToSet(s) = S
  BY DEF Listed
<1>2. \E t : IsList(AddTimer(lst, f, expire), t) /\ ToSet(t) = ToSet(s) \union {f}
  BY <1>1, AddTimerCorrect
<1> QED
  BY <1>1, <1>2 DEF Listed

LEMMA ListedDel ==
  ASSUME NEW lst, NEW S, Listed(lst, S), NEW f \in S
  PROVE  Listed(DelTimer(lst, f), S \ {f})
<1>1. PICK s : IsList(lst, s) /\ ToSet(s) = S
  BY DEF Listed
<1>2. \E t : IsList(DelTimer(lst, f), t) /\ ToSet(t) = ToSet(s) \ {f}
  BY <1>1, DelTimerCorrect
<1> QED
  BY <1>1, <1>2 DEF Listed

LEMMA ListedDue ==
  ASSUME NEW lst, NEW S, Listed(lst, S)
  PROVE  /\ Due(Aged(lst), 0) \subseteq S
         /\ Listed(UnlinkDue(Aged(lst), Due(Aged(lst), 0)), S \ Due(Aged(lst), 0))
<1>1. PICK s : IsList(lst, s) /\ ToSet(s) = S
  BY DEF Listed
<1>2. IsList(Aged(lst), s)
  BY <1>1, AgedCorrect
<1> DEFINE aged == Aged(lst)
<1>3. /\ Due(aged, 0) \subseteq ToSet(s)
      /\ \E t : IsList(UnlinkDue(aged, Due(aged, 0)), t) /\ ToSet(t) = ToSet(s) \ Due(aged, 0)
  BY <1>2, UnlinkDueCorrect
<1> QED
  BY <1>1, <1>3 DEF Listed

LEMMA ListedIsWellLinked ==
  ASSUME NEW lst, NEW S, Listed(lst, S)
  PROVE  WellLinked(lst) /\ ToSet(Nodes(lst)) = S
<1>1. PICK s : IsList(lst, s) /\ ToSet(s) = S
  BY DEF Listed
<1> QED
  BY <1>1, NodesOfList

----------------------------------------------------------------------------
(* Every variable has its type. *)
LEMMA AcceptedIsNat ==
  ASSUME conn \in [Fd -> Nat], Fd # {}
  PROVE  Accepted \in Nat
<1> DEFINE numbers == {conn[f] : f \in Fd}
<1>1. IsFiniteSet(numbers)
  <2>1. conn \in Surjection(Fd, numbers)
    BY DEF Surjection
  <2> HIDE DEF numbers
  <2> QED
    BY <2>1, TimerListAssumption, FS_Surjection
<1>2. numbers \in SUBSET Nat /\ numbers # {}
  OBVIOUS
<1>3. Max(numbers) \in numbers
  <2> HIDE DEF numbers
  <2> QED
    BY <1>1, <1>2, GreatestMember
<1> QED
  BY <1>2, <1>3 DEF Accepted

LEMMA IdleOK ==
  /\ Idle \in [at : Places, fd : Fd \union {NULL}, to : Nat]
  /\ Idle.at = "wait" /\ Idle.at \notin Steps
BY DEF Idle, Places, Steps, NULL

(* A worker goes on to another place, with a connection or without. *)
LEMMA WorkerMoves ==
  ASSUME WorkersOK, NEW w \in Worker,
         NEW v \in [at : Places, fd : Fd \union {NULL}, to : Nat],
         v.at \in Steps => v.fd \in Fd,
         worker' = [worker EXCEPT ![w] = v]
  PROVE  WorkersOK'
BY DEF WorkersOK

LEMMA GotoMoves ==
  ASSUME WorkersOK, NEW w \in Worker, NEW at \in Places, Goto(w, at)
  PROVE  worker' = [worker EXCEPT ![w] = [at |-> at, fd |-> worker[w].fd, to |-> worker[w].to]]
<1> DEFINE v == [at |-> at, fd |-> worker[w].fd, to |-> worker[w].to]
<1>1. worker[w] \in [at : Places, fd : Fd \union {NULL}, to : Nat]
  BY DEF WorkersOK
<1>2. [worker[w] EXCEPT !.at = at] = v
  BY <1>1
<1>3. worker \in [Worker -> [at : Places, fd : Fd \union {NULL}, to : Nat]]
  BY DEF WorkersOK
<1>4. worker' = [u \in Worker |-> IF u = w THEN [worker[w] EXCEPT !.at = at] ELSE worker[u]]
  BY <1>3 DEF Goto
<1>5. worker' = [u \in Worker |-> IF u = w THEN v ELSE worker[u]]
  BY <1>2, <1>4
<1> QED
  BY <1>3, <1>5

(* process_read() leaves with a request, or without. *)
LEMMA ReadMoves ==
  ASSUME WorkersOK, NEW w \in Worker, NEW f \in Fd, f = worker[w].fd,
         \E whole \in {FALSE, unparsed[f]} : ProcessRead(w, whole)
  PROVE  \/ worker' = [worker EXCEPT ![w] =
                        [at |-> "process_write", fd |-> f, to |-> conn[f]]]
         \/ worker' = [worker EXCEPT ![w] =
                        [at |-> "modfd IN", fd |-> f, to |-> worker[w].to]]
<1>1. PICK whole \in {FALSE, unparsed[f]} : ProcessRead(w, whole)
  OBVIOUS
<1>2. CASE whole
  BY <1>1, <1>2 DEF ProcessRead, WorkersOK
<1>3. CASE ~whole
  BY <1>1, <1>3, GotoMoves DEF ProcessRead, Places, Steps
<1> QED
  BY <1>2, <1>3

LEMMA TypeStep == ASSUME TypeOK, [Next]_vars PROVE TypeOK'
<1> USE DEF TypeOK
<1>1. ASSUME NEW f \in Fd, Accept(f)
      PROVE  TypeOK'
  <2>1. Accepted + 1 \in Nat
    BY AcceptedIsNat DEF SocketsOK
  <2>2. SocketsOK'
    BY <1>1, <2>1 DEF Accept, SocketsOK
  <2>3. BuffersOK'
    BY <1>1 DEF Accept, InitConn, BuffersOK
  <2>4. UNCHANGED <<queueVars, worker, historyVars>>
    BY <1>1 DEF Accept
  <2> QED
    BY <2>2, <2>3, <2>4 DEF queueVars, historyVars, QueueOK, WorkersOK
<1>2. ASSUME NEW f \in Fd, EndConn(f)
      PROVE  SocketsOK'
  BY <1>2 DEF EndConn, CloseConns, SocketsOK
<1>3. ASSUME NEW f \in Fd, EventHup(f)
      PROVE  TypeOK'
  <2>1. EndConn(f) /\ UNCHANGED <<bufferVars, queueVars, worker, historyVars>>
    BY <1>3 DEF EventHup
  <2> QED
    BY <1>2, <2>1 DEF bufferVars, queueVars, historyVars, BuffersOK, QueueOK, WorkersOK
<1>4. ASSUME NEW f \in Fd, EventIn(f)
      PROVE  TypeOK'
  <2>1. UNCHANGED <<output, linger, worker, answers>>
    BY <1>4 DEF EventIn
  <2>2. CASE ReadRequest(f)
    <3>1. SocketsOK' /\ BuffersOK'
      BY <2>1, <2>2 DEF ReadRequest, SocketsOK, BuffersOK
    <3>2. AppendRequest(f)
      BY <2>2 DEF ReadRequest
    <3>3. QueueOK'
      <4>1. CASE UNCHANGED queueVars
        BY <4>1 DEF queueVars, QueueOK
      <4>2. CASE m_workqueue' = Append(m_workqueue, f) /\ m_queuestat' = m_queuestat + 1
        BY <4>2 DEF QueueOK
      <4> QED
        BY <3>2, <4>1, <4>2 DEF AppendRequest
    <3> QED
      BY <2>1, <3>1, <3>3 DEF WorkersOK
  <2>3. CASE EndConn(f) /\ UNCHANGED <<unparsed, queueVars, turnedAway>>
    BY <1>2, <2>1, <2>3 DEF queueVars, BuffersOK, QueueOK, WorkersOK
  <2> QED
    BY <1>4, <2>2, <2>3 DEF EventIn
<1>5. ASSUME NEW f \in Fd, EventOut(f)
      PROVE  TypeOK'
  <2>1. UNCHANGED <<queueVars, worker>>
    BY <1>5 DEF EventOut
  <2>2. QueueOK' /\ WorkersOK'
    BY <2>1 DEF queueVars, QueueOK, WorkersOK
  <2>3. ASSUME InitConn(f), Modfd(f, "IN"), UNCHANGED <<conn, open, peer>>
        PROVE  SocketsOK' /\ BuffersOK'
    BY <2>3 DEF InitConn, Modfd, SocketsOK, BuffersOK
  <2>4. ASSUME EndConn(f), UNCHANGED bufferVars
        PROVE  SocketsOK' /\ BuffersOK'
    BY <1>2, <2>4 DEF bufferVars, BuffersOK
  <2>5. CASE output[f] = <<>> /\ InitConn(f) /\ Modfd(f, "IN")
             /\ UNCHANGED <<conn, open, peer, timer_lst, m_user_count, answers>>
    BY <2>2, <2>3, <2>5
  <2>6. CASE EndConn(f) /\ UNCHANGED <<bufferVars, answers>>
    BY <2>2, <2>4, <2>6
  <2>7. CASE WriteDone(f)
    <3>1. answers' \subseteq Nat \X Nat
      BY <2>7 DEF WriteDone, SocketsOK, BuffersOK
    <3>2. SocketsOK' /\ BuffersOK'
      BY <2>3, <2>4, <2>7 DEF WriteDone
    <3> QED
      BY <2>2, <3>1, <3>2
  <2> QED
    BY <1>5, <2>5, <2>6, <2>7 DEF EventOut
<1>6. CASE TimerHandler
  <2>1. SocketsOK'
    BY <1>6 DEF TimerHandler, CloseConns, SocketsOK
  <2>2. UNCHANGED <<bufferVars, queueVars, worker, answers>>
    BY <1>6 DEF TimerHandler
  <2> QED
    BY <2>1, <2>2 DEF bufferVars, queueVars, BuffersOK, QueueOK, WorkersOK
<1>7. ASSUME NEW w \in Worker, Wait(w)
      PROVE  TypeOK'
  <2>1. Woken = [at |-> "woken", fd |-> 0, to |-> 0]
    BY DEF Woken, Idle
  <2>2. WorkersOK'
    <3>1. worker' = [worker EXCEPT ![w] = Woken]
      BY <1>7 DEF Wait
    <3>2. /\ Woken \in [at : Places, fd : Fd \union {NULL}, to : Nat]
          /\ Woken.at \notin Steps
      BY <2>1 DEF Places, Steps, NULL
    <3> QED
      BY <3>1, <3>2, WorkerMoves
  <2>3. UNCHANGED <<socketVars, bufferVars, m_workqueue, answers>> /\ QueueOK'
    BY <1>7 DEF Wait, historyVars, QueueOK
  <2> QED
    BY <2>2, <2>3 DEF socketVars, bufferVars, SocketsOK, BuffersOK
<1>8. ASSUME NEW w \in Worker, Take(w)
      PROVE  TypeOK'
  <2>1. UNCHANGED <<socketVars, bufferVars, m_queuestat, answers>>
    BY <1>8 DEF Take, historyVars
  <2>2. CASE m_workqueue = <<>>
    <3>1. WorkersOK'
      <4>1. worker' = [worker EXCEPT ![w] = Idle]
        BY <1>8, <2>2 DEF Take
      <4> QED
        BY <4>1, IdleOK, WorkerMoves
    <3> QED
      BY <1>8, <2>1, <2>2, <3>1
         DEF Take, socketVars, bufferVars, SocketsOK, BuffersOK, QueueOK
  <2>3. CASE m_workqueue # <<>>
    <3>1. Head(m_workqueue) \in Fd /\ Tail(m_workqueue) \in Seq(Fd)
      BY <2>3 DEF QueueOK
    <3>2. WorkersOK'
      <4> DEFINE v == [at |-> "process_read", fd |-> Head(m_workqueue), to |-> 0]
      <4>1. worker' = [worker EXCEPT ![w] = v]
        BY <1>8, <2>3 DEF Take
      <4>2. v \in [at : Places, fd : Fd \union {NULL}, to : Nat]
        BY <3>1 DEF Places, Steps
      <4> QED
        BY <3>1, <4>1, <4>2, WorkerMoves
    <3> QED
      BY <1>8, <2>1, <2>3, <3>1, <3>2
         DEF Take, socketVars, bufferVars, SocketsOK, BuffersOK, QueueOK
  <2> QED
    BY <2>2, <2>3
<1>9. ASSUME NEW w \in Worker, RunProcessRead(w)
      PROVE  TypeOK'
  <2>1. worker[w].fd \in Fd
    BY <1>9 DEF RunProcessRead, WorkersOK, Steps
  <2>2. linger' \in [Fd -> BOOLEAN]
    BY <1>9, <2>1, Zenon DEF RunProcessRead, BuffersOK
  <2>3. UNCHANGED <<socketVars, unparsed, output, queueVars, answers>>
    BY <1>9 DEF RunProcessRead, historyVars
  <2>4. WorkersOK'
    <3> DEFINE f == worker[w].fd
               u == [at |-> "process_write", fd |-> f, to |-> conn[f]]
               v == [at |-> "modfd IN", fd |-> f, to |-> worker[w].to]
    <3>1. worker' = [worker EXCEPT ![w] = u] \/ worker' = [worker EXCEPT ![w] = v]
      <4>1. \E whole \in {FALSE, unparsed[f]} : ProcessRead(w, whole)
        BY <1>9 DEF RunProcessRead
      <4> QED
        BY <2>1, <4>1, ReadMoves
    <3>2. /\ u \in [at : Places, fd : Fd \union {NULL}, to : Nat]
          /\ v \in [at : Places, fd : Fd \union {NULL}, to : Nat]
      BY <2>1 DEF SocketsOK, WorkersOK, Places, Steps
    <3> QED
      BY <2>1, <3>1, <3>2, WorkerMoves
  <2> QED
    BY <2>2, <2>3, <2>4 DEF socketVars, queueVars, SocketsOK, BuffersOK, QueueOK
<1>10. ASSUME NEW w \in Worker, ProcessWrite(w)
       PROVE  TypeOK'
  <2>1. worker[w].fd \in Fd /\ worker[w].to \in Nat
    BY <1>10 DEF ProcessWrite, WorkersOK, Steps
  <2>2. BuffersOK'
    <3>1. Append(output[worker[w].fd], worker[w].to) \in Seq(Nat)
      BY <2>1 DEF BuffersOK
    <3>2. /\ output' = [output EXCEPT ![worker[w].fd] = Append(@, worker[w].to)]
          /\ UNCHANGED <<unparsed, linger>>
      BY <1>10 DEF ProcessWrite
    <3> QED
      BY <2>1, <3>1, <3>2 DEF BuffersOK
  <2> DEFINE v == [at |-> "modfd OUT", fd |-> worker[w].fd, to |-> worker[w].to]
  <2>3. worker' = [worker EXCEPT ![w] = v]
    BY <1>10, GotoMoves DEF ProcessWrite, Places, Steps
  <2>4. v \in [at : Places, fd : Fd \union {NULL}, to : Nat]
    BY <2>1 DEF Places, Steps
  <2>5. WorkersOK'
    BY <2>1, <2>3, <2>4, WorkerMoves
  <2> QED
    BY <1>10, <2>2, <2>5
       DEF ProcessWrite, socketVars, queueVars, historyVars, SocketsOK, QueueOK
<1>11. ASSUME NEW w \in Worker, NEW ev \in {"IN", "OUT"}, EndProcess(w, ev)
       PROVE  TypeOK'
  <2>1. WorkersOK'
    <3>1. worker' = [worker EXCEPT ![w] = Idle]
      BY <1>11 DEF EndProcess
    <3> QED
      BY <3>1, IdleOK, WorkerMoves
  <2>2. SocketsOK'
    BY <1>11 DEF EndProcess, Modfd, SocketsOK
  <2> QED
    BY <1>11, <2>1, <2>2
       DEF EndProcess, bufferVars, queueVars, historyVars, BuffersOK, QueueOK
<1>12. ASSUME NEW f \in Fd, PeerSends(f) \/ PeerCloses(f)
       PROVE  TypeOK'
  <2>1. SocketsOK'
    BY <1>12 DEF PeerSends, PeerCloses, SocketsOK
  <2>2. UNCHANGED <<bufferVars, queueVars, worker, answers>>
    BY <1>12 DEF PeerSends, PeerCloses, historyVars
  <2> QED
    BY <2>1, <2>2 DEF bufferVars, queueVars, BuffersOK, QueueOK, WorkersOK
<1>13. CASE UNCHANGED vars
  BY <1>13 DEF vars, socketVars, bufferVars, queueVars, historyVars,
     SocketsOK, BuffersOK, QueueOK, WorkersOK
<1> QED
  BY <1>1, <1>3, <1>4, <1>5, <1>6, <1>7, <1>8, <1>9, <1>10, <1>11, <1>12, <1>13
     DEF Next, MainStep, WorkerStep

LEMMA InitIInv == Init => IInv
<1> SUFFICES ASSUME Init PROVE IInv
  OBVIOUS
<1>1. SocketsOK /\ BuffersOK
  BY DEF Init, SocketsOK, BuffersOK
<1>2. QueueOK /\ WorkersOK /\ answers = {}
  <2>1. \A w \in Worker : worker[w] = Idle
    BY DEF Init
  <2>2. worker \in [Worker -> [at : Places, fd : Fd \union {NULL}, to : Nat]]
    BY IdleOK DEF Init
  <2>3. <<>> \in Seq(Fd)
    OBVIOUS
  <2> QED
    BY <2>1, <2>2, <2>3, IdleOK DEF Init, QueueOK, WorkersOK
<1>3. TypeOK
  BY <1>1, <1>2 DEF TypeOK
<1>4. \A f \in Fd : Queued(f) = {} /\ Processing(f) = {}
  <2>1. \A w \in Worker : worker[w].at \notin Steps
    BY IdleOK DEF Init
  <2>2. m_workqueue = <<>>
    BY DEF Init
  <2> QED
    BY <2>1, <2>2 DEF Queued, Processing
<1>5. QuietInv /\ WatchedInv
  BY <1>4 DEF Init, QuietInv, WatchedInv, InHand
<1>6. AnswersInv
  BY IdleOK DEF Init, AnswersInv, OutputOK, OutputIsSeen, WritersOK
<1> QED
  BY <1>3, <1>5, <1>6 DEF IInv

----------------------------------------------------------------------------
(* Who has a connection in hand. *)

HandsFree(f) == Queued(f) = {} /\ Processing(f) = {}
SameHands(f) == (InHand(f)' <=> InHand(f)) /\ (Once(f) => Once(f)')
AllSameHands == \A f \in Fd : SameHands(f)

LEMMA CountsHands ==
  ASSUME TypeOK, NEW f \in Fd
  PROVE  /\ Handlers(f) > 0 <=> InHand(f)
         /\ InHand(f) /\ Once(f) => Handlers(f) = 1
<1>1. IsFiniteSet(Queued(f))
  <2>1. Queued(f) \subseteq 1 .. Len(m_workqueue) /\ Len(m_workqueue) \in Nat
    BY DEF TypeOK, QueueOK, Queued
  <2>2. IsFiniteSet(1 .. Len(m_workqueue))
    BY <2>1, FS_Interval
  <2> QED
    BY <2>1, <2>2, FS_Subset
<1>2. IsFiniteSet(Processing(f))
  BY ProactorAssumption, FS_Subset DEF Processing
<1>3. Handlers(f) = Cardinality(Queued(f)) + Cardinality(Processing(f))
  BY DEF Handlers, Queued
<1>4. /\ Cardinality(Queued(f)) \in Nat
      /\ Cardinality(Queued(f)) = 0 <=> Queued(f) = {}
      /\ Cardinality(Processing(f)) \in Nat
      /\ Cardinality(Processing(f)) = 0 <=> Processing(f) = {}
  BY <1>1, <1>2, FS_CardinalityType, FS_EmptySet
<1>5. Handlers(f) > 0 <=> InHand(f)
  BY <1>3, <1>4 DEF InHand
<1>6. ASSUME InHand(f), Once(f)
      PROVE  Handlers(f) = 1
  <2>1. CASE Queued(f) # {}
    <3>1. PICK i \in Queued(f) : TRUE
      BY <2>1
    <3>2. Queued(f) = {i} /\ Processing(f) = {}
      BY <1>6, <2>1, <3>1 DEF Once
    <3>3. Cardinality({i}) = 1
      BY FS_Singleton, Zenon
    <3> QED
      BY <1>3, <1>4, <3>2, <3>3
  <2>2. CASE Processing(f) # {}
    <3>1. PICK w \in Processing(f) : TRUE
      BY <2>2
    <3>2. Processing(f) = {w} /\ Queued(f) = {}
      BY <1>6, <2>2, <3>1 DEF Once
    <3>3. Cardinality({w}) = 1
      BY FS_Singleton, Zenon
    <3> QED
      BY <1>3, <1>4, <3>2, <3>3
  <2> QED
    BY <1>6, <2>1, <2>2 DEF InHand
<1> QED
  BY <1>5, <1>6

LEMMA HandsUnchanged ==
  ASSUME UNCHANGED <<m_workqueue, worker>>
  PROVE  AllSameHands
BY DEF AllSameHands, SameHands, InHand, Once, Queued, Processing

(* A worker that stays with its connection, or has none before and after.   *)
LEMMA HandsWalk ==
  ASSUME TypeOK, UNCHANGED m_workqueue, NEW w \in Worker,
         \A f \in Fd : Processing(f)' = Processing(f)
  PROVE  AllSameHands
BY DEF AllSameHands, SameHands, InHand, Once, Queued

LEMMA HandsStay ==
  ASSUME TypeOK, UNCHANGED m_workqueue, NEW w \in Worker, NEW v,
         worker' = [worker EXCEPT ![w] = v],
         v.at \in Steps, worker[w].at \in Steps, v.fd = worker[w].fd
  PROVE  AllSameHands
<1>1. \A u \in Worker : worker'[u] = IF u = w THEN v ELSE worker[u]
  BY DEF TypeOK, WorkersOK
<1>2. \A f \in Fd : Processing(f)' = Processing(f)
  BY <1>1 DEF Processing
<1> QED
  BY <1>2, HandsWalk

(* What a worker takes from the queue is in its hands then. *)
LEMMA HandsTake ==
  ASSUME TypeOK, NEW w \in Worker, Take(w)
  PROVE  AllSameHands
<1>1. worker[w].at = "woken" /\ \A f : w \notin Processing(f)
  BY DEF Take, Woken, Idle, Processing, Steps
<1>2. CASE m_workqueue = <<>>
  <2>1. worker' = [worker EXCEPT ![w] = Idle] /\ m_workqueue' = <<>>
    BY <1>2 DEF Take
  <2>2. \A f \in Fd : Processing(f)' = Processing(f)
    BY <1>1, <2>1, IdleOK DEF Processing, TypeOK, WorkersOK
  <2> QED
    BY <1>2, <2>1, <2>2, HandsWalk
<1>3. CASE m_workqueue # <<>>
  <2> DEFINE h == Head(m_workqueue)
             v == [at |-> "process_read", fd |-> h, to |-> 0]
  <2>1. worker' = [worker EXCEPT ![w] = v] /\ m_workqueue' = Tail(m_workqueue)
    BY <1>3 DEF Take
  <2>2. /\ m_workqueue \in Seq(Fd) /\ h = m_workqueue[1] /\ Len(m_workqueue) \in Nat \ {0}
        /\ DOMAIN m_workqueue' = 1 .. (Len(m_workqueue) - 1)
        /\ \A i \in 1 .. (Len(m_workqueue) - 1) : m_workqueue'[i] = m_workqueue[i + 1]
    BY <1>3, <2>1 DEF TypeOK, QueueOK
  <2>3. ASSUME NEW f \in Fd
        PROVE  /\ \A i \in Queued(f)' : i + 1 \in Queued(f) /\ i \in Nat \ {0}
               /\ \A i \in Queued(f) : i # 1 => i - 1 \in Queued(f)'
    BY <2>2 DEF Queued
  <2>4. ASSUME NEW f \in Fd
        PROVE  Processing(f)' = IF f = h THEN Processing(f) \union {w} ELSE Processing(f)
    BY <1>1, <2>1 DEF Processing, TypeOK, WorkersOK, Steps
  <2>5. 1 \in Queued(h) /\ h \in Fd /\ \A f : 1 \in Queued(f) => f = h
    BY <2>2 DEF Queued
  <2>6. ASSUME NEW f \in Fd
        PROVE  SameHands(f)
    <3>1. \A i, j \in Queued(f)' : i + 1 = j + 1 => i = j
      BY <2>3
    <3>2. CASE f = h
      <4>1. InHand(f) /\ InHand(f)'
        BY <2>4, <2>5, <3>2 DEF InHand
      <4>2. ASSUME Once(f)
            PROVE  Queued(f)' = {} /\ Processing(f)' = {w}
        <5>1. Processing(f) = {} /\ \A i \in Queued(f) : i = 1
          BY <2>5, <3>2, <4>2 DEF Once
        <5> QED
          BY <2>3, <2>4, <3>2, <5>1
      <4> QED
        BY <4>1, <4>2 DEF SameHands, Once
    <3>3. CASE f # h
      <4>1. Processing(f)' = Processing(f) /\ 1 \notin Queued(f)
        BY <2>4, <2>5, <3>3
      <4>2. Queued(f)' = {} <=> Queued(f) = {}
        BY <2>3, <4>1
      <4>3. Once(f) => Once(f)'
        BY <2>3, <3>1, <4>1, <4>2 DEF Once
      <4> QED
        BY <4>1, <4>2, <4>3 DEF SameHands, InHand
    <3> QED
      BY <3>2, <3>3
  <2> QED
    BY <2>6 DEF AllSameHands
<1> QED
  BY <1>2, <1>3

(* append() adds one place. *)
LEMMA HandsAppend ==
  ASSUME TypeOK, NEW f \in Fd, m_workqueue' = Append(m_workqueue, f), UNCHANGED worker
  PROVE  /\ \A g \in Fd \ {f} : SameHands(g)
         /\ InHand(f)'
         /\ HandsFree(f) => Once(f)'
<1> DEFINE n == Len(m_workqueue) + 1
<1>1. /\ m_workqueue \in Seq(Fd) /\ n \in Nat \ {0}
      /\ DOMAIN m_workqueue = 1 .. (n - 1) /\ DOMAIN m_workqueue' = 1 .. n
      /\ \A i \in 1 .. (n - 1) : m_workqueue'[i] = m_workqueue[i]
      /\ m_workqueue'[n] = f
  BY DEF TypeOK, QueueOK
<1>2. ASSUME NEW g \in Fd
      PROVE  Queued(g)' = IF g = f THEN Queued(g) \union {n} ELSE Queued(g)
  <2> HIDE DEF n
  <2> QED
    BY <1>1 DEF Queued
<1>3. \A g \in Fd : Processing(g)' = Processing(g)
  BY DEF Processing
<1>4. \A g \in Fd \ {f} : SameHands(g)
  BY <1>2, <1>3 DEF SameHands, InHand, Once
<1>5. InHand(f)'
  BY <1>2 DEF InHand
<1>6. HandsFree(f) => Once(f)'
  BY <1>2, <1>3 DEF HandsFree, Once
<1> QED
  BY <1>4, <1>5, <1>6

(* A worker that is done has one connection in hand no more. *)
LEMMA HandsEnd ==
  ASSUME TypeOK, NEW w \in Worker, NEW f \in Fd, w \in Processing(f),
         worker' = [worker EXCEPT ![w] = Idle], UNCHANGED m_workqueue
  PROVE  /\ \A g \in Fd \ {f} : SameHands(g)
         /\ Once(f) => ~InHand(f)'
<1>1. \A g \in Fd : Queued(g)' = Queued(g)
  BY DEF Queued
<1>2. \A g \in Fd : Processing(g)' = Processing(g) \ {w}
  BY IdleOK DEF Processing, TypeOK, WorkersOK
<1>3. \A g \in Fd \ {f} : w \notin Processing(g)
  BY DEF Processing
<1>4. \A g \in Fd \ {f} : Processing(g)' = Processing(g)
  BY <1>2, <1>3
<1>5. \A g \in Fd \ {f} : SameHands(g)
  BY <1>1, <1>4 DEF SameHands, InHand, Once
<1>6. Once(f) => ~InHand(f)'
  BY <1>1, <1>2 DEF Once, InHand
<1> QED
  BY <1>5, <1>6

----------------------------------------------------------------------------
(* The connection of an event is in nobody's hands, unless tick() closed an  *)
(* earlier one under a worker.                                               *)
LEMMA EventIsFree ==
  ASSUME QuietInv, NEW f \in Fd \ overtaken, ~open[f] \/ interest[f] # "off"
  PROVE  ~InHand(f) /\ HandsFree(f)
BY DEF QuietInv, InHand, HandsFree

(* The end of a connection that is in nobody's hands. *)
LEMMA EndKeepsQuiet ==
  ASSUME TypeOK, QuietInv, WatchedInv, NEW f \in Fd, interest[f] # "off",
         EndConn(f), UNCHANGED <<m_workqueue, worker, overtaken>>,
         turnedAway \subseteq turnedAway'
  PROVE  QuietInv' /\ WatchedInv'
<1>1. AllSameHands
  BY HandsUnchanged
<1>2. /\ conn' = conn
      /\ \A g \in Fd : open'[g] = (open[g] /\ g # f)
      /\ \A g \in Fd : interest'[g] = IF g = f THEN "off" ELSE interest[g]
  BY DEF EndConn, CloseConns
<1>3. QuietInv'
  BY <1>1, <1>2, EventIsFree DEF QuietInv, AllSameHands, SameHands
<1>4. WatchedInv'
  BY <1>1, <1>2 DEF WatchedInv, AllSameHands, SameHands
<1> QED
  BY <1>3, <1>4

(* epoll is told what to report next, of an open connection in no hands.     *)
LEMMA ModfdKeepsQuiet ==
  ASSUME TypeOK, QuietInv, WatchedInv, NEW f \in Fd, interest[f] # "off", open[f],
         Modfd(f, "IN"), UNCHANGED <<conn, open, m_workqueue, worker, overtaken, turnedAway>>
  PROVE  QuietInv' /\ WatchedInv'
<1>1. AllSameHands
  BY HandsUnchanged
<1>2. /\ \A g \in Fd : g # f => interest'[g] = interest[g]
      /\ interest'[f] = "IN"
  BY DEF Modfd, TypeOK, SocketsOK
<1>3. QuietInv'
  BY <1>1, <1>2, EventIsFree DEF QuietInv, AllSameHands, SameHands
<1>4. WatchedInv'
  BY <1>1, <1>2 DEF WatchedInv, AllSameHands, SameHands
<1> QED
  BY <1>3, <1>4

LEMMA QuietStep ==
  ASSUME TypeOK, QuietInv, WatchedInv, [Next]_vars
  PROVE  QuietInv' /\ WatchedInv'
<1>1. ASSUME AllSameHands, UNCHANGED <<conn, open, interest, overtaken, turnedAway>>
      PROVE  QuietInv' /\ WatchedInv'
  <2>1. QuietInv'
    BY <1>1 DEF QuietInv, AllSameHands, SameHands
  <2>2. WatchedInv'
    BY <1>1 DEF WatchedInv, AllSameHands, SameHands
  <2> QED
    BY <2>1, <2>2
<1>2. ASSUME NEW f \in Fd, Accept(f)
      PROVE  QuietInv' /\ WatchedInv'
  <2>1. /\ ~open[f]
        /\ conn' = [conn EXCEPT ![f] = Accepted + 1]
        /\ open' = [open EXCEPT ![f] = TRUE]
        /\ interest' = [interest EXCEPT ![f] = "IN"]
        /\ UNCHANGED <<queueVars, worker, historyVars>>
    BY <1>2 DEF Accept
  <2>2. AllSameHands
    BY <2>1, HandsUnchanged DEF queueVars
  <2>3. overtaken' = overtaken /\ turnedAway' = turnedAway
    BY <2>1 DEF historyVars
  <2>4. QuietInv'
    BY <2>1, <2>2, <2>3, EventIsFree
       DEF QuietInv, AllSameHands, SameHands, TypeOK, SocketsOK
  <2>5. WatchedInv'
    BY <2>1, <2>2, <2>3 DEF WatchedInv, AllSameHands, SameHands, TypeOK, SocketsOK
  <2> QED
    BY <2>4, <2>5
<1>3. ASSUME NEW f \in Fd, EventHup(f)
      PROVE  QuietInv' /\ WatchedInv'
  BY <1>3, EndKeepsQuiet DEF EventHup, queueVars, historyVars
<1>4. ASSUME NEW f \in Fd, EventIn(f)
      PROVE  QuietInv' /\ WatchedInv'
  <2>1. interest[f] = "IN" /\ open[f] /\ UNCHANGED <<worker, overtaken>>
    BY <1>4 DEF EventIn
  <2>2. CASE ReadRequest(f)
    <3>1. /\ interest' = [interest EXCEPT ![f] = "off"]
          /\ UNCHANGED <<conn, open>> /\ AppendRequest(f)
      BY <2>2 DEF ReadRequest
    <3>2. CASE turnedAway' = turnedAway \union {conn[f]} /\ UNCHANGED queueVars
      <4>1. AllSameHands
        BY <2>1, <3>2, HandsUnchanged DEF queueVars
      <4>2. QuietInv'
        BY <2>1, <3>1, <4>1, EventIsFree
           DEF QuietInv, AllSameHands, SameHands, TypeOK, SocketsOK
      <4>3. WatchedInv'
        BY <3>1, <3>2, <4>1 DEF WatchedInv, AllSameHands, SameHands, TypeOK, SocketsOK
      <4> QED
        BY <4>2, <4>3
    <3>3. CASE m_workqueue' = Append(m_workqueue, f) /\ UNCHANGED turnedAway
      <4>1. /\ \A g \in Fd \ {f} : SameHands(g)
            /\ InHand(f)'
            /\ HandsFree(f) => Once(f)'
        BY <2>1, <3>3, HandsAppend
      <4>2. f \notin overtaken => HandsFree(f)
        BY <2>1, EventIsFree
      <4>3. QuietInv'
        BY <2>1, <3>1, <4>1, <4>2 DEF QuietInv, SameHands, TypeOK, SocketsOK
      <4>4. WatchedInv'
        BY <3>1, <3>3, <4>1 DEF WatchedInv, SameHands, TypeOK, SocketsOK
      <4> QED
        BY <4>3, <4>4
    <3> QED
      BY <3>1, <3>2, <3>3 DEF AppendRequest
  <2>3. CASE EndConn(f) /\ UNCHANGED <<unparsed, queueVars, turnedAway>>
    BY <2>1, <2>3, EndKeepsQuiet DEF queueVars
  <2> QED
    BY <1>4, <2>2, <2>3 DEF EventIn
<1>5. ASSUME NEW f \in Fd, EventOut(f)
      PROVE  QuietInv' /\ WatchedInv'
  <2>1. interest[f] = "OUT" /\ open[f] /\ UNCHANGED <<queueVars, worker, overtaken, turnedAway>>
    BY <1>5 DEF EventOut
  <2>2. EndConn(f) \/ (Modfd(f, "IN") /\ UNCHANGED <<conn, open>>)
    BY <1>5 DEF EventOut, WriteDone
  <2> QED
    BY <2>1, <2>2, EndKeepsQuiet, ModfdKeepsQuiet DEF queueVars
<1>6. CASE TimerHandler
  <2>1. /\ UNCHANGED <<conn, queueVars, worker, turnedAway>>
        /\ \E expired : CloseConns(expired)
             /\ overtaken' = overtaken \union {f \in expired : Handlers(f) > 0}
    BY <1>6 DEF TimerHandler
  <2>2. PICK expired : /\ CloseConns(expired)
                       /\ overtaken' = overtaken \union {f \in expired : Handlers(f) > 0}
    BY <2>1
  <2>3. /\ \A g \in Fd : open'[g] = (open[g] /\ g \notin expired)
        /\ \A g \in Fd : interest'[g] = IF g \in expired THEN "off" ELSE interest[g]
    BY <2>2 DEF CloseConns
  <2>4. AllSameHands
    BY <2>1, HandsUnchanged DEF queueVars
  <2>5. \A g \in Fd \ overtaken' : InHand(g) => g \notin expired /\ g \notin overtaken
    BY <2>2, CountsHands
  <2>6. QuietInv'
    BY <2>3, <2>4, <2>5 DEF QuietInv, AllSameHands, SameHands
  <2>7. WatchedInv'
    BY <2>1, <2>3, <2>4 DEF WatchedInv, AllSameHands, SameHands
  <2> QED
    BY <2>6, <2>7
<1>7. ASSUME NEW w \in Worker, Wait(w)
      PROVE  QuietInv' /\ WatchedInv'
  <2>1. worker[w] = Idle /\ worker' = [worker EXCEPT ![w] = Woken] /\ UNCHANGED m_workqueue
    BY <1>7 DEF Wait
  <2>2. Woken.at \notin Steps
    BY DEF Woken, Idle, Steps
  <2>3. AllSameHands
    <3>1. \A f \in Fd : Processing(f)' = Processing(f)
      BY <2>1, <2>2, IdleOK DEF Processing, TypeOK, WorkersOK
    <3> QED
      BY <2>1, <3>1, HandsWalk
  <2> QED
    BY <1>1, <1>7, <2>3 DEF Wait, socketVars, historyVars
<1>8. ASSUME NEW w \in Worker, Take(w)
      PROVE  QuietInv' /\ WatchedInv'
  BY <1>1, <1>8, HandsTake DEF Take, socketVars, historyVars
<1>9. ASSUME NEW w \in Worker, RunProcessRead(w)
      PROVE  QuietInv' /\ WatchedInv'
  <2>1. /\ worker[w].at = "process_read"
        /\ UNCHANGED <<socketVars, queueVars, historyVars>>
        /\ \E whole \in {FALSE, unparsed[worker[w].fd]} : ProcessRead(w, whole)
    BY <1>9 DEF RunProcessRead
  <2>2. \E at \in Steps : \E to :
          worker' = [worker EXCEPT ![w] = [at |-> at, fd |-> worker[w].fd, to |-> to]]
    <3> DEFINE f == worker[w].fd
    <3>1. f \in Fd /\ WorkersOK
      BY <2>1 DEF TypeOK, WorkersOK, Steps
    <3>2. \/ worker' = [worker EXCEPT ![w] =
                          [at |-> "process_write", fd |-> f, to |-> conn[f]]]
          \/ worker' = [worker EXCEPT ![w] =
                          [at |-> "modfd IN", fd |-> f, to |-> worker[w].to]]
      <4>1. \E whole \in {FALSE, unparsed[f]} : ProcessRead(w, whole)
        BY <2>1
      <4> QED
        BY <3>1, <4>1, ReadMoves
    <3>3. {"process_write", "modfd IN"} \subseteq Steps
      BY DEF Steps
    <3> QED
      BY <3>2, <3>3
  <2>3. AllSameHands
    <3>1. PICK at \in Steps : \E to :
            worker' = [worker EXCEPT ![w] = [at |-> at, fd |-> worker[w].fd, to |-> to]]
      BY <2>2
    <3>2. PICK to : worker' = [worker EXCEPT ![w] = [at |-> at, fd |-> worker[w].fd, to |-> to]]
      BY <3>1
    <3> QED
      BY <2>1, <3>2, HandsStay DEF queueVars, Steps
  <2> QED
    BY <1>1, <2>1, <2>3 DEF socketVars, historyVars
<1>10. ASSUME NEW w \in Worker, ProcessWrite(w)
       PROVE  QuietInv' /\ WatchedInv'
  <2>1. /\ worker[w].at = "process_write"
        /\ UNCHANGED <<socketVars, queueVars, historyVars>>
        /\ Goto(w, "modfd OUT")
    BY <1>10 DEF ProcessWrite
  <2>2. worker' = [worker EXCEPT ![w] =
                    [at |-> "modfd OUT", fd |-> worker[w].fd, to |-> worker[w].to]]
    BY <2>1, GotoMoves DEF Places, Steps, TypeOK
  <2>3. AllSameHands
    BY <2>1, <2>2, HandsStay DEF queueVars, Steps
  <2> QED
    BY <1>1, <2>1, <2>3 DEF socketVars, historyVars
<1>11. ASSUME NEW w \in Worker, NEW ev \in {"IN", "OUT"}, EndProcess(w, ev)
       PROVE  QuietInv' /\ WatchedInv'
  <2>1. /\ worker[w].at = ModfdFor(ev) /\ Modfd(worker[w].fd, ev)
        /\ worker' = [worker EXCEPT ![w] = Idle]
        /\ UNCHANGED <<conn, open, queueVars, historyVars>>
    BY <1>11 DEF EndProcess
  <2>2. worker[w].at \in Steps
    BY <2>1 DEF ModfdFor, Steps
  <2>3. PICK f \in Fd : f = worker[w].fd /\ w \in Processing(f)
    BY <2>2 DEF Processing, TypeOK, WorkersOK
  <2>4. /\ \A g \in Fd \ {f} : SameHands(g)
        /\ Once(f) => ~InHand(f)'
    BY <2>1, <2>3, HandsEnd DEF queueVars
  <2>5. /\ \A g \in Fd \ {f} : interest'[g] = interest[g]
        /\ interest'[f] = IF open[f] THEN ev ELSE "off"
    BY <2>1, <2>3 DEF Modfd, TypeOK, SocketsOK
  <2>6. UNCHANGED <<conn, open, overtaken, turnedAway>>
    BY <2>1 DEF historyVars
  <2>7. InHand(f)
    BY <2>3 DEF InHand
  <2>8. QuietInv'
    <3>1. \A g \in Fd : ~open'[g] => interest'[g] = "off"
      BY <2>3, <2>5, <2>6 DEF QuietInv
    <3>2. f \notin overtaken => ~InHand(f)'
      BY <2>3, <2>4, <2>7 DEF QuietInv
    <3>3. \A g \in Fd \ overtaken : g # f =>
            (InHand(g)' => open'[g] /\ interest'[g] = "off" /\ Once(g)')
      BY <2>4, <2>5, <2>6 DEF QuietInv, SameHands
    <3> QED
      BY <2>6, <3>1, <3>2, <3>3 DEF QuietInv
  <2>9. WatchedInv'
    BY <2>3, <2>4, <2>5, <2>6 DEF WatchedInv, SameHands
  <2> QED
    BY <2>8, <2>9
<1>12. ASSUME NEW f \in Fd, PeerSends(f) \/ PeerCloses(f)
       PROVE  QuietInv' /\ WatchedInv'
  BY <1>1, <1>12, HandsUnchanged DEF PeerSends, PeerCloses, queueVars, historyVars
<1>13. CASE UNCHANGED vars
  BY <1>1, <1>13, HandsUnchanged DEF vars, socketVars, queueVars, historyVars
<1> QED
  BY <1>2, <1>3, <1>4, <1>5, <1>6, <1>7, <1>8, <1>9, <1>10, <1>11, <1>12, <1>13
     DEF Next, MainStep, WorkerStep

----------------------------------------------------------------------------
(* Without connections closed under a worker: an end, or a turn back to      *)
(* reading with nothing to write, disturbs nothing.                          *)
LEMMA EndKeepsAnswers ==
  ASSUME AnswersInv, NEW f \in Fd, EndConn(f), UNCHANGED <<output, worker>>
  PROVE  OutputOK' /\ OutputIsSeen' /\ WritersOK'
<1>1. /\ conn' = conn
      /\ \A g \in Fd : open'[g] = (open[g] /\ g # f)
      /\ \A g \in Fd : interest'[g] = IF g = f THEN "off" ELSE interest[g]
  BY DEF EndConn, CloseConns
<1>2. \A g \in Fd : Flushing(g)' <=> Flushing(g)
  BY DEF Flushing, Processing
<1>3. OutputOK' /\ WritersOK'
  BY <1>1 DEF AnswersInv, OutputOK, WritersOK
<1>4. OutputIsSeen'
  BY <1>1, <1>2 DEF AnswersInv, OutputIsSeen
<1> QED
  BY <1>3, <1>4

LEMMA InitConnKeepsAnswers ==
  ASSUME TypeOK, AnswersInv, NEW f \in Fd, InitConn(f), Modfd(f, "IN"),
         UNCHANGED <<conn, open, worker>>
  PROVE  OutputOK' /\ OutputIsSeen' /\ WritersOK'
<1>1. \A g \in Fd : output'[g] = IF g = f THEN <<>> ELSE output[g]
  BY DEF InitConn, TypeOK, BuffersOK
<1>2. \A g \in Fd : g # f => interest'[g] = interest[g]
  BY DEF Modfd, TypeOK, SocketsOK
<1>3. \A g \in Fd : Flushing(g)' <=> Flushing(g)
  BY DEF Flushing, Processing
<1>4. OutputOK' /\ WritersOK'
  BY <1>1 DEF AnswersInv, OutputOK, WritersOK
<1>5. OutputIsSeen'
  BY <1>1, <1>2, <1>3 DEF AnswersInv, OutputIsSeen
<1> QED
  BY <1>4, <1>5

LEMMA AnswersStep ==
  ASSUME IInv, [Next]_vars, overtaken' = {}
  PROVE  AnswersInv'
<1>1. overtaken = {}
  BY DEF Next, MainStep, WorkerStep, Accept, EventHup, EventIn, EventOut, TimerHandler,
     Wait, Take, RunProcessRead, ProcessWrite, EndProcess, PeerSends, PeerCloses,
     vars, historyVars
<1>2. TypeOK /\ QuietInv /\ AnswersInv
  BY <1>1 DEF IInv
<1>3. \A f \in Fd : InHand(f) => open[f] /\ interest[f] = "off" /\ Once(f)
  BY <1>1, <1>2 DEF QuietInv
<1>4. ASSUME UNCHANGED <<conn, open, interest, output, worker, answers>>
      PROVE  AnswersInv'
  <2>1. \A f \in Fd : Flushing(f)' <=> Flushing(f)
    BY <1>4 DEF Flushing, Processing
  <2> QED
    BY <1>2, <1>4, <2>1 DEF AnswersInv, OutputOK, OutputIsSeen, WritersOK
<1>5. ASSUME NEW f \in Fd, Accept(f)
      PROVE  AnswersInv'
  <2>1. /\ ~open[f]
        /\ \A g \in Fd : g # f => /\ conn'[g] = conn[g] /\ open'[g] = open[g]
                                 /\ interest'[g] = interest[g]
        /\ \A g \in Fd : output'[g] = IF g = f THEN <<>> ELSE output[g]
        /\ worker' = worker /\ answers' = answers
    BY <1>2, <1>5 DEF Accept, InitConn, historyVars, TypeOK, SocketsOK, BuffersOK
  <2>2. \A w \in Worker : worker[w].at = "process_write" => worker[w].fd \in Fd \ {f}
    <3> SUFFICES ASSUME NEW w \in Worker, worker[w].at = "process_write"
                 PROVE  worker[w].fd \in Fd \ {f}
      OBVIOUS
    <3>1. worker[w].fd \in Fd /\ w \in Processing(worker[w].fd)
      BY <1>2 DEF Processing, TypeOK, WorkersOK, Steps
    <3> QED
      BY <1>3, <2>1, <3>1 DEF InHand
  <2>3. \A g \in Fd : Flushing(g)' <=> Flushing(g)
    BY <2>1 DEF Flushing, Processing
  <2>4. OutputOK'
    BY <1>2, <2>1 DEF AnswersInv, OutputOK
  <2>5. OutputIsSeen'
    BY <1>2, <2>1, <2>3 DEF AnswersInv, OutputIsSeen
  <2>6. WritersOK'
    BY <1>2, <2>1, <2>2 DEF AnswersInv, WritersOK
  <2> QED
    BY <1>2, <2>1, <2>4, <2>5, <2>6 DEF AnswersInv
<1>6. ASSUME NEW f \in Fd, EventHup(f)
      PROVE  AnswersInv'
  <2>1. EndConn(f) /\ UNCHANGED <<output, worker, answers>>
    BY <1>6 DEF EventHup, bufferVars, historyVars
  <2> QED
    BY <1>2, <2>1, EndKeepsAnswers DEF AnswersInv
<1>7. ASSUME NEW f \in Fd, EventIn(f)
      PROVE  AnswersInv'
  <2>1. open[f] /\ interest[f] = "IN" /\ UNCHANGED <<output, worker, answers>>
    BY <1>7 DEF EventIn
  <2>2. CASE ReadRequest(f)
    <3>1. /\ UNCHANGED <<conn, open>>
          /\ \A g \in Fd : g # f => interest'[g] = interest[g]
      BY <1>2, <2>2 DEF ReadRequest, TypeOK, SocketsOK
    <3>2. output[f] = <<>>
      <4>1. ~Flushing(f)
        BY <1>3, <2>1 DEF Flushing, InHand
      <4> QED
        BY <1>2, <2>1, <4>1 DEF AnswersInv, OutputIsSeen
    <3>3. \A g \in Fd : Flushing(g)' <=> Flushing(g)
      BY <2>1 DEF Flushing, Processing
    <3>4. OutputIsSeen'
      BY <1>2, <2>1, <3>1, <3>2, <3>3 DEF AnswersInv, OutputIsSeen
    <3>5. OutputOK' /\ WritersOK'
      BY <1>2, <2>1, <3>1 DEF AnswersInv, OutputOK, WritersOK
    <3> QED
      BY <1>2, <2>1, <3>4, <3>5 DEF AnswersInv
  <2>3. CASE EndConn(f)
    BY <1>2, <2>1, <2>3, EndKeepsAnswers DEF AnswersInv
  <2> QED
    BY <1>7, <2>2, <2>3 DEF EventIn
<1>8. ASSUME NEW f \in Fd, EventOut(f)
      PROVE  AnswersInv'
  <2>1. worker' = worker
    BY <1>8 DEF EventOut
  <2>2. OutputOK' /\ OutputIsSeen' /\ WritersOK'
    <3>1. \/ EndConn(f) /\ UNCHANGED output
          \/ InitConn(f) /\ Modfd(f, "IN") /\ UNCHANGED <<conn, open>>
      BY <1>8 DEF EventOut, WriteDone, bufferVars
    <3> QED
      BY <1>2, <2>1, <3>1, EndKeepsAnswers, InitConnKeepsAnswers
  <2>3. ASSUME WriteDone(f)
        PROVE  \A a \in answers' : a[1] = a[2]
    <3>1. \A i \in DOMAIN output[f] : output[f][i] = conn[f]
      BY <1>2 DEF AnswersInv, OutputOK
    <3> QED
      BY <1>2, <2>3, <3>1 DEF AnswersInv, WriteDone
  <2>4. answers' = answers \/ WriteDone(f)
    BY <1>8 DEF EventOut
  <2> QED
    BY <1>2, <2>2, <2>3, <2>4 DEF AnswersInv
<1>9. CASE TimerHandler
  <2>1. /\ UNCHANGED <<conn, output, worker, answers>>
        /\ \E expired : CloseConns(expired)
    BY <1>9 DEF TimerHandler, bufferVars
  <2>2. PICK expired : CloseConns(expired)
    BY <2>1
  <2>3. /\ \A g \in Fd : open'[g] = (open[g] /\ g \notin expired)
        /\ \A g \in Fd : interest'[g] = IF g \in expired THEN "off" ELSE interest[g]
    BY <2>2 DEF CloseConns
  <2>4. \A g \in Fd : Flushing(g)' <=> Flushing(g)
    BY <2>1 DEF Flushing, Processing
  <2> QED
    BY <1>2, <2>1, <2>3, <2>4 DEF AnswersInv, OutputOK, OutputIsSeen, WritersOK
<1>10. ASSUME NEW w \in Worker, NEW v, worker' = [worker EXCEPT ![w] = v],
              v.at # "process_write" \/ v.to = conn[v.fd],
              worker[w].at # "modfd OUT",
              UNCHANGED <<conn, open, interest, output, answers>>
       PROVE  AnswersInv'
  <2>1. \A u \in Worker : worker'[u] = IF u = w THEN v ELSE worker[u]
    BY <1>2, <1>10 DEF TypeOK, WorkersOK
  <2>2. \A f \in Fd : Flushing(f) => Flushing(f)'
    BY <1>10, <2>1 DEF Flushing, Processing
  <2>3. OutputOK'
    BY <1>2, <1>10 DEF AnswersInv, OutputOK
  <2>4. OutputIsSeen'
    BY <1>2, <1>10, <2>2 DEF AnswersInv, OutputIsSeen
  <2>5. ASSUME NEW u \in Worker, worker'[u].at = "process_write"
        PROVE  worker'[u].to = conn[worker'[u].fd]
    <3>1. CASE u = w
      BY <1>10, <2>1, <2>5, <3>1
    <3>2. CASE u # w
      <4>1. worker'[u] = worker[u]
        BY <2>1, <3>2
      <4> QED
        BY <1>2, <2>5, <4>1 DEF AnswersInv, WritersOK
    <3> QED
      BY <3>1, <3>2
  <2>6. WritersOK'
    BY <1>10, <2>5 DEF WritersOK
  <2> QED
    BY <1>2, <1>10, <2>3, <2>4, <2>6 DEF AnswersInv
<1>11. ASSUME NEW w \in Worker, Wait(w)
       PROVE  AnswersInv'
  <2>1. /\ worker[w].at = "wait" /\ Woken.at = "woken"
        /\ worker' = [worker EXCEPT ![w] = Woken]
        /\ UNCHANGED <<conn, open, interest, output, answers>>
    BY <1>11, IdleOK DEF Wait, Woken, Idle, socketVars, bufferVars, historyVars
  <2> QED
    BY <1>10, <2>1
<1>12. ASSUME NEW w \in Worker, Take(w)
       PROVE  AnswersInv'
  <2>1. /\ worker[w].at = "woken"
        /\ UNCHANGED <<conn, open, interest, output, answers>>
    BY <1>12 DEF Take, Woken, Idle, socketVars, bufferVars, historyVars
  <2>2. CASE m_workqueue = <<>>
    <3>1. worker' = [worker EXCEPT ![w] = Idle]
      BY <1>12, <2>2 DEF Take
    <3> QED
      BY <1>10, <2>1, <3>1, IdleOK
  <2>3. CASE m_workqueue # <<>>
    <3> DEFINE v == [at |-> "process_read", fd |-> Head(m_workqueue), to |-> 0]
    <3>1. worker' = [worker EXCEPT ![w] = v] /\ v.at = "process_read"
      BY <1>12, <2>3 DEF Take
    <3> HIDE DEF v
    <3> QED
      BY <1>10, <2>1, <3>1
  <2> QED
    BY <2>2, <2>3
<1>13. ASSUME NEW w \in Worker, RunProcessRead(w)
       PROVE  AnswersInv'
  <2>1. /\ worker[w].at = "process_read"
        /\ UNCHANGED <<conn, open, interest, output, answers>>
        /\ \E whole \in {FALSE, unparsed[worker[w].fd]} : ProcessRead(w, whole)
    BY <1>13 DEF RunProcessRead, socketVars, historyVars
  <2>2. WorkersOK /\ worker[w].fd \in Fd
    BY <1>2, <2>1 DEF TypeOK, WorkersOK, Steps
  <2>3. PICK f \in Fd : f = worker[w].fd
    BY <2>2
  <2> DEFINE u == [at |-> "process_write", fd |-> f, to |-> conn[f]]
             v == [at |-> "modfd IN", fd |-> f, to |-> worker[w].to]
  <2>4. worker' = [worker EXCEPT ![w] = u] \/ worker' = [worker EXCEPT ![w] = v]
    BY <2>1, <2>2, <2>3, ReadMoves
  <2>5. u.to = conn[u.fd] /\ v.at = "modfd IN"
    OBVIOUS
  <2> HIDE DEF u, v
  <2> QED
    BY <1>10, <2>1, <2>4, <2>5
<1>14. ASSUME NEW w \in Worker, ProcessWrite(w)
       PROVE  AnswersInv'
  <2>1. /\ worker[w].at = "process_write" /\ Goto(w, "modfd OUT")
        /\ output' = [output EXCEPT ![worker[w].fd] = Append(@, worker[w].to)]
        /\ UNCHANGED <<conn, open, interest, answers>>
    BY <1>14 DEF ProcessWrite, socketVars, historyVars
  <2>2. PICK f \in Fd : f = worker[w].fd /\ w \in Processing(f)
    BY <1>2, <2>1 DEF Processing, TypeOK, WorkersOK, Steps
  <2> DEFINE v == [at |-> "modfd OUT", fd |-> f, to |-> worker[w].to]
  <2>3. worker' = [worker EXCEPT ![w] = v]
    BY <1>2, <2>1, <2>2, GotoMoves DEF TypeOK, Places, Steps
  <2>4. \A u \in Worker : worker'[u] = IF u = w THEN v ELSE worker[u]
    BY <1>2, <2>3 DEF TypeOK, WorkersOK
  <2>5. output[f] = <<>>
    <3>1. open[f] /\ interest[f] = "off" /\ Once(f)
      BY <1>3, <2>2 DEF InHand
    <3>2. ~Flushing(f)
      BY <2>1, <2>2, <3>1 DEF Flushing, Once
    <3> QED
      BY <1>2, <3>1, <3>2 DEF AnswersInv, OutputIsSeen
  <2>6. worker[w].to = conn[f]
    BY <1>2, <2>1, <2>2 DEF AnswersInv, WritersOK
  <2>7. \A g \in Fd : output'[g] = IF g = f THEN <<conn[f]>> ELSE output[g]
    <3>1. Append(output[f], worker[w].to) = <<conn[f]>>
      BY <2>5, <2>6
    <3>2. \A g \in Fd : output'[g] = IF g = f THEN Append(output[f], worker[w].to)
                                           ELSE output[g]
      BY <1>2, <2>1, <2>2 DEF TypeOK, BuffersOK
    <3> QED
      BY <3>1, <3>2
  <2>8. OutputOK'
    BY <1>2, <2>1, <2>7 DEF AnswersInv, OutputOK
  <2>9. \A g \in Fd : g = f \/ Flushing(g) => Flushing(g)'
    <3>1. v.at = "modfd OUT" /\ v.fd = f /\ v.at \in Steps
      BY DEF Steps
    <3> HIDE DEF v
    <3>2. Flushing(f)'
      BY <2>4, <3>1 DEF Flushing, Processing
    <3>3. \A g \in Fd : Flushing(g) => Flushing(g)'
      BY <2>1, <2>2, <2>4, <3>1 DEF Flushing, Processing
    <3> QED
      BY <3>2, <3>3
  <2>10. OutputIsSeen'
    BY <1>2, <2>1, <2>7, <2>9 DEF AnswersInv, OutputIsSeen
  <2>11. WritersOK'
    <3>1. v.at = "modfd OUT"
      OBVIOUS
    <3> HIDE DEF v
    <3> QED
      BY <1>2, <2>1, <2>4, <3>1 DEF AnswersInv, WritersOK
  <2> QED
    BY <1>2, <2>1, <2>8, <2>10, <2>11 DEF AnswersInv
<1>15. ASSUME NEW w \in Worker, NEW ev \in {"IN", "OUT"}, EndProcess(w, ev)
       PROVE  AnswersInv'
  <2>1. /\ worker[w].at = ModfdFor(ev) /\ Modfd(worker[w].fd, ev)
        /\ worker' = [worker EXCEPT ![w] = Idle]
        /\ UNCHANGED <<conn, open, output, answers>>
    BY <1>15 DEF EndProcess, bufferVars, historyVars
  <2>2. worker[w].at \in Steps
    BY <2>1 DEF ModfdFor, Steps
  <2>3. PICK f \in Fd : f = worker[w].fd /\ w \in Processing(f)
    BY <1>2, <2>2 DEF Processing, TypeOK, WorkersOK
  <2>4. open[f] /\ interest[f] = "off" /\ Once(f)
    BY <1>3, <2>3 DEF InHand
  <2>5. \A g \in Fd : interest'[g] = IF g = f THEN ev ELSE interest[g]
    BY <1>2, <2>1, <2>3, <2>4 DEF Modfd, TypeOK, SocketsOK
  <2>6. \A u \in Worker : worker'[u] = IF u = w THEN Idle ELSE worker[u]
    BY <1>2, <2>1 DEF TypeOK, WorkersOK
  <2>7. \A g \in Fd \ {f} : Flushing(g) => Flushing(g)'
    BY <2>3, <2>6 DEF Flushing, Processing
  <2>8. ev = "IN" => output[f] = <<>>
    <3>1. ASSUME ev = "IN"
          PROVE  ~Flushing(f)
      BY <2>1, <2>3, <2>4, <3>1 DEF Flushing, Once, ModfdFor
    <3> QED
      BY <1>2, <2>4, <3>1 DEF AnswersInv, OutputIsSeen
  <2>9. OutputIsSeen'
    BY <1>2, <2>1, <2>5, <2>7, <2>8 DEF AnswersInv, OutputIsSeen
  <2>10. OutputOK' /\ WritersOK'
    BY <1>2, <2>1, <2>6, IdleOK DEF AnswersInv, OutputOK, WritersOK
  <2> QED
    BY <1>2, <2>1, <2>9, <2>10 DEF AnswersInv
<1>16. ASSUME NEW f \in Fd, PeerSends(f) \/ PeerCloses(f)
       PROVE  AnswersInv'
  BY <1>4, <1>16 DEF PeerSends, PeerCloses, bufferVars, historyVars
<1>17. CASE UNCHANGED vars
  BY <1>4, <1>17 DEF vars, socketVars, bufferVars, historyVars
<1> QED
  BY <1>5, <1>6, <1>7, <1>8, <1>9, <1>11, <1>12, <1>13, <1>14, <1>15, <1>16, <1>17
     DEF Next, MainStep, WorkerStep

LEMMA IInvCorrect == Spec => []IInv
<1>1. ASSUME IInv, [Next]_vars
      PROVE  IInv'
  BY <1>1, TypeStep, QuietStep, AnswersStep DEF IInv
<1> QED
  BY <1>1, InitIInv, PTL DEF Spec

(* EPOLLONESHOT keeps the main thread away from a connection while it waits *)
(* for a worker or has one, and a second worker too, for every pool and any *)
(* number of connections, but for those that tick() closes under a worker   *)
(* (HandledConnectionIsQuiet).                                              *)
THEOREM QuietCorrect == Spec => []HandledConnectionIsQuiet
<1>1. IInv => HandledConnectionIsQuiet
  BY CountsHands DEF IInv, QuietInv, HandledConnectionIsQuiet
<1> QED
  BY <1>1, IInvCorrect, PTL

(* As long as tick() closes no connection under a worker, a response goes to *)
(* the connection whose request it answers, once (AnswersGoHome).            *)
THEOREM AnswersCorrect == Spec => []AnswersGoHome
<1>1. IInv => AnswersGoHome
  <2> SUFFICES ASSUME IInv, overtaken = {}
               PROVE  /\ \A a \in answers : a[1] = a[2]
                      /\ \A f \in Fd : Len(output[f]) <= 1
    BY DEF AnswersGoHome
  <2>1. AnswersInv
    BY DEF IInv
  <2>2. \A f \in Fd : Len(output[f]) <= 1
    <3> SUFFICES ASSUME NEW f \in Fd PROVE Len(output[f]) <= 1
      OBVIOUS
    <3>1. CASE output[f] = <<>>
      BY <3>1
    <3>2. CASE output[f] = <<conn[f]>>
      BY <3>2
    <3> QED
      BY <2>1, <3>1, <3>2 DEF AnswersInv, OutputOK
  <2> QED
    BY <2>1, <2>2 DEF AnswersInv
<1> QED
  BY <1>1, IInvCorrect, PTL

(* A connection that epoll does not watch is in the queue, with a worker, or *)
(* had a request refused: nobody lets go of one without modfd()              *)
(* (LeftConnectionIsWatched).                                                *)
THEOREM WatchedCorrect == Spec => []LeftConnectionIsWatched
<1>1. IInv => LeftConnectionIsWatched
  BY CountsHands DEF IInv, WatchedInv, LeftConnectionIsWatched
<1> QED
  BY <1>1, IInvCorrect, PTL

----------------------------------------------------------------------------
(* The timer list and the number of users follow the open connections.       *)
OpenFds == {f \in Fd : open[f]}

ListInv == Listed(timer_lst, OpenFds) /\ m_user_count = Cardinality(OpenFds)

LEMMA EndKeepsList ==
  ASSUME TypeOK, ListInv, NEW f \in Fd, open[f], EndConn(f)
  PROVE  ListInv'
<1>1. f \in OpenFds /\ OpenFds' = OpenFds \ {f}
  BY DEF EndConn, CloseConns, OpenFds
<1>2. Listed(timer_lst, OpenFds)' 
  BY <1>1, ListedDel DEF ListInv, EndConn
<1>3. IsFiniteSet(OpenFds)
  BY TimerListAssumption, FS_Subset DEF OpenFds
<1>4. Cardinality({f}) = 1 /\ Cardinality(OpenFds \ {f}) = Cardinality(OpenFds) - 1
  BY <1>1, <1>3, FS_RemoveElement, FS_Singleton
<1>5. m_user_count' = Cardinality(OpenFds')
  BY <1>1, <1>4 DEF EndConn, CloseConns, ListInv
<1> QED
  BY <1>2, <1>5 DEF ListInv

LEMMA ListStep == ASSUME TypeOK, ListInv, [Next]_vars PROVE ListInv'
<1>1. ASSUME UNCHANGED <<open, timer_lst, m_user_count>>
      PROVE  ListInv'
  BY <1>1 DEF ListInv, OpenFds
<1>2. IsFiniteSet(OpenFds)
  BY TimerListAssumption, FS_Subset DEF OpenFds
<1>3. ASSUME NEW f \in Fd, Accept(f)
      PROVE  ListInv'
  <2>1. /\ f \notin OpenFds /\ OpenFds' = OpenFds \union {f}
        /\ timer_lst' = AddTimer(timer_lst, f, Lifetime)
        /\ m_user_count' = m_user_count + 1
    BY <1>3 DEF Accept, OpenFds, TypeOK, SocketsOK
  <2>2. Listed(timer_lst', OpenFds')
    BY <2>1, ListedAdd, ProactorAssumption DEF ListInv
  <2>3. Cardinality(OpenFds \union {f}) = Cardinality(OpenFds) + 1
    BY <1>2, <2>1, FS_AddElement
  <2> QED
    BY <2>1, <2>2, <2>3 DEF ListInv
<1>4. ASSUME NEW f \in Fd, EventHup(f)
      PROVE  ListInv'
  BY <1>4, EndKeepsList DEF EventHup
<1>5. ASSUME NEW f \in Fd, EventIn(f)
      PROVE  ListInv'
  <2>1. CASE ReadRequest(f)
    BY <1>1, <2>1 DEF ReadRequest
  <2>2. CASE EndConn(f)
    BY <1>5, <2>2, EndKeepsList DEF EventIn
  <2> QED
    BY <1>5, <2>1, <2>2 DEF EventIn
<1>6. ASSUME NEW f \in Fd, EventOut(f)
      PROVE  ListInv'
  <2>1. open[f]
    BY <1>6 DEF EventOut
  <2>2. EndConn(f) \/ UNCHANGED <<open, timer_lst, m_user_count>>
    BY <1>6 DEF EventOut, WriteDone
  <2> QED
    BY <1>1, <2>1, <2>2, EndKeepsList
<1>7. CASE TimerHandler
  <2> DEFINE S == Due(Aged(timer_lst), 0)
  <2>1. timer_lst' = UnlinkDue(Aged(timer_lst), S) /\ CloseConns(S)
    BY <1>7 DEF TimerHandler
  <2>2. S \subseteq OpenFds /\ Listed(timer_lst', OpenFds \ S)
    BY <2>1, ListedDue DEF ListInv
  <2> HIDE DEF S
  <2>3. OpenFds' = OpenFds \ S
    BY <2>1 DEF CloseConns, OpenFds
  <2>4. Cardinality(OpenFds \ S) = Cardinality(OpenFds) - Cardinality(S)
    <3>1. IsFiniteSet(S) /\ OpenFds \intersect S = S
      BY <1>2, <2>2, FS_Subset
    <3>2. Cardinality(OpenFds \ S) = Cardinality(OpenFds) - Cardinality(OpenFds \intersect S)
      BY <1>2, FS_Difference
    <3> QED
      BY <3>1, <3>2
  <2>5. m_user_count' = Cardinality(OpenFds')
    BY <2>1, <2>3, <2>4 DEF CloseConns, ListInv
  <2> QED
    BY <2>2, <2>3, <2>5 DEF ListInv
<1>8. ASSUME NEW w \in Worker, WorkerStep(w)
      PROVE  ListInv'
  BY <1>1, <1>8 DEF WorkerStep, Wait, Take, RunProcessRead, ProcessWrite, EndProcess, socketVars
<1>9. ASSUME NEW f \in Fd, PeerSends(f) \/ PeerCloses(f)
      PROVE  ListInv'
  BY <1>1, <1>9 DEF PeerSends, PeerCloses
<1>10. CASE UNCHANGED vars
  BY <1>1, <1>10 DEF vars, socketVars
<1> QED
  BY <1>3, <1>4, <1>5, <1>6, <1>7, <1>8, <1>9, <1>10 DEF Next, MainStep

(* For every set of descriptors and any lifetime: the timer list is well     *)
(* linked and in order, holds the open connections' timers and no other, and *)
(* m_user_count is their number (TimersAreOfOpenConnections).                *)
THEOREM TimersCorrect == Spec => []TimersAreOfOpenConnections
<1>1. Init => ListInv
  <2> SUFFICES ASSUME Init PROVE ListInv
    OBVIOUS
  <2>1. OpenFds = {} /\ timer_lst = NewTimerList /\ m_user_count = 0
    BY DEF Init, OpenFds
  <2> QED
    BY <2>1, ListedNew, FS_EmptySet DEF ListInv
<1>2. TypeOK /\ ListInv /\ [Next]_vars => ListInv'
  BY ListStep
<1>3. ListInv => TimersAreOfOpenConnections
  BY ListedIsWellLinked DEF ListInv, OpenFds, TimersAreOfOpenConnections
<1>4. IInv => TypeOK
  BY DEF IInv
<1> QED
  BY <1>1, <1>2, <1>3, <1>4, IInvCorrect, PTL DEF Spec
=============================================================================
