---------------------------- MODULE BoundedQueue ----------------------------
(***************************************************************************)
(* base/BoundedBlockingQueue.h: the circular buffer, one operator per      *)
(* member function, and the conditions under which put() and take() wait.  *)
(* No program of the repository has such a queue.                          *)
(*                                                                         *)
(* A queue made for c elements has capacity_ = c + 1, counts its indices   *)
(* modulo c + 2, and has an array of c.  What push_back() writes behind the *)
(* array, undefined in C++, is taken here as if the array went on: see     *)
(* InsideArray.                                                            *)
(***************************************************************************)
EXTENDS Integers, Sequences

(* circular_buffer(capacity), for capacity > 0 *)
NewQueue(capacity) ==
  [capacity_ |-> capacity + 1, data_ |-> <<>>, front_ |-> 0, rear_ |-> 0]

(* What any run of its functions leaves; data_ has the places written. *)
IsQueue(q) ==
  /\ q = [capacity_ |-> q.capacity_, data_ |-> q.data_,
          front_ |-> q.front_, rear_ |-> q.rear_]
  /\ q.capacity_ \in Nat /\ 2 <= q.capacity_
  /\ q.front_ \in 0 .. q.capacity_ /\ q.rear_ \in 0 .. q.capacity_

(* (i + 1) % (capacity_ + 1), of an index *)
Following(q, i) == IF i = q.capacity_ THEN 0 ELSE i + 1

FullQueue(q)  == q.front_ = Following(q, q.rear_)
EmptyQueue(q) == q.front_ = q.rear_

(* size(), which is capacity_ + 1 for an empty queue *)
QueueSize(q) ==
  IF q.rear_ > q.front_ THEN q.rear_ - q.front_
  ELSE (q.capacity_ + 1) - (q.front_ - q.rear_)

(* front() and back(), of a queue that is not empty *)
QueueFront(q) == q.data_[q.front_]
QueueBack(q)  == q.data_[IF q.rear_ = 0 THEN q.capacity_ ELSE q.rear_ - 1]

PopFront(q) == [q EXCEPT !.front_ = Following(q, @)]

(* The oldest element makes room, if need be. *)
PushBack(q, value) ==
  LET stored == [q EXCEPT !.data_ = [i \in DOMAIN q.data_ \cup {q.rear_} |->
                                       IF i = q.rear_ THEN value ELSE q.data_[i]]]
      pushed == [stored EXCEPT !.rear_ = Following(q, q.rear_)]
  IN  IF FullQueue(pushed) THEN PopFront(pushed) ELSE pushed

(* The loops of put() and take(). *)
PutWaits(q)  == FullQueue(q)
TakeWaits(q) == EmptyQueue(q)

(* The array has room for what was written: new T[capacity] *)
InsideArray(q) == DOMAIN q.data_ \subseteq 0 .. q.capacity_ - 2

(* What it holds, from front to back. *)
QueueElements(q) ==
  LET count == IF EmptyQueue(q) THEN 0 ELSE QueueSize(q)
  IN  [k \in 1 .. count |-> q.data_[(q.front_ + k - 1) % (q.capacity_ + 1)]]

=============================================================================
