----------------------------- MODULE TimerList -----------------------------
(***************************************************************************)
(* web-5.11-pressure/lst_timer.cpp: sort_timer_lst, a doubly linked list   *)
(* of util_timer nodes in order of expiry.  A node is named by the file    *)
(* descriptor whose http_conn points to it; there is one per open          *)
(* connection.  Pointers that the code leaves behind, in the nodes it      *)
(* deletes and in tail, are left behind here too.                          *)
(***************************************************************************)
EXTENDS Naturals, SequencesExt, FiniteSetsExt

CONSTANT Fd        (* the nodes                                            *)

NULL == 0

ASSUME TimerListAssumption == IsFiniteSet(Fd) /\ NULL \notin Fd

(* util_timer's prev, next and expire of every node, and the list's ends. *)
NewTimerList ==
  [head |-> NULL, tail |-> NULL,
   prev |-> [f \in Fd |-> NULL], next |-> [f \in Fd |-> NULL],
   expire |-> [f \in Fd |-> 0]]

MaxPath == Cardinality(Fd) + 1

(* The nodes that `next' leads to from node f; at most one more of them     *)
(* than there are, so that a cycle shows.                                   *)
Path(next, f) ==
  LET path[n \in 0..MaxPath] ==
        [g \in Fd \union {NULL} |->
           IF g = NULL \/ n = 0 THEN <<>> ELSE <<g>> \o path[n - 1][next[g]]]
  IN  path[MaxPath][f]

Nodes(lst) == Path(lst.next, lst.head)

(* add_timer(timer, lst_head): before the first node behind lst_head that   *)
(* expires later, or as the last.                                           *)
InsertAfter(lst, f, lst_head) ==
  LET path == Path(lst.next, lst_head)
      later == {i \in DOMAIN path \ {1} : lst.expire[f] < lst.expire[path[i]]}
      pre_node == IF later = {} THEN Last(path) ELSE path[Min(later) - 1]
      tmp == IF later = {} THEN NULL ELSE path[Min(later)]
  IN  [lst EXCEPT !.next = [@ EXCEPT ![pre_node] = f, ![f] = tmp],
                  !.prev = [g \in Fd |-> IF g = f THEN pre_node
                                         ELSE IF g = tmp THEN f ELSE @[g]],
                  !.tail = IF tmp = NULL THEN f ELSE @]

(* Mutant: all go to the end, and a list is taken for empty by its tail,    *)
(* which tick() leaves behind.                                              *)
AddTimerAtTail(lst, f, expire) ==
  LET new == [lst EXCEPT !.prev[f] = NULL, !.next[f] = NULL, !.expire[f] = expire]
  IN  IF new.tail = NULL THEN [new EXCEPT !.head = f, !.tail = f]
      ELSE [new EXCEPT !.next[new.tail] = f, !.prev[f] = new.tail, !.tail = f]

(* add_timer(timer), a new node: the first is taken to be its own           *)
(* predecessor.                                                             *)
AddTimer(lst, f, expire) ==
  LET new == [lst EXCEPT !.prev[f] = NULL, !.next[f] = NULL, !.expire[f] = expire]
      one == IF new.head = NULL THEN [new EXCEPT !.head = f, !.tail = f] ELSE new
  IN  IF expire < one.expire[one.head]
      THEN [one EXCEPT !.next[f] = one.head, !.prev[one.head] = f, !.head = f]
      ELSE InsertAfter(one, f, one.head)

(* The node is freed, and its fields with it. *)
Freed(lst, S) ==
  [lst EXCEPT !.prev = [f \in Fd |-> IF f \in S THEN NULL ELSE @[f]],
              !.next = [f \in Fd |-> IF f \in S THEN NULL ELSE @[f]],
              !.expire = [f \in Fd |-> IF f \in S THEN 0 ELSE @[f]]]

(* Mutant: tail is left when the last of several nodes goes. *)
UnlinkKeepsTail(lst, f) ==
  IF f = lst.head /\ f = lst.tail THEN [lst EXCEPT !.head = NULL, !.tail = NULL]
  ELSE IF f = lst.head
  THEN [lst EXCEPT !.head = lst.next[f], !.prev[lst.next[f]] = NULL]
  ELSE IF f = lst.tail
  THEN [lst EXCEPT !.next[lst.prev[f]] = NULL]
  ELSE [lst EXCEPT !.next[lst.prev[f]] = lst.next[f], !.prev[lst.next[f]] = lst.prev[f]]

(* del_timer(): the four cases of its conditions, ... *)
Unlink(lst, f) ==
  IF f = lst.head /\ f = lst.tail THEN [lst EXCEPT !.head = NULL, !.tail = NULL]
  ELSE IF f = lst.head
  THEN [lst EXCEPT !.head = lst.next[f], !.prev[lst.next[f]] = NULL]
  ELSE IF f = lst.tail
  THEN [lst EXCEPT !.tail = lst.prev[f], !.next[lst.prev[f]] = NULL]
  ELSE [lst EXCEPT !.next[lst.prev[f]] = lst.next[f], !.prev[lst.next[f]] = lst.prev[f]]

(* ... and delete. *)
DelTimer(lst, f) == Freed(Unlink(lst, f), {f})

(* One alarm later, expire being the alarms that are left. *)
Aged(lst) ==
  [lst EXCEPT !.expire = [f \in Fd |-> IF @[f] = 0 THEN 0 ELSE @[f] - 1]]

(* The nodes tick() closes at time now: those before the first that has not *)
(* expired.                                                                 *)
Due(lst, now) ==
  LET nodes == Nodes(lst)
  IN  {nodes[i] : i \in {j \in DOMAIN nodes : \A k \in 1..j : lst.expire[nodes[k]] <= now}}

(* tick(): they are unlinked from the front and freed; tail is left alone.  *)
UnlinkDue(lst, due) ==
  LET nodes == Nodes(lst)
      left == {i \in DOMAIN nodes : nodes[i] \notin due}
      first == nodes[Min(left)]
  IN  IF due = {} THEN lst
      ELSE IF left = {} THEN Freed([lst EXCEPT !.head = NULL], due)
      ELSE Freed([lst EXCEPT !.head = first, !.prev[first] = NULL], due)

(* What the links are to be: the list ends, tail is its last node, each     *)
(* node but the first points back to the one before it, and none expires    *)
(* before one that is in front of it, on which tick() relies to stop early. *)
WellLinked(lst) ==
  LET nodes == Nodes(lst)
  IN  /\ Len(nodes) <= Cardinality(Fd)
      /\ nodes # <<>> => lst.tail = Last(nodes)
      /\ \A i \in 2..Len(nodes) : /\ lst.prev[nodes[i]] = nodes[i - 1]
                                  /\ lst.expire[nodes[i - 1]] <= lst.expire[nodes[i]]
============================================================================
