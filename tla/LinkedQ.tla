------------------------------ MODULE LinkedQ ------------------------------
(***************************************************************************)
(* The operations of libpi/libc/Q.h.  A queue is its Q_t; the links are    *)
(* the next fields of all elements, shared by every queue.  Each operation *)
(* is given by the Q_t and by the links it leaves.                         *)
(***************************************************************************)
EXTENDS Integers

CONSTANTS Elem, null

ASSUME NullAssumption == null \notin Elem

QType == [head : Elem \cup {null}, tail : Elem \cup {null}, cnt : Int]
LinkType == [Elem -> Elem \cup {null}]

Q_init == [head |-> null, tail |-> null, cnt |-> 0]

\* What Q_empty insists on when there is no head.
Q_emptyAsserts(q) == q.head = null => q.cnt = 0 /\ q.tail = null

-----------------------------------------------------------------------------
(* Faults, none of them used by the operations below.                      *)

\* Fault: the tail outlives the last element.
Q_popTailKept(q, next) ==
  IF q.head = null THEN q
  ELSE [head |-> next[q.head], tail |-> q.tail, cnt |-> q.cnt - 1]

\* Fault: the new element is linked from its predecessor only.
Q_insert_afterLinksOneWay(q, next, e, new) ==
  IF e = null THEN next ELSE [next EXCEPT ![e] = new]
-----------------------------------------------------------------------------
\* Q_pop; its result is q.head.  The element keeps its link.
Q_pop(q, next) ==
  IF q.head = null THEN q
  ELSE [head |-> next[q.head],
        tail |-> IF next[q.head] = null THEN null ELSE q.tail,
        cnt |-> q.cnt - 1]

Q_append(q, e) ==
  [head |-> IF q.tail = null THEN e ELSE q.head,
   tail |-> e,
   cnt |-> q.cnt + 1]

Q_appendLinks(q, next, e) ==
  IF q.tail = null THEN [next EXCEPT ![e] = null]
  ELSE [next EXCEPT ![e] = null, ![q.tail] = e]

Q_push(q, e) ==
  [head |-> e,
   tail |-> IF q.tail = null THEN e ELSE q.tail,
   cnt |-> q.cnt + 1]

Q_pushLinks(q, next, e) == [next EXCEPT ![e] = q.head]

\* Q_insert_after: in front and at the end it is Q_push and Q_append.
Q_insert_after(q, e, new) ==
  IF e = null THEN Q_push(q, new)
  ELSE IF q.tail = e THEN Q_append(q, new)
  ELSE [head |-> q.head, tail |-> q.tail, cnt |-> q.cnt + 1]

Q_insert_afterLinks(q, next, e, new) ==
  IF e = null THEN Q_pushLinks(q, next, new)
  ELSE IF q.tail = e THEN Q_appendLinks(q, next, new)
  ELSE [next EXCEPT ![new] = next[e], ![e] = new]
=============================================================================
