------------------------------- MODULE Lists -------------------------------
(***************************************************************************)
(* What a set of intrusive queues promises a client that never puts one    *)
(* element on two of them: each is a list, and a pop returns its front.    *)
(***************************************************************************)
EXTENDS Integers, Sequences

CONSTANTS Elem, null, Queue

VARIABLES list, popped

vars == <<list, popped>>

On(q) == {list[q][i] : i \in DOMAIN list[q]}
Insert(s, i, e) ==
  [k \in 1 .. Len(s) + 1 |->
     IF k <= i THEN s[k] ELSE IF k = i + 1 THEN e ELSE s[k - 1]]

Init == list = [q \in Queue |-> <<>>] /\ popped = null

Put(q, i, e) ==
  /\ \A p \in Queue : e \notin On(p)
  /\ list' = [list EXCEPT ![q] = Insert(@, i, e)]
  /\ UNCHANGED popped

Pop(q) ==
  IF list[q] = <<>> THEN popped' = null /\ UNCHANGED list
  ELSE popped' = list[q][1] /\ list' = [list EXCEPT ![q] = Tail(@)]

Next ==
  \E q \in Queue :
    \/ Pop(q)
    \/ \E e \in Elem : \E i \in 0 .. Len(list[q]) : Put(q, i, e)

Spec == Init /\ [][Next]_vars
=============================================================================
