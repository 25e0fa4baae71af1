---------------------------- MODULE LinkedQueue ----------------------------
(***************************************************************************)
(* Clients of libpi/libc/Q.h: queues that share the next fields of their   *)
(* elements, as runq and freeq of the thread package do.  An element is on *)
(* one queue at most; the code relies on its callers for that.             *)
(***************************************************************************)
EXTENDS LinkedQ, Sequences

CONSTANT Queue

VARIABLES
  queue,   \* the Q_t of each queue
  next,    \* the next field of each element
  popped,  \* what the last Q_pop returned
  list     \* history: the elements the client has on each queue, in order

vars == <<queue, next, popped, list>>

List == INSTANCE Lists

Free(e) == \A q \in Queue : e \notin List!On(q)

Init ==
  /\ queue = [q \in Queue |-> Q_init]
  /\ next \in LinkType
  /\ popped = null
  /\ list = [q \in Queue |-> <<>>]

Pop(q) ==
  /\ queue' = [queue EXCEPT ![q] = Q_pop(queue[q], next)]
  /\ popped' = queue[q].head
  /\ list' = [list EXCEPT ![q] = IF Len(list[q]) = 0 THEN @ ELSE Tail(@)]
  /\ UNCHANGED next

AppendTo(q, e) ==
  /\ Free(e)
  /\ queue' = [queue EXCEPT ![q] = Q_append(queue[q], e)]
  /\ next' = Q_appendLinks(queue[q], next, e)
  /\ list' = [list EXCEPT ![q] = List!Insert(@, Len(@), e)]
  /\ UNCHANGED popped

PushOn(q, e) ==
  /\ Free(e)
  /\ queue' = [queue EXCEPT ![q] = Q_push(queue[q], e)]
  /\ next' = Q_pushLinks(queue[q], next, e)
  /\ list' = [list EXCEPT ![q] = List!Insert(@, 0, e)]
  /\ UNCHANGED popped

InsertAfter(q, i, e) ==
  /\ Free(e)
  /\ LET at == IF i = 0 THEN null ELSE list[q][i]
     IN /\ queue' = [queue EXCEPT ![q] = Q_insert_after(queue[q], at, e)]
        /\ next' = Q_insert_afterLinks(queue[q], next, at, e)
  /\ list' = [list EXCEPT ![q] = List!Insert(@, i, e)]
  /\ UNCHANGED popped

Next ==
  \E q \in Queue :
    \/ Pop(q)
    \/ \E e \in Elem :
         \/ AppendTo(q, e) \/ PushOn(q, e)
         \/ \E i \in 0 .. Len(list[q]) : InsertAfter(q, i, e)

Spec == Init /\ [][Next]_vars
-----------------------------------------------------------------------------
(* Types of the queues, the links and the ghost lists.                     *)
TypeOK ==
  /\ queue \in [Queue -> QType]
  /\ next \in LinkType
  /\ popped \in Elem \cup {null}
  /\ list \in [Queue -> Seq(Elem)]

(* No element is twice on the queues.                                      *)
Disjoint ==
  \A p, q \in Queue : \A i \in DOMAIN list[p], j \in DOMAIN list[q] :
    list[p][i] = list[q][j] => p = q /\ i = j

(* Following next from head visits exactly the elements of the list and    *)
(* ends at tail, and cnt counts them.                                      *)
Chained ==
  \A q \in Queue :
    LET s == list[q]
    IN /\ queue[q].cnt = Len(s)
       /\ queue[q].head = IF Len(s) = 0 THEN null ELSE s[1]
       /\ queue[q].tail = IF Len(s) = 0 THEN null ELSE s[Len(s)]
       /\ \A i \in 1 .. Len(s) :
            next[s[i]] = IF i = Len(s) THEN null ELSE s[i + 1]

IInv == TypeOK /\ Disjoint /\ Chained

(* The assertions of Q_empty hold of every queue at every step.            *)
EmptyAssertsHold == \A q \in Queue : Q_emptyAsserts(queue[q])

(* The intrusive queues implement independent lists: what is popped is the *)
(* front of the list, whatever the other queues did to the links.          *)
ImplementsLists == List!Spec
=============================================================================
