-------------------------------- MODULE Fifo --------------------------------
(***************************************************************************)
(* What a bounded first-in first-out channel promises, as its two          *)
(* histories: everything that went in and everything that came out.        *)
(***************************************************************************)
EXTENDS Integers, Sequences

CONSTANTS Elem, Capacity

VARIABLES sent, rcvd

TypeOK == sent \in Seq(Elem) /\ rcvd \in Seq(Elem)

Init == sent = <<>> /\ rcvd = <<>>

\* A new element may enter while fewer than Capacity are inside.
Enqueue(v) ==
  /\ Len(sent) - Len(rcvd) < Capacity
  /\ sent' = Append(sent, v)
  /\ UNCHANGED rcvd

\* The oldest element inside is the one that leaves.
Dequeue ==
  /\ Len(rcvd) < Len(sent)
  /\ rcvd' = Append(rcvd, sent[Len(rcvd) + 1])
  /\ UNCHANGED sent

Next == Dequeue \/ \E v \in Elem : Enqueue(v)

Spec == Init /\ [][Next]_<<sent, rcvd>>
=============================================================================
