----------------------------- MODULE LossyLink -----------------------------
(***************************************************************************)
(* What a radio link promises in one direction.  Packets are numbered as   *)
(* they are sent.  A packet may be lost, but those that arrive do so in    *)
(* the order they were sent, once; the reader sees the bytes of the        *)
(* packets that arrived; and a reliable link confirms only what arrived.   *)
(***************************************************************************)
EXTENDS Naturals, Sequences, SequencesExt

CONSTANT Bytes(_)

VARIABLES reliable, sent, arrived, read, confirmed

vars == <<reliable, sent, arrived, read, confirmed>>

Stream == FlattenSeq([i \in DOMAIN arrived |-> Bytes(arrived[i])])

Init ==
  /\ reliable \in BOOLEAN
  /\ sent = 0 /\ arrived = <<>> /\ read = <<>> /\ confirmed = <<>>

Send ==
  /\ sent' = sent + 1
  /\ UNCHANGED <<reliable, arrived, read, confirmed>>

Arrive ==
  /\ sent > 0 /\ sent \notin ToSet(arrived)
  /\ arrived' = Append(arrived, sent)
  /\ UNCHANGED <<reliable, sent, read, confirmed>>

Read ==
  /\ \E k \in Len(read) + 1 .. Len(Stream) : read' = SubSeq(Stream, 1, k)
  /\ UNCHANGED <<reliable, sent, arrived, confirmed>>

Confirm ==
  /\ sent \notin ToSet(confirmed)
  /\ reliable => sent \in ToSet(arrived)
  /\ confirmed' = Append(confirmed, sent)
  /\ UNCHANGED <<reliable, sent, arrived, read>>

Next == Send \/ Arrive \/ Read \/ Confirm

Spec == Init /\ [][Next]_vars
=============================================================================
