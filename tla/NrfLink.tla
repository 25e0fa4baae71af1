------------------------------ MODULE NrfLink ------------------------------
(***************************************************************************)
(* The link from one node to the node it sends to, as the two drivers and  *)
(* the radios between them provide it: LossyLink.                          *)
(***************************************************************************)
EXTENDS NrfDriver

CONSTANT Source

ASSUME SourceAssumption == Source \in Node

SourceBytes(k) == Bytes(<<Source, k>>)
Counts(ps) == [x \in DOMAIN ps |-> ps[x][2]]

Link == INSTANCE LossyLink WITH
  reliable <- acked_p,
  Bytes <- SourceBytes,
  sent <- nsent[Source],
  arrived <- Counts(accepted[Peer[Source]]),
  read <- got[Peer[Source]],
  confirmed <- Counts(confirmed[Source])

(* The link is a lossy, ordered stream of whole packets; with              *)
(* acknowledgements it confirms only what arrived.                         *)
ImplementsLossyLink == Link!Spec
=============================================================================
