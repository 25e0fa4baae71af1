-------------------------- MODULE MCCircularQueue --------------------------
(* Small instances of CircularQueue for TLC: the one the configuration     *)
(* gives, and one whose two sides interleave freely.                       *)
EXTENDS CircularQueue

MCElem == {0, 1}
\* Every operation that does not move tail back.
OpsNoPeekN == AllConsumerOps \ {"peek_n"}

VARIABLE interleaved  \* neither side runs with interrupts off

Free == INSTANCE CircularQueue WITH Atomic <- "neither", ConsumerOps <- OpsNoPeekN

EitherNext ==
  /\ \/ interleaved /\ Free!Next
     \/ ~interleaved /\ Next
  /\ UNCHANGED interleaved

EitherInit == Init /\ interleaved \in BOOLEAN
EitherSpec == EitherInit /\ [][EitherNext]_<<vars, interleaved>>
=============================================================================
