---------------------------- MODULE MCNrfOneWay ----------------------------
(* The two radios of the loopback tests.                                   *)
EXTENDS NrfOneWay

MCNode == {server, client}
MCPeer == [n \in MCNode |-> IF n = server THEN client ELSE server]

ASSUME Loopback
=============================================================================
