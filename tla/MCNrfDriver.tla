---------------------------- MODULE MCNrfDriver ----------------------------
(* Two Pis, or the two radios of one, and the link from the server to the  *)
(* client.                                                                 *)
EXTENDS NrfLink

CONSTANTS server, client

MCNode == {server, client}
MCPeer == [n \in MCNode |-> IF n = server THEN client ELSE server]
=============================================================================
