-------------------------------- MODULE MCPeers --------------------------------
(* Constants for Peers under TLC. *)
EXTENDS Peers

\* Two configured peers, the second disabled and announced as well.
MCStatic == <<"a", "b">>
===============================================================================
