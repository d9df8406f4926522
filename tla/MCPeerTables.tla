---------------------------- MODULE MCPeerTables -----------------------------
(* One node among masters it hears and slaves that report to it. *)
EXTENDS PeerTables

CONSTANTS p, q, r

=============================================================================
