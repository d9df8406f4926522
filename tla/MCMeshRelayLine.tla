--------------------------- MODULE MCMeshRelayLine ---------------------------
(* The flooding model with history, on a chain of nodes. *)
EXTENDS MeshRelayHistory

CONSTANTS a, b, c, d, e

Chain == {<<a, b>>, <<b, a>>, <<b, c>>, <<c, b>>, <<c, d>>, <<d, c>>, <<d, e>>, <<e, d>>}

=============================================================================
