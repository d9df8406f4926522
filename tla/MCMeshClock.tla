----------------------------- MODULE MCMeshClock -----------------------------
(* Two nodes; the offset the later one needs takes both words.  Frames may *)
(* be on time, early or late.                                              *)
EXTENDS MeshClock, TLC

CONSTANTS n1, n2

ThreeApart == (n1 :> 0) @@ (n2 :> 3)
FourApart == (n1 :> 0) @@ (n2 :> 4)
AnyLag == {-1, 0, 1}

=============================================================================
