----------------------------- MODULE MCMeshRelay -----------------------------
(* The flooding model in one room, where every node hears every other. *)
EXTENDS MeshRelay, TLC

CONSTANTS m, s, t

AllLinks == Node \X Node

\* The two slaves are interchangeable.
Slaves == Permutations({s, t})

=============================================================================
