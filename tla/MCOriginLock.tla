---------------------------- MODULE MCOriginLock -----------------------------
(* Two masters in earshot of one slave. *)
EXTENDS OriginLock, TLC

CONSTANTS a, b

\* The two masters are interchangeable.
Masters == Permutations({a, b})

=============================================================================
