-------------------------- MODULE FollowOneMaster ----------------------------
(***************************************************************************)
(* What the origin lock promises: a slave follows at most one master, and  *)
(* leaves it for another only after ReleaseAfter units without a frame     *)
(* from it, never when the host pinned it, and at any time on the host's   *)
(* word.  When the host speaks while a frame is being judged, that frame   *)
(* may still have the last word, and no later one.                         *)
(***************************************************************************)
EXTENDS Naturals

CONSTANTS
  Master,
  NoMaster,      \* not one of them
  ReleaseAfter   \* a natural number

VARIABLES
  followed,  \* the master followed, or NoMaster
  pinned,    \* by the host?
  quiet,     \* units since its last frame came in, up to ReleaseAfter + 1
  late       \* is a frame being judged on what was so before the host spoke?

vars == <<followed, pinned, quiet, late>>

Init == followed = NoMaster /\ pinned = FALSE /\ quiet = 0 /\ late = FALSE

Adopt(m) ==
  /\ followed = NoMaster
  /\ followed' = m /\ quiet' \in {0, 1}
  /\ UNCHANGED <<pinned, late>>

Keep ==
  /\ followed # NoMaster
  /\ quiet' \in {0, 1}
  /\ UNCHANGED <<followed, pinned, late>>

Switch(m) ==
  /\ followed \notin {m, NoMaster}
  /\ ~pinned /\ quiet > ReleaseAfter
  /\ followed' = m /\ quiet' \in {0, 1}
  /\ UNCHANGED <<pinned, late>>

Pin(m) == followed' = m /\ pinned' = TRUE /\ quiet' = 0 /\ late' \in BOOLEAN

Release ==
  /\ followed' = NoMaster /\ pinned' = FALSE /\ late' \in BOOLEAN
  /\ UNCHANGED quiet

\* The frame judged before the host spoke is let in, or dropped.
Undo ==
  /\ late /\ late' = FALSE
  /\ followed' \in Master \union {followed} /\ quiet' \in {0, 1}
  /\ UNCHANGED pinned

Settle == late /\ late' = FALSE /\ UNCHANGED <<followed, pinned, quiet>>

Age ==
  /\ quiet <= ReleaseAfter
  /\ quiet' = quiet + 1
  /\ UNCHANGED <<followed, pinned, late>>

Next ==
  \/ \E m \in Master : Adopt(m) \/ Switch(m) \/ Pin(m)
  \/ Keep \/ Release \/ Undo \/ Settle \/ Age

Spec == Init /\ [][Next]_vars

=============================================================================
