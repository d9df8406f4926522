---------------------------- MODULE MCMediaSlave -----------------------------
(* What a master's host sends: an index while playing, and index 0 to stop. *)
EXTENDS MediaSlave

OneMedia == {[state |-> 1, index |-> 7], [state |-> 0, index |-> 0]}

=============================================================================
