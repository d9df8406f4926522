----------------------------- MODULE MCNodeStore -----------------------------
(* A setting of each kind: assigned before its save, after, and restarting. *)
EXTENDS NodeStore, TLC

Choices == [role |-> {"slave", "auto"}, layer |-> {"a", "b", ""},
            lr |-> {"on"}, loss |-> {"stop"}]
Defaults == [role |-> "auto", layer |-> "-", lr |-> "off", loss |-> "freewheel"]

=============================================================================
