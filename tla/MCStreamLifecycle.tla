-------------------------- MODULE MCStreamLifecycle --------------------------
(* Turns, kinds of transfers and bounds for the runs of StreamLifecycle.    *)
EXTENDS StreamLifecycle

A == <<"a">>
AA == <<"a", "a">>
DualOrNot == {[dual |-> TRUE, empty |-> FALSE], [dual |-> FALSE, empty |-> FALSE]}
AllKinds == DualOrNot \cup {[dual |-> TRUE, empty |-> TRUE]}
OnlyB == {"b"}
NoSides == {}
NoPayloads == [s \in Sides |-> 0]
OnePayload == [s \in Sides |-> IF s = "a" THEN 1 ELSE 0]
=============================================================================
