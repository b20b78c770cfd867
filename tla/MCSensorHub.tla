---------------------------- MODULE MCSensorHub ----------------------------
(* Instances of SensorHub for TLC. *)
EXTENDS SensorHub, TLC

\* The names of the nodes differ in the trailing part only.
NameForNodeDef == [n \in Nodes |-> "pump"]

\* One node keeps a flow and adds another, which the other node has too.
SpecsDef == [n \in Nodes |-> IF n = "pump-a" THEN {<<"f", Invalid>>, <<"f", "g">>} ELSE {<<"g">>}]

=============================================================================
