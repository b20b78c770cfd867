-------------------------- MODULE MCWaterFlowNode --------------------------
(* Instances of WaterFlowNode for TLC. *)
EXTENDS WaterFlowNode

\* Only the settings that steer the node; the others are stored the same way.
KeysDef == ControlKeys

ValuesDef ==
    [k \in KeysDef |->
        CASE k = "reportCount" -> {-1, 0, 1, 2}
          [] k \in {"nodeName", "sensorSpec"} -> {0, 1, 2}
          [] OTHER -> {0, 1}]

\* 2 is the text 1 with white space around it.
TrimDef == [v \in {0, 1, 2} |-> IF v = 2 THEN 1 ELSE v]

\* The defaults of main.ino, and the files a low power node is delivered with.
DefaultDef == [k \in KeysDef |-> 0]
InitialFlashDef ==
    [k \in KeysDef |->
        CASE k = "lowPower" -> 1
          [] k = "reportCount" -> 2
          [] k = "sleepInterval" -> 1
          [] OTHER -> Null]

Message(n, k, v, r) == [name |-> n, key |-> k, value |-> v, retain |-> r]

MessagesDef ==
    {Message(0, k, v, FALSE) : k \in {"lowPower", "enableOTA"}, v \in {0, 1}}
        \cup {Message(0, "reportCount", v, FALSE) : v \in {-1, 1}}
        \cup {Message(0, "sensorSpec", 2, TRUE), Message(1, "sensorSpec", 1, TRUE)}
        \cup {Message(0, "nodeName", 1, FALSE), Message(0, "nodeName", 2, TRUE)}
        \cup {Message(0, "sleepInterval", 0, TRUE), Message(0, Null, 0, FALSE),
              Message(0, "nodeName", Null, FALSE)}

=============================================================================
