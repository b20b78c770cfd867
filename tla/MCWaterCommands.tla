-------------------------- MODULE MCWaterCommands --------------------------
(* Instances of WaterCommands for TLC. *)
EXTENDS WaterCommands, TLC
=============================================================================
