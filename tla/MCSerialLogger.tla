--------------------------- MODULE MCSerialLogger ---------------------------
(* Instances of SerialLogger for TLC. *)
EXTENDS SerialLogger, TLC
=============================================================================
