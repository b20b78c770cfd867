-------------------------- MODULE MCSolarExporter --------------------------
(* Instance of SolarExporter for TLC. *)
EXTENDS SolarExporter, TLC

\* Part of the table with every fetcher, and one metric more than may fail.
Table == SubSeq(SolarMetrics, 5, 8)

TableRegisters == {5035, 5036, 5006, 5007, 5017, 5018}

\* A negative number, and words whose bytes and whose order matter.
SomeReadings ==
    {5035 :> 65530 @@ 5036 :> 515 @@ 5006 :> 18 @@ 5007 :> 1 @@ 5017 :> 7 @@ 5018 :> 0}

=============================================================================
