----------------------------- MODULE MCPowerDB -----------------------------
(* Instance of PowerDB and BillPeriods for TLC: half hours of two ticks. *)
EXTENDS BillPeriods, FiniteSetsExt

\* The clocks are set back by an hour, east and west of Greenwich, or forward.
SomeZones == {"autumn east", "autumn west", "spring"}

SomeOffset ==
    [z \in SomeZones |-> [t \in Times |-> IF (z = "spring") = (t < 10) THEN 0 ELSE 4]]

SomeDate ==
    [z \in SomeZones |->
        [w \in {t + SomeOffset[z][t] : t \in Times} |->
            LET moments == {t \in Times : t + SomeOffset[z][t] = w}
            IN  IF z = "autumn west" THEN Min(moments) ELSE Max(moments)]]

\* Pulses on and off the boundaries of half hours.
SomePulses == {{t \in Times : t % 3 # 1}}

\* Midnights outside the hour that occurs twice.
SomeBills == <<0, 12, 16>>

=============================================================================
