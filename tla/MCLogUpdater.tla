---------------------------- MODULE MCLogUpdater ----------------------------
(* Instance of LogUpdater for TLC. *)
EXTENDS LogUpdater

CONSTANTS a, b

Report(h, ts, n, ping, counter) ==
    [hour |-> h, ts |-> ts, node |-> n, ping_id |-> ping, counter |-> counter, parts |-> 13]

\* Meters that start again, whose reports get lost or share a second, and a
\* line that is no report.
SomeLogs ==
    {<<Report(1, 1, a, 5, 3), Report(1, 1, b, 2, 1), Report(2, 2, a, 7, 1), Report(2, 2, b, 4, 4)>>,
     <<Report(1, 1, a, 1, 0), Report(1, 2, Null, 0, 0), Report(1, 2, a, 3, 2),
       Report(2, 3, a, 1, 1), Report(2, 3, a, 2, 2)>>}

=============================================================================
