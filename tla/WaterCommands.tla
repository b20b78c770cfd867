--------------------------- MODULE WaterCommands ---------------------------
(***************************************************************************)
(* Water valve commands: SIGUSR1 and SIGUSR2 set flags in mlogger, its read *)
(* loop turns the flags into one-byte commands on the serial line, and the *)
(* MeterReader sketch switches the relay.                                  *)
(*                                                                         *)
(* A signal may arrive between any two statements of the read loop, so     *)
(* each test and each assignment of a flag is a step.  Statements happen   *)
(* in program order; the flags are not volatile, but the calls between     *)
(* them keep a compiler from moving them.  The loop reaches the flags only *)
(* after a read, which needs bytes from the sketch.                        *)
(***************************************************************************)
EXTENDS Integers, Sequences

CONSTANTS
    MaxSignals,  \* bound: signals sent
    MaxResets    \* bound: resets of the board

ASSUME BoundsAssumption == MaxSignals \in Nat /\ MaxResets \in Nat

VARIABLES
    water_on, water_off,  \* the flags
    pc,          \* the statement of the read loop that is next
    commands,    \* bytes on their way to the board
    bytes,       \* bytes from the board wait to be read
    relay,       \* WATER_PIN
    did_water,   \* a command was read in this round of loop()
    last,        \* history: the last signal delivered
    excused,     \* history: the last "on" met a pending "off", the board was reset, or
                 \* it repeats one already written to which this happened
    lost,        \* history: a write() of a command failed
    signals, resets  \* counters for the bounds

logger == <<water_on, water_off, pc>>
board == <<relay, did_water>>
history == <<last, excused, lost, signals, resets>>
vars == <<water_on, water_off, pc, commands, bytes, relay, did_water, last, excused, lost, signals, resets>>

OffBranch == {"off_write", "off_clear", "off_clear_on"}
OnBranch == {"on_write", "on_clear"}
Locations == {"select", "test_off", "test_on"} \cup OffBranch \cup OnBranch

Init ==
    /\ water_on = 0 /\ water_off = 0
    /\ pc = "select"
    /\ commands = <<>> /\ bytes = FALSE
    /\ relay = "LOW" /\ did_water = FALSE
    /\ last = "none" /\ excused = FALSE /\ lost = FALSE
    /\ signals = 0 /\ resets = 0

-----------------------------------------------------------------------------
(* handle_signal: all signals are blocked meanwhile, so one assignment. *)

SignalOn ==
    /\ signals < MaxSignals
    /\ water_on' = 1
    /\ last' = "on"
    /\ excused' = (water_off = 1 \/ pc \in OffBranch \/ (pc = "on_clear" /\ excused))
    /\ signals' = signals + 1
    /\ UNCHANGED <<water_off, pc, commands, bytes, board, lost, resets>>

SignalOff ==
    /\ signals < MaxSignals
    /\ water_off' = 1
    /\ last' = "off" /\ signals' = signals + 1
    /\ UNCHANGED <<water_on, pc, commands, bytes, board, excused, lost, resets>>

-----------------------------------------------------------------------------
(* The read loop *)

\* select, read and the lines found; a signal does not restart select, but the
\* read that follows blocks until there are bytes.
ReadBytes ==
    /\ pc = "select" /\ bytes
    /\ bytes' = FALSE
    /\ pc' = "test_off"
    /\ UNCHANGED <<water_on, water_off, commands, board, history>>

\* A failed read goes round without a look at the flags.
ReadFails ==
    /\ pc = "select" /\ bytes
    /\ bytes' = FALSE
    /\ UNCHANGED <<logger, commands, board, history>>

\* Faulty variant: water_on is cleared in every round.
TestOffClears ==
    /\ pc = "test_off"
    /\ pc' = IF water_off = 1 THEN "off_write" ELSE "off_clear_on"
    /\ UNCHANGED <<water_on, water_off, commands, bytes, board, history>>

TestOff ==
    /\ pc = "test_off"
    /\ pc' = IF water_off = 1 THEN "off_write" ELSE "test_on"
    /\ UNCHANGED <<water_on, water_off, commands, bytes, board, history>>

TestOn ==
    /\ pc = "test_on"
    /\ pc' = IF water_on = 1 THEN "on_write" ELSE "select"
    /\ UNCHANGED <<water_on, water_off, commands, bytes, board, history>>

\* The result of write() is not looked at.
Write(c) ==
    \/ commands' = Append(commands, c) /\ UNCHANGED lost
    \/ lost' = TRUE /\ UNCHANGED commands

WriteOff ==
    /\ pc = "off_write" /\ Write("w")
    /\ pc' = "off_clear"
    /\ UNCHANGED <<water_on, water_off, bytes, board, last, excused, signals, resets>>

\* Faulty variant: a pending "on" survives.
ClearOffOnly ==
    /\ pc = "off_clear"
    /\ water_off' = 0
    /\ pc' = "select"
    /\ UNCHANGED <<water_on, commands, bytes, board, history>>

ClearOff ==
    /\ pc = "off_clear"
    /\ water_off' = 0
    /\ pc' = "off_clear_on"
    /\ UNCHANGED <<water_on, commands, bytes, board, history>>

ClearOnAfterOff ==
    /\ pc = "off_clear_on"
    /\ water_on' = 0
    /\ pc' = "select"
    /\ UNCHANGED <<water_off, commands, bytes, board, history>>

WriteOn ==
    /\ pc = "on_write" /\ Write("W")
    /\ pc' = "on_clear"
    /\ UNCHANGED <<water_on, water_off, bytes, board, last, excused, signals, resets>>

\* Faulty variant: both flags are cleared, as in the other branch.
ClearBoth ==
    /\ pc = "on_clear"
    /\ water_on' = 0 /\ water_off' = 0
    /\ pc' = "select"
    /\ UNCHANGED <<commands, bytes, board, history>>

ClearOn ==
    /\ pc = "on_clear"
    /\ water_on' = 0
    /\ pc' = "select"
    /\ UNCHANGED <<water_off, commands, bytes, board, history>>

-----------------------------------------------------------------------------
(* The sketch *)

\* Every five seconds an LDR line, whatever else happens.
Report ==
    /\ bytes' = TRUE
    /\ UNCHANGED <<logger, commands, board, history>>

Pin(c) == IF c = "W" THEN "HIGH" ELSE "LOW"

ReadCommand ==
    /\ commands # <<>>
    /\ relay' = Pin(Head(commands))
    /\ commands' = Tail(commands)
    /\ did_water' = TRUE
    /\ UNCHANGED <<logger, bytes, history>>

\* status() after the commands.
Status ==
    /\ commands = <<>> /\ did_water
    /\ bytes' = TRUE
    /\ did_water' = FALSE
    /\ UNCHANGED <<logger, commands, relay, history>>

\* setup() after a reset: the pin is LOW, unread bytes are gone, and it says "Hi".
Reset ==
    /\ resets < MaxResets
    /\ relay' = "LOW" /\ did_water' = FALSE
    /\ commands' = <<>> /\ bytes' = TRUE
    /\ excused' = TRUE /\ resets' = resets + 1
    /\ UNCHANGED <<logger, last, lost, signals>>

-----------------------------------------------------------------------------

LoggerStep ==
    \/ ReadBytes \/ TestOff \/ TestOn
    \/ WriteOff \/ ClearOff \/ ClearOnAfterOff
    \/ WriteOn \/ ClearOn

BoardStep == ReadCommand \/ Status

Next ==
    \/ SignalOn \/ SignalOff
    \/ LoggerStep \/ ReadFails
    \/ BoardStep \/ Report \/ Reset

Spec == Init /\ [][Next]_vars

\* Both loops keep running and reads do not fail for ever.
FairSpec ==
    /\ Spec
    /\ WF_vars(Report) /\ WF_vars(BoardStep) /\ SF_vars(LoggerStep)

-----------------------------------------------------------------------------
(* Properties *)

\* The variables have their types.
TypeOK ==
    /\ water_on \in {0, 1} /\ water_off \in {0, 1}
    /\ pc \in Locations
    /\ commands \in Seq({"w", "W"}) /\ bytes \in BOOLEAN
    /\ relay \in {"LOW", "HIGH"} /\ did_water \in BOOLEAN
    /\ last \in {"none", "on", "off"} /\ excused \in BOOLEAN /\ lost \in BOOLEAN
    /\ signals \in 0 .. MaxSignals /\ resets \in 0 .. MaxResets

\* Nothing is pending between the signal and the relay.
Quiet == pc = "select" /\ water_on = 0 /\ water_off = 0 /\ commands = <<>>

\* mlogger.c: "If we've just turned the water off, don't let a race immediately
\* turn it back on!"  Whatever signals raced, once all is handled the water is
\* off if the last signal said so (unless a write failed).
SettledOff == Quiet /\ last = "off" /\ ~lost => relay = "LOW"

\* An "on" is given up only to an "off" that was pending when it arrived or to a
\* reset of the board: otherwise, once all is handled, the water is on.
SettledOn == Quiet /\ last = "on" /\ ~excused /\ ~lost => relay = "HIGH"

\* Whatever the signals raced with, an "off" that is the last one closes the
\* valve for good: the sketch's reports keep the loop coming round to the flags.
OffTakesEffect == <>[](last = "off" => relay = "LOW" \/ lost)

=============================================================================
