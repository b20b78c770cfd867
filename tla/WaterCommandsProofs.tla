------------------------ MODULE WaterCommandsProofs ------------------------
(***************************************************************************)
(* Proofs that a last "off" is never undone and an "on" not given up, for  *)
(* any number of signals and resets.  Final is what the relay will be once *)
(* the commands on the line are carried out.  After an "off" either the    *)
(* flag still asks for it, or Final is LOW and nothing that could write    *)
(* "W" is under way: a flag water_on that is still set is about to be      *)
(* cleared.                                                                *)
(*                                                                         *)
(* After an "on" that nothing excuses no "off" is pending or under way,    *)
(* and either the flag still asks for it or Final is HIGH.  The flag may   *)
(* be cleared under a signal that has just arrived: the "W" that was       *)
(* written just before stands for it.                                      *)
(***************************************************************************)
EXTENDS WaterCommands, SequenceTheorems, TLAPS

Final == IF commands = <<>> THEN relay ELSE Pin(commands[Len(commands)])

OffStands ==
    last = "off" /\ water_off = 0 =>
        /\ Final = "LOW"
        /\ water_on = 1 => pc = "off_clear_on"
        /\ pc \notin OnBranch

OnStands ==
    last = "on" /\ ~excused =>
        /\ water_off = 0 /\ pc \notin OffBranch
        /\ water_on = 1 \/ Final = "HIGH"

IndInv ==
    /\ TypeOK
    /\ ~lost /\ pc \in {"off_clear", "off_clear_on"} => Final = "LOW"
    /\ ~lost => OffStands
    /\ ~lost /\ pc = "on_clear" /\ ~excused => Final = "HIGH"
    /\ ~lost => OnStands

-----------------------------------------------------------------------------

\* A command that is carried out, first in first out, does not change Final.
LEMMA FinalKept ==
    ASSUME commands \in Seq({"w", "W"}), commands # <<>>,
           relay' = Pin(Head(commands)), commands' = Tail(commands)
    PROVE  Final' = Final
  <1> DEFINE S == {"w", "W"}
  <1>0. /\ commands' \in Seq(S) /\ Len(commands') = Len(commands) - 1
        /\ \A i \in 1 .. Len(commands') : commands'[i] = commands[i + 1]
        /\ Len(commands) \in Nat \ {0}
    BY HeadTailProperties, EmptySeq
  <1>1. CASE Len(commands) = 1
    <2>1. commands' = <<>>
      BY <1>0, <1>1, EmptySeq
    <2>2. Head(commands) = commands[Len(commands)]
      BY <1>1
    <2> QED
      BY <2>1, <2>2 DEF Final
  <1>2. CASE Len(commands) # 1
    <2>1. Len(commands') \in Nat \ {0}
      BY <1>0, <1>2
    <2>2. commands' # <<>>
      BY <2>1, EmptySeq
    <2>3. commands'[Len(commands')] = commands[Len(commands)]
      BY <2>1, <1>0
    <2> QED
      BY <2>2, <2>3 DEF Final, Pin
  <1> QED
    BY <1>1, <1>2

\* A command that is written determines Final.
LEMMA FinalWritten ==
    ASSUME commands \in Seq({"w", "W"}), NEW c \in {"w", "W"},
           commands' = Append(commands, c)
    PROVE  Final' = Pin(c)
  <1>1. commands' # <<>> /\ commands'[Len(commands')] = c
    OBVIOUS
  <1> QED
    BY <1>1 DEF Final, Pin

\* The variables of WaterCommands keep their types.
LEMMA TypePreserved == TypeOK /\ [Next]_vars => TypeOK'
  <1> SUFFICES ASSUME TypeOK, [Next]_vars PROVE TypeOK'
    OBVIOUS
  <1> USE DEF logger, board, history
  <1>1. /\ bytes' \in BOOLEAN /\ did_water' \in BOOLEAN
        /\ excused' \in BOOLEAN /\ lost' \in BOOLEAN
    <2>1. bytes' \in BOOLEAN
      BY Zenon DEF TypeOK, Next, LoggerStep, BoardStep, SignalOn, SignalOff, ReadBytes, TestOff,
             TestOn, ReadFails, WriteOff, WriteOn, ClearOff, ClearOnAfterOff, ClearOn, ReadCommand,
             Status, Report, Reset, vars
    <2>2. did_water' \in BOOLEAN
      BY Zenon DEF TypeOK, Next, LoggerStep, BoardStep, SignalOn, SignalOff, ReadBytes, TestOff,
             TestOn, ReadFails, WriteOff, WriteOn, ClearOff, ClearOnAfterOff, ClearOn, ReadCommand,
             Status, Report, Reset, vars
    <2>3. excused' \in BOOLEAN
      BY Zenon DEF TypeOK, Next, LoggerStep, BoardStep, SignalOn, SignalOff, ReadBytes, TestOff,
             TestOn, ReadFails, WriteOff, WriteOn, ClearOff, ClearOnAfterOff, ClearOn, ReadCommand,
             Status, Report, Reset, vars
    <2>4. lost' \in BOOLEAN
      BY Zenon DEF TypeOK, Next, LoggerStep, BoardStep, SignalOn, SignalOff, ReadBytes, TestOff,
             TestOn, ReadFails, WriteOff, WriteOn, Write, ClearOff, ClearOnAfterOff, ClearOn,
             ReadCommand, Status, Report, Reset, vars
    <2> QED
      BY <2>1, <2>2, <2>3, <2>4
  <1>2. commands' \in Seq({"w", "W"})
    <2>1. CASE WriteOff
      BY <2>1, AppendProperties DEF WriteOff, Write, TypeOK
    <2>2. CASE WriteOn
      BY <2>2, AppendProperties DEF WriteOn, Write, TypeOK
    <2>3. CASE ReadCommand
      BY <2>3, HeadTailProperties DEF ReadCommand, TypeOK
    <2>4. CASE Reset
      BY <2>4, EmptySeq DEF Reset
    <2>5. CASE UNCHANGED commands
      BY <2>5 DEF TypeOK
    <2> QED
      BY <2>1, <2>2, <2>3, <2>4, <2>5 DEF Next, LoggerStep, BoardStep, SignalOn, SignalOff,
         ReadBytes, TestOff, TestOn, ReadFails, ClearOff, ClearOnAfterOff, ClearOn, Status, Report,
         vars
  <1>3. /\ water_on' \in {0, 1} /\ water_off' \in {0, 1}
        /\ pc' \in Locations
        /\ relay' \in {"LOW", "HIGH"}
        /\ last' \in {"none", "on", "off"}
        /\ signals' \in 0 .. MaxSignals /\ resets' \in 0 .. MaxResets
    BY BoundsAssumption DEF TypeOK, Locations, OffBranch, OnBranch, Next, LoggerStep, BoardStep,
       SignalOn, SignalOff, ReadBytes, TestOff, TestOn, ReadFails, WriteOff, WriteOn, ClearOff,
       ClearOnAfterOff, ClearOn, ReadCommand, Pin, Status, Report, Reset, vars
  <1> QED
    BY <1>1, <1>2, <1>3 DEF TypeOK

\* A failed write is not forgotten.
LEMMA LostStays == [Next]_vars /\ ~lost' => ~lost
  BY DEF Next, LoggerStep, BoardStep, SignalOn, SignalOff, ReadBytes, TestOff, TestOn, ReadFails,
         WriteOff, WriteOn, Write, ClearOff, ClearOnAfterOff, ClearOn, ReadCommand, Status,
         Report, Reset, vars, logger, board, history

\* What the invariant says after an "off", action by action.
LEMMA OffPreserved ==
    ASSUME IndInv, TypeOK', [Next]_vars, ~lost'
    PROVE  /\ pc' \in {"off_clear", "off_clear_on"} => Final' = "LOW"
           /\ OffStands'
  <1> USE DEF OffStands, OffBranch, OnBranch, logger, board, history
  <1>1. ~lost
    BY LostStays
  <1>2. /\ pc \in {"off_clear", "off_clear_on"} => Final = "LOW"
        /\ OffStands
        /\ water_on \in {0, 1} /\ water_off \in {0, 1}
    BY <1>1 DEF IndInv, TypeOK
  <1>3. UNCHANGED <<commands, relay>> => Final' = Final
    BY DEF Final
  <1>4. CASE SignalOn
    BY <1>2, <1>3, <1>4 DEF SignalOn
  <1>5. CASE SignalOff
    BY <1>2, <1>3, <1>5 DEF SignalOff
  <1>6. CASE ReadBytes \/ TestOff \/ TestOn \/ ReadFails
    BY <1>2, <1>3, <1>6 DEF ReadBytes, TestOff, TestOn, ReadFails
  <1>7. CASE WriteOff
    <2>1. Final' = Pin("w")
      BY <1>7, FinalWritten DEF WriteOff, Write, IndInv, TypeOK
    <2> QED
      BY <2>1, <1>2, <1>7 DEF WriteOff, Pin
  <1>8. CASE WriteOn
    BY <1>2, <1>8 DEF WriteOn
  <1>9. CASE ClearOff \/ ClearOnAfterOff \/ ClearOn
    BY <1>2, <1>3, <1>9 DEF ClearOff, ClearOnAfterOff, ClearOn
  <1>10. CASE ReadCommand
    <2>1. Final' = Final
      BY <1>10, FinalKept DEF ReadCommand, IndInv, TypeOK
    <2> QED
      BY <2>1, <1>2, <1>10 DEF ReadCommand
  <1>11. CASE Status \/ Report
    BY <1>2, <1>3, <1>11 DEF Status, Report
  <1>12. CASE Reset
    BY <1>2, <1>12 DEF Reset, Final
  <1>13. CASE UNCHANGED vars
    BY <1>2, <1>3, <1>13 DEF vars
  <1> QED
    BY <1>4, <1>5, <1>6, <1>7, <1>8, <1>9, <1>10, <1>11, <1>12, <1>13
       DEF Next, LoggerStep, BoardStep

\* What the invariant says after an "on", action by action.
LEMMA OnPreserved ==
    ASSUME IndInv, TypeOK', [Next]_vars, ~lost'
    PROVE  /\ pc' = "on_clear" /\ ~excused' => Final' = "HIGH"
           /\ OnStands'
  <1> USE DEF OnStands, OffBranch, logger, board, history
  <1>1. ~lost
    BY LostStays
  <1>2. /\ pc = "on_clear" /\ ~excused => Final = "HIGH"
        /\ OnStands
        /\ water_on \in {0, 1} /\ water_off \in {0, 1}
    BY <1>1 DEF IndInv, TypeOK
  <1>3. UNCHANGED <<commands, relay>> => Final' = Final
    BY DEF Final
  <1>4. CASE SignalOn
    <2>1. water_on' = 1 /\ Final' = Final /\ UNCHANGED <<water_off, pc>>
      BY <1>3, <1>4 DEF SignalOn
    <2>2. ~excused' => water_off # 1 /\ pc \notin OffBranch /\ (pc = "on_clear" => ~excused)
      BY Zenon, <1>4 DEF SignalOn
    <2> QED
      BY <1>2, <2>1, <2>2
  <1>5. CASE SignalOff
    BY <1>2, <1>3, <1>5 DEF SignalOff
  <1>6. CASE ReadBytes \/ TestOff \/ TestOn \/ ReadFails
    BY <1>2, <1>3, <1>6 DEF ReadBytes, TestOff, TestOn, ReadFails
  <1>7. CASE WriteOff
    BY <1>2, <1>7 DEF WriteOff
  <1>8. CASE WriteOn
    <2>1. Final' = Pin("W")
      BY <1>8, FinalWritten DEF WriteOn, Write, IndInv, TypeOK
    <2> QED
      BY <2>1, <1>2, <1>8 DEF WriteOn, Pin
  <1>9. CASE ClearOff \/ ClearOnAfterOff \/ ClearOn
    BY <1>2, <1>3, <1>9 DEF ClearOff, ClearOnAfterOff, ClearOn
  <1>10. CASE ReadCommand
    <2>1. Final' = Final
      BY <1>10, FinalKept DEF ReadCommand, IndInv, TypeOK
    <2> QED
      BY <2>1, <1>2, <1>10 DEF ReadCommand
  <1>11. CASE Status \/ Report
    BY <1>2, <1>3, <1>11 DEF Status, Report
  <1>12. CASE Reset
    BY <1>12 DEF Reset
  <1>13. CASE UNCHANGED vars
    BY <1>2, <1>3, <1>13 DEF vars
  <1> QED
    BY <1>4, <1>5, <1>6, <1>7, <1>8, <1>9, <1>10, <1>11, <1>12, <1>13
       DEF Next, LoggerStep, BoardStep

\* IndInv is an invariant of the command path, for every bound on the signals.
THEOREM Invariance == Spec => []IndInv
  <1>1. Init => IndInv
    <2> SUFFICES ASSUME Init PROVE IndInv
      OBVIOUS
    <2>1. /\ bytes \in BOOLEAN /\ did_water \in BOOLEAN
          /\ excused \in BOOLEAN /\ lost \in BOOLEAN
      BY Zenon DEF Init
    <2>2. TypeOK
      BY <2>1, BoundsAssumption, EmptySeq DEF Init, TypeOK, Locations
    <2> QED
      BY <2>2 DEF Init, IndInv, OffStands, OnStands
  <1>2. IndInv /\ [Next]_vars => IndInv'
    BY TypePreserved, OffPreserved, OnPreserved DEF IndInv
  <1> QED
    BY <1>1, <1>2, PTL DEF Spec

\* Types of WaterCommands, for any number of signals and resets.
THEOREM TypeCorrect == Spec => []TypeOK
  <1>1. IndInv => TypeOK
    BY DEF IndInv
  <1> QED
    BY <1>1, Invariance, PTL

\* A last "off" is never undone by a race in the read loop of mlogger.c.
THEOREM OffIsSafe == Spec => []SettledOff
  <1>1. IndInv => SettledOff
    BY DEF IndInv, OffStands, SettledOff, Quiet, Final
  <1> QED
    BY <1>1, Invariance, PTL

\* An "on" is given up only to an "off" that was pending when it arrived, or to
\* a reset: the flag that mlogger.c clears under a later signal has been written.
THEOREM OnIsKept == Spec => []SettledOn
  <1>1. IndInv => SettledOn
    BY DEF IndInv, OnStands, SettledOn, Quiet, Final
  <1> QED
    BY <1>1, Invariance, PTL

=============================================================================
