----------------------------- MODULE LogUpdater -----------------------------
(***************************************************************************)
(* common/common.py, update-rrd.py and make-graphs: the hourly logs are    *)
(* fetched from the logging machine and their new lines turned into points *)
(* of RRD files, one per meter.  A history file keeps the position in the  *)
(* logs and the meters' counters from run to run.                          *)
(*                                                                         *)
(* The logger writes the timestamp and the rest of a line in two steps and *)
(* a fetch may fall in between.  A run may end after any of its steps.     *)
(* The log that will be written is chosen in Init.                         *)
(***************************************************************************)
EXTENDS Integers, Sequences, FiniteSets, SequencesExt

CONSTANTS
    Nodes,        \* the MeterReader nodes of the config file
    Hours,        \* the hours of the log
    Logs,         \* the logs that may be written, as sequences of lines
    LongWrap,     \* 2^32
    PageLines,    \* lines of the page that the web server sends for no file
    Null

\* A line that is no report, or of a node that is not in the config file, has
\* another node.
Lines == [hour : Hours, ts : Nat \ {0}, node : Nodes \cup {Null},
          ping_id : Nat, counter : Nat, parts : Nat]

ASSUME LogUpdaterAssumption ==
    /\ Hours \subseteq Nat \ {0} /\ 1 \in Hours
    /\ Logs \subseteq Seq(Lines)
    /\ \A l \in Logs : \A i, j \in 1 .. Len(l) :
          i <= j => l[i].hour <= l[j].hour /\ l[i].ts <= l[j].ts
    /\ LongWrap \in Nat /\ PageLines \in Nat \ {0}
    /\ Null \notin Nodes \cup Nat \cup [lines : Nat, whole : Nat]

VARIABLES
    log,         \* what the logger writes in the end
    written,     \* lines it has written so far
    stamped,     \* the timestamp of the next line is written as well
    hour,        \* the clock
    copy,        \* the fetched file of each hour, Null when there is none
    history,     \* the history file
    run,         \* the state of the program, Null between runs
    rrd,         \* the points of each node's RRD file
    spoilt       \* history variable: lines that a fetch may have lost

vars == <<log, written, stamped, hour, copy, history, run, rrd, spoilt>>

\* lineno is the number of the last line processed, from 0 as in the code;
\* realcounter counts on where the meter's own counter starts again.
History(file, lineno, node) == [current_file |-> file, current_file_lineno |-> lineno, node_state |-> node]

NodeState == [realcounter |-> 0, lastcounter |-> Null, last_ping_id |-> 0]

Init ==
    /\ log \in Logs
    /\ written = 0 /\ stamped = FALSE
    /\ hour = 1
    /\ copy = [h \in Hours |-> Null]
    /\ history = History(0, -1, [n \in Nodes |-> NodeState])
    /\ run = Null
    /\ rrd = [n \in Nodes |-> <<>>]
    /\ spoilt = {}

-----------------------------------------------------------------------------
(* The logger, and the fetching of its files *)

\* The first line of hour h, and how many lines it has by now.
FirstOf(h) == 1 + Cardinality({i \in 1 .. Len(log) : log[i].hour < h})

WrittenOf(h) == Cardinality({i \in 1 .. written : log[i].hour = h})

NextIsOf(h) == written < Len(log) /\ log[written + 1].hour = h

Stamp ==
    /\ ~stamped /\ NextIsOf(hour)
    /\ stamped' = TRUE
    /\ UNCHANGED <<log, written, hour, copy, history, run, rrd, spoilt>>

Write ==
    /\ stamped
    /\ stamped' = FALSE /\ written' = written + 1
    /\ UNCHANGED <<log, hour, copy, history, run, rrd, spoilt>>

NextHour ==
    /\ hour + 1 \in Hours /\ ~NextIsOf(hour)
    /\ hour' = hour + 1
    /\ UNCHANGED <<log, written, stamped, copy, history, run, rrd, spoilt>>

\* Faulty variant: the server sends an empty file for none, and it is kept.
FetchedEmpty(h) ==
    LET whole == WrittenOf(h)
        torn == IF stamped /\ NextIsOf(h) THEN 1 ELSE 0
    IN  [lines |-> whole + torn, whole |-> whole]

\* A copy has lines, of which some are whole lines of the log.
Fetched(h) ==
    LET whole == WrittenOf(h)
        torn == IF stamped /\ NextIsOf(h) THEN 1 ELSE 0
    IN  IF whole + torn > 0 THEN [lines |-> whole + torn, whole |-> whole]
        ELSE [lines |-> PageLines, whole |-> 0]

\* Lines in whose place the file holds something else, and lines of earlier
\* hours that were not fetched before.
Hidden(h) ==
    LET f == Fetched(h)
    IN  {i \in 1 .. Len(log) : /\ log[i].hour = h
                               /\ i - FirstOf(h) \in f.whole .. f.lines - 1}

InCopy(i) ==
    LET c == copy[log[i].hour]
    IN  c # Null /\ i - FirstOf(log[i].hour) < c.whole

Missed(h) == {i \in 1 .. Len(log) : log[i].hour < h /\ ~InCopy(i)}

\* make-graphs gets the file of this hour, and in the first minute the one of
\* the hour before; for a file that does not exist yet it gets the text of the
\* server's error.  It fetches before it starts the program.
Get(h) ==
    /\ run = Null
    /\ h \in {hour - 1, hour} \cap Hours
    /\ copy' = [copy EXCEPT ![h] = Fetched(h)]
    /\ spoilt' = spoilt \cup Hidden(h) \cup Missed(h)
    /\ UNCHANGED <<log, written, stamped, hour, history, run, rrd>>

-----------------------------------------------------------------------------
(* The meters *)

\* Faulty variant: only a first report tells that the meter started again.
CalculateStepOfFirst(ping_id, counter, last_counter, last_ping, parts) ==
    IF ping_id = 1 THEN 1 ELSE counter - last_counter

CalculateStep(ping_id, counter, last_counter, last_ping, parts) ==
    IF ping_id = 1 \/ counter < last_counter THEN 1
    ELSE IF ping_id - 1 # last_ping
    THEN IF counter >= last_counter THEN counter - last_counter
         ELSE IF parts < 13 THEN 10 * (ping_id - last_ping) - 4
         ELSE ping_id - last_ping
    ELSE IF counter = 0
    THEN IF parts < 5 /\ 10 * last_counter > 9 * 2 * 8 THEN 6
         ELSE IF 10 * last_counter > 9 * LongWrap THEN LongWrap - last_counter
         ELSE 0
    ELSE counter - last_counter

\* A node's state after a report.
ProcessMeterReader(state, report) ==
    [realcounter |->
         IF state.lastcounter = Null THEN report.counter
         ELSE state.realcounter +
              CalculateStep(report.ping_id, report.counter, state.lastcounter,
                            state.last_ping_id, report.parts),
     lastcounter |-> report.counter,
     last_ping_id |-> report.ping_id]

-----------------------------------------------------------------------------
(* A run *)

\* The queue holds the value of the second update_ts for each node, if any.
NoUpdates == [n \in Nodes |-> Null]

\* Faulty variant: begins with the last line of the last run.
StartAtLastLine ==
    /\ run = Null
    /\ run' = [history |-> history,
               next |-> IF history.current_file = 0 THEN 0 ELSE history.current_file_lineno,
               update_queue |-> NoUpdates, update_ts |-> 0]
    /\ UNCHANGED <<log, written, stamped, hour, copy, history, rrd, spoilt>>

\* next is the number of the line to be read; in the file of the history it is
\* the first after lineno.
Start ==
    /\ run = Null
    /\ run' = [history |-> history, next |-> history.current_file_lineno + 1,
               update_queue |-> NoUpdates, update_ts |-> 0]
    /\ UNCHANGED <<log, written, stamped, hour, copy, history, rrd, spoilt>>

File == run.history.current_file

InFile == run # Null /\ File # 0 /\ run.next < copy[File].lines

AtEnd == run # Null /\ ~InFile

LaterFiles == {h \in Hours : h > File /\ copy[h] # Null}

NextFile ==
    /\ AtEnd /\ LaterFiles # {}
    /\ \E h \in LaterFiles :
          /\ \A k \in LaterFiles : h <= k
          /\ run' = [run EXCEPT !.history.current_file = h, !.next = 0]
    /\ UNCHANGED <<log, written, stamped, hour, copy, history, rrd, spoilt>>

\* The line is counted whatever it holds.
Counted == [run EXCEPT !.history.current_file_lineno = run.next, !.next = run.next + 1]

\* The line to be read, and whether it is the report of a meter.
Line == log[FirstOf(File) + run.next]

IsReport == run.next < copy[File].whole /\ Line.node \in Nodes

SkipLine ==
    /\ InFile /\ ~IsReport
    /\ run' = Counted
    /\ UNCHANGED <<log, written, stamped, hour, copy, history, rrd, spoilt>>

\* Updates of an earlier second have to be flushed before a report is queued.
ReportLine ==
    /\ InFile /\ IsReport
    /\ run.update_queue = NoUpdates \/ run.update_ts = Line.ts
    /\ LET n == Line.node
           state == ProcessMeterReader(run.history.node_state[n], Line)
       IN  run' = [Counted EXCEPT !.history.node_state[n] = state,
                                  !.update_queue[n] = state.realcounter,
                                  !.update_ts = Line.ts]
    /\ UNCHANGED <<log, written, stamped, hour, copy, history, rrd, spoilt>>

FlushDue ==
    /\ run # Null /\ run.update_queue # NoUpdates
    /\ IF AtEnd THEN LaterFiles = {} ELSE IsReport /\ run.update_ts # Line.ts

\* rrdtool refuses what is not after its last update, which is printed; the
\* test of LastUpdateFor before it is weaker, since that is never refreshed.
FlushUpdate(n) ==
    /\ FlushDue /\ run.update_queue[n] # Null
    /\ run' = [run EXCEPT !.update_queue[n] = Null]
    /\ rrd' = IF rrd[n] # <<>> /\ run.update_ts <= Last(rrd[n]).ts THEN rrd
              ELSE [rrd EXCEPT ![n] = Append(@, [ts |-> run.update_ts,
                                                 value |-> run.update_queue[n]])]
    /\ UNCHANGED <<log, written, stamped, hour, copy, history, spoilt>>

\* Faulty variant: the history is saved before the last updates are flushed.
SaveHistoryFirst ==
    /\ AtEnd /\ LaterFiles = {}
    /\ history' = run.history
    /\ run' = Null
    /\ UNCHANGED <<log, written, stamped, hour, copy, rrd, spoilt>>

\* A new file takes the place of the old one by rename().
SaveHistory ==
    /\ AtEnd /\ LaterFiles = {} /\ run.update_queue = NoUpdates
    /\ history' = run.history
    /\ run' = Null
    /\ UNCHANGED <<log, written, stamped, hour, copy, rrd, spoilt>>

Crash ==
    /\ run # Null
    /\ run' = Null
    /\ UNCHANGED <<log, written, stamped, hour, copy, history, rrd, spoilt>>

-----------------------------------------------------------------------------

ProcessFiles ==
    \/ NextFile \/ SkipLine \/ ReportLine
    \/ \E n \in Nodes : FlushUpdate(n)

Next ==
    \/ Stamp \/ Write \/ NextHour
    \/ \E h \in Hours : Get(h)
    \/ Start \/ ProcessFiles \/ SaveHistory \/ Crash

Spec == Init /\ [][Next]_vars

\* make-graphs runs again and again, and is not killed for ever.  (A run that
\* finds nothing new leaves the same behind when it is killed.)
FairSpec ==
    /\ Spec
    /\ SF_vars(\E h \in Hours : Get(h))
    /\ WF_vars(Start) /\ WF_vars(ProcessFiles) /\ WF_vars(SaveHistory)
    /\ <>[][Crash => SaveHistory]_vars

-----------------------------------------------------------------------------
(* Properties *)

Reports == {i \in 1 .. Len(log) : log[i].node \in Nodes}

\* A later line of the same second may stand for line i.
Recorded(i) ==
    i \in Reports /\ \E k \in 1 .. Len(rrd[log[i].node]) : rrd[log[i].node][k].ts = log[i].ts

Passed(i) ==
    \/ log[i].hour < history.current_file
    \/ /\ log[i].hour = history.current_file
       /\ i - FirstOf(log[i].hour) <= history.current_file_lineno

\* What the history counts as processed is in the RRD files, wherever a run is
\* killed: a report is left out only if a fetch met it half written, met the
\* server's error in its place, or came too late for its hour.
PassedLinesRecorded == \A i \in Reports : Passed(i) => Recorded(i) \/ i \in spoilt

\* The states of node n in one run over the whole log, after each line.
StatesOf(n) ==
    LET state[j \in 0 .. Len(log)] ==
            IF j = 0 THEN NodeState
            ELSE IF log[j].node = n THEN ProcessMeterReader(state[j - 1], log[j])
            ELSE state[j - 1]
    IN  state

\* What such a run would give for line i.
RealCounter == [i \in Reports |-> StatesOf(log[i].node)[i].realcounter]

\* Every point has the value that one run without interruption would give it,
\* however many runs were killed after they had flushed some files: no line
\* counts twice and no counter is forgotten.
PointsAsUninterrupted ==
    \A n \in Nodes : \A k \in 1 .. Len(rrd[n]) :
        \E i \in Reports :
            /\ log[i].node = n /\ log[i].ts = rrd[n][k].ts /\ i <= written
            /\ {j \in spoilt : j <= i} = {} => rrd[n][k].value = RealCounter[i]

\* A meter that starts again counts from 0: its first report is above no earlier
\* one by more than a pulse.
RestartsGoBack ==
    \A i, j \in Reports :
        j < i /\ log[j].node = log[i].node /\ log[i].ping_id = 1 => log[i].counter <= log[j].counter + 1

\* The counter of an RRD file never goes back, which rrdtool would take for a
\* wrap of 32 bits: neither when a meter starts again, nor when lines are lost,
\* nor when a killed run is repeated over more complete files.  (The last one
\* only if restarts go back: a first report far above the last one counts 1, but
\* as the larger difference for a run that did not find it.)
SeriesNeverDrops ==
    RestartsGoBack =>
        \A n \in Nodes : \A k \in 2 .. Len(rrd[n]) :
            rrd[n][k - 1].ts < rrd[n][k].ts /\ rrd[n][k - 1].value <= rrd[n][k].value

\* Every report that was written gets into its RRD file, or was lost in fetching.
EveryReportRecorded ==
    \A l \in Logs : \A i \in 1 .. Len(l) :
        (log = l /\ i \in Reports /\ i <= written) ~> (Recorded(i) \/ i \in spoilt)

=============================================================================
