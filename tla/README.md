# TLA+ models of smarthouse

smarthouse is a set of small daemons, programs and microcontroller sketches that
measure and control a house: a central system for electric vehicle chargers, a
hub for MQTT flow sensors, loggers for serial lines, the sketches at the other
end of those lines, an exporter for a solar inverter, and programs that process
what was logged.  The modules here model the parts that keep state and meet
concurrency, lost connections, crashes or limits.  TLC checks them on small
instances; TLAPS proves the safety properties and a refinement for every
instance.

`PROJECT.json` maps every definition to the lines of the source it stands for,
and lists the components, the runs, the hazards and the theorems.

    tlc -workers 2 -config SensorHub.cfg MCSensorHub    # one run
    tlapm WaterFlowNodeProofs.tla                       # one proof module

## Inventory

| Component | State | Operations | What makes it correct |
|---|---|---|---|
| OCPP central system (`ocpp/handler.go`, `main.go`) | map of charge points with their connectors and transactions, next transaction id, all in memory | one callback per OCPP request, connect, disconnect | ids are unique, a busy connector runs an open transaction of its own, no start takes a connector over, records are not lost or reopened: it implements a ledger |
| OCPP store (`ocpp/store.go`) | one JSON row in sqlite | dump every 30 s, restore at start | the row is a state the memory really had; after a crash ids are not reissued while recorded |
| OCPP remote control (`ocpp/http.go`) | a goroutine per HTTP request, with what it looked up and the channel it waits on | Reset, StartTransaction, StopTransaction, waiting for a callback of the OCPP library | every request is answered or ends with the process; what a start finds began after it looked; a stop hits the transaction it was meant for |
| smarthouse hub (`common/smarthouse.go`) | node table, sensor objects, Prometheus registry; routes and subscriptions in the MQTT client and broker | hello, report, connection, loss | sensors of known nodes are subscribed, metrics are those of current sensors |
| mlogger (`common/mlogger.c`) | line buffer, hourly log file, counters and metrics file, two flags set by signals | read, log, rotate, count, send valve commands | whole lines only, each once, in the right file; a last "off" closes the valve |
| MeterReader (`MeterReader/MeterReader.ino`) | relay, pulse detection | report, command | follows the commands |
| WaterFlowMeter node (`WaterFlowMeter/src/main.ino`, `util.cpp`) | settings in flash and memory, hello flag, report count, sleep flag | setup, report, settings over MQTT, OTA, deep sleep | settings persist (texts trimmed), hello describes the node, low power mode sleeps |
| Solar exporter (`solar/solar.go`) | a scrape per HTTP request; answers on a serial line that all scrapes share | read nine metrics over Modbus RTU with one retry each, report | every scrape reports; "up" means that the inverter was read; a value is that of its own registers |
| Half-hourly power table (`analysis/powerdb.go`) | table of half hours in sqlite; local time | continue the table up to now from the hourly logs | a row holds the pulses of its half hour, no half hour is left out, reruns continue |
| Provider comparison (`analysis/provider-comparison.go`) | reads that table | sum the rows of each bill | every row is in one bill |
| Log updater (`common/common.py`, `update-rrd.py`, `make-graphs`) | fetched copies of the logs, position in them and counters per meter in a pickled history, queue of updates, RRD files | fetch, process files, flush, save | each line once, across crashes; counters are monotone |
| Flow sensors (`FlowSensor.cpp`, `Sensor.h`, `Ecomist.cpp`) | pulse counter of a byte, rates and totals | interrupt, collect | volume is that of the pulses |
| jeelogger (`common/jeelogger.c`) | as mlogger, plus a table of node states | read, log, parse, metrics | as mlogger; silent nodes leave the metrics |
| signaller (`common/signaller.c`) | table of clients | accept, copy both ways | all clients hear the serial port; slots are reused |
| WaterSwitch (`WaterSwitch/src/main.ino`) | an output, settings in flash | HTTP requests, OTA | the output is what was last asked |
| Stackdriver updater, heat loss, graphs, weewx skin, test sketches, packaging | none that persists between operations | | |

How they interact: charge points call the central system's callbacks, in a
goroutine per request and without a lock; HTTP requests run in goroutines of
their own, look into the same maps and hand requests to the same library, which
calls them back.  Nodes publish hellos and reports to the broker and the hub's
MQTT client calls it back, in one thread for messages and one per connection.
mlogger and MeterReader exchange lines and one-byte commands over a serial line,
and signals from other processes interrupt mlogger at any statement.  The
updaters and `powerdb` read the logs while mlogger writes them; provider
comparison reads what `powerdb` wrote.  Scrapes of the solar exporter meet on
its serial line.

What is hard to test here: requests that arrive twice, late or after a
disconnection; crashes between a change and its dump; what was looked up before
a wait and is used after it; the hub's two kinds of threads meeting in the node
table; signals between two statements; lines that reads cut anywhere and
buffers that are exactly full; settings that arrive while a node is about to
sleep, restart or lose its connection; answers that come after their question
was given up; clocks that are set back; programs killed between two outputs and
run again.  The list of hazards with their lines is in `PROJECT.json`.

## Modules

Every `MC...` module gives a model its constants for TLC; every `...Proofs`
module extends the model and TLAPS (`CentralSystemProofs` that of
`RemoteControl` with it, `PowerDBProofs` that of `BillPeriods`).  Definitions
that begin with the comment "Faulty variant" are plausible mistakes in the code;
each property has one that violates it, to show that it can fail.  They are no
part of any specification.

    TransactionLedger <--refines-- CentralSystem <--extends-- RemoteControl
    SerialLogger   WaterCommands   SensorHub   WaterFlowNode   SolarExporter
    PowerDB <--extends-- BillPeriods        LogUpdater

### CentralSystem

Models `ocpp/handler.go`, `store.go` and the connection handlers of `main.go`.
`chargePoints` is the handler's map, with `Null` for a missing key; `db` the row
of the store; `nextTransactionId` the package variable.  Every `On...` callback
is an action of the same name.  A callback is atomic (see "Not modelled").
`Deliverable` says which requests can run: those of connected charge points,
and late ones whose entry a disconnection has removed.  `Save` is a tick of
`Store.Run` with the failure of `json.Marshal` on NaN (a failing write of sqlite
leaves the row as it was, which is a stutter), `Crash` and `Restart` the life of
the process.  `OnMeterValuesWithoutTransaction` is the nil dereference of
`OnMeterValues`, which ends the process.  The data of a measurement is
abstracted to a value that can or cannot be encoded.

### TransactionLedger

What all that amounts to for a customer: a ledger of transactions per charge
point and a saved copy.  A transaction begins under an id that neither uses,
keeps what was recorded at its start, and ends for good; the transactions of a
charge point may be forgotten together (its disconnection), and everything
after the copy may be lost (a crash).  `CentralSystem` implements it
(`ImplementsLedger`) with a mapping that keeps only the transactions of
`chargePoints` and `db`: no connectors, no counter, no connections.

### RemoteControl

The handlers of `ocpp/http.go`, on top of `CentralSystem`.  `commands[u]` is
what the handler of client `u` has looked up.  The look-up (`Reset`,
`StartTransaction`, `StopTransaction`) and the hand-over to the library (`Send`)
are two steps, with the central system's steps in between; `Callback` is the
charge point's answer and `CallbackPanics` the callback with an error, whose nil
confirmation the code reads.  `Seen` keeps what a stop found, to compare it with
what the id means later; `Since` keeps the id counter of the moment a start
found its connector free, to tell a transaction it overlooked from one that
began since.  The library (requests refused for a charge point that is not
connected, pending ones failed before its disconnection handler runs) is
modelled from how the code uses it.

### SerialLogger

Models the read loop of `mlogger.c` up to the water commands, with
`create_logfile`, `process_line` and `write_metrics`.  The input is any sequence
of bytes, of which only "ends a line" matters, and any kind for each line; it is
chosen in `Init`.  The buffer is a window `first+1..got` on the input, which is
what the `memmove` and the pointers of the code amount to.  The kind of a line
is its second word.

### WaterCommands

Models `handle_signal`, the end of the read loop in `mlogger.c` where flags
become commands, and the command handling of `MeterReader.ino`.  Each test and
each assignment of a flag is a step, since a signal can arrive between any two.
History variables say which signal was last, whether a `write` failed, and
whether an "on" met a pending "off".

### SensorHub

Models the hub's part of `smarthouse.go`: `GotHello`, `SetupSensors`,
`Subscribe`, `Unsubscribe`, `Shutdown`, `mqttConnected`, `ResubscribeSensors`.
Thread 0 handles messages, thread k the k-th connection; each call to the MQTT
client is a step, in which the connection may be lost.  Sensor objects are
numbered in the order of their creation, so that an object that was shut down
and its successor on the same topic are told apart.  The client library (routes,
tokens, clean sessions) is modelled from how the code uses it.

### WaterFlowNode

Models `main.ino` and the config files of `util.cpp`.  `pc` says where in
`setup()` or `loop()` the sketch is: before the timer, before
`mqttClient.loop()`, before the rest of the loop, asleep, or restarting. `ram`
holds the control variables, `flash` the files (`Null` for a missing one,
`Empty` for one that `println` left empty).  A text is in force, and written, as
it was sent, and trimmed when it is read at the next boot: `Trim` says which
texts differ only by white space around them, and the instance has one with
some.  `handleConfigMsg` is four actions, one per outcome.  `configTopic` and
`sensors` are what was built at boot and is not rebuilt when a setting changes.
The broker's retained messages come again with every subscription.

### SolarExporter

One scrape of `solar.go`, metric after metric, with its two tries and its three
decoders; bytes and words have their widths.  An RTU answer does not say which
request it answers, so `owed` are the requests the inverter has yet to answer,
in order, and `line` the answers nobody has read.  Other scrapes are part of the
environment: they send, and take answers.  `disturbed` is a history variable:
something else than this scrape's own answers was on the line.

### PowerDB and BillPeriods

`PowerDB` is `powerdb.go`: time in ticks, a local time zone with what `time.Date`
makes of every local time, the log lines copied so far, and the table.  A run
starts after the last row, in the order of the keys' text, and inserts row by
row; it may be killed between two.  `BillPeriods` adds which rows each bill of
`provider-comparison.go` sums.

### LogUpdater

`common.py` and `update-rrd.py` as `make-graphs` runs them.  The logger writes a
line's timestamp and its rest in two steps, and `Get` may fetch a file in
between; for an hour without a log it fetches the server's error page.  `run` is
the program's memory, `history` the pickled file; a run may be killed after any
step.  `CalculateStep` is the function of that name, with all its branches.
`spoilt` is a history variable: the lines a fetch may have lost.

## Runs

| Run | Instance | Shows |
|---|---|---|
| `central_ids` | 2 charge points, a connector each, 3 ids, symmetric; 45,025 states | through repeated stops, reconnections, lagging dumps and crashes the database is a past state of the memory, no start takes a connector over, and every step is one of the ledger |
| `central_details` | 1 charge point, connectors 0 and 1, 2 ids, 2 measurements (one not encodable); 128,600 states | with stops not repeated every open transaction is its connector's current one; restored entries are kept; ends reach the database |
| `central_repeated_stop` | 1 charge point, 1 connector, 2 ids | *violation*: a stop repeated after the next start frees the connector under the running transaction |
| `remote` | 2 HTTP requests over 2 charge points, 2 ids; 114,728 states | a transaction that a start meets on its connector began after its look-up, a stop means what was looked up, every request is answered or ends with the process |
| `serial` | buffer of 3, all inputs of 5 bytes and 3 kinds of line, all cuts into reads, hours of 2 s, failing files; 441,378 states | whole lines only, short ones exactly once and in the file of their hour, abort only at the limit, the metrics agree with the log, every line passed |
| `water` | 5 signals, 1 reset; 38,286 states | a last "off" closes the valve for good; an "on" is given up only to a pending "off" or a reset |
| `hub` | 2 nodes with colliding labels, 2 hellos, 2 connections, 1 report (about a minute and a half) | sensors end up subscribed if threads took turns, metrics are those of the current sensors always |
| `hub_race` | the same | *violation*: a hello that overlaps a resubscription leaves a sensor unsubscribed |
| `node` | 2 messages out of 13, texts with and without white space around them, 1 power cut; 97,966 states | the next start reads the settings in force, texts trimmed; the hello describes the node, low power mode sleeps |
| `solar` | 4 metrics with every fetcher, 1 late answer; 117,796 states | every scrape reports; up means at most two metrics missing (or three with the last) where -1 can only be a failure; an undisturbed value is its registers' |
| `powerdb` | half hours of 2 ticks, 20 ticks, three zones (clocks back east and west of Greenwich, forward), 2 bills; 74,289 states | rows are right, gaps only after the hour that occurs twice, the table catches up where `time.Date` does not go back, bills split the rows |
| `updater` | 2 hours, 2 meters, 2 logs; 60,852 states | what the history passes is recorded, points are those of an uninterrupted run, counters never drop where meters that start again count from nothing, every report is recorded or was lost in fetching |

Why the bounds are enough.  Two charge points are the fewest that could share an
id, three ids leave one to issue after a restart between two others.  Two HTTP
requests can be at two points of the same handler or of two.  A buffer of 3 and
5 bytes of input give lines of every length around the limit, lines that follow
an oversized one, and full buffers at every cut.  Five signals are more than the
statements of the loop's two branches a signal could fall between and still
matter.  Two hellos and two connections are the fewest in which a node changes
its sensors, and in which the hello meets a resubscription.  Two settings
suffice for a setting that undoes or follows another, retained or not.  Four
metrics are one more than may fail; one late answer shifts all that follow.
Twenty ticks are ten half hours, with the hour that occurs twice and two half
hours on either side of it in the table.  The two logs have meters that start
again, reports that get lost or share a second, a line that is no report, and an
hour that may be fetched before it has a line.

`CHECK_DEADLOCK FALSE` is set where the system really may stop: at the end of
the input (`serial`), of the bounded signals (`water`), after a panic (`hub`,
`hub_race`), and for a node that sleeps for ever (`sleepInterval` 0, `node`).
The others never stop.

### Fairness

* `CentralSystem`: weak fairness of `Save` (the ticker of `Store.Run`) and of
  `Restart` (`Restart=always` in `debian/smarthouse-ocpp.service`).  Nothing is
  assumed of the charge points.
* `RemoteControl`: the handlers run on, and the library calls back: it bounds the
  wait for an answer and fails what is pending when the charge point goes.
* `SerialLogger`: weak fairness of the loop; the port delivers what was sent.
* `WaterCommands`: the sketch reports every five seconds and runs its loop
  (weak fairness); the read loop gets on (strong fairness, since `ReadFails`
  consumes the bytes: reads do not fail for ever).
* `SensorHub`: every thread runs, and the client reconnects by itself, as its
  options say (`mqttConnect`).
* `WaterFlowNode`: the sketch runs; its timer comes due again and again (strong
  fairness of `doReport`, since other steps also leave "tick"); sleep ends.
* `SolarExporter`: the scrape runs on; a read ends within its second (strong
  fairness, since other scrapes may take the answer and leave the line empty
  again); a request is answered at some time or never.
* `PowerDB`: time passes, the program is run again, and is not always killed
  before its first row (strong fairness of `InsertPeriodToDB`).
* `LogUpdater`: make-graphs runs again and again (strong fairness of `Get`, which
  runs disable), and runs are not killed for ever (`<>[][Crash => SaveHistory]`).

## Proofs

All for every value of the constants, from the named assumptions of each module.

* `CentralSystemProofs`: `IndInv` is the conjunction of the type invariant,
  `BusyConnectorHasOpenTransaction`, `StoreAgreesWithMemory`, `IdsAreNotShared`
  and `IdsBelowNext`.  None but the type invariant is inductive by itself: that
  a start does not take over a recorded id needs `IdsBelowNext`, which after a
  crash rests on the database alone; that the database agrees with the memory
  needs that ids in it have one owner.  The callbacks that change only details
  are handled by one lemma about entries that agree on connectors and
  transactions.  `NoTakeover`, `TransactionsOnlyGrow` and `RestoredEntryKept` are
  action properties from the same invariant.
* `OngoingIsCurrent`, in the same module: where charge points repeat no stop
  (`StopsRepeat = FALSE`; `central_repeated_stop` shows what a repetition does),
  every transaction that has not ended is its connector's current one.  By
  itself this is not inductive: a restart makes the row the memory, so the
  invariant says it of the row as well, and a stop must be of a transaction that
  has not ended.
* `CentralSystemIsLedger`, in the same module: `CentralSystem` implements
  `TransactionLedger`.  Callbacks that keep the entry's ledger stutter; a start
  is `Begin`, whose guard (the id is nowhere in use) follows from `IdsBelowNext`;
  a stop is `End`; a connection stutters and a disconnection is `Forget`; a dump
  copies, a crash loses, and a restart recovers the copy.
* `RemoteControl`, in the same module.  Every step of the composed system is a
  step of the central system or a stutter; that holds by construction, says
  nothing of the code, and only makes the central system's invariant available
  (lemma `SystemMoves`).  A transaction that a start meets is newer than its
  look-up (`StartFindsNewer`), as what was on the connector then was below the
  counter, and from then on a connector only keeps, loses, or gets a transaction
  under the counter of its own moment; a crash takes the waiting handlers with
  it.  A stop keeps its meaning because its target is below the counter for as
  long as it waits, an id below the counter is never issued again while the
  process runs, and it has one owner.  A handler waits only for a connected
  charge point because every step that disconnects one, or ends the process,
  ends its waits.
* `SerialLoggerProofs`: the invariant says where the buffer begins: at the start
  of a line when `valid`, and otherwise at least `BufSize` bytes into one.  From
  it follow `OnlyWholeLines`, `ShortLinesLogged`, `AbortsOnlyAtLimit`.
  `LineInItsHour` needs that the open file is that of an hour that `expires_at`
  ends; `MetricsFollowLog` counts a set of lines to which every line adds at most
  itself, being the last so far.
* `WaterCommandsProofs`: `Final` is what the relay will be when the commands on
  the line are carried out; after an "off" either the flag still asks for it or
  `Final` is LOW and nothing that could write "W" is under way.  `SettledOff`
  follows.  For `SettledOn`: after an "on" that nothing excuses no "off" is pending
  or under way, and the flag still asks for it or `Final` is HIGH; the flag may be
  cleared under a signal that has just come, but then the "W" was written.
* `SensorHubProofs`, in layers that each use those before.  Types: a thread has
  at most one sensor in hand, and it is one of its node.  Metrics: what is
  registered are the labels of the sensors in use (`MetricsAreCurrent`), and two
  of them never share a label, since `MustRegister` panics first.  Turns: while no
  hello overlaps a resubscription one thread works at a time and routes lead to
  sensors in use (`ReportsToCurrentSensors`).  Specs: every sensor was made for an
  entry of its node's spec, so that a panic means two entries with one label
  (`PanicOnlyOnSharedLabels`).  Subscriptions: every sensor in use is subscribed, or
  the thread at work is yet to come to it, or the connection is gone and the next
  one will (`SensorsSubscribed`).
* `WaterFlowNodeProofs`: what the next boot reads from flash is what is in force,
  a text trimmed, unless the `println` failed or a number is -1
  (`PersistedConfig`), which needs that a trimmed text is its own trim; and the
  sensors are those of the `sensorSpec` in force even before the hello of this
  boot, which makes `HelloIsCurrent` inductive.
* `LogUpdaterProofs`: `CalculateStep` is 1 when a meter starts again and the
  difference of the counters otherwise, whatever the ping ids and the wrap say,
  so its three branches for wraps and missed reports are never reached
  (`StepIsDifference`); a report never lowers a meter's counter
  (`ReportNeverLowers`).  For the runs there are five layers: what a fetched
  file holds, and that what it lacks is spoilt; where the run stands in the
  files; that what was passed is recorded, queued or spoilt
  (`PassedLinesRecorded`); that the last point of a file, and what the run has
  counted, are ends of chains of reports that no later run falls below
  (`SeriesNeverDrops`); and that the state of each meter, in the history and in
  the run, is that of an uninterrupted run over the lines passed so far, as long
  as none of them was spoilt (`PointsAsUninterrupted`).  The recursive function
  `StatesOf` that the last layer compares with is shown to exist, and to unroll,
  by a least counterexample; no induction theorem is used.  The chains need
  `RestartsGoBack`.  Without it TLC finds a series that drops: a killed run has
  missed a report in a torn fetch and counts a first report far above the last
  one as 1; the run that repeats it finds the report between them, which makes
  the difference smaller.
* `SolarExporterProofs`: the bytes of a metric's own answer decode to what its
  registers hold (`OwnAnswerIsTrue`), those of any other to some number.  While a
  scrape is undisturbed nothing is on its way but its own request or that
  request's answer, hence `ValuesAreTheirOwn`.  The count of failures bounds the
  metrics that say -1 although their registers do not, and a third one is the
  latest, hence `UpMeansRead`.  Proving it showed that a foreign answer that reads
  as -1 (one that begins with 64536, to the power factor) is taken for a failure
  that nobody counted; the property says so in `NothingReadsAsFailed`.
* `PowerDBProofs`, which also holds the proofs about `BillPeriods`: arithmetic of
  boundaries first, then that the moments of a half hour are in the one log that
  `GetPeriodFilename` names, hence `RowsAreRight`.  For `GapsOnlyAtRepeatedHour`
  the invariant adds that the program in progress is at the period after some row
  or after the sentinel, which at its start needs that the last row exists: a
  finite set has a largest element, as the sets of elements above one are well
  founded.  The same lemma finds the bill of a row; that there is no other one
  rests on `BillOrder`, an assumption about the file of bill dates, which the code
  does not sort.

Proved and not checked by a run: the type theorems (but for `SerialLogger`'s),
`IdsUnique`, `TransactionsGrow`, `StepIsDifference`, `ReportNeverLowers`,
`OwnAnswerIsTrue`.

Only model-checked: the liveness properties, as liveness and `ENABLED` are out of
the prover's reach.  Every invariant and every action property that a run checks
is also proved.

## Disagreements between code and text

Kept as runs:

1. `ocpp/handler.go:209`: a repeated `StopTransaction` clears the connector of a
   newer transaction; line 45 calls the field the connector's ongoing
   transaction.
2. `common/smarthouse.go:292`: a hello during a resubscription leaves a sensor
   unsubscribed; line 315 expects minimal negative impact.

Built into the models, so that the properties hold only next to them:

3. `ocpp/store.go:81`: a NaN measurement stops all dumps; line 63 promises one
   every interval.  (`EndReachesStore` asks that the memory can be encoded.)
4. `common/mlogger.c:129`: a line that just fits the buffer ends the daemon;
   line 209 says longer lines are ignored.  (`AbortsOnlyAtLimit`.)
5. `WaterFlowMeter/src/main.ino:276`: `helloSent` is set although nothing was
   sent; line 239 promises a hello before every update.
6. `WaterFlowMeter/src/util.cpp:79`: a text is trimmed when it is read back but
   used untrimmed until then; a `println` that fails leaves an empty file behind
   (`util.cpp:93`), and a stored -1 is read as no value (`util.cpp:55`).
   `main.ino:42` says the settings are persisted to flash.  (`PersistedConfig`.)

Several hazards are behaviour that the properties allow for, and do not catch;
their notes in `PROJECT.json` say so.

Other behaviour of the code that the models follow and a reader should know:

* A remote request that fails (an error answer, none in time, the charge point
  gone) ends the central system's process: no callback in `http.go` looks at the
  error before it reads the confirmation.
* One late Modbus answer shifts the values of all later metrics of its scrape,
  and of scrapes at the same time.  A scrape whose third failure is its last
  metric is reported as up.  A power factor of exactly -1 looks like a failure.
* When clocks are set back, `powerdb` skips half hours east of Greenwich; west of
  it it meets its own rows, its INSERT is refused, and it never gets on.  A log
  that is not there when a row is written counts as no consumption for good.
* The half hour that ends a bill's last day is in no bill.
* A half-written line and the lines of the web server's error page count as
  processed, and as many real lines are skipped later.

## Not modelled, and why

* Failing `write`s to the log and the metrics file: `mlogger.c:100-108` and
  `:123-124` ignore their results, and `SerialLogger` takes them to succeed.  Nor
  does its clock go back.
* A `println` that writes a part of a text (`util.cpp:93`): it writes all or nothing.
* The status pages (`http.go`, `smarthouse.go`, `main.ino`), graphs, statistics,
  log compression and the monitoring script only format.
* The Stackdriver updater posts each reading at once and keeps no queue; what
  `LogUpdater` says of the position in the logs holds for it, too.
* The overlap of two OCPP callbacks: they share maps without a lock, a data race
  on which the Go runtime may end the process.  `CentralSystem` states what
  holds when callbacks do not overlap; a finer module is planned.  The ids that
  a crash takes back before they were dumped (`handler.go:192`) may be issued
  again; `TransactionLedger` allows it, since neither copy records them.
* Two overlapping runs of make-graphs, which would write the same history file:
  the script is made for one run a minute (its test of `date +%M`).
* Heat loss is floating-point statistics over one pass of a stored log; the sums
  of provider comparison are SQL.
* A failed `write` of a water command clears the flag (`mlogger.c:272`):
  `WaterCommands` has it, and its properties are about commands that were sent.
* `powerdb` run twice at a time; the creation of its table.
* Templates, test sketches, packaging.
* The sensors' arithmetic (`FlowSensor.cpp:12`, `:52`), the pulse detection of
  MeterReader, the node number of jeelogger (`jeelogger.c:204`), the dead clients
  of signaller (`signaller.c:170`), the other daemons: see the plan.

## Plan

Done: CentralSystem with TransactionLedger and RemoteControl, SerialLogger,
WaterCommands, SensorHub, WaterFlowNode, SolarExporter, PowerDB with
BillPeriods, LogUpdater; proofs for all of them.

Modules still to write, should the project grow:

1. A fine-grained CentralSystem with the reads and writes of two callbacks and a
   dump interleaved, shown to implement CentralSystem where they take turns.
2. FlowSensor: the interrupt, the byte counter and the integer division, with
   their widths, against the exact volume.
3. NodeTable (`jeelogger.c`): parsing, table bounds, expiry of silent nodes.
4. Signaller: client slots, descriptors at their limit, dead clients.
5. WaterSwitch and the pulse detection of MeterReader.
6. Node and hub together: WaterFlowNode as the publisher of SensorHub's hellos;
   every node that reports is known to the hub in the end, a restarted hub
   included, also when the node's name changes (`main.ino:172`).
