--------------------------- MODULE WaterFlowNode ---------------------------
(***************************************************************************)
(* WaterFlowMeter/src/main.ino: a node that measures flows, says hello with *)
(* its configuration, reports over MQTT, takes new settings from its config *)
(* topic and keeps them in flash, and in low power mode sleeps after a      *)
(* number of reports, to start anew when it wakes.                          *)
(*                                                                         *)
(* The sketch is one loop; setup() and each call the loop makes are steps,  *)
(* between which connections break, settings are published, and power is    *)
(* cut.  Only settings that the properties tell apart are tracked (Keys);   *)
(* their values are numbers, also where they stand for a text.  Of a text   *)
(* the white space around it matters: it is in force as it was sent, and a  *)
(* start reads it trimmed.  Readings are the subject of the sensors, not of *)
(* this module.                                                             *)
(***************************************************************************)
EXTENDS Integers, Sequences, SequencesExt

CONSTANTS
    Keys,         \* the settings tracked, ControlKeys and perhaps others
    Values,       \* what may be published for each setting
    Default,      \* the value of each setting when flash has none
    Trim,         \* each text without the white space around it
    InitialFlash, \* contents of the config files when the node is first started
    Messages,     \* config messages: key Null for an unknown setting, value
                  \* Null for one of more than 100 bytes
    MaxMessages,  \* bound: config messages
    MaxCuts,      \* bound: power cuts
    MaxReports,   \* bound: reportsSent is not counted beyond this
    Null,         \* no file, no subscription, no hello
    Empty         \* a file without contents

ControlKeys == {"lowPower", "enableOTA", "reportCount", "sleepInterval", "nodeName", "sensorSpec"}
IntKeys == {"lowPower", "enableOTA", "reportInterval", "reportCount", "sleepInterval", "mqttPort"}
HelloKeys == {"nodeName", "lowPower", "wifiSSID", "sensorSpec", "reportInterval", "reportCount",
              "sleepInterval"} \cap Keys
RebootKeys == {"enableOTA", "sensorSpec"}
TextKeys == Keys \ IntKeys
Names == Values["nodeName"]

ASSUME NodeAssumption ==
    /\ ControlKeys \subseteq Keys
    /\ Null \notin Int /\ Empty \notin Int /\ Null \notin Keys
    /\ Values \in [Keys -> SUBSET Int]
    /\ Default \in [Keys -> Int] /\ \A k \in Keys : Default[k] \in Values[k]
    /\ Trim \in [UNION {Values[k] : k \in TextKeys} -> Int]
    /\ \A k \in TextKeys :
          /\ Trim[Default[k]] = Default[k]
          /\ \A v \in Values[k] : Trim[v] \in Values[k] /\ Trim[Trim[v]] = Trim[v]
    /\ InitialFlash \in [Keys -> Int \cup {Null}]
    /\ \A k \in Keys : InitialFlash[k] \in Values[k] \cup {Null}
    /\ Messages \subseteq [name : Names, key : Keys \cup {Null}, value : Int \cup {Null},
                           retain : BOOLEAN]
    /\ \A m \in Messages : m.key \in Keys /\ m.value # Null => m.value \in Values[m.key]
    /\ MaxMessages \in Nat /\ MaxCuts \in Nat /\ MaxReports \in Nat
    /\ \A v \in Values["reportCount"] : v <= MaxReports

VARIABLES
    flash,        \* the config files
    ram,          \* the operation control variables
    configTopic,  \* mqttConfigTopic: the node name it was built from
    sensors,      \* the sensorSpec the sensors were created from
    helloSent, otaStatus, reportsSent, timeToSleep,
    pc,           \* "boot", "tick", "mqtt", "rest" (of the loop), "asleep"
    link,         \* "down", "wifi", "mqtt"
    sub,          \* the node name in the subscription, Null for none
    inbox,        \* messages on their way to the node
    retained,     \* config messages the broker keeps
    hello,        \* the last hello published
    missed,       \* history: the last hello could not be published
    messages, cuts  \* counters for the bounds

config == <<flash, ram, configTopic, sensors>>
run == <<helloSent, otaStatus, reportsSent, timeToSleep>>
network == <<link, sub, inbox>>
greeting == <<hello, missed>>
vars == <<flash, ram, configTopic, sensors, helloSent, otaStatus, reportsSent, timeToSleep, pc,
          link, sub, inbox, retained, hello, missed, messages, cuts>>

Init ==
    /\ flash = InitialFlash
    /\ ram = Default /\ configTopic = Null /\ sensors = Null
    /\ helloSent = FALSE /\ otaStatus = "unset" /\ reportsSent = 0 /\ timeToSleep = FALSE
    /\ pc = "boot"
    /\ link = "down" /\ sub = Null /\ inbox = <<>>
    /\ retained = {}
    /\ hello = Null /\ missed = FALSE
    /\ messages = 0 /\ cuts = 0

-----------------------------------------------------------------------------
(* Configuration files, util.cpp *)

\* contents.trim(), which a number does not notice.
Trimmed(k, v) == IF k \in TextKeys THEN Trim[v] ELSE v

\* readConfigString and readConfigInt, for which -1 means "no such file".  A file
\* without contents is one println wrote nothing to: after an empty text it has
\* the end of the line.
Load(k, v) ==
    IF v \in {Null, Empty} \/ (k \in IntKeys /\ v = -1) THEN Default[k] ELSE Trimmed(k, v)

\* writeConfig reports success when the file was opened, although println may
\* have written nothing.
writeConfig(k, v) == \E w \in {v, Empty} : flash' = [flash EXCEPT ![k] = w]

-----------------------------------------------------------------------------
(* Connections *)

RetainedFor(name) == {m \in retained : m.name = name}

\* connectWIFI and connectMQTT, when they return.  The broker answers a
\* subscription with the retained messages.
connectMQTT(lowPower, topic) ==
    \/ /\ link = "mqtt"
       /\ UNCHANGED network
    \/ /\ link # "mqtt" /\ link' = "mqtt"
       /\ \/ sub' = topic /\ inbox' \in SetToSeqs(RetainedFor(topic))
          \/ sub' = Null /\ inbox' = <<>>
    \/ /\ link # "mqtt" /\ link' = "wifi" /\ sub' = Null /\ inbox' = <<>>
    \/ /\ link = "down" /\ lowPower /\ UNCHANGED network

\* The connection goes, with the session.
Disconnected == link' \in {"wifi", "down"} /\ sub' = Null /\ inbox' = <<>>

ConnLost ==
    /\ link # "down" /\ Disconnected
    /\ UNCHANGED <<config, run, pc, retained, greeting, messages, cuts>>

\* ESP.restart, a wake-up and a power cut: only flash is left.
Restarted ==
    /\ pc' = "boot"
    /\ link' = "down" /\ sub' = Null /\ inbox' = <<>>

-----------------------------------------------------------------------------
(* setup() *)

\* What sendConfig publishes of the settings r.
HelloOf(r) == [k \in HelloKeys |-> r[k]]

\* publish() succeeds while there is a connection.
sendConfig(r) ==
    \/ link' = "mqtt" /\ hello' = HelloOf(r) /\ missed' = FALSE
    \/ link' # "mqtt" /\ UNCHANGED hello /\ missed' = TRUE

initOTA(r) == IF r["lowPower"] # 0 \/ r["enableOTA"] = 0 THEN "disabled" ELSE "waiting"

\* loadConfig, initOTA, loadSensors, and the hello unless in low power mode.
Setup ==
    /\ pc = "boot"
    /\ ram' = [k \in Keys |-> Load(k, flash[k])]
    /\ configTopic' = ram'["nodeName"] /\ sensors' = ram'["sensorSpec"]
    /\ otaStatus' = initOTA(ram')
    /\ \/ /\ ram'["lowPower"] # 0
          /\ helloSent' = FALSE
          /\ UNCHANGED <<network, greeting>>
       \/ /\ ram'["lowPower"] = 0
          /\ connectMQTT(FALSE, configTopic')
          /\ sendConfig(ram') /\ helloSent' = TRUE
    /\ reportsSent' = 0 /\ timeToSleep' = FALSE
    /\ pc' = "tick"
    /\ UNCHANGED <<flash, retained, messages, cuts>>

\* No WiFi and not in low power mode: connectWIFI restarts the node.
SetupRestarts ==
    /\ pc = "boot" /\ Load("lowPower", flash["lowPower"]) = 0
    /\ Restarted
    /\ UNCHANGED <<config, run, retained, hello, missed, messages, cuts>>

-----------------------------------------------------------------------------
(* loop() *)

LowPower == ram["lowPower"] # 0

\* t.tick() with the timer not due.
Tick ==
    /\ pc = "tick" /\ pc' = "mqtt"
    /\ UNCHANGED <<config, run, network, retained, greeting, messages, cuts>>

\* Faulty variant: a test for equality.
ReachedExactly(sent, count) == sent = count

\* Both are unsigned: -1 is the largest number.
Reached(sent, count) == count >= 0 /\ sent >= count

\* The hello of this boot, or news of an update over the air.
helloAndConfig ==
    LET otaMsg == otaStatus \notin {"disabled", "waiting"} IN
    \/ /\ helloSent /\ ~otaMsg
       /\ UNCHANGED <<helloSent, otaStatus, greeting>>
    \/ /\ ~helloSent \/ otaMsg
       /\ sendConfig(ram) /\ helloSent' = TRUE
       /\ otaStatus' = IF otaMsg THEN "waiting" ELSE otaStatus

\* The timer is due: connect, say hello if need be, publish the readings.
doReport ==
    /\ pc = "tick" /\ pc' = "mqtt"
    /\ connectMQTT(LowPower, configTopic)
    /\ helloAndConfig
    /\ reportsSent' = IF reportsSent < MaxReports THEN reportsSent + 1 ELSE reportsSent
    /\ timeToSleep' = (timeToSleep \/ (LowPower /\ Reached(reportsSent', ram["reportCount"])))
    /\ UNCHANGED <<config, retained, messages, cuts>>

doReportRestarts ==
    /\ pc = "tick" /\ link = "down" /\ ~LowPower
    /\ Restarted
    /\ UNCHANGED <<config, run, retained, hello, missed, messages, cuts>>

\* mqttClient.loop() with no message.
NoMessage ==
    /\ pc = "mqtt" /\ pc' = "rest"
    /\ UNCHANGED <<config, run, network, retained, greeting, messages, cuts>>

\* The connection may break while handleConfigMsg answers.
Answered ==
    \/ UNCHANGED <<link, sub>> /\ inbox' = Tail(inbox)
    \/ Disconnected

\* handleConfigMsg: too long, and ignored.
ConfigTooLong ==
    /\ pc = "mqtt" /\ inbox # <<>> /\ Head(inbox).value = Null
    /\ inbox' = Tail(inbox) /\ pc' = "rest"
    /\ UNCHANGED <<config, run, link, sub, retained, greeting, messages, cuts>>

\* handleConfigMsg compares the topic with those of its present name.
Recognised(m) == m.name = ram["nodeName"] /\ m.key # Null

\* handleConfigMsg: unknown setting, or the file cannot be opened.
ConfigNotSet ==
    /\ pc = "mqtt" /\ inbox # <<>> /\ Head(inbox).value # Null
    /\ Answered /\ sendConfig(ram)
    /\ pc' = "rest"
    /\ UNCHANGED <<config, run, retained, messages, cuts>>

\* Faulty variant: the variable is set although the file could not be opened.
ConfigSetUnchecked ==
    /\ pc = "mqtt" /\ inbox # <<>>
    /\ LET m == Head(inbox) IN
       /\ m.value # Null /\ Recognised(m) /\ m.key \notin RebootKeys
       /\ writeConfig(m.key, m.value) \/ UNCHANGED flash
       /\ ram' = [ram EXCEPT ![m.key] = m.value]
    /\ Answered /\ sendConfig(ram')
    /\ pc' = "rest"
    /\ UNCHANGED <<configTopic, sensors, run, retained, messages, cuts>>

\* handleConfigMsg: the file first, then the variable, then the answer.
ConfigSet ==
    /\ pc = "mqtt" /\ inbox # <<>>
    /\ LET m == Head(inbox) IN
       /\ m.value # Null /\ Recognised(m) /\ m.key \notin RebootKeys
       /\ writeConfig(m.key, m.value)
       /\ ram' = [ram EXCEPT ![m.key] = m.value]
    /\ Answered /\ sendConfig(ram')
    /\ pc' = "rest"
    /\ UNCHANGED <<configTopic, sensors, run, retained, messages, cuts>>

\* Faulty variant: no restart.
ConfigWithoutRestart ==
    /\ pc = "mqtt" /\ inbox # <<>>
    /\ LET m == Head(inbox) IN
       /\ m.value # Null /\ Recognised(m) /\ m.key \in RebootKeys
       /\ writeConfig(m.key, m.value)
       /\ ram' = [ram EXCEPT ![m.key] = m.value]
    /\ Answered /\ sendConfig(ram')
    /\ pc' = "rest"
    /\ UNCHANGED <<configTopic, sensors, run, retained, messages, cuts>>

\* handleConfigMsg: settings that take a restart, after the answer.
ConfigRestarts ==
    /\ pc = "mqtt" /\ inbox # <<>>
    /\ LET m == Head(inbox) IN
       /\ m.value # Null /\ Recognised(m) /\ m.key \in RebootKeys
       /\ writeConfig(m.key, m.value)
       /\ ram' = IF m.key = "sensorSpec" THEN [ram EXCEPT ![m.key] = m.value] ELSE ram
       /\ otaStatus' = IF m.key = "enableOTA" THEN "updated" ELSE otaStatus
    /\ \/ hello' = HelloOf(ram') /\ missed' = FALSE
       \/ UNCHANGED hello /\ missed' = TRUE
    /\ Restarted
    /\ UNCHANGED <<configTopic, sensors, helloSent, reportsSent, timeToSleep, retained, messages,
                   cuts>>

goToSleep ==
    /\ pc = "rest" /\ LowPower /\ timeToSleep
    /\ timeToSleep' = FALSE
    /\ link' = "down" /\ sub' = Null /\ inbox' = <<>>
    /\ pc' = "asleep"
    /\ UNCHANGED <<config, helloSent, otaStatus, reportsSent, retained, greeting,
                   messages, cuts>>

\* The rest of the loop: OTA with nothing to do, and the status page.
LoopDone ==
    /\ pc = "rest" /\ ~(LowPower /\ timeToSleep)
    /\ pc' = "tick"
    /\ UNCHANGED <<config, run, network, retained, greeting, messages, cuts>>

\* ArduinoOTA.handle() calls onError.
OtaFails ==
    /\ pc = "rest" /\ ~LowPower /\ ram["enableOTA"] # 0 /\ otaStatus # "disabled"
    /\ otaStatus' = "failed"
    /\ UNCHANGED network /\ sendConfig(ram)
    /\ pc' = "tick"
    /\ UNCHANGED <<config, helloSent, reportsSent, timeToSleep, retained, messages, cuts>>

\* It calls onEnd and restarts the node.
OtaCompletes ==
    /\ pc = "rest" /\ ~LowPower /\ ram["enableOTA"] # 0 /\ otaStatus # "disabled"
    /\ otaStatus' = "completed"
    /\ \/ link = "mqtt" /\ hello' = HelloOf(ram) /\ missed' = FALSE
       \/ link # "mqtt" /\ UNCHANGED hello /\ missed' = TRUE
    /\ Restarted
    /\ UNCHANGED <<config, helloSent, reportsSent, timeToSleep, retained, messages, cuts>>

-----------------------------------------------------------------------------
(* The environment *)

\* deepSleep ends in a reset; an interval of 0 has no end.
Wake ==
    /\ pc = "asleep" /\ ram["sleepInterval"] # 0
    /\ Restarted
    /\ UNCHANGED <<config, run, retained, hello, missed, messages, cuts>>

PowerCut ==
    /\ cuts < MaxCuts /\ cuts' = cuts + 1
    /\ Restarted
    /\ UNCHANGED <<config, run, retained, hello, missed, messages>>

\* A setting is published; the broker keeps a retained one for its topic.
Publish(m) ==
    /\ messages < MaxMessages /\ messages' = messages + 1
    /\ retained' = IF m.retain
                   THEN {r \in retained : <<r.name, r.key>> # <<m.name, m.key>>} \cup {m}
                   ELSE retained
    /\ inbox' = IF sub = m.name THEN Append(inbox, m) ELSE inbox
    /\ UNCHANGED <<config, run, pc, link, sub, greeting, cuts>>

-----------------------------------------------------------------------------

Receive == ConfigTooLong \/ ConfigNotSet \/ ConfigSet \/ ConfigRestarts

Step ==
    \/ Setup \/ SetupRestarts
    \/ Tick \/ doReport \/ doReportRestarts
    \/ NoMessage \/ Receive
    \/ goToSleep \/ LoopDone \/ OtaFails \/ OtaCompletes

Next ==
    \/ Step
    \/ ConnLost \/ Wake \/ PowerCut
    \/ \E m \in Messages : Publish(m)

Spec == Init /\ [][Next]_vars

\* The sketch runs, its timer comes due again and again, and sleep ends.
FairSpec == Spec /\ WF_vars(Step) /\ SF_vars(doReport) /\ WF_vars(Wake)

-----------------------------------------------------------------------------
(* Properties *)

Awake == pc \in {"tick", "mqtt", "rest"}

\* The variables have their types.
TypeOK ==
    /\ flash \in [Keys -> Int \cup {Null, Empty}] /\ ram \in [Keys -> Int]
    /\ \A k \in Keys : flash[k] \in Values[k] \cup {Null, Empty} /\ ram[k] \in Values[k]
    /\ configTopic \in Names \cup {Null} /\ sensors \in Values["sensorSpec"] \cup {Null}
    /\ helloSent \in BOOLEAN /\ timeToSleep \in BOOLEAN
    /\ otaStatus \in {"unset", "disabled", "waiting", "updated", "failed", "completed"}
    /\ reportsSent \in 0 .. MaxReports
    /\ pc \in {"boot", "tick", "mqtt", "rest", "asleep"}
    /\ link \in {"down", "wifi", "mqtt"} /\ sub \in Names \cup {Null}
    /\ sub # Null => link = "mqtt"
    /\ inbox \in Seq(Messages) /\ retained \subseteq Messages
    /\ missed \in BOOLEAN
    /\ messages \in 0 .. MaxMessages /\ cuts \in 0 .. MaxCuts

\* main.ino: the operation control variables "are stored into flash and read at
\* startup; new values may be received via MQTT at run-time and are persisted to
\* flash": what the next start will read is what is in force, of a text without
\* the white space around it, unless println failed or the number is the one that
\* stands for "no file".  The three differences are the code's and no comment's.
PersistedConfig ==
    Awake => \A k \in Keys :
        \/ flash[k] = Empty
        \/ k \in IntKeys /\ flash[k] = -1
        \/ Load(k, flash[k]) = Trimmed(k, ram[k])

\* What the hub was told is what the node does: the name its reports carry and
\* the sensors they come from are those of the last hello, whatever settings
\* came in and in whichever mode, unless that hello could not be published.
HelloIsCurrent ==
    Awake /\ helloSent /\ ~missed => hello = HelloOf(ram) /\ sensors = ram["sensorSpec"]

\* Retained settings that restart the node whenever it connects.
RestartingForEver == \E m \in retained : m.key \in RebootKeys

\* A node in low power mode gets to sleep, however often it loses connections,
\* messages and the counts change on it, unless a retained setting restarts it
\* or the count is -1.
LowPowerSleeps ==
    (Awake /\ LowPower)
        ~> (pc = "asleep" \/ ~LowPower \/ RestartingForEver \/ ram["reportCount"] = -1)

=============================================================================
