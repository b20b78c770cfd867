------------------------ MODULE WaterFlowNodeProofs ------------------------
(***************************************************************************)
(* Proofs for WaterFlowNode, for any settings, messages and bounds: flash  *)
(* and memory agree up to the white space around a text, and the last      *)
(* hello describes the node.  The latter is inductive once it is known     *)
(* that the sensors are those of the sensorSpec in force also before the   *)
(* hello of this boot, in low power mode.                                  *)
(***************************************************************************)
EXTENDS WaterFlowNode, FiniteSetTheorems, SequenceTheorems, TLAPS

SensorsCurrent == Awake => sensors = ram["sensorSpec"]

\* TypeOK in parts: the settings, the network, the rest, and the Boolean variables.
SettingsTyped ==
    /\ flash \in [Keys -> Int \cup {Null, Empty}] /\ ram \in [Keys -> Int]
    /\ \A k \in Keys : flash[k] \in Values[k] \cup {Null, Empty} /\ ram[k] \in Values[k]
    /\ configTopic \in Names \cup {Null} /\ sensors \in Values["sensorSpec"] \cup {Null}

NetworkTyped ==
    /\ link \in {"down", "wifi", "mqtt"} /\ sub \in Names \cup {Null}
    /\ sub # Null => link = "mqtt"
    /\ inbox \in Seq(Messages)

RestTyped ==
    /\ otaStatus \in {"unset", "disabled", "waiting", "updated", "failed", "completed"}
    /\ reportsSent \in 0 .. MaxReports
    /\ pc \in {"boot", "tick", "mqtt", "rest", "asleep"}
    /\ messages \in 0 .. MaxMessages /\ cuts \in 0 .. MaxCuts

BooleansTyped ==
    /\ helloSent \in BOOLEAN /\ timeToSleep \in BOOLEAN
    /\ missed \in BOOLEAN

RetainedTyped == retained \subseteq Messages /\ IsFiniteSet(retained)

IInv ==
    /\ TypeOK
    /\ IsFiniteSet(retained)
    /\ PersistedConfig
    /\ SensorsCurrent
    /\ HelloIsCurrent

\* The retained messages reach the node as a sequence of messages.
LEMMA RetainedSequences ==
    ASSUME NEW S, S \subseteq Messages, IsFiniteSet(S), NEW s \in SetToSeqs(S)
    PROVE  s \in Seq(Messages)
  <1>1. Cardinality(S) \in Nat
    BY FS_CardinalityType
  <1>2. s \in [1 .. Cardinality(S) -> S]
    BY DEF SetToSeqs
  <1>3. s \in Seq(S)
    BY <1>1, <1>2
  <1> QED
    BY <1>3

\* A file, whatever is in it, gives a value of its setting.
LEMMA LoadTyped ==
    ASSUME NEW k \in Keys, NEW v \in Values[k] \cup {Null, Empty}
    PROVE  Load(k, v) \in Values[k]
  <1>1. Default[k] \in Values[k]
    BY NodeAssumption
  <1>2. k \in TextKeys => \A w \in Values[k] : Trim[w] \in Values[k]
    BY NodeAssumption
  <1> QED
    BY <1>1, <1>2 DEF Load, Trimmed

\* A number that is not -1 is read back as it was written, and a text trimmed.
LEMMA LoadsWhatWasWritten ==
    ASSUME NEW k \in Keys, NEW v \in Int
    PROVE  (k \in IntKeys /\ v = -1) \/ Load(k, v) = Trimmed(k, v)
  BY NodeAssumption DEF Load

\* What a start reads has nothing left to trim, the defaults included.
LEMMA LoadsTrimmed ==
    ASSUME NEW k \in Keys, NEW v \in Values[k] \cup {Null, Empty}
    PROVE  Trimmed(k, Load(k, v)) = Load(k, v)
  <1>1. CASE k \in TextKeys
    <2>1. /\ Trim[Default[k]] = Default[k]
          /\ \A w \in Values[k] : Trim[Trim[w]] = Trim[w]
      BY <1>1, NodeAssumption
    <2>2. Load(k, v) = Default[k] \/ (v \in Values[k] /\ Load(k, v) = Trim[v])
      BY <1>1 DEF Load, Trimmed, TextKeys
    <2> QED
      BY <1>1, <2>1, <2>2 DEF Trimmed
  <1>2. CASE k \notin TextKeys
    BY <1>2 DEF Trimmed
  <1> QED
    BY <1>1, <1>2

\* TypeOK is its parts.
LEMMA TypeParts ==
    TypeOK <=> /\ SettingsTyped /\ NetworkTyped /\ RestTyped /\ BooleansTyped
               /\ retained \subseteq Messages
  BY DEF TypeOK, SettingsTyped, NetworkTyped, RestTyped, BooleansTyped

\* A connection leaves the network's variables typed.
LEMMA ConnectTyped ==
    ASSUME NetworkTyped, RetainedTyped, NEW lowPower, NEW topic \in Names \cup {Null},
           connectMQTT(lowPower, topic)
    PROVE  NetworkTyped'
  <1>1. RetainedFor(topic) \subseteq Messages /\ IsFiniteSet(RetainedFor(topic))
    BY FS_Subset DEF RetainedFor, RetainedTyped
  <1>2. \A s \in SetToSeqs(RetainedFor(topic)) : s \in Seq(Messages)
    BY <1>1, RetainedSequences
  <1>3. <<>> \in Seq(Messages)
    OBVIOUS
  <1> QED
    BY <1>2, <1>3 DEF connectMQTT, NetworkTyped, network

\* So do a restart, the end of a session, and the answer to a message.
LEMMA SessionEndTyped ==
    link' \in {"wifi", "down"} /\ sub' = Null /\ inbox' = <<>> => NetworkTyped'
  BY DEF NetworkTyped

LEMMA AnswerTyped ==
    ASSUME NetworkTyped, inbox # <<>>, Answered
    PROVE  NetworkTyped'
  <1>1. Tail(inbox) \in Seq(Messages)
    BY HeadTailProperties DEF NetworkTyped
  <1>2. CASE Disconnected
    BY <1>2, SessionEndTyped DEF Disconnected
  <1>3. CASE UNCHANGED <<link, sub>> /\ inbox' = Tail(inbox)
    BY <1>1, <1>3 DEF NetworkTyped
  <1> QED
    BY <1>2, <1>3 DEF Answered

\* A setting that is written keeps flash and memory typed.
LEMMA SettingTyped ==
    ASSUME SettingsTyped, NEW m \in Messages, m.key \in Keys, m.value # Null,
           writeConfig(m.key, m.value),
           ram' \in {[ram EXCEPT ![m.key] = m.value], ram},
           UNCHANGED <<configTopic, sensors>>
    PROVE  SettingsTyped'
  <1>1. m.value \in Values[m.key] /\ m.value \in Int
    BY NodeAssumption
  <1>2. PICK w \in {m.value, Empty} : flash' = [flash EXCEPT ![m.key] = w]
    BY DEF writeConfig
  <1>3. /\ flash' \in [Keys -> Int \cup {Null, Empty}]
        /\ \A k \in Keys : flash'[k] \in Values[k] \cup {Null, Empty}
    BY <1>1, <1>2 DEF SettingsTyped
  <1>4. ram' \in [Keys -> Int] /\ \A k \in Keys : ram'[k] \in Values[k]
    BY <1>1 DEF SettingsTyped
  <1> QED
    BY <1>3, <1>4 DEF SettingsTyped

\* Every step keeps the Boolean variables Boolean.
LEMMA BooleansPreserved ==
    ASSUME BooleansTyped, [Next]_vars
    PROVE  BooleansTyped'
  <1> USE DEF config, run, network, greeting
  <1>helloSent. helloSent' \in BOOLEAN
    BY Zenon DEF BooleansTyped, Next, Step, Receive, Setup, SetupRestarts, Tick, doReport, doReportRestarts, NoMessage,
             ConfigTooLong, ConfigNotSet, ConfigSet, ConfigRestarts, goToSleep, LoopDone, OtaFails,
             OtaCompletes, ConnLost, Wake, PowerCut, Publish, vars, helloAndConfig
  <1>timeToSleep. timeToSleep' \in BOOLEAN
    BY Zenon DEF BooleansTyped, Next, Step, Receive, Setup, SetupRestarts, Tick, doReport, doReportRestarts, NoMessage,
             ConfigTooLong, ConfigNotSet, ConfigSet, ConfigRestarts, goToSleep, LoopDone, OtaFails,
             OtaCompletes, ConnLost, Wake, PowerCut, Publish, vars
  <1>missed. missed' \in BOOLEAN
    BY Zenon DEF BooleansTyped, Next, Step, Receive, Setup, SetupRestarts, Tick, doReport, doReportRestarts, NoMessage,
             ConfigTooLong, ConfigNotSet, ConfigSet, ConfigRestarts, goToSleep, LoopDone, OtaFails,
             OtaCompletes, ConnLost, Wake, PowerCut, Publish, vars, helloAndConfig, sendConfig
  <1> QED
    BY <1>helloSent, <1>timeToSleep, <1>missed DEF BooleansTyped

\* The broker keeps finitely many messages.
LEMMA RetainedPreserved ==
    ASSUME RetainedTyped, [Next]_vars
    PROVE  RetainedTyped'
  <1>1. CASE retained' = retained
    BY <1>1 DEF RetainedTyped
  <1>2. ASSUME NEW m \in Messages, Publish(m) PROVE RetainedTyped'
    <2> DEFINE others == {r \in retained : <<r.name, r.key>> # <<m.name, m.key>>}
    <2>1. IsFiniteSet(others) /\ others \subseteq Messages
      BY FS_Subset DEF RetainedTyped
    <2>2. IsFiniteSet(others \cup {m})
      BY <2>1, FS_AddElement
    <2>3. retained' \in {others \cup {m}, retained}
      BY <1>2 DEF Publish
    <2> QED
      BY <2>1, <2>2, <2>3 DEF RetainedTyped
  <1>3. retained' = retained \/ \E m \in Messages : Publish(m)
    BY Zenon DEF Next, Step, Receive, Setup, SetupRestarts, Tick, doReport, doReportRestarts,
           NoMessage, ConfigTooLong, ConfigNotSet, ConfigSet, ConfigRestarts, goToSleep,
           LoopDone, OtaFails, OtaCompletes, ConnLost, Wake, PowerCut, vars
  <1> QED
    BY <1>1, <1>2, <1>3

\* Counters and the places in the loop.
LEMMA RestPreserved ==
    ASSUME RestTyped, [Next]_vars
    PROVE  RestTyped'
  <1>1. reportsSent' \in {reportsSent, 0} \/ (reportsSent < MaxReports /\ reportsSent' = reportsSent + 1)
    BY DEF Next, Step, Receive, Setup, SetupRestarts, Tick, doReport, doReportRestarts,
           NoMessage, ConfigTooLong, ConfigNotSet, ConfigSet, ConfigRestarts, goToSleep,
           LoopDone, OtaFails, OtaCompletes, ConnLost, Wake, PowerCut, Publish, vars, run
  <1>2. messages' = messages \/ (messages < MaxMessages /\ messages' = messages + 1)
    BY DEF Next, Step, Receive, Setup, SetupRestarts, Tick, doReport, doReportRestarts,
           NoMessage, ConfigTooLong, ConfigNotSet, ConfigSet, ConfigRestarts, goToSleep,
           LoopDone, OtaFails, OtaCompletes, ConnLost, Wake, PowerCut, Publish, vars
  <1>3. cuts' = cuts \/ (cuts < MaxCuts /\ cuts' = cuts + 1)
    BY DEF Next, Step, Receive, Setup, SetupRestarts, Tick, doReport, doReportRestarts,
           NoMessage, ConfigTooLong, ConfigNotSet, ConfigSet, ConfigRestarts, goToSleep,
           LoopDone, OtaFails, OtaCompletes, ConnLost, Wake, PowerCut, Publish, vars
  <1>4. otaStatus' \in {otaStatus, "disabled", "waiting", "updated", "failed", "completed"}
    BY DEF Next, Step, Receive, Setup, SetupRestarts, Tick, doReport, doReportRestarts,
           NoMessage, ConfigTooLong, ConfigNotSet, ConfigSet, ConfigRestarts, goToSleep,
           LoopDone, OtaFails, OtaCompletes, ConnLost, Wake, PowerCut, Publish, vars, run,
           helloAndConfig, initOTA
  <1>5. pc' \in {pc, "boot", "tick", "mqtt", "rest", "asleep"}
    BY DEF Next, Step, Receive, Setup, SetupRestarts, Tick, doReport, doReportRestarts,
           NoMessage, ConfigTooLong, ConfigNotSet, ConfigSet, ConfigRestarts, goToSleep,
           LoopDone, OtaFails, OtaCompletes, ConnLost, Wake, PowerCut, Publish, vars,
           Restarted
  <1>6. /\ reportsSent' \in 0 .. MaxReports
        /\ messages' \in 0 .. MaxMessages /\ cuts' \in 0 .. MaxCuts
    <2>1. MaxReports \in Nat /\ MaxMessages \in Nat /\ MaxCuts \in Nat
      BY NodeAssumption
    <2>2. reportsSent \in 0 .. MaxReports /\ messages \in 0 .. MaxMessages /\ cuts \in 0 .. MaxCuts
      BY DEF RestTyped
    <2> QED
      BY <1>1, <1>2, <1>3, <2>1, <2>2
  <1> QED
    BY <1>4, <1>5, <1>6 DEF RestTyped

\* A step either leaves the settings alone or is one of three.
LEMMA SettingsPreserved ==
    ASSUME SettingsTyped, NetworkTyped, [Next]_vars
    PROVE  SettingsTyped'
  <1>1. CASE UNCHANGED config
    BY <1>1 DEF config, SettingsTyped
  <1>2. CASE Setup
    <2>1. \A k \in Keys : Load(k, flash[k]) \in Values[k] /\ Values[k] \subseteq Int
      BY LoadTyped, NodeAssumption DEF SettingsTyped
    <2>2. ram' \in [Keys -> Int] /\ (\A k \in Keys : ram'[k] \in Values[k]) /\ flash' = flash
      BY <1>2, <2>1 DEF Setup
    <2>3. configTopic' \in Names /\ sensors' \in Values["sensorSpec"]
      BY <1>2, <2>2, NodeAssumption DEF Setup, Names, ControlKeys
    <2> QED
      BY <2>2, <2>3 DEF SettingsTyped
  <1>3. CASE ConfigSet \/ ConfigRestarts
    <2> DEFINE m == Head(inbox)
    <2>1. m \in Messages
      BY <1>3, HeadTailProperties DEF NetworkTyped, ConfigSet, ConfigRestarts
    <2>2. m.key \in Keys /\ m.value # Null
      BY <1>3, <2>1, NodeAssumption DEF ConfigSet, ConfigRestarts, Recognised
    <2>3. /\ writeConfig(m.key, m.value)
          /\ ram' \in {[ram EXCEPT ![m.key] = m.value], ram}
          /\ UNCHANGED <<configTopic, sensors>>
      BY <1>3 DEF ConfigSet, ConfigRestarts
    <2> QED
      BY <2>1, <2>2, <2>3, SettingTyped
  <1> QED
    BY <1>1, <1>2, <1>3, Zenon
    DEF Next, Step, Receive, SetupRestarts, Tick, doReport, doReportRestarts, NoMessage,
        ConfigTooLong, ConfigNotSet, goToSleep, LoopDone, OtaFails, OtaCompletes, ConnLost, Wake,
        PowerCut, Publish, vars, config

LEMMA NetworkPreserved ==
    ASSUME SettingsTyped, NetworkTyped, RetainedTyped, SettingsTyped', [Next]_vars
    PROVE  NetworkTyped'
  <1>1. CASE UNCHANGED network
    BY <1>1 DEF network, NetworkTyped
  <1>2. CASE \E lowPower : connectMQTT(lowPower, configTopic) \/ connectMQTT(lowPower, configTopic')
    BY <1>2, ConnectTyped DEF SettingsTyped
  <1>3. CASE Restarted \/ goToSleep \/ ConnLost
    BY <1>3, SessionEndTyped DEF Restarted, goToSleep, ConnLost, Disconnected
  <1>4. CASE ConfigTooLong
    BY <1>4, HeadTailProperties DEF ConfigTooLong, NetworkTyped
  <1>5. CASE ConfigNotSet \/ ConfigSet
    BY <1>5, AnswerTyped DEF ConfigNotSet, ConfigSet
  <1>6. ASSUME NEW m \in Messages, Publish(m) PROVE NetworkTyped'
    <2>1. Append(inbox, m) \in Seq(Messages)
      BY AppendProperties DEF NetworkTyped
    <2> QED
      BY <1>6, <2>1 DEF Publish, NetworkTyped
  <1> QED
    BY <1>1, <1>2, <1>3, <1>4, <1>5, <1>6, Zenon
    DEF Next, Step, Receive, Setup, SetupRestarts, Tick, doReport, doReportRestarts, NoMessage,
        ConfigRestarts, LoopDone, OtaFails, OtaCompletes, Wake, PowerCut, vars, network

\* Every step keeps the types.
LEMMA TypePreserved ==
    ASSUME TypeOK, RetainedTyped, [Next]_vars
    PROVE  TypeOK' /\ RetainedTyped'
  <1>1. SettingsTyped /\ NetworkTyped /\ RestTyped /\ BooleansTyped
    BY TypeParts
  <1>2. SettingsTyped' /\ RestTyped' /\ BooleansTyped' /\ RetainedTyped'
    BY <1>1, SettingsPreserved, RestPreserved, BooleansPreserved, RetainedPreserved
  <1>3. NetworkTyped'
    BY <1>1, <1>2, NetworkPreserved
  <1>4. (SettingsTyped' /\ NetworkTyped' /\ RestTyped' /\ BooleansTyped' /\ (retained \subseteq Messages)')
            => TypeOK'
    BY DEF TypeOK, SettingsTyped, NetworkTyped, RestTyped, BooleansTyped
  <1> QED
    BY <1>2, <1>3, <1>4 DEF RetainedTyped

-----------------------------------------------------------------------------

\* The sensors are those of the sensorSpec in force: a new one restarts the node.
LEMMA SensorsPreserved ==
    ASSUME TypeOK, SensorsCurrent, [Next]_vars
    PROVE  SensorsCurrent'
  <1>0. ram \in [Keys -> Int] /\ "sensorSpec" \in Keys
    BY NodeAssumption DEF TypeOK, ControlKeys
  <1>1. CASE Setup
    BY <1>1 DEF Setup, SensorsCurrent
  <1>2. CASE ConfigSet
    BY <1>0, <1>2 DEF ConfigSet, SensorsCurrent, RebootKeys, Awake
  <1>3. CASE Restarted
    BY <1>3 DEF Restarted, SensorsCurrent, Awake
  <1>4. CASE UNCHANGED config /\ (Awake' => Awake)
    BY <1>4 DEF config, SensorsCurrent
  <1>5. Setup \/ ConfigSet \/ Restarted \/ (UNCHANGED config /\ (Awake' => Awake))
    BY DEF Next, Step, Receive, SetupRestarts, Tick, doReport, doReportRestarts, NoMessage,
        ConfigTooLong, ConfigNotSet, ConfigRestarts, goToSleep, LoopDone, OtaFails, OtaCompletes,
        ConnLost, Wake, PowerCut, Publish, vars, config, Awake
  <1> QED
    BY <1>1, <1>2, <1>3, <1>4, <1>5

\* A setting goes to the file and to memory, or to neither.
LEMMA PersistedPreserved ==
    ASSUME TypeOK, PersistedConfig, [Next]_vars
    PROVE  PersistedConfig'
  <1>1. CASE Setup
    <2>1. \A k \in Keys : Trimmed(k, Load(k, flash[k])) = Load(k, flash[k])
      BY LoadsTrimmed DEF TypeOK
    <2>2. flash' = flash /\ \A k \in Keys : ram'[k] = Load(k, flash[k])
      BY <1>1 DEF Setup
    <2> QED
      BY <2>1, <2>2 DEF PersistedConfig
  <1>2. CASE ConfigSet
    <2> DEFINE m == Head(inbox)
    <2>1. m \in Messages /\ inbox # <<>>
      BY <1>2, HeadTailProperties DEF TypeOK, ConfigSet
    <2>2. m.key \in Keys /\ m.value # Null
      BY <1>2, <2>1, NodeAssumption DEF ConfigSet, Recognised
    <2>3. m.value \in Int
      BY <2>1, <2>2, NodeAssumption
    <2>4. PICK w \in {m.value, Empty} : flash' = [flash EXCEPT ![m.key] = w]
      BY <1>2 DEF ConfigSet, writeConfig
    <2>5. ram' = [ram EXCEPT ![m.key] = m.value] /\ Awake
      BY <1>2 DEF ConfigSet, Awake
    <2>6. flash \in [Keys -> Int \cup {Null, Empty}] /\ ram \in [Keys -> Int]
      BY DEF TypeOK
    <2> SUFFICES ASSUME NEW k \in Keys
                 PROVE  \/ flash'[k] = Empty \/ (k \in IntKeys /\ flash'[k] = -1)
                        \/ Load(k, flash'[k]) = Trimmed(k, ram'[k])
      BY DEF PersistedConfig
    <2>7. CASE k = m.key
      <3>1. flash'[k] = w /\ ram'[k] = m.value
        BY <2>2, <2>4, <2>5, <2>6, <2>7
      <3>2. (k \in IntKeys /\ m.value = -1) \/ Load(k, m.value) = Trimmed(k, m.value)
        BY <2>3, LoadsWhatWasWritten
      <3> QED
        BY <3>1, <3>2
    <2>8. CASE k # m.key
      <3>1. flash'[k] = flash[k] /\ ram'[k] = ram[k]
        BY <2>4, <2>5, <2>6, <2>8
      <3> QED
        BY <3>1, <2>5 DEF PersistedConfig
    <2> QED
      BY <2>7, <2>8
  <1>3. CASE Restarted
    BY <1>3 DEF Restarted, PersistedConfig, Awake
  <1>4. CASE UNCHANGED config /\ (Awake' => Awake)
    BY <1>4 DEF config, PersistedConfig
  <1>5. Setup \/ ConfigSet \/ Restarted \/ (UNCHANGED config /\ (Awake' => Awake))
    BY DEF Next, Step, Receive, SetupRestarts, Tick, doReport, doReportRestarts, NoMessage,
        ConfigTooLong, ConfigNotSet, ConfigRestarts, goToSleep, LoopDone, OtaFails, OtaCompletes,
        ConnLost, Wake, PowerCut, Publish, vars, config, Awake
  <1> QED
    BY <1>1, <1>2, <1>3, <1>4, <1>5

\* A hello is published with whatever changes what it says.
LEMMA HelloPreserved ==
    ASSUME SensorsCurrent', HelloIsCurrent, [Next]_vars
    PROVE  HelloIsCurrent'
  <1>1. CASE sendConfig(ram')
    BY <1>1 DEF sendConfig, HelloIsCurrent, SensorsCurrent
  <1>2. CASE Setup
    BY <1>1, <1>2 DEF Setup, HelloIsCurrent
  <1>3. CASE Restarted
    BY <1>3 DEF Restarted, HelloIsCurrent, Awake
  <1>4. CASE doReport
    <2>1. ram' = ram /\ Awake
      BY <1>4 DEF doReport, config, Awake
    <2>2. CASE sendConfig(ram)
      BY <1>1, <2>1, <2>2 DEF sendConfig
    <2>3. CASE helloSent /\ UNCHANGED <<helloSent, greeting>>
      BY <2>1, <2>3 DEF greeting, HelloIsCurrent, SensorsCurrent
    <2> QED
      BY <1>4, <2>2, <2>3 DEF doReport, helloAndConfig
  <1>5. CASE ConfigSet \/ ConfigNotSet \/ OtaFails
    <2>1. sendConfig(ram')
      BY <1>5 DEF ConfigSet, ConfigNotSet, OtaFails, config, sendConfig
    <2> QED
      BY <1>1, <2>1
  <1>6. CASE UNCHANGED <<config, greeting, helloSent>> /\ (Awake' => Awake)
    BY <1>6 DEF config, greeting, HelloIsCurrent
  <1>7. \/ Setup \/ Restarted \/ doReport \/ ConfigSet \/ ConfigNotSet \/ OtaFails
        \/ UNCHANGED <<config, greeting, helloSent>> /\ (Awake' => Awake)
    BY DEF Next, Step, Receive, SetupRestarts, Tick, doReportRestarts, NoMessage,
        ConfigTooLong, ConfigRestarts, goToSleep, LoopDone, OtaCompletes,
        ConnLost, Wake, PowerCut, Publish, vars, config, greeting, run, Awake
  <1> QED
    BY <1>2, <1>3, <1>4, <1>5, <1>6, <1>7

\* The invariant holds in every state of the node.
THEOREM Invariance == Spec => []IInv
  <1>1. Init => IInv
    <2> SUFFICES ASSUME Init PROVE IInv
      OBVIOUS
    <2>1. /\ flash \in [Keys -> Int \cup {Null, Empty}] /\ ram \in [Keys -> Int]
          /\ \A k \in Keys : flash[k] \in Values[k] \cup {Null, Empty} /\ ram[k] \in Values[k]
      BY NodeAssumption DEF Init
    <2>2. SettingsTyped /\ NetworkTyped
      <3>1. configTopic = Null /\ sensors = Null /\ link = "down" /\ sub = Null /\ inbox = <<>>
        BY Zenon DEF Init
      <3> QED
        BY <2>1, <3>1 DEF SettingsTyped, NetworkTyped
    <2>3. RestTyped
      <3>1. MaxReports \in Nat /\ MaxMessages \in Nat /\ MaxCuts \in Nat
        BY NodeAssumption
      <3>2. otaStatus = "unset" /\ reportsSent = 0 /\ pc = "boot" /\ messages = 0 /\ cuts = 0
        BY Zenon DEF Init
      <3> QED
        BY <3>1, <3>2 DEF RestTyped
    <2>4. BooleansTyped
      BY Zenon DEF Init, BooleansTyped
    <2>5. TypeOK /\ IsFiniteSet(retained)
      BY <2>2, <2>3, <2>4, TypeParts, FS_EmptySet DEF Init
    <2> QED
      BY <2>5 DEF Init, IInv, PersistedConfig, SensorsCurrent, HelloIsCurrent, Awake
  <1>2. IInv /\ [Next]_vars => IInv'
    <2> SUFFICES ASSUME IInv, [Next]_vars PROVE IInv'
      OBVIOUS
    <2>1. TypeOK' /\ IsFiniteSet(retained)'
      BY TypePreserved DEF IInv, RetainedTyped, TypeOK
    <2>2. PersistedConfig' /\ SensorsCurrent'
      BY PersistedPreserved, SensorsPreserved DEF IInv
    <2>3. HelloIsCurrent'
      BY <2>2, HelloPreserved DEF IInv
    <2> QED
      BY <2>1, <2>2, <2>3 DEF IInv
  <1> QED
    BY <1>1, <1>2, PTL DEF Spec

\* The variables of the node always have their types.
THEOREM TypeCorrect == Spec => []TypeOK
  <1>1. IInv => TypeOK
    BY DEF IInv
  <1> QED
    BY <1>1, Invariance, PTL

\* What the next start will read is what is in force, a text trimmed, unless
\* println failed or the number is -1 (handleConfigMsg, writeConfig and
\* loadConfig), for any settings, texts and messages.
THEOREM ConfigPersists == Spec => []PersistedConfig
  <1>1. IInv => PersistedConfig
    BY DEF IInv
  <1> QED
    BY <1>1, Invariance, PTL

\* The last hello, if it could be published, describes what the node does.
THEOREM HelloDescribesNode == Spec => []HelloIsCurrent
  <1>1. IInv => HelloIsCurrent
    BY DEF IInv
  <1> QED
    BY <1>1, Invariance, PTL

=============================================================================
