----------------------------- MODULE SensorHub -----------------------------
(***************************************************************************)
(* common/smarthouse.go: a node says hello with the list of its sensors,   *)
(* and for each of them a flowSensor object is created, registered with    *)
(* Prometheus and subscribed to its MQTT topic.  After every (re)connection *)
(* all sensors are subscribed again.                                       *)
(*                                                                         *)
(* The MQTT client calls message handlers one at a time, in thread 0; each *)
(* connection starts a thread of its own for mqttConnected.  Both share    *)
(* the node table and the sensor objects without a lock, so each call to   *)
(* the MQTT client is a step.  The session is clean: the broker forgets    *)
(* the subscriptions with the connection, the client keeps its routes.     *)
(***************************************************************************)
EXTENDS Integers, Sequences, FiniteSets

CONSTANTS
    Nodes,        \* names of nodes
    Flows,        \* names of sensors
    Specs,        \* the SensorSpecs each node may send: sequences of flows or Invalid
    Invalid,      \* an entry with fewer than three fields
    NameForNode,  \* nameForNode: the name without its trailing part
    MaxHellos,    \* bound: hellos
    MaxConns,     \* bound: connections
    MaxReports    \* bound: reports

ASSUME HubAssumption ==
    /\ NameForNode \in [Nodes -> {NameForNode[n] : n \in Nodes}]
    /\ Specs \in [Nodes -> SUBSET UNION {Specs[n] : n \in Nodes}]
    /\ \A n \in Nodes : Specs[n] \subseteq Seq(Flows \cup {Invalid})
    /\ Invalid \notin Flows
    /\ MaxHellos \in Nat /\ MaxConns \in Nat /\ MaxReports \in Nat

Topics == Nodes \X Flows
Threads == 0 .. MaxConns

VARIABLES
    node,        \* the Node objects: known (in the map nodes), spec, sensors
    obj,         \* the flowSensor objects made so far: topic, token, total
    registered,  \* labels in the Prometheus registry
    routes,      \* the client's routes: which object handles a topic, 0 for none
    connected, conns,  \* the connection, and how many there were
    subs,        \* topics the broker has for us
    hello_sub,   \* so for smarthouse/hello
    th,          \* the threads
    crashed,     \* the process panicked
    overlapped,  \* history: two threads were at work at the same time
    hellos, reports  \* counters for the bounds

broker == <<connected, conns, subs, hello_sub>>
history == <<overlapped, hellos, reports>>
vars == <<node, obj, registered, routes, connected, conns, subs, hello_sub, th, crashed, overlapped, hellos,
          reports>>

\* A thread: where it is, the sensors it has yet to handle, the connection its
\* last Subscribe was sent on; the node and the rest of the spec that thread 0
\* sets up; the nodes a connection's thread found in the map and those it visited.
Idle == [pc |-> "idle", queue |-> <<>>, conn |-> 0, node |-> "none", spec |-> <<>>,
         due |-> {}, seen |-> {}]

Init ==
    /\ node = [n \in Nodes |-> [known |-> FALSE, spec |-> <<>>, sensors |-> <<>>]]
    /\ obj = <<>>
    /\ registered = {}
    /\ routes = [t \in Topics |-> 0]
    /\ connected = FALSE /\ conns = 0 /\ subs = {} /\ hello_sub = FALSE
    /\ th = [t \in Threads |-> Idle]
    /\ crashed = FALSE /\ overlapped = FALSE
    /\ hellos = 0 /\ reports = 0

-----------------------------------------------------------------------------
(* The MQTT client *)

\* Is another thread between its first and its last step?
OthersWork(t) == \E u \in Threads \ {t} : th[u].pc \notin {"idle", "start"}

\* A connection: the thread of mqttConnected starts.
Connect ==
    /\ ~connected /\ conns < MaxConns
    /\ connected' = TRUE /\ conns' = conns + 1
    /\ th' = [th EXCEPT ![conns'] = [@ EXCEPT !.pc = "start"]]
    /\ UNCHANGED <<node, obj, registered, routes, subs, hello_sub, crashed, history>>

\* What is left of the session when the connection goes.
Disconnected == connected' = FALSE /\ subs' = {} /\ hello_sub' = FALSE

mqttConnLost ==
    /\ connected /\ Disconnected
    /\ UNCHANGED <<node, obj, registered, routes, conns, th, crashed, history>>

\* Client.Unsubscribe of sensor s, acknowledged, refused without connection, or
\* cut off by the loss of it; only the first clears the token.
Unsubscribe(s) ==
    LET topic == obj[s].topic IN
    \/ /\ connected
       /\ subs' = subs \ {topic} /\ routes' = [routes EXCEPT ![topic] = 0]
       /\ obj' = [obj EXCEPT ![s].token = FALSE]
       /\ UNCHANGED <<connected, hello_sub>>
    \/ /\ ~connected
       /\ UNCHANGED <<connected, subs, hello_sub, routes, obj>>
    \/ /\ connected /\ Disconnected
       /\ routes' = [routes EXCEPT ![topic] = 0]
       /\ UNCHANGED obj

-----------------------------------------------------------------------------
(* Subscribe: Unsubscribe if there is a token (a new object has none), send,
   wait *)

Goto(t, pc) == th' = [th EXCEPT ![t].pc = pc]

\* Back to the caller: SetupSensors, or the next sensor in ResubscribeSensors.
Return(t) ==
    \/ t = 0 /\ Goto(t, "subscribed")
    \/ t # 0 /\ th' = [th EXCEPT ![t] = [@ EXCEPT !.pc = "next", !.queue = Tail(th[t].queue)]]

SubscribeAgain(t) ==
    /\ th[t].pc = "next" /\ th[t].queue # <<>>
    /\ LET s == Head(th[t].queue) IN
       \/ obj[s].token /\ Unsubscribe(s)
       \/ ~obj[s].token /\ UNCHANGED <<connected, subs, hello_sub, routes, obj>>
    /\ Goto(t, "send")
    /\ UNCHANGED <<node, registered, conns, crashed, history>>

\* Faulty variant: the callback is not replaced.
SubscribeKeepsRoute(t) ==
    /\ th[t].pc = "send" /\ connected
    /\ LET s == Head(th[t].queue)
           topic == obj[s].topic IN
       /\ obj' = [obj EXCEPT ![s].token = TRUE]
       /\ routes' = [routes EXCEPT ![topic] = IF @ = 0 THEN s ELSE @]
       /\ subs' = subs \cup {topic}
    /\ th' = [th EXCEPT ![t] = [@ EXCEPT !.pc = "wait", !.conn = conns]]
    /\ UNCHANGED <<node, registered, connected, conns, hello_sub, crashed, history>>

\* Client.Subscribe sets the token and, if connected, the route.
SubscribeSend(t) ==
    /\ th[t].pc = "send" /\ connected
    /\ LET s == Head(th[t].queue)
           topic == obj[s].topic IN
       /\ obj' = [obj EXCEPT ![s].token = TRUE]
       /\ routes' = [routes EXCEPT ![topic] = s]
       /\ subs' = subs \cup {topic}
    /\ th' = [th EXCEPT ![t] = [@ EXCEPT !.pc = "wait", !.conn = conns]]
    /\ UNCHANGED <<node, registered, connected, conns, hello_sub, crashed, history>>

\* The wait reads the token again: without one it panics.
WaitedForNothing(t) ==
    /\ th[t].pc = "wait" /\ ~obj[Head(th[t].queue)].token
    /\ crashed' = TRUE
    /\ UNCHANGED <<node, obj, registered, routes, broker, th, history>>

\* The acknowledgement came, perhaps just before the connection was lost.
Waited(t) ==
    /\ th[t].pc = "wait" /\ obj[Head(th[t].queue)].token
    /\ Return(t)
    /\ UNCHANGED <<node, obj, registered, routes, broker, crashed, history>>

\* Refused without connection, or cut off: the token is cleared.
SubscribeFails(t) ==
    /\ \/ th[t].pc = "send" /\ ~connected
       \/ /\ th[t].pc = "wait" /\ obj[Head(th[t].queue)].token
          /\ ~connected \/ th[t].conn # conns
    /\ obj' = [obj EXCEPT ![Head(th[t].queue)].token = FALSE]
    /\ Return(t)
    /\ UNCHANGED <<node, registered, routes, broker, crashed, history>>

-----------------------------------------------------------------------------
(* mqttConnected and ResubscribeSensors, in the thread of a connection *)

\* Faulty variant: only the hello topic is subscribed.
ConnectedHelloOnly(t) ==
    /\ th[t].pc = "start"
    /\ hello_sub' = connected /\ overlapped' = (overlapped \/ OthersWork(t))
    /\ th' = [th EXCEPT ![t] = Idle]
    /\ UNCHANGED <<node, obj, registered, routes, connected, conns, subs, crashed, hellos,
                   reports>>

mqttConnected(t) ==
    /\ th[t].pc = "start"
    /\ hello_sub' = connected /\ overlapped' = (overlapped \/ OthersWork(t))
    /\ th' = [th EXCEPT ![t] = [@ EXCEPT !.pc = "next", !.due = {n \in Nodes : node[n].known}]]
    /\ UNCHANGED <<node, obj, registered, routes, connected, conns, subs, crashed, hellos,
                   reports>>

\* The next node of the map, in any order, perhaps one added meanwhile; range
\* takes its Sensors as they are now.
ResubscribeNode(t, n) ==
    /\ t # 0 /\ th[t].pc = "next" /\ th[t].queue = <<>>
    /\ node[n].known /\ n \notin th[t].seen
    /\ th' = [th EXCEPT ![t] = [@ EXCEPT !.queue = node[n].sensors, !.seen = th[t].seen \cup {n}]]
    /\ UNCHANGED <<node, obj, registered, routes, broker, crashed, history>>

ResubscribeDone(t) ==
    /\ t # 0 /\ th[t].pc = "next" /\ th[t].queue = <<>>
    /\ th[t].due \subseteq th[t].seen
    /\ th' = [th EXCEPT ![t] = Idle]
    /\ UNCHANGED <<node, obj, registered, routes, broker, crashed, history>>

-----------------------------------------------------------------------------
(* GotHello, in thread 0 *)

Label(topic) == <<NameForNode[topic[1]], topic[2]>>

Dispatchable == th[0].pc = "idle" /\ connected

\* UpdateNode with an unchanged spec only stores the rest of the configuration.
GotSameHello(n, spec) ==
    /\ Dispatchable /\ hello_sub /\ hellos < MaxHellos
    /\ node[n].known /\ node[n].spec = spec
    /\ hellos' = hellos + 1
    /\ UNCHANGED <<node, obj, registered, routes, broker, th, crashed, overlapped, reports>>

\* RegisterNode, or UpdateNode with another spec: SetupSensors shuts the old
\* sensors down first.
GotHello(n, spec) ==
    /\ Dispatchable /\ hello_sub /\ hellos < MaxHellos
    /\ ~node[n].known \/ node[n].spec # spec
    /\ node' = [node EXCEPT ![n].spec = spec]
    /\ th' = [th EXCEPT ![0] = [@ EXCEPT !.pc = "shutdown", !.node = n,
                                         !.queue = node[n].sensors]]
    /\ hellos' = hellos + 1 /\ overlapped' = (overlapped \/ OthersWork(0))
    /\ UNCHANGED <<obj, registered, routes, broker, crashed, reports>>

\* Faulty variant: the metrics stay registered.
ShutdownKeepsMetrics ==
    /\ th[0].pc = "shutdown" /\ th[0].queue # <<>>
    /\ Unsubscribe(Head(th[0].queue))
    /\ th' = [th EXCEPT ![0].queue = Tail(@)]
    /\ UNCHANGED <<node, registered, conns, crashed, history>>

\* Faulty variant: the subscription stays.
ShutdownKeepsSubscription ==
    /\ th[0].pc = "shutdown" /\ th[0].queue # <<>>
    /\ registered' = registered \ {Label(obj[Head(th[0].queue)].topic)}
    /\ th' = [th EXCEPT ![0].queue = Tail(@)]
    /\ UNCHANGED <<node, obj, routes, broker, crashed, history>>

Shutdown ==
    /\ th[0].pc = "shutdown" /\ th[0].queue # <<>>
    /\ LET s == Head(th[0].queue) IN
       /\ registered' = registered \ {Label(obj[s].topic)}
       /\ Unsubscribe(s)
    /\ th' = [th EXCEPT ![0].queue = Tail(@)]
    /\ UNCHANGED <<node, conns, crashed, history>>

\* All are down: an empty list, and the entries of the new spec one by one.
ShutdownDone ==
    /\ th[0].pc = "shutdown" /\ th[0].queue = <<>>
    /\ LET n == th[0].node IN
       /\ node' = [node EXCEPT ![n].sensors = <<>>]
       /\ th' = [th EXCEPT ![0] = [@ EXCEPT !.pc = "create", !.spec = node[n].spec]]
    /\ UNCHANGED <<obj, registered, routes, broker, crashed, history>>

Entry == Head(th[0].spec)

SkipInvalid ==
    /\ th[0].pc = "create" /\ th[0].spec # <<>> /\ Entry = Invalid
    /\ th' = [th EXCEPT ![0].spec = Tail(@)]
    /\ UNCHANGED <<node, obj, registered, routes, broker, crashed, history>>

\* MustRegister panics when the labels are taken.
NewFlowSensor ==
    /\ th[0].pc = "create" /\ th[0].spec # <<>> /\ Entry # Invalid
    /\ LET topic == <<th[0].node, Entry>> IN
       \/ /\ Label(topic) \notin registered
          /\ registered' = registered \cup {Label(topic)}
          /\ obj' = Append(obj, [topic |-> topic, token |-> FALSE, total |-> 0])
          /\ th' = [th EXCEPT ![0] = [@ EXCEPT !.pc = "send", !.spec = Tail(th[0].spec),
                                               !.queue = <<Len(obj')>>]]
          /\ UNCHANGED crashed
       \/ /\ Label(topic) \in registered
          /\ crashed' = TRUE
          /\ UNCHANGED <<obj, registered, th>>
    /\ UNCHANGED <<node, routes, broker, history>>

\* Faulty variant: a sensor that could not be subscribed is left out.
AppendSubscribed ==
    /\ th[0].pc = "subscribed"
    /\ LET n == th[0].node
           s == Head(th[0].queue) IN
       node' = [node EXCEPT ![n].sensors = IF obj[s].token THEN Append(@, s) ELSE @]
    /\ th' = [th EXCEPT ![0] = [@ EXCEPT !.pc = "create", !.queue = <<>>]]
    /\ UNCHANGED <<obj, registered, routes, broker, crashed, history>>

AppendSensor ==
    /\ th[0].pc = "subscribed"
    /\ node' = [node EXCEPT ![th[0].node].sensors = Append(@, Head(th[0].queue))]
    /\ th' = [th EXCEPT ![0] = [@ EXCEPT !.pc = "create", !.queue = <<>>]]
    /\ UNCHANGED <<obj, registered, routes, broker, crashed, history>>

\* A new node enters the map last.  The write may meet a thread that ranges
\* over the map, which the Go runtime may notice and make fatal.
SetupDone ==
    /\ th[0].pc = "create" /\ th[0].spec = <<>>
    /\ \/ /\ node' = [node EXCEPT ![th[0].node].known = TRUE]
          /\ th' = [th EXCEPT ![0] = Idle]
          /\ UNCHANGED crashed
       \/ /\ ~node[th[0].node].known
          /\ \E t \in Threads \ {0} : th[t].pc \notin {"idle", "start"}
          /\ crashed' = TRUE
          /\ UNCHANGED <<node, th>>
    /\ UNCHANGED <<obj, registered, routes, broker, history>>

\* A report reaches the object its topic's route leads to.
GotReport(topic) ==
    /\ Dispatchable /\ topic \in subs /\ routes[topic] # 0 /\ reports < MaxReports
    /\ obj' = [obj EXCEPT ![routes[topic]].total = @ + 1]
    /\ reports' = reports + 1
    /\ UNCHANGED <<node, registered, routes, broker, th, crashed, overlapped, hellos>>

-----------------------------------------------------------------------------

Subscribing(t) ==
    SubscribeAgain(t) \/ SubscribeSend(t) \/ Waited(t) \/ WaitedForNothing(t) \/ SubscribeFails(t)

Resubscribing(t) ==
    \/ mqttConnected(t) \/ ResubscribeDone(t)
    \/ \E n \in Nodes : ResubscribeNode(t, n)

SettingUp ==
    Shutdown \/ ShutdownDone \/ SkipInvalid \/ NewFlowSensor \/ AppendSensor \/ SetupDone

Step(t) ==
    /\ ~crashed
    /\ \/ Subscribing(t)
       \/ Resubscribing(t)
       \/ t = 0 /\ SettingUp

Events ==
    /\ ~crashed
    /\ \/ Connect \/ mqttConnLost
       \/ \E n \in Nodes : \E spec \in Specs[n] : GotSameHello(n, spec) \/ GotHello(n, spec)
       \/ \E topic \in Topics : GotReport(topic)

Next == Events \/ \E t \in Threads : Step(t)

Spec == Init /\ [][Next]_vars

\* The threads run, and the client reconnects by itself.
FairSpec ==
    /\ Spec
    /\ \A t \in Threads : WF_vars(Step(t))
    /\ WF_vars(~crashed /\ Connect)

-----------------------------------------------------------------------------
(* Properties *)

SensorIds == 1 .. Len(obj)
Current(s) == \E n \in Nodes : \E i \in DOMAIN node[n].sensors : node[n].sensors[i] = s

\* The variables have their types.
TypeOK ==
    /\ \A n \in Nodes :
          node[n] \in [known : BOOLEAN, spec : Specs[n] \cup {<<>>}, sensors : Seq(SensorIds)]
    /\ obj \in Seq([topic : Topics, token : BOOLEAN, total : Nat])
    /\ registered \subseteq {Label(t) : t \in Topics}
    /\ routes \in [Topics -> SensorIds \cup {0}]
    /\ connected \in BOOLEAN /\ conns \in Threads
    /\ subs \subseteq Topics /\ hello_sub \in BOOLEAN
    /\ \A t \in Threads : /\ th[t].pc \in {"idle", "start", "next", "send", "wait",
                                           "subscribed", "shutdown", "create"}
                          /\ th[t].queue \in Seq(SensorIds)
    /\ crashed \in BOOLEAN /\ overlapped \in BOOLEAN
    /\ hellos \in 0 .. MaxHellos /\ reports \in 0 .. MaxReports

Settled == (\A t \in Threads : th[t].pc = "idle") /\ connected /\ ~crashed

Subscribed(s) == obj[s].topic \in subs /\ routes[obj[s].topic] = s

\* Whatever was lost on the way (a connection during a hello, a hello during a
\* subscription, a failed unsubscription), once all is handled every sensor of
\* every node is subscribed and its reports reach it, not an earlier object;
\* as long as hellos and resubscriptions took turns.
SensorsSubscribed ==
    Settled /\ ~overlapped => \A s \in SensorIds : Current(s) => Subscribed(s)

\* The same when they did not, of which mqttConnected says "Minimal negative
\* impact".
OverlapIsHarmless ==
    Settled => \A s \in SensorIds : Current(s) => Subscribed(s)

\* Between messages, the metrics exported are those of the current sensors:
\* none of a sensor that is gone, and none missing.
MetricsAreCurrent ==
    th[0].pc = "idle" /\ ~crashed =>
        registered = {Label(obj[s].topic) : s \in {x \in SensorIds : Current(x)}}

SharedLabels ==
    \E n, m \in Nodes : \E i \in DOMAIN node[n].spec, j \in DOMAIN node[m].spec :
        /\ <<n, i>> # <<m, j>>
        /\ node[n].spec[i] # Invalid /\ node[m].spec[j] # Invalid
        /\ Label(<<n, node[n].spec[i]>>) = Label(<<m, node[m].spec[j]>>)

\* While threads take turns the process panics only on metrics with the same labels, which two nodes
\* whose names differ in the trailing part give, or one spec with a repetition.
PanicOnlyOnSharedLabels == crashed /\ ~overlapped => SharedLabels

\* While threads take turns no report is counted in an object that was shut down.
ReportsToCurrentSensors ==
    [][\A s \in SensorIds :
         obj'[s].total # obj[s].total => Current(s) \/ overlapped]_vars

\* With the connection up for good, every sensor is subscribed in the end, if
\* the threads took turns.
EventuallySubscribed ==
    <>[](crashed \/ overlapped \/ (connected => \A s \in SensorIds : Current(s) => Subscribed(s)))

=============================================================================
