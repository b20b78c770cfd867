-------------------------- MODULE SensorHubProofs --------------------------
(***************************************************************************)
(* Proofs for SensorHub, for any nodes, lists of sensors and bounds.       *)
(*                                                                         *)
(* The invariants are proved in layers, each from those before it:         *)
(*   TypeInv      types, and where a thread has a sensor in hand           *)
(*   MetricsInv   what is registered are the labels of the sensors in use, *)
(*                and no two of them have one label                        *)
(*   TurnsInv     without overlaps one thread works at a time, who waits   *)
(*                has a token, and routes lead to sensors in use           *)
(*   SpecInv      each sensor was made for an entry of its node's spec     *)
(*   SubInv       without overlaps each sensor is subscribed, or the       *)
(*                thread at work is yet to come to it                      *)
(***************************************************************************)
EXTENDS SensorHub, TLAPS

-----------------------------------------------------------------------------
(* Sequences *)

Elems(q) == {q[i] : i \in 1 .. Len(q)}

NoRepeat(q) == \A i, j \in 1 .. Len(q) : q[i] = q[j] => i = j

\* What the operations on a queue do to its elements.
LEMMA TailElems ==
    ASSUME NEW S, NEW q \in Seq(S), q # <<>>
    PROVE  /\ Tail(q) \in Seq(S) /\ Head(q) \in Elems(q)
           /\ Elems(q) = {Head(q)} \cup Elems(Tail(q))
           /\ NoRepeat(q) => NoRepeat(Tail(q)) /\ Head(q) \notin Elems(Tail(q))
  <1>1. /\ Len(q) \in Nat \ {0} /\ Len(Tail(q)) = Len(q) - 1 /\ Head(q) = q[1]
        /\ \A i \in 1 .. Len(Tail(q)) : Tail(q)[i] = q[i + 1]
    OBVIOUS
  <1>2. Elems(q) = {Head(q)} \cup Elems(Tail(q))
    <2>1. ASSUME NEW i \in 1 .. Len(q) PROVE q[i] \in {Head(q)} \cup Elems(Tail(q))
      <3>1. i # 1 => i - 1 \in 1 .. Len(Tail(q)) /\ q[i] = Tail(q)[i - 1]
        BY <1>1
      <3> QED
        BY <1>1, <3>1 DEF Elems
    <2>2. ASSUME NEW i \in 1 .. Len(Tail(q)) PROVE Tail(q)[i] \in Elems(q)
      <3>1. i + 1 \in 1 .. Len(q)
        BY <1>1
      <3> QED
        BY <1>1, <3>1 DEF Elems
    <2> QED
      BY <1>1, <2>1, <2>2 DEF Elems
  <1>3. NoRepeat(q) => NoRepeat(Tail(q)) /\ Head(q) \notin Elems(Tail(q))
    <2> SUFFICES ASSUME NoRepeat(q) PROVE NoRepeat(Tail(q)) /\ Head(q) \notin Elems(Tail(q))
      OBVIOUS
    <2>1. NoRepeat(Tail(q))
      BY <1>1 DEF NoRepeat
    <2>2. ASSUME NEW i \in 1 .. Len(Tail(q)) PROVE Tail(q)[i] # Head(q)
      <3>1. i + 1 \in 1 .. Len(q) /\ 1 \in 1 .. Len(q) /\ i + 1 # 1
        BY <1>1
      <3> QED
        BY <1>1, <3>1 DEF NoRepeat
    <2> QED
      BY <2>1, <2>2 DEF Elems
  <1>4. Tail(q) \in Seq(S) /\ Head(q) \in Elems(q)
    BY <1>1, <1>2
  <1> QED
    BY <1>2, <1>3, <1>4

LEMMA AppendElems ==
    ASSUME NEW S, NEW q \in Seq(S), NEW e \in S
    PROVE  /\ Append(q, e) \in Seq(S)
           /\ Elems(Append(q, e)) = Elems(q) \cup {e}
           /\ NoRepeat(q) /\ e \notin Elems(q) => NoRepeat(Append(q, e))
  <1>1. /\ Len(q) \in Nat /\ Len(Append(q, e)) = Len(q) + 1 /\ Append(q, e) \in Seq(S)
        /\ \A i \in 1 .. Len(q) : Append(q, e)[i] = q[i]
        /\ Append(q, e)[Len(q) + 1] = e
    OBVIOUS
  <1>2. \A i \in 1 .. Len(q) + 1 : i \in 1 .. Len(q) \/ i = Len(q) + 1
    BY <1>1
  <1> QED
    BY <1>1, <1>2 DEF Elems, NoRepeat

LEMMA ShortElems ==
    /\ Elems(<<>>) = {} /\ NoRepeat(<<>>)
    /\ \A e : Elems(<<e>>) = {e} /\ NoRepeat(<<e>>)
    /\ \A S : \A q \in Seq(S) : Elems(q) \subseteq S /\ (q # <<>> => Elems(q) # {})
  BY DEF Elems, NoRepeat

-----------------------------------------------------------------------------
(* Types, and where a thread can be *)

NodeObject == [known : BOOLEAN, spec : Seq(Flows \cup {Invalid}), sensors : Seq(Nat)]
FlowSensor == [topic : Topics, token : BOOLEAN, total : Nat]
Thread == [pc : {"idle", "start", "next", "send", "wait", "subscribed", "shutdown", "create"},
           queue : Seq(Nat), conn : Nat, node : Nodes \cup {"none"},
           spec : Seq(Flows \cup {Invalid}), due : SUBSET Nodes, seen : SUBSET Nodes]

NodesTyped ==
    /\ node \in [Nodes -> NodeObject]
    /\ \A n \in Nodes : /\ node[n].spec \in Specs[n] \cup {<<>>}
                        /\ Elems(node[n].sensors) \subseteq SensorIds

OthersTyped ==
    /\ registered \subseteq {Label(t) : t \in Topics}
    /\ conns \in Threads
    /\ subs \subseteq Topics
    /\ hellos \in 0 .. MaxHellos /\ reports \in 0 .. MaxReports

BooleansTyped ==
    connected \in BOOLEAN /\ hello_sub \in BOOLEAN /\ crashed \in BOOLEAN /\ overlapped \in BOOLEAN

\* The places where a thread has a sensor in hand.
Handling == {"send", "wait", "subscribed"}

Working(t) == th[t].pc \notin {"idle", "start"}

Places ==
    /\ th[0].pc \in {"idle", "shutdown", "create"} \cup Handling
    /\ \A t \in Threads \ {0} : th[t].pc \in {"idle", "start", "next", "send", "wait"}
    /\ \A t \in Threads : th[t].pc \in Handling => th[t].queue # <<>>
    /\ th[0].pc \in Handling => th[0].queue = <<Head(th[0].queue)>>
    /\ Working(0) => th[0].node \in Nodes
    /\ \A t \in Threads : t > conns => th[t].pc = "idle"

\* The ids in use are ids of objects, and a route leads to an object of its topic.
References ==
    /\ obj \in Seq(FlowSensor)
    /\ th \in [Threads -> Thread]
    /\ \A t \in Threads : Elems(th[t].queue) \subseteq SensorIds
    /\ routes \in [Topics -> Nat]
    /\ \A tp \in Topics : routes[tp] # 0 => routes[tp] \in SensorIds /\ obj[routes[tp]].topic = tp

TypeInv == NodesTyped /\ OthersTyped /\ BooleansTyped /\ Places /\ References

\* What no step but NewFlowSensor does to the objects: make one, or give one
\* another topic.
TopicsKept ==
    /\ obj' \in Seq(FlowSensor) /\ Len(obj') = Len(obj)
    /\ \A s \in SensorIds : obj'[s].topic = obj[s].topic

\* No route is made to anything but an object of its topic.
RoutesKept ==
    /\ routes' \in [Topics -> Nat]
    /\ \A tp \in Topics :
          \/ routes'[tp] \in {routes[tp], 0}
          \/ routes'[tp] \in SensorIds /\ obj[routes'[tp]].topic = tp

\* The thread t moves on, the others stay.
Moves(t, new) == new \in Thread /\ th' = [th EXCEPT ![t] = new]

LEMMA ThreadsAfter ==
    ASSUME th \in [Threads -> Thread], NEW t \in Threads, NEW new, Moves(t, new)
    PROVE  /\ th' \in [Threads -> Thread] /\ th'[t] = new
           /\ \A u \in Threads \ {t} : th'[u] = th[u]
  BY DEF Moves

\* The MQTT client clears or sets a token: the topics stay.
LEMMA TokenChange ==
    ASSUME obj \in Seq(FlowSensor), NEW s \in SensorIds, NEW b \in BOOLEAN,
           obj' = [obj EXCEPT ![s].token = b]
    PROVE  /\ TopicsKept
           /\ \A x \in SensorIds : obj'[x].total = obj[x].total
           /\ \A x \in SensorIds \ {s} : obj'[x] = obj[x]
           /\ obj'[s].token = b
  <1>1. obj[s] \in FlowSensor /\ s \in 1 .. Len(obj) /\ Len(obj) \in Nat
    BY DEF SensorIds
  <1> DEFINE new == [obj[s] EXCEPT !.token = b]
  <1>2. new \in FlowSensor /\ new.topic = obj[s].topic /\ new.total = obj[s].total /\ new.token = b
    BY <1>1 DEF FlowSensor
  <1>3. obj' = [obj EXCEPT ![s] = new]
    OBVIOUS
  <1> HIDE DEF new
  <1>4. /\ obj' \in Seq(FlowSensor) /\ Len(obj') = Len(obj)
        /\ \A x \in 1 .. Len(obj) : obj'[x] = IF x = s THEN new ELSE obj[x]
    BY <1>1, <1>2, <1>3
  <1> QED
    BY <1>2, <1>4 DEF TopicsKept, SensorIds

\* What Unsubscribe can do.
LEMMA UnsubscribeDoes ==
    ASSUME TypeInv, NEW s \in SensorIds, Unsubscribe(s)
    PROVE  /\ TopicsKept
           /\ \A x \in SensorIds : obj'[x].total = obj[x].total
           /\ \A x \in SensorIds \ {s} : obj'[x] = obj[x]
           /\ RoutesKept /\ \A tp \in Topics : routes'[tp] \in {routes[tp], 0}
           /\ \A tp \in Topics \ {obj[s].topic} : routes'[tp] = routes[tp]
           /\ subs' \subseteq subs
           /\ connected' \in BOOLEAN /\ hello_sub' \in BOOLEAN
  <1> DEFINE topic == obj[s].topic
  <1>1. obj \in Seq(FlowSensor) /\ routes \in [Topics -> Nat] /\ subs \subseteq Topics
    BY DEF TypeInv, References, OthersTyped
  <1>2. topic \in Topics
    <2>1. obj[s] \in FlowSensor
      BY <1>1 DEF SensorIds
    <2> QED
      BY <2>1 DEF FlowSensor
  <1> HIDE DEF topic
  <1>3. obj' = obj \/ obj' = [obj EXCEPT ![s].token = FALSE]
    BY DEF Unsubscribe
  <1>4. /\ TopicsKept
        /\ \A x \in SensorIds : obj'[x].total = obj[x].total
        /\ \A x \in SensorIds \ {s} : obj'[x] = obj[x]
    BY <1>1, <1>3, TokenChange DEF TopicsKept
  <1>5. routes' = routes \/ routes' = [routes EXCEPT ![topic] = 0]
    BY DEF Unsubscribe, topic
  <1>6. /\ routes' \in [Topics -> Nat] /\ \A tp \in Topics : routes'[tp] \in {routes[tp], 0}
        /\ \A tp \in Topics \ {topic} : routes'[tp] = routes[tp]
    BY <1>1, <1>2, <1>5
  <1>7. subs' \subseteq subs
    BY DEF Unsubscribe, Disconnected
  <1>8. connected' \in BOOLEAN /\ hello_sub' \in BOOLEAN
    BY Zenon DEF Unsubscribe, Disconnected, TypeInv, BooleansTyped
  <1> QED
    BY <1>4, <1>6, <1>7, <1>8 DEF topic, RoutesKept

-----------------------------------------------------------------------------
(* The type invariant *)

LEMMA TypeInit == Init => TypeInv
  <1> SUFFICES ASSUME Init PROVE TypeInv
    OBVIOUS
  <1>1. 0 \in Threads /\ 0 \in 0 .. MaxHellos /\ 0 \in 0 .. MaxReports
    BY HubAssumption DEF Threads
  <1>2. Idle \in Thread
    BY DEF Idle, Thread
  <1>3. NodesTyped /\ OthersTyped
    BY <1>1, ShortElems DEF Init, NodesTyped, NodeObject, OthersTyped
  <1>4. BooleansTyped
    BY Zenon DEF Init, BooleansTyped
  <1>5. Places
    BY <1>1 DEF Init, Places, Idle, Handling, Working
  <1>6. References
    BY <1>2, ShortElems DEF Init, References, Idle
  <1> QED
    BY <1>3, <1>4, <1>5, <1>6 DEF TypeInv

LEMMA BooleansNext ==
    ASSUME TypeInv, [Next]_vars
    PROVE  BooleansTyped'
  <1> USE DEF broker, history
  <1>1. BooleansTyped
    BY DEF TypeInv
  <1>2. ASSUME NEW t \in Threads, overlapped' = (overlapped \/ OthersWork(t))
        PROVE  overlapped' \in BOOLEAN
    BY <1>2
  <1>3. CASE UNCHANGED <<connected, hello_sub, crashed, overlapped>>
    BY <1>1, <1>3 DEF BooleansTyped
  <1>4. ASSUME NEW s, Unsubscribe(s)
        PROVE  connected' \in BOOLEAN /\ hello_sub' \in BOOLEAN
    BY Zenon, <1>1, <1>4 DEF Unsubscribe, Disconnected, BooleansTyped
  <1>5. CASE Connect
    BY <1>1, <1>5 DEF Connect, BooleansTyped
  <1>6. CASE mqttConnLost
    BY <1>1, <1>6 DEF mqttConnLost, Disconnected, BooleansTyped
  <1>7. ASSUME NEW t \in Threads, SubscribeAgain(t) PROVE BooleansTyped'
    BY Zenon, <1>1, <1>4, <1>7 DEF SubscribeAgain, BooleansTyped
  <1>8. ASSUME NEW t \in Threads, WaitedForNothing(t) PROVE BooleansTyped'
    BY <1>1, <1>8 DEF WaitedForNothing, BooleansTyped
  <1>9. ASSUME NEW t \in Threads, mqttConnected(t) PROVE BooleansTyped'
    BY <1>1, <1>2, <1>9 DEF mqttConnected, BooleansTyped
  <1>10. ASSUME NEW n, NEW spec, GotHello(n, spec) PROVE BooleansTyped'
    <2>1. 0 \in Threads
      BY HubAssumption DEF Threads
    <2> QED
      BY <2>1, <1>1, <1>2, <1>10 DEF GotHello, BooleansTyped
  <1>11. CASE Shutdown
    BY Zenon, <1>1, <1>4, <1>11 DEF Shutdown, BooleansTyped
  <1>12. CASE NewFlowSensor
    BY <1>1, <1>12 DEF NewFlowSensor, BooleansTyped
  <1>13. CASE SetupDone
    BY <1>1, <1>13 DEF SetupDone, BooleansTyped
  <1>14. ASSUME NEW t \in Threads,
                \/ SubscribeSend(t) \/ Waited(t) \/ SubscribeFails(t)
                \/ ResubscribeDone(t) \/ \E n \in Nodes : ResubscribeNode(t, n)
         PROVE  BooleansTyped'
    BY <1>3, <1>14 DEF SubscribeSend, Waited, SubscribeFails, ResubscribeDone, ResubscribeNode
  <1>15. ASSUME \/ ShutdownDone \/ SkipInvalid \/ AppendSensor \/ UNCHANGED vars
                \/ \E n \in Nodes : \E spec \in Specs[n] : GotSameHello(n, spec)
                \/ \E topic \in Topics : GotReport(topic)
         PROVE  BooleansTyped'
    BY <1>3, <1>15 DEF ShutdownDone, SkipInvalid, AppendSensor, GotSameHello, GotReport, vars
  <1> QED
    BY <1>5, <1>6, <1>7, <1>8, <1>9, <1>10, <1>11, <1>12, <1>13, <1>14, <1>15
       DEF Next, Events, Step, Subscribing, Resubscribing, SettingUp

\* Where thread t may be, and what it then has.
PlaceOf(t, r) ==
    /\ IF t = 0 THEN r.pc \in {"idle", "shutdown", "create"} \cup Handling
                ELSE r.pc \in {"idle", "start", "next", "send", "wait"}
    /\ r.pc \in Handling => r.queue # <<>>
    /\ t = 0 => /\ r.pc \in Handling => r.queue = <<Head(r.queue)>>
                /\ r.pc \notin {"idle", "start"} => r.node \in Nodes

\* A thread moves, the others stay where they are.
LEMMA MovePlaces ==
    ASSUME TypeInv, NEW t \in Threads, NEW new \in Thread, th' = [th EXCEPT ![t] = new],
           PlaceOf(t, new), conns' \in Threads, conns' >= conns, new.pc # "idle" => t <= conns'
    PROVE  th' \in [Threads -> Thread] /\ Places'
  <1>1. /\ th' \in [Threads -> Thread] /\ th'[t] = new
        /\ \A u \in Threads \ {t} : th'[u] = th[u]
    BY ThreadsAfter DEF Moves, TypeInv, References
  <1>2. 0 \in Threads /\ conns \in Threads /\ \A u \in Threads : u \in Int
    BY HubAssumption DEF Threads, TypeInv, OthersTyped
  <1>3. Places
    BY DEF TypeInv
  <1>4. /\ th'[0].pc \in {"idle", "shutdown", "create"} \cup Handling
        /\ th'[0].pc \in Handling => th'[0].queue = <<Head(th'[0].queue)>>
        /\ th'[0].pc \notin {"idle", "start"} => th'[0].node \in Nodes
    BY <1>1, <1>2, <1>3 DEF Places, PlaceOf, Working
  <1>5. ASSUME NEW u \in Threads
        PROVE  /\ u # 0 => th'[u].pc \in {"idle", "start", "next", "send", "wait"}
               /\ th'[u].pc \in Handling => th'[u].queue # <<>>
               /\ u > conns' => th'[u].pc = "idle"
    BY <1>1, <1>2, <1>3, <1>5 DEF Places, PlaceOf
  <1> QED
    BY <1>1, <1>4, <1>5 DEF Places, Working

\* The references stay good as long as no step makes one to no object.
LEMMA GoodReferences ==
    ASSUME TypeInv, TopicsKept, RoutesKept, th' \in [Threads -> Thread],
           \A t \in Threads : Elems(th'[t].queue) \subseteq SensorIds
    PROVE  References'
  <1>1. SensorIds' = SensorIds
    BY DEF TopicsKept, SensorIds
  <1>2. ASSUME NEW tp \in Topics, routes'[tp] # 0
        PROVE  routes'[tp] \in SensorIds /\ obj'[routes'[tp]].topic = tp
    BY <1>2 DEF TypeInv, References, TopicsKept, RoutesKept
  <1> QED
    BY <1>1, <1>2 DEF References, Elems, TopicsKept, RoutesKept

\* What a step leaves alone keeps its type.
LEMMA Unchanged ==
    ASSUME TypeInv
    PROVE  /\ TopicsKept /\ UNCHANGED node => NodesTyped'
           /\ UNCHANGED <<registered, conns, subs, hellos, reports>> => OthersTyped'
           /\ UNCHANGED routes => RoutesKept
           /\ UNCHANGED obj => TopicsKept
  <1>1. TopicsKept => SensorIds' = SensorIds
    BY DEF TopicsKept, SensorIds
  <1>2. TopicsKept /\ UNCHANGED node => NodesTyped'
    BY <1>1 DEF TypeInv, NodesTyped, Elems
  <1>3. UNCHANGED <<registered, conns, subs, hellos, reports>> => OthersTyped'
    BY DEF TypeInv, OthersTyped, Label
  <1>4. UNCHANGED routes => RoutesKept
    BY DEF TypeInv, References, RoutesKept
  <1>5. UNCHANGED obj => TopicsKept
    BY DEF TypeInv, References, TopicsKept
  <1> QED
    BY <1>2, <1>3, <1>4, <1>5

\* A step of one thread that makes no object.
LEMMA MoveTyped ==
    ASSUME TypeInv, NodesTyped', OthersTyped', BooleansTyped', TopicsKept, RoutesKept,
           NEW t \in Threads, NEW new \in Thread, th' = [th EXCEPT ![t] = new],
           PlaceOf(t, new), Elems(new.queue) \subseteq SensorIds,
           conns' >= conns, new.pc # "idle" => t <= conns'
    PROVE  TypeInv'
  <1>0. conns' \in Threads
    BY DEF OthersTyped, Threads
  <1>1. th' \in [Threads -> Thread] /\ Places'
    BY <1>0, MovePlaces
  <1>2. \A u \in Threads : Elems(th'[u].queue) \subseteq SensorIds
    BY DEF TypeInv, References
  <1>3. References'
    BY <1>1, <1>2, GoodReferences
  <1> QED
    BY <1>1, <1>3 DEF TypeInv

\* What the type invariant says of one thread, and of what it has in hand.
LEMMA ThreadFacts ==
    ASSUME TypeInv, NEW t \in Threads
    PROVE  /\ th \in [Threads -> Thread] /\ th[t] \in Thread
           /\ PlaceOf(t, th[t])
           /\ Elems(th[t].queue) \subseteq SensorIds
           /\ th[t].pc # "idle" => t <= conns
           /\ th[t].queue # <<>> => /\ Head(th[t].queue) \in SensorIds
                                    /\ Tail(th[t].queue) \in Seq(Nat)
                                    /\ Elems(Tail(th[t].queue)) \subseteq SensorIds
                                    /\ Elems(th[t].queue)
                                          = {Head(th[t].queue)} \cup Elems(Tail(th[t].queue))
           /\ conns \in Threads /\ conns \in Int /\ t \in Int /\ 0 \in Threads
  <1>1. th \in [Threads -> Thread] /\ th[t] \in Thread /\ conns \in Threads
    BY DEF TypeInv, References, OthersTyped
  <1>2. conns \in Int /\ t \in Int /\ 0 \in Threads
    BY <1>1, HubAssumption DEF Threads
  <1>3. Elems(th[t].queue) \subseteq SensorIds
    BY DEF TypeInv, References
  <1>4. th[t].queue \in Seq(Nat)
    BY <1>1 DEF Thread
  <1>5. PlaceOf(t, th[t]) /\ (th[t].pc # "idle" => t <= conns)
    BY <1>2 DEF TypeInv, Places, PlaceOf, Working
  <1> QED
    BY <1>1, <1>2, <1>3, <1>4, <1>5, TailElems

\* The steps of a subscription, in any thread.
LEMMA SubscribingTyped ==
    ASSUME TypeInv, BooleansTyped', NEW t \in Threads, Subscribing(t)
    PROVE  TypeInv' /\ TopicsKept
  <1> DEFINE s == Head(th[t].queue)
  <1> USE DEF broker, history
  <1>1. obj \in Seq(FlowSensor) /\ routes \in [Topics -> Nat] /\ subs \subseteq Topics
    BY DEF TypeInv, References, OthersTyped
  <1>3. /\ th[t] \in Thread /\ PlaceOf(t, th[t]) /\ Elems(th[t].queue) \subseteq SensorIds
        /\ conns \in Int /\ (th[t].pc # "idle" => t <= conns)
    BY ThreadFacts
  <1>4. th[t].queue # <<>> => /\ s \in SensorIds /\ s \in Nat
                             /\ Tail(th[t].queue) \in Seq(Nat)
                             /\ Elems(Tail(th[t].queue)) \subseteq SensorIds
    BY <1>1, ThreadFacts DEF SensorIds
  <1>5. th[t].pc \in {"send", "wait"} => th[t].queue # <<>>
    BY <1>3 DEF PlaceOf, Handling
  <1>6. ASSUME NEW new \in Thread, th' = [th EXCEPT ![t] = new], PlaceOf(t, new),
               Elems(new.queue) \subseteq SensorIds, th[t].pc # "idle",
               TopicsKept, RoutesKept, subs' \subseteq Topics,
               UNCHANGED <<node, registered, conns, hellos, reports>>
        PROVE  TypeInv'
    <2>1. NodesTyped'
      BY <1>6, Unchanged
    <2>2. OthersTyped'
      BY <1>6 DEF TypeInv, OthersTyped, Label
    <2>3. conns' >= conns /\ (new.pc # "idle" => t <= conns')
      BY <1>3, <1>6
    <2> QED
      BY <1>6, <2>1, <2>2, <2>3, MoveTyped
  <1>7. ASSUME th[t].pc \in {"send", "wait"}, Return(t), TopicsKept,
               UNCHANGED <<node, registered, routes, broker, history>>
        PROVE  TypeInv'
    <2>0. RoutesKept /\ subs' \subseteq Topics
      BY <1>1, <1>7, Unchanged
    <2>1. CASE t = 0
      <3> DEFINE new == [th[t] EXCEPT !.pc = "subscribed"]
      <3>1. new \in Thread /\ new.pc = "subscribed" /\ new.queue = th[t].queue /\ PlaceOf(t, new)
        BY <1>3, <1>5, <1>7, <2>1 DEF Thread, PlaceOf, Handling
      <3>2. th' = [th EXCEPT ![t] = new]
        BY <1>7, <2>1 DEF Return, Goto
      <3> HIDE DEF new
      <3> QED
        BY <1>3, <1>6, <1>7, <2>0, <3>1, <3>2
    <2>2. CASE t # 0
      <3> DEFINE new == [th[t] EXCEPT !.pc = "next", !.queue = Tail(th[t].queue)]
      <3>1. new \in Thread /\ new.pc = "next" /\ new.queue = Tail(th[t].queue) /\ PlaceOf(t, new)
        BY <1>3, <1>4, <1>5, <1>7, <2>2 DEF Thread, PlaceOf, Handling
      <3>2. th' = [th EXCEPT ![t] = new]
        BY <1>7, <2>2 DEF Return
      <3> HIDE DEF new
      <3> QED
        BY <1>4, <1>5, <1>6, <1>7, <2>0, <3>1, <3>2
    <2> QED
      BY <2>1, <2>2
  <1>8. CASE SubscribeAgain(t)
    <2> DEFINE new == [th[t] EXCEPT !.pc = "send"]
    <2>1. th[t].pc = "next" /\ th[t].queue # <<>> /\ t # 0
      BY <1>3, <1>8 DEF SubscribeAgain, PlaceOf, Handling
    <2>2. new \in Thread /\ new.pc = "send" /\ new.queue = th[t].queue /\ PlaceOf(t, new)
      BY <1>3, <2>1 DEF Thread, PlaceOf, Handling
    <2>3. th' = [th EXCEPT ![t] = new]
      BY <1>8 DEF SubscribeAgain, Goto
    <2> HIDE DEF new
    <2>4. Unsubscribe(s) \/ UNCHANGED <<connected, subs, hello_sub, routes, obj>>
      BY <1>8 DEF SubscribeAgain
    <2>5. TopicsKept /\ subs' \subseteq Topics /\ RoutesKept
      <3>1. CASE Unsubscribe(s)
        BY <1>1, <1>4, <2>1, <3>1, UnsubscribeDoes
      <3>2. CASE UNCHANGED <<connected, subs, hello_sub, routes, obj>>
        BY <1>1, <3>2, Unchanged
      <3> QED
        BY <2>4, <3>1, <3>2
    <2>6. UNCHANGED <<node, registered, conns, hellos, reports>>
      BY <1>8 DEF SubscribeAgain
    <2> QED
      BY <1>3, <1>6, <2>1, <2>2, <2>3, <2>5, <2>6
  <1>9. CASE SubscribeSend(t)
    <2> DEFINE new   == [th[t] EXCEPT !.pc = "wait", !.conn = conns]
               topic == obj[s].topic
    <2>1. th[t].pc = "send" /\ th[t].queue # <<>> /\ s \in SensorIds /\ s \in Nat
      BY <1>4, <1>5, <1>9 DEF SubscribeSend
    <2>a. conns \in Nat
      BY HubAssumption DEF TypeInv, OthersTyped, Threads
    <2>2. new \in Thread /\ new.pc = "wait" /\ new.queue = th[t].queue /\ PlaceOf(t, new)
      BY <1>3, <2>1, <2>a DEF Thread, PlaceOf, Handling
    <2>3. th' = [th EXCEPT ![t] = new]
      BY <1>9 DEF SubscribeSend
    <2> HIDE DEF new
    <2>4. topic \in Topics
      <3>1. obj[s] \in FlowSensor
        BY <1>1, <2>1 DEF SensorIds
      <3> QED
        BY <3>1 DEF FlowSensor
    <2>5. TopicsKept
      BY <1>1, <1>9, <2>1, TokenChange DEF SubscribeSend
    <2>6. routes' = [routes EXCEPT ![topic] = s] /\ subs' = subs \cup {topic}
      BY <1>9 DEF SubscribeSend
    <2>7. RoutesKept
      <3>1. s \in SensorIds /\ obj[s].topic = topic
        BY <2>1
      <3> HIDE DEF topic, s
      <3> QED
        BY <1>1, <2>1, <2>4, <2>6, <3>1 DEF RoutesKept
    <2>b. subs' \subseteq Topics
      BY <1>1, <2>4, <2>6
    <2>8. UNCHANGED <<node, registered, conns, hellos, reports>>
      BY <1>9 DEF SubscribeSend
    <2> QED
      BY <1>3, <1>6, <2>1, <2>2, <2>3, <2>5, <2>7, <2>8, <2>b
  <1>10. CASE Waited(t)
    BY <1>7, <1>10, Unchanged DEF Waited
  <1>11. CASE SubscribeFails(t)
    <2>1. th[t].pc \in {"send", "wait"} /\ s \in SensorIds
      BY <1>4, <1>5, <1>11 DEF SubscribeFails
    <2>2. TopicsKept
      BY <1>1, <1>11, <2>1, TokenChange DEF SubscribeFails
    <2> QED
      BY <1>7, <1>11, <2>1, <2>2 DEF SubscribeFails
  <1>12. CASE WaitedForNothing(t)
    <2>1. th' = [th EXCEPT ![t] = th[t]] /\ th[t].pc # "idle"
      BY <1>12, ThreadFacts DEF WaitedForNothing
    <2>2. TopicsKept /\ RoutesKept /\ subs' \subseteq Topics
          /\ UNCHANGED <<node, registered, conns, hellos, reports>>
      BY <1>1, <1>12, Unchanged DEF WaitedForNothing
    <2> QED
      BY <1>3, <1>6, <2>1, <2>2
  <1> QED
    BY <1>8, <1>9, <1>10, <1>11, <1>12 DEF Subscribing

\* The steps of a connection's thread.
LEMMA ResubscribingTyped ==
    ASSUME TypeInv, BooleansTyped', NEW t \in Threads, Resubscribing(t)
    PROVE  TypeInv' /\ TopicsKept
  <1> USE DEF broker, history
  <1>1. /\ th[t] \in Thread /\ PlaceOf(t, th[t]) /\ Elems(th[t].queue) \subseteq SensorIds
        /\ conns \in Int /\ (th[t].pc # "idle" => t <= conns)
    BY ThreadFacts
  <1>2. ASSUME NEW new \in Thread, th' = [th EXCEPT ![t] = new], PlaceOf(t, new),
               Elems(new.queue) \subseteq SensorIds, th[t].pc # "idle",
               UNCHANGED <<obj, routes, subs, node, registered, conns, hellos, reports>>
        PROVE  TypeInv' /\ TopicsKept
    <2>1. NodesTyped' /\ OthersTyped' /\ TopicsKept /\ RoutesKept
      BY <1>2, Unchanged
    <2>2. conns' >= conns /\ (new.pc # "idle" => t <= conns')
      BY <1>1, <1>2
    <2> QED
      BY <1>2, <2>1, <2>2, MoveTyped
  <1>3. CASE mqttConnected(t)
    <2> DEFINE due == {n \in Nodes : node[n].known}
               new == [th[t] EXCEPT !.pc = "next", !.due = due]
    <2>1. th[t].pc = "start" /\ t # 0
      BY <1>1, <1>3 DEF mqttConnected, PlaceOf, Handling
    <2>2. due \in SUBSET Nodes
      OBVIOUS
    <2> HIDE DEF due
    <2>3. new \in Thread /\ new.queue = th[t].queue /\ PlaceOf(t, new)
      BY <1>1, <2>1, <2>2 DEF Thread, PlaceOf, Handling
    <2>4. th' = [th EXCEPT ![t] = new]
      BY <1>3 DEF mqttConnected, due
    <2> HIDE DEF new
    <2> QED
      BY <1>1, <1>2, <1>3, <2>1, <2>3, <2>4 DEF mqttConnected
  <1>4. ASSUME NEW n \in Nodes, ResubscribeNode(t, n) PROVE TypeInv' /\ TopicsKept
    <2> DEFINE q   == node[n].sensors
               new == [th[t] EXCEPT !.queue = q, !.seen = th[t].seen \cup {n}]
    <2>1. th[t].pc = "next" /\ t # 0
      BY <1>4 DEF ResubscribeNode
    <2>2. q \in Seq(Nat) /\ Elems(q) \subseteq SensorIds
      BY DEF TypeInv, NodesTyped, NodeObject
    <2> HIDE DEF q
    <2>3. new \in Thread /\ new.queue = q /\ PlaceOf(t, new)
      BY <1>1, <2>1, <2>2 DEF Thread, PlaceOf, Handling
    <2>4. th' = [th EXCEPT ![t] = new]
      BY <1>4 DEF ResubscribeNode, q
    <2> HIDE DEF new
    <2> QED
      BY <1>2, <1>4, <2>1, <2>2, <2>3, <2>4 DEF ResubscribeNode
  <1>5. CASE ResubscribeDone(t)
    <2>1. th[t].pc = "next" /\ t # 0 /\ th' = [th EXCEPT ![t] = Idle]
      BY <1>5 DEF ResubscribeDone
    <2>2. Idle \in Thread /\ Idle.queue = <<>> /\ PlaceOf(t, Idle)
      BY <2>1 DEF Idle, Thread, PlaceOf, Handling
    <2>3. Elems(Idle.queue) \subseteq SensorIds
      BY <2>2, ShortElems
    <2> HIDE DEF Idle
    <2> QED
      BY <1>2, <1>5, <2>1, <2>2, <2>3 DEF ResubscribeDone
  <1> QED
    BY <1>3, <1>4, <1>5 DEF Resubscribing

\* Connections, hellos and reports.
LEMMA EventsTyped ==
    ASSUME TypeInv, BooleansTyped', Events
    PROVE  TypeInv' /\ TopicsKept
  <1> USE DEF broker, history
  <1>1. /\ obj \in Seq(FlowSensor) /\ routes \in [Topics -> Nat] /\ subs \subseteq Topics
        /\ hellos \in 0 .. MaxHellos /\ reports \in 0 .. MaxReports /\ conns \in Threads
        /\ th \in [Threads -> Thread] /\ 0 \in Threads /\ conns \in Int /\ conns >= 0
        /\ MaxHellos \in Nat /\ MaxReports \in Nat /\ MaxConns \in Nat
    BY HubAssumption DEF TypeInv, References, OthersTyped, Threads
  <1>2. ASSUME UNCHANGED <<node, conns, th>>, OthersTyped', TopicsKept, RoutesKept
        PROVE  TypeInv'
    <2>1. PlaceOf(0, th[0]) /\ th[0] \in Thread /\ Elems(th[0].queue) \subseteq SensorIds
          /\ (th[0].pc # "idle" => 0 <= conns)
      BY <1>1, ThreadFacts
    <2>2. th' = [th EXCEPT ![0] = th[0]]
      BY <1>1, <1>2
    <2> QED
      <3>1. NodesTyped' /\ conns' >= conns /\ (th[0].pc # "idle" => 0 <= conns')
        BY <1>1, <1>2, <2>1, Unchanged
      <3> QED
        BY <1>1, <1>2, <2>1, <2>2, <3>1, MoveTyped
  <1>3. CASE Connect
    <2> DEFINE t   == conns + 1
               new == [th[t] EXCEPT !.pc = "start"]
    <2>1. t \in Threads /\ t # 0 /\ conns' = t /\ t <= t /\ t >= conns
      BY <1>1, <1>3 DEF Connect, Threads
    <2>2. th' = [th EXCEPT ![t] = new]
      BY <1>3 DEF Connect
    <2> HIDE DEF t
    <2>3. th[t] \in Thread /\ Elems(th[t].queue) \subseteq SensorIds
      BY <2>1, ThreadFacts
    <2>4. new \in Thread /\ new.queue = th[t].queue /\ PlaceOf(t, new)
      BY <2>1, <2>3 DEF Thread, PlaceOf, Handling
    <2>5. OthersTyped'
      BY <1>3, <2>1 DEF Connect, TypeInv, OthersTyped, Label
    <2>6. NodesTyped' /\ TopicsKept /\ RoutesKept
      BY <1>3, Unchanged DEF Connect
    <2> HIDE DEF new
    <2> QED
      BY <2>1, <2>2, <2>3, <2>4, <2>5, <2>6, MoveTyped
  <1>4. CASE mqttConnLost
    <2>1. OthersTyped'
      BY <1>4 DEF mqttConnLost, Disconnected, TypeInv, OthersTyped, Label
    <2> QED
      BY <1>2, <1>4, <2>1, Unchanged DEF mqttConnLost
  <1>5. ASSUME NEW n \in Nodes, NEW spec \in Specs[n], GotSameHello(n, spec) PROVE TypeInv' /\ TopicsKept
    <2>1. OthersTyped'
      BY <1>1, <1>5 DEF GotSameHello, TypeInv, OthersTyped, Label
    <2> QED
      BY <1>2, <1>5, <2>1, Unchanged DEF GotSameHello
  <1>6. ASSUME NEW n \in Nodes, NEW spec \in Specs[n], GotHello(n, spec) PROVE TypeInv' /\ TopicsKept
    <2> DEFINE q   == node[n].sensors
               new == [th[0] EXCEPT !.pc = "shutdown", !.node = n, !.queue = q]
    <2>1. q \in Seq(Nat) /\ Elems(q) \subseteq SensorIds
      BY DEF TypeInv, NodesTyped, NodeObject
    <2>2. spec \in Seq(Flows \cup {Invalid})
      BY HubAssumption
    <2>3. NodesTyped'
      <3>1. SensorIds' = SensorIds
        BY <1>6 DEF GotHello, SensorIds
      <3>2. node' = [node EXCEPT ![n].spec = spec]
        BY <1>6 DEF GotHello
      <3>3. node[n] \in NodeObject /\ [node[n] EXCEPT !.spec = spec] \in NodeObject
        BY <2>2 DEF TypeInv, NodesTyped, NodeObject
      <3>4. /\ node' \in [Nodes -> NodeObject]
            /\ \A m \in Nodes : /\ node'[m].spec = IF m = n THEN spec ELSE node[m].spec
                                /\ node'[m].sensors = node[m].sensors
        BY <3>2, <3>3 DEF TypeInv, NodesTyped, NodeObject
      <3> QED
        BY <3>1, <3>4 DEF TypeInv, NodesTyped, Elems
    <2>4. th' = [th EXCEPT ![0] = new]
      BY <1>6 DEF GotHello
    <2>5. th[0] \in Thread
      BY <1>1
    <2> HIDE DEF q
    <2>6. new \in Thread /\ new.queue = q /\ PlaceOf(0, new)
      BY <2>1, <2>5 DEF Thread, PlaceOf, Handling
    <2> HIDE DEF new
    <2>7. OthersTyped'
      BY <1>1, <1>6 DEF GotHello, TypeInv, OthersTyped, Label
    <2>8. TopicsKept /\ RoutesKept /\ conns' >= conns /\ 0 <= conns'
      BY <1>1, <1>6, Unchanged DEF GotHello
    <2> QED
      BY <1>1, <2>1, <2>3, <2>4, <2>6, <2>7, <2>8, MoveTyped
  <1>7. ASSUME NEW topic \in Topics, GotReport(topic) PROVE TypeInv' /\ TopicsKept
    <2> DEFINE s == routes[topic]
    <2>1. s \in SensorIds
      BY <1>7 DEF GotReport, TypeInv, References
    <2>2. TopicsKept
      <3> DEFINE new == [obj[s] EXCEPT !.total = @ + 1]
      <3>1. obj' = [obj EXCEPT ![s] = new]
        BY <1>7 DEF GotReport
      <3>2. obj[s] \in FlowSensor /\ s \in 1 .. Len(obj) /\ Len(obj) \in Nat
        BY <1>1, <2>1 DEF SensorIds
      <3> HIDE DEF s
      <3>3. new \in FlowSensor /\ new.topic = obj[s].topic
        BY <3>2 DEF FlowSensor
      <3> HIDE DEF new
      <3>4. /\ obj' \in Seq(FlowSensor) /\ Len(obj') = Len(obj)
            /\ \A x \in 1 .. Len(obj) : obj'[x] = IF x = s THEN new ELSE obj[x]
        BY <1>1, <3>1, <3>2, <3>3
      <3> QED
        BY <3>3, <3>4 DEF TopicsKept, SensorIds
    <2>3. OthersTyped'
      BY <1>1, <1>7 DEF GotReport, TypeInv, OthersTyped, Label
    <2> QED
      BY <1>2, <1>7, <2>2, <2>3, Unchanged DEF GotReport
  <1> QED
    BY <1>3, <1>4, <1>5, <1>6, <1>7 DEF Events

\* Changing the sensors of a node.
LEMMA SensorsTyped ==
    ASSUME TypeInv, TopicsKept, NEW n \in Nodes, NEW q \in Seq(Nat), Elems(q) \subseteq SensorIds,
           node' = [node EXCEPT ![n].sensors = q]
    PROVE  /\ NodesTyped'
           /\ \A m \in Nodes : /\ node'[m].sensors = IF m = n THEN q ELSE node[m].sensors
                               /\ node'[m].spec = node[m].spec
                               /\ node'[m].known = node[m].known
  <1>1. SensorIds' = SensorIds
    BY DEF TopicsKept, SensorIds
  <1>2. node[n] \in NodeObject /\ [node[n] EXCEPT !.sensors = q] \in NodeObject
    BY DEF TypeInv, NodesTyped, NodeObject
  <1>3. /\ node' \in [Nodes -> NodeObject]
        /\ \A m \in Nodes : /\ node'[m].sensors = IF m = n THEN q ELSE node[m].sensors
                            /\ node'[m].spec = node[m].spec
                            /\ node'[m].known = node[m].known
    BY <1>2 DEF TypeInv, NodesTyped, NodeObject
  <1> QED
    BY <1>1, <1>3 DEF TypeInv, NodesTyped, Elems

\* A new object extends the ids.
LEMMA NewObject ==
    ASSUME TypeInv, NEW o \in FlowSensor, obj' = Append(obj, o)
    PROVE  /\ obj' \in Seq(FlowSensor) /\ Len(obj') = Len(obj) + 1 /\ Len(obj) \in Nat
           /\ Len(obj') \in Nat /\ Len(obj') \notin SensorIds
           /\ SensorIds' = SensorIds \cup {Len(obj')}
           /\ \A s \in SensorIds : obj'[s] = obj[s]
           /\ obj'[Len(obj')] = o
  <1>1. obj \in Seq(FlowSensor)
    BY DEF TypeInv, References
  <1>2. /\ obj' \in Seq(FlowSensor) /\ Len(obj') = Len(obj) + 1 /\ Len(obj) \in Nat
        /\ \A s \in 1 .. Len(obj) : obj'[s] = obj[s]
        /\ obj'[Len(obj) + 1] = o
    BY <1>1
  <1> QED
    BY <1>2 DEF SensorIds

\* The steps of SetupSensors.
LEMMA SettingUpTyped ==
    ASSUME TypeInv, BooleansTyped', SettingUp
    PROVE  TypeInv'
  <1> USE DEF broker, history
  <1> DEFINE n == th[0].node
  <1>1. /\ obj \in Seq(FlowSensor) /\ routes \in [Topics -> Nat] /\ subs \subseteq Topics
        /\ th \in [Threads -> Thread] /\ 0 \in Threads /\ conns \in Int /\ conns >= 0
        /\ th[0] \in Thread /\ PlaceOf(0, th[0]) /\ Elems(th[0].queue) \subseteq SensorIds
        /\ th[0].spec \in Seq(Flows \cup {Invalid})
    <2>1. /\ obj \in Seq(FlowSensor) /\ routes \in [Topics -> Nat] /\ subs \subseteq Topics
          /\ 0 \in Threads /\ conns \in Int /\ conns >= 0
      BY HubAssumption DEF TypeInv, References, OthersTyped, Threads
    <2>2. /\ th \in [Threads -> Thread] /\ th[0] \in Thread /\ PlaceOf(0, th[0])
          /\ Elems(th[0].queue) \subseteq SensorIds
      BY <2>1, ThreadFacts
    <2>3. th[0].spec \in Seq(Flows \cup {Invalid})
      BY <2>2 DEF Thread
    <2> QED
      BY <2>1, <2>2, <2>3
  <1>2. ASSUME NEW new \in Thread, th' = [th EXCEPT ![0] = new], PlaceOf(0, new),
               Elems(new.queue) \subseteq SensorIds,
               UNCHANGED <<conns, hellos, reports>>,
               registered' \subseteq registered, subs' \subseteq subs,
               TopicsKept, RoutesKept, NodesTyped'
        PROVE  TypeInv'
    <2>1. OthersTyped'
      BY <1>2 DEF TypeInv, OthersTyped, Label
    <2>2. conns' >= conns /\ 0 <= conns'
      BY <1>1, <1>2
    <2> QED
      BY <1>1, <1>2, <2>1, <2>2, MoveTyped
  <1>3. ASSUME th[0].pc \notin {"idle", "start"} PROVE n \in Nodes /\ node[n] \in NodeObject
    BY <1>1, <1>3 DEF PlaceOf, TypeInv, NodesTyped
  <1>4. CASE Shutdown
    <2> DEFINE s   == Head(th[0].queue)
               new == [th[0] EXCEPT !.queue = Tail(@)]
    <2>1. th[0].pc = "shutdown" /\ th[0].queue # <<>> /\ Unsubscribe(s)
          /\ UNCHANGED <<node, conns, hellos, reports>> /\ registered' \subseteq registered
      BY <1>4 DEF Shutdown
    <2>2. s \in SensorIds /\ Tail(th[0].queue) \in Seq(Nat)
          /\ Elems(Tail(th[0].queue)) \subseteq SensorIds
      BY <1>1, <2>1, ThreadFacts
    <2>3. new \in Thread /\ new.queue = Tail(th[0].queue) /\ PlaceOf(0, new)
      BY <1>1, <2>1, <2>2 DEF Thread, PlaceOf, Handling
    <2>4. th' = [th EXCEPT ![0] = new]
      BY <1>4 DEF Shutdown
    <2> HIDE DEF new
    <2>5. TopicsKept /\ RoutesKept /\ subs' \subseteq subs
      BY <2>1, <2>2, UnsubscribeDoes
    <2>6. NodesTyped'
      BY <2>1, <2>5, Unchanged
    <2> QED
      BY <1>2, <2>1, <2>2, <2>3, <2>4, <2>5, <2>6
  <1>5. CASE ShutdownDone
    <2> DEFINE new == [th[0] EXCEPT !.pc = "create", !.spec = node[n].spec]
    <2>1. th[0].pc = "shutdown" /\ th[0].queue = <<>> /\ n \in Nodes /\ node[n] \in NodeObject
      BY <1>3, <1>5 DEF ShutdownDone
    <2>2. new \in Thread /\ new.queue = <<>> /\ PlaceOf(0, new)
      BY <1>1, <2>1 DEF Thread, PlaceOf, Handling, NodeObject
    <2>3. th' = [th EXCEPT ![0] = new] /\ node' = [node EXCEPT ![n].sensors = <<>>]
      BY <1>5 DEF ShutdownDone
    <2> HIDE DEF new, n
    <2>4. TopicsKept /\ RoutesKept /\ UNCHANGED <<registered, conns, subs, hellos, reports>>
      BY <1>5, Unchanged DEF ShutdownDone
    <2>5. <<>> \in Seq(Nat) /\ Elems(<<>>) \subseteq SensorIds
      BY ShortElems
    <2>6. NodesTyped'
      BY <2>1, <2>3, <2>4, <2>5, SensorsTyped
    <2> QED
      BY <1>2, <2>2, <2>3, <2>4, <2>5, <2>6
  <1>6. CASE SkipInvalid
    <2> DEFINE new == [th[0] EXCEPT !.spec = Tail(@)]
    <2>1. th[0].pc = "create" /\ th[0].spec # <<>>
      BY <1>6 DEF SkipInvalid
    <2>2. Tail(th[0].spec) \in Seq(Flows \cup {Invalid})
      BY <1>1, <2>1
    <2>3. new \in Thread /\ new.queue = th[0].queue /\ PlaceOf(0, new)
      BY <1>1, <2>1, <2>2 DEF Thread, PlaceOf, Handling
    <2>4. th' = [th EXCEPT ![0] = new]
      BY <1>6 DEF SkipInvalid
    <2> HIDE DEF new
    <2>5. TopicsKept /\ RoutesKept /\ NodesTyped'
          /\ UNCHANGED <<registered, conns, subs, hellos, reports>>
      BY <1>6, Unchanged DEF SkipInvalid
    <2> QED
      BY <1>1, <1>2, <2>3, <2>4, <2>5
  <1>7. CASE AppendSensor
    <2> DEFINE s   == Head(th[0].queue)
               q   == Append(node[n].sensors, s)
               new == [th[0] EXCEPT !.pc = "create", !.queue = <<>>]
    <2>1. th[0].pc = "subscribed" /\ th[0].queue # <<>> /\ n \in Nodes /\ node[n] \in NodeObject
      BY <1>1, <1>3, <1>7 DEF AppendSensor, PlaceOf, Handling
    <2>2. new \in Thread /\ new.queue = <<>> /\ PlaceOf(0, new)
      <3>1. <<>> \in Seq(Nat) /\ n \in Nodes /\ th[0] \in Thread
        BY <1>1, <2>1
      <3>2. new \in Thread /\ new.queue = <<>> /\ new.pc = "create" /\ new.node = n
        BY <3>1 DEF Thread
      <3> QED
        BY <3>1, <3>2 DEF PlaceOf, Handling
    <2>3. th' = [th EXCEPT ![0] = new] /\ node' = [node EXCEPT ![n].sensors = q]
      BY <1>7 DEF AppendSensor
    <2> HIDE DEF new
    <2>4. TopicsKept /\ RoutesKept /\ UNCHANGED <<registered, conns, subs, hellos, reports>>
      BY <1>7, Unchanged DEF AppendSensor
    <2>5. s \in SensorIds /\ s \in Nat
      <3>1. s \in SensorIds
        BY <1>1, <2>1, ThreadFacts
      <3> QED
        BY <3>1 DEF SensorIds
    <2>6. node[n].sensors \in Seq(Nat) /\ Elems(node[n].sensors) \subseteq SensorIds
      BY <2>1 DEF NodeObject, TypeInv, NodesTyped
    <2> HIDE DEF s, n
    <2>7. q \in Seq(Nat) /\ Elems(q) \subseteq SensorIds /\ Elems(<<>>) \subseteq SensorIds
      BY <2>5, <2>6, AppendElems, ShortElems
    <2>8. NodesTyped'
      BY <2>1, <2>3, <2>4, <2>7, SensorsTyped
    <2> QED
      BY <1>2, <2>2, <2>3, <2>4, <2>7, <2>8
  <1>8. CASE SetupDone
    <2>1. th[0].pc = "create" /\ n \in Nodes /\ node[n] \in NodeObject
      BY <1>3, <1>8 DEF SetupDone
    <2>2. TopicsKept /\ RoutesKept /\ UNCHANGED <<registered, conns, subs, hellos, reports>>
      BY <1>8, Unchanged DEF SetupDone
    <2>3. CASE UNCHANGED <<node, th>>
      <3>1. th' = [th EXCEPT ![0] = th[0]] /\ NodesTyped'
        BY <1>1, <2>2, <2>3, Unchanged
      <3> QED
        BY <1>1, <1>2, <2>2, <3>1
    <2>4. CASE node' = [node EXCEPT ![n].known = TRUE] /\ th' = [th EXCEPT ![0] = Idle]
      <3>1. Idle \in Thread /\ Idle.queue = <<>> /\ PlaceOf(0, Idle)
        BY DEF Idle, Thread, PlaceOf, Handling
      <3>2. NodesTyped'
        <4>1. [node[n] EXCEPT !.known = TRUE] \in NodeObject
          BY <2>1 DEF NodeObject
        <4>2. /\ node' \in [Nodes -> NodeObject]
              /\ \A m \in Nodes : /\ node'[m].sensors = node[m].sensors
                                  /\ node'[m].spec = node[m].spec
          BY <2>4, <4>1 DEF TypeInv, NodesTyped, NodeObject
        <4>3. SensorIds' = SensorIds
          BY <2>2 DEF TopicsKept, SensorIds
        <4> QED
          BY <4>2, <4>3 DEF TypeInv, NodesTyped, Elems
      <3>3. Elems(Idle.queue) \subseteq SensorIds
        BY <3>1, ShortElems
      <3> HIDE DEF Idle
      <3> QED
        BY <1>2, <2>2, <2>4, <3>1, <3>2, <3>3
    <2> QED
      BY <1>8, <2>3, <2>4 DEF SetupDone
  <1>9. CASE NewFlowSensor
    <2> DEFINE topic == <<n, Entry>>
               o     == [topic |-> topic, token |-> FALSE, total |-> 0]
               s     == Len(obj')
               new   == [th[0] EXCEPT !.pc = "send", !.spec = Tail(th[0].spec), !.queue = <<s>>]
    <2>1. th[0].pc = "create" /\ th[0].spec # <<>> /\ Entry # Invalid
          /\ UNCHANGED <<node, routes, connected, conns, subs, hello_sub, overlapped, hellos, reports>>
      BY <1>9 DEF NewFlowSensor
    <2>2. n \in Nodes /\ Entry \in Flows /\ topic \in Topics
          /\ Tail(th[0].spec) \in Seq(Flows \cup {Invalid})
      BY <1>1, <1>3, <2>1 DEF Entry, Topics
    <2>3. CASE UNCHANGED <<obj, registered, th>>
      <3>1. th' = [th EXCEPT ![0] = th[0]] /\ TopicsKept /\ RoutesKept
        BY <1>1, <2>1, <2>3, Unchanged
      <3>2. NodesTyped'
        BY <2>1, <3>1, Unchanged
      <3> QED
        BY <1>1, <1>2, <2>1, <2>3, <3>1, <3>2
    <2>4. CASE /\ registered' = registered \cup {Label(topic)}
               /\ obj' = Append(obj, o)
               /\ th' = [th EXCEPT ![0] = new]
      <3>1. o \in FlowSensor
        BY <2>2 DEF FlowSensor
      <3> HIDE DEF o
      <3>a. obj' = Append(obj, o)
        BY <2>4
      <3>2. /\ obj' \in Seq(FlowSensor) /\ s \in Nat /\ s \notin SensorIds
            /\ SensorIds' = SensorIds \cup {s} /\ \A x \in SensorIds : obj'[x] = obj[x]
        BY <3>1, <3>a, NewObject
      <3> HIDE DEF s
      <3>3. <<s>> \in Seq(Nat) /\ <<s>> # <<>> /\ Head(<<s>>) = s /\ Elems(<<s>>) = {s}
        BY <3>2, ShortElems
      <3>4. new \in Thread /\ new.queue = <<s>> /\ PlaceOf(0, new)
        BY <1>1, <2>1, <2>2, <3>3 DEF Thread, PlaceOf, Handling
      <3> HIDE DEF new
      <3>5. th' \in [Threads -> Thread] /\ Places'
        <4>1. th' = [th EXCEPT ![0] = new] /\ conns' \in Threads /\ conns' >= conns /\ 0 <= conns'
          BY <1>1, <2>1, <2>4 DEF TypeInv, OthersTyped
        <4> QED
          BY <1>1, <3>4, <4>1, MovePlaces
      <3>6. \A t \in Threads : Elems(th'[t].queue) \subseteq SensorIds \cup {s}
        BY <1>1, <2>4, <3>3, <3>4 DEF TypeInv, References
      <3>7. References'
        BY <1>1, <2>1, <3>2, <3>5, <3>6 DEF TypeInv, References, Elems
      <3>8. NodesTyped'
        BY <2>1, <3>2 DEF TypeInv, NodesTyped, Elems
      <3>9. OthersTyped'
        BY <2>1, <2>2, <2>4 DEF TypeInv, OthersTyped, Label
      <3> QED
        BY <3>5, <3>7, <3>8, <3>9 DEF TypeInv
    <2> QED
      BY <1>9, <2>3, <2>4 DEF NewFlowSensor
  <1> QED
    BY <1>4, <1>5, <1>6, <1>7, <1>8, <1>9 DEF SettingUp

LEMMA TypeNext == TypeInv /\ [Next]_vars => TypeInv'
  <1> SUFFICES ASSUME TypeInv, [Next]_vars PROVE TypeInv'
    OBVIOUS
  <1>1. BooleansTyped'
    BY BooleansNext
  <1>2. CASE UNCHANGED vars
    <2>1. NodesTyped' /\ OthersTyped' /\ TopicsKept /\ RoutesKept
      BY <1>2, Unchanged DEF vars
    <2>2. Places'
      BY <1>2 DEF vars, TypeInv, Places, Working
    <2>3. References'
      BY <1>2 DEF vars, TypeInv, References, Elems, SensorIds
    <2> QED
      BY <1>1, <2>1, <2>2, <2>3 DEF TypeInv
  <1> QED
    BY <1>1, <1>2, SubscribingTyped, ResubscribingTyped, SettingUpTyped, EventsTyped DEF Next, Step

\* The variables have their types, and a thread that has a sensor in hand has an
\* object for it.
THEOREM TypeInvariance == Spec => []TypeInv
  BY TypeInit, TypeNext, PTL DEF Spec

\* In particular the type invariant of the module holds.
THEOREM TypeCorrect == Spec => []TypeOK
  <1>1. TypeInv => TypeOK
    <2> SUFFICES ASSUME TypeInv PROVE TypeOK
      OBVIOUS
    <2>1. ASSUME NEW q \in Seq(Nat), Elems(q) \subseteq SensorIds PROVE q \in Seq(SensorIds)
      <3>1. Len(q) \in Nat /\ q = [i \in 1 .. Len(q) |-> q[i]]
        OBVIOUS
      <3>2. \A i \in 1 .. Len(q) : q[i] \in SensorIds
        BY <2>1 DEF Elems
      <3> QED
        BY <3>1, <3>2
    <2>2. ASSUME NEW n \in Nodes
          PROVE  node[n] \in [known : BOOLEAN, spec : Specs[n] \cup {<<>>}, sensors : Seq(SensorIds)]
      <3>1. /\ node[n] \in NodeObject /\ node[n].spec \in Specs[n] \cup {<<>>}
            /\ node[n].sensors \in Seq(Nat) /\ Elems(node[n].sensors) \subseteq SensorIds
        BY DEF TypeInv, NodesTyped, NodeObject
      <3>2. node[n].sensors \in Seq(SensorIds)
        BY <2>1, <3>1
      <3> QED
        BY <3>1, <3>2 DEF NodeObject
    <2>3. ASSUME NEW t \in Threads
          PROVE  /\ th[t].pc \in {"idle", "start", "next", "send", "wait",
                                  "subscribed", "shutdown", "create"}
                 /\ th[t].queue \in Seq(SensorIds)
      <3>1. th[t] \in Thread /\ th[t].queue \in Seq(Nat) /\ Elems(th[t].queue) \subseteq SensorIds
        BY DEF TypeInv, References, Thread
      <3>2. th[t].queue \in Seq(SensorIds)
        BY <2>1, <3>1
      <3> QED
        BY <3>1, <3>2 DEF Thread
    <2>4. routes \in [Topics -> SensorIds \cup {0}]
      BY DEF TypeInv, References
    <2>5. obj \in Seq([topic : Topics, token : BOOLEAN, total : Nat])
      BY DEF TypeInv, References, FlowSensor
    <2>6. OthersTyped /\ BooleansTyped
      BY DEF TypeInv
    <2> QED
      BY <2>2, <2>3, <2>4, <2>5, <2>6 DEF TypeOK, OthersTyped, BooleansTyped
  <1> QED
    BY <1>1, TypeInvariance, PTL

-----------------------------------------------------------------------------
(* What a step does to the threads *)

\* Only thread t moves.
OnlyMoves(t) == th' \in [Threads -> Thread] /\ \A u \in Threads \ {t} : th'[u] = th[u]

\* Thread t goes on at pc, with the sensors q and the entries spec before it.
GoesOn(t, pc, q, spec) ==
    /\ OnlyMoves(t)
    /\ th'[t].pc = pc /\ th'[t].queue = q /\ th'[t].spec = spec
    /\ th'[t].node = th[t].node /\ th'[t].due = th[t].due /\ th'[t].seen = th[t].seen

LEMMA Assigned ==
    ASSUME TypeInv, NEW t \in Threads, NEW new \in Thread, th' = [th EXCEPT ![t] = new]
    PROVE  OnlyMoves(t) /\ th'[t] = new
  BY ThreadsAfter DEF Moves, OnlyMoves, TypeInv, References

\* Returning from a Subscribe.
LEMMA ReturnMoves ==
    ASSUME TypeInv, NEW t \in Threads, th[t].pc \in {"send", "wait"}, Return(t)
    PROVE  /\ th[t].queue # <<>>
           /\ t = 0 => GoesOn(0, "subscribed", th[0].queue, th[0].spec)
           /\ t # 0 => GoesOn(t, "next", Tail(th[t].queue), th[t].spec)
  <1>1. th[t] \in Thread /\ th[t].queue # <<>> /\ Tail(th[t].queue) \in Seq(Nat)
    BY ThreadFacts DEF PlaceOf, Handling
  <1>2. CASE t = 0
    <2> DEFINE new == [th[0] EXCEPT !.pc = "subscribed"]
    <2>1. new \in Thread
      BY <1>1, <1>2 DEF Thread
    <2>2. th' = [th EXCEPT ![0] = new]
      BY <1>2 DEF Return, Goto
    <2>3. OnlyMoves(0) /\ th'[0] = new
      <3> HIDE DEF new
      <3> QED
        BY <1>2, <2>1, <2>2, Assigned
    <2> QED
      BY <1>1, <1>2, <2>3 DEF GoesOn, Thread
  <1>3. CASE t # 0
    <2> DEFINE new == [th[t] EXCEPT !.pc = "next", !.queue = Tail(th[t].queue)]
    <2>1. new \in Thread
      BY <1>1 DEF Thread
    <2>2. th' = [th EXCEPT ![t] = new]
      BY <1>3 DEF Return
    <2>3. OnlyMoves(t) /\ th'[t] = new
      <3> HIDE DEF new
      <3> QED
        BY <2>1, <2>2, Assigned
    <2> QED
      BY <1>1, <1>3, <2>3 DEF GoesOn, Thread
  <1> QED
    BY <1>2, <1>3

LEMMA AgainMoves ==
    ASSUME TypeInv, NEW t \in Threads, SubscribeAgain(t)
    PROVE  /\ t # 0 /\ th[t].pc = "next" /\ th[t].queue # <<>>
           /\ GoesOn(t, "send", th[t].queue, th[t].spec)
  <1> DEFINE new == [th[t] EXCEPT !.pc = "send"]
  <1>1. th[t] \in Thread /\ PlaceOf(t, th[t]) /\ th[t].pc = "next" /\ th[t].queue # <<>>
    BY ThreadFacts DEF SubscribeAgain
  <1>2. t # 0
    BY <1>1 DEF PlaceOf, Handling
  <1>3. new \in Thread /\ th' = [th EXCEPT ![t] = new]
    BY <1>1 DEF Thread, SubscribeAgain, Goto
  <1>4. OnlyMoves(t) /\ th'[t] = new
    <2> HIDE DEF new
    <2> QED
      BY <1>3, Assigned
  <1> QED
    BY <1>1, <1>2, <1>4 DEF GoesOn, Thread

LEMMA SendMoves ==
    ASSUME TypeInv, NEW t \in Threads, SubscribeSend(t)
    PROVE  /\ th[t].pc = "send" /\ th[t].queue # <<>>
           /\ GoesOn(t, "wait", th[t].queue, th[t].spec) /\ th'[t].conn = conns
  <1> DEFINE new == [th[t] EXCEPT !.pc = "wait", !.conn = conns]
  <1>1. th[t] \in Thread /\ th[t].pc = "send" /\ th[t].queue # <<>> /\ conns \in Nat
    BY ThreadFacts, HubAssumption DEF SubscribeSend, PlaceOf, Handling, Threads
  <1>2. new \in Thread /\ th' = [th EXCEPT ![t] = new]
    BY <1>1 DEF Thread, SubscribeSend
  <1>3. OnlyMoves(t) /\ th'[t] = new
    <2> HIDE DEF new
    <2> QED
      BY <1>2, Assigned
  <1> QED
    BY <1>1, <1>3 DEF GoesOn, Thread

\* The steps of a connection's thread.
LEMMA ConnectionMoves ==
    ASSUME TypeInv, NEW t \in Threads
    PROVE  /\ mqttConnected(t) =>
                /\ t # 0 /\ th[t].pc = "start" /\ OnlyMoves(t)
                /\ th'[t].pc = "next" /\ th'[t].queue = th[t].queue /\ th'[t].seen = th[t].seen
                /\ th'[t].due = {n \in Nodes : node[n].known}
           /\ \A n \in Nodes : ResubscribeNode(t, n) =>
                /\ t # 0 /\ th[t].pc = "next" /\ th[t].queue = <<>> /\ OnlyMoves(t)
                /\ th'[t].pc = "next" /\ th'[t].queue = node[n].sensors
                /\ th'[t].seen = th[t].seen \cup {n} /\ th'[t].due = th[t].due
           /\ ResubscribeDone(t) =>
                /\ t # 0 /\ th[t].pc = "next" /\ th[t].queue = <<>> /\ OnlyMoves(t)
                /\ th'[t] = Idle
  <1>1. th[t] \in Thread /\ PlaceOf(t, th[t])
    BY ThreadFacts
  <1>2. ASSUME mqttConnected(t)
        PROVE  /\ t # 0 /\ th[t].pc = "start" /\ OnlyMoves(t)
               /\ th'[t].pc = "next" /\ th'[t].queue = th[t].queue /\ th'[t].seen = th[t].seen
               /\ th'[t].due = {n \in Nodes : node[n].known}
    <2> DEFINE due == {n \in Nodes : node[n].known}
               new == [th[t] EXCEPT !.pc = "next", !.due = due]
    <2>1. th[t].pc = "start" /\ t # 0 /\ due \in SUBSET Nodes
      BY <1>1, <1>2 DEF mqttConnected, PlaceOf, Handling
    <2>2. th' = [th EXCEPT ![t] = new]
      BY <1>2 DEF mqttConnected
    <2> HIDE DEF due
    <2>3. /\ new \in Thread /\ new.pc = "next" /\ new.queue = th[t].queue
          /\ new.seen = th[t].seen /\ new.due = due
      BY <1>1, <2>1 DEF Thread
    <2> HIDE DEF new
    <2>4. OnlyMoves(t) /\ th'[t] = new
      BY <2>2, <2>3, Assigned
    <2> QED
      BY <2>1, <2>3, <2>4 DEF due
  <1>3. ASSUME NEW n \in Nodes, ResubscribeNode(t, n)
        PROVE  /\ t # 0 /\ th[t].pc = "next" /\ th[t].queue = <<>> /\ OnlyMoves(t)
               /\ th'[t].pc = "next" /\ th'[t].queue = node[n].sensors
               /\ th'[t].seen = th[t].seen \cup {n} /\ th'[t].due = th[t].due
    <2> DEFINE new == [th[t] EXCEPT !.queue = node[n].sensors, !.seen = th[t].seen \cup {n}]
    <2>1. node[n].sensors \in Seq(Nat)
      BY DEF TypeInv, NodesTyped, NodeObject
    <2>2. /\ new \in Thread /\ new.pc = th[t].pc /\ new.queue = node[n].sensors
          /\ new.seen = th[t].seen \cup {n} /\ new.due = th[t].due
      BY <1>1, <2>1 DEF Thread
    <2>3. th' = [th EXCEPT ![t] = new]
      BY <1>3 DEF ResubscribeNode
    <2> HIDE DEF new
    <2>4. OnlyMoves(t) /\ th'[t] = new
      BY <2>2, <2>3, Assigned
    <2> QED
      BY <1>3, <2>2, <2>4 DEF ResubscribeNode
  <1>4. ASSUME ResubscribeDone(t)
        PROVE  /\ t # 0 /\ th[t].pc = "next" /\ th[t].queue = <<>> /\ OnlyMoves(t)
               /\ th'[t] = Idle
    <2>1. Idle \in Thread /\ th' = [th EXCEPT ![t] = Idle]
      BY <1>4 DEF ResubscribeDone, Idle, Thread
    <2>2. OnlyMoves(t) /\ th'[t] = Idle
      <3> HIDE DEF Idle
      <3> QED
        BY <2>1, Assigned
    <2> QED
      BY <1>4, <2>2 DEF ResubscribeDone
  <1> QED
    BY <1>2, <1>3, <1>4

\* A new connection's thread was at rest.
LEMMA ConnectMoves ==
    ASSUME TypeInv, Connect
    PROVE  /\ conns' \in Threads \ {0} /\ th[conns'].pc = "idle"
           /\ GoesOn(conns', "start", th[conns'].queue, th[conns'].spec)
  <1>1. conns' \in Threads \ {0} /\ conns' > conns
    BY HubAssumption DEF Connect, TypeInv, OthersTyped, Threads
  <1>2. th[conns'].pc = "idle" /\ th[conns'] \in Thread
    BY <1>1, ThreadFacts DEF TypeInv, Places
  <1> DEFINE new == [th[conns'] EXCEPT !.pc = "start"]
  <1>3. new \in Thread
    BY <1>2 DEF Thread
  <1>4. th' = [th EXCEPT ![conns'] = new]
    BY DEF Connect
  <1>5. OnlyMoves(conns') /\ th'[conns'] = new
    <2> HIDE DEF new
    <2> QED
      BY <1>1, <1>3, <1>4, Assigned
  <1> QED
    BY <1>1, <1>2, <1>5 DEF GoesOn, Thread

\* The steps of SetupSensors, and the hello that starts it.
LEMMA SetupMoves ==
    ASSUME TypeInv
    PROVE  /\ \A n \in Nodes : \A spec \in Specs[n] : GotHello(n, spec) =>
                /\ OnlyMoves(0) /\ th'[0].pc = "shutdown" /\ th'[0].node = n
                /\ th'[0].queue = node[n].sensors /\ th'[0].seen = th[0].seen
           /\ Shutdown => GoesOn(0, "shutdown", Tail(th[0].queue), th[0].spec)
           /\ ShutdownDone => GoesOn(0, "create", <<>>, node[th[0].node].spec)
           /\ SkipInvalid => GoesOn(0, "create", th[0].queue, Tail(th[0].spec))
           /\ NewFlowSensor =>
                \/ UNCHANGED <<obj, registered, th>>
                \/ GoesOn(0, "send", <<Len(obj')>>, Tail(th[0].spec))
           /\ AppendSensor => GoesOn(0, "create", <<>>, th[0].spec)
           /\ SetupDone => UNCHANGED <<node, th>> \/ (OnlyMoves(0) /\ th'[0] = Idle)
  <1>1. 0 \in Threads /\ th[0] \in Thread /\ PlaceOf(0, th[0])
    <2>1. 0 \in Threads
      BY HubAssumption DEF Threads
    <2> QED
      BY <2>1, ThreadFacts
  <1>2. ASSUME NEW n \in Nodes, NEW spec \in Specs[n], GotHello(n, spec)
        PROVE  /\ OnlyMoves(0) /\ th'[0].pc = "shutdown" /\ th'[0].node = n
               /\ th'[0].queue = node[n].sensors /\ th'[0].seen = th[0].seen
    <2> DEFINE q   == node[n].sensors
               new == [th[0] EXCEPT !.pc = "shutdown", !.node = n, !.queue = q]
    <2>1. q \in Seq(Nat)
      BY DEF TypeInv, NodesTyped, NodeObject
    <2>2. th' = [th EXCEPT ![0] = new]
      BY <1>2 DEF GotHello
    <2> HIDE DEF q
    <2>3. /\ new \in Thread /\ new.pc = "shutdown" /\ new.node = n /\ new.queue = q
          /\ new.seen = th[0].seen
      BY <1>1, <2>1 DEF Thread
    <2> HIDE DEF new
    <2>4. OnlyMoves(0) /\ th'[0] = new
      BY <1>1, <2>2, <2>3, Assigned
    <2> QED
      BY <2>3, <2>4 DEF q
  <1> DEFINE Going(pc, q, spec) == [th[0] EXCEPT !.pc = pc, !.queue = q, !.spec = spec]
  <1>3. ASSUME NEW pc \in {"shutdown", "create", "send"}, NEW q \in Seq(Nat),
               NEW spec \in Seq(Flows \cup {Invalid}),
               th' = [th EXCEPT ![0] = Going(pc, q, spec)]
        PROVE  GoesOn(0, pc, q, spec)
    <2> DEFINE new == Going(pc, q, spec)
    <2>1. /\ new \in Thread /\ new.pc = pc /\ new.queue = q /\ new.spec = spec
          /\ new.node = th[0].node /\ new.due = th[0].due /\ new.seen = th[0].seen
      BY <1>1 DEF Thread
    <2>2. th' = [th EXCEPT ![0] = new]
      BY <1>3
    <2> HIDE DEF new
    <2>3. OnlyMoves(0) /\ th'[0] = new
      BY <1>1, <2>1, <2>2, Assigned
    <2> QED
      BY <2>1, <2>3 DEF GoesOn
  <1>4. /\ th[0].queue \in Seq(Nat) /\ th[0].spec \in Seq(Flows \cup {Invalid})
        /\ th[0].queue # <<>> => Tail(th[0].queue) \in Seq(Nat)
        /\ th[0].spec # <<>> => Tail(th[0].spec) \in Seq(Flows \cup {Invalid})
        /\ <<>> \in Seq(Nat)
    BY <1>1 DEF Thread
  <1>5. ASSUME Shutdown PROVE GoesOn(0, "shutdown", Tail(th[0].queue), th[0].spec)
    <2>1. th[0].pc = "shutdown" /\ th[0].queue # <<>> /\ th' = [th EXCEPT ![0].queue = Tail(@)]
      BY <1>5 DEF Shutdown
    <2>2. [th[0] EXCEPT !.queue = Tail(@)] = Going("shutdown", Tail(th[0].queue), th[0].spec)
      BY <1>1, <2>1 DEF Thread
    <2>3. th' = [th EXCEPT ![0] = Going("shutdown", Tail(th[0].queue), th[0].spec)]
      BY <2>1, <2>2
    <2> HIDE DEF Going
    <2> QED
      BY <1>3, <1>4, <2>1, <2>3
  <1>6. ASSUME ShutdownDone PROVE GoesOn(0, "create", <<>>, node[th[0].node].spec)
    <2> DEFINE spec == node[th[0].node].spec
    <2>1. /\ th[0].pc = "shutdown" /\ th[0].queue = <<>>
          /\ th' = [th EXCEPT ![0] = [@ EXCEPT !.pc = "create", !.spec = spec]]
      BY <1>6 DEF ShutdownDone
    <2>2. spec \in Seq(Flows \cup {Invalid})
      BY <1>1, <2>1 DEF PlaceOf, TypeInv, NodesTyped, NodeObject
    <2> HIDE DEF spec
    <2>3. [th[0] EXCEPT !.pc = "create", !.spec = spec] = Going("create", <<>>, spec)
      BY <1>1, <2>1 DEF Thread
    <2>4. th' = [th EXCEPT ![0] = Going("create", <<>>, spec)]
      BY <2>1, <2>3
    <2> HIDE DEF Going
    <2> QED
      BY <1>3, <1>4, <2>2, <2>4 DEF spec
  <1>7. ASSUME SkipInvalid PROVE GoesOn(0, "create", th[0].queue, Tail(th[0].spec))
    <2>1. th[0].pc = "create" /\ th[0].spec # <<>> /\ th' = [th EXCEPT ![0].spec = Tail(@)]
      BY <1>7 DEF SkipInvalid
    <2>2. [th[0] EXCEPT !.spec = Tail(@)] = Going("create", th[0].queue, Tail(th[0].spec))
      BY <1>1, <2>1 DEF Thread
    <2>3. th' = [th EXCEPT ![0] = Going("create", th[0].queue, Tail(th[0].spec))]
      BY <2>1, <2>2
    <2> HIDE DEF Going
    <2> QED
      BY <1>3, <1>4, <2>1, <2>3
  <1>8. ASSUME NewFlowSensor
        PROVE  \/ UNCHANGED <<obj, registered, th>>
               \/ GoesOn(0, "send", <<Len(obj')>>, Tail(th[0].spec))
    <2> SUFFICES ASSUME ~UNCHANGED <<obj, registered, th>>
                 PROVE  GoesOn(0, "send", <<Len(obj')>>, Tail(th[0].spec))
      OBVIOUS
    <2> DEFINE o == [topic |-> <<th[0].node, Entry>>, token |-> FALSE, total |-> 0]
    <2>1. /\ th[0].pc = "create" /\ th[0].spec # <<>> /\ Entry # Invalid /\ obj' = Append(obj, o)
          /\ th' = [th EXCEPT ![0] = Going("send", <<Len(obj')>>, Tail(th[0].spec))]
      <3>1. Going("send", <<Len(obj')>>, Tail(th[0].spec))
               = [th[0] EXCEPT !.pc = "send", !.spec = Tail(th[0].spec), !.queue = <<Len(obj')>>]
        BY <1>1 DEF Thread
      <3> QED
        BY <1>8, <3>1 DEF NewFlowSensor
    <2>2. Len(obj') \in Nat
      <3>1. th[0].node \in Nodes /\ Entry \in Flows
        BY <1>1, <1>4, <2>1 DEF PlaceOf, Entry
      <3>2. o \in FlowSensor
        BY <3>1 DEF FlowSensor, Topics
      <3> HIDE DEF o
      <3> QED
        BY <2>1, <3>2, NewObject
    <2>3. <<Len(obj')>> \in Seq(Nat)
      BY <2>2
    <2> HIDE DEF Going
    <2> QED
      BY <1>3, <1>4, <2>1, <2>3
  <1>9. ASSUME AppendSensor PROVE GoesOn(0, "create", <<>>, th[0].spec)
    <2>1. th' = [th EXCEPT ![0] = [@ EXCEPT !.pc = "create", !.queue = <<>>]]
      BY <1>9 DEF AppendSensor
    <2>2. [th[0] EXCEPT !.pc = "create", !.queue = <<>>] = Going("create", <<>>, th[0].spec)
      BY <1>1 DEF Thread
    <2>3. th' = [th EXCEPT ![0] = Going("create", <<>>, th[0].spec)]
      BY <2>1, <2>2
    <2> HIDE DEF Going
    <2> QED
      BY <1>3, <1>4, <2>3
  <1>10. ASSUME SetupDone PROVE UNCHANGED <<node, th>> \/ (OnlyMoves(0) /\ th'[0] = Idle)
    <2>1. Idle \in Thread
      BY DEF Idle, Thread
    <2>2. UNCHANGED <<node, th>> \/ th' = [th EXCEPT ![0] = Idle]
      BY <1>10 DEF SetupDone
    <2> HIDE DEF Idle
    <2> QED
      BY <1>1, <2>1, <2>2, Assigned
  <1> QED
    BY <1>2, <1>5, <1>6, <1>7, <1>8, <1>9, <1>10

-----------------------------------------------------------------------------
(* The metrics are those of the sensors that are in use *)

\* What node n holds: while SetupSensors shuts its sensors down they are those
\* in the queue, so the list does not count.
Held(n) ==
    IF th[0].pc = "shutdown" /\ n = th[0].node THEN {} ELSE Elems(node[n].sensors)

\* What SetupSensors has in hand: the sensors it has yet to shut down, or the one
\* it subscribes.
InHand == IF th[0].pc \in Handling \cup {"shutdown"} THEN Elems(th[0].queue) ELSE {}

Live == (UNION {Held(n) : n \in Nodes}) \cup InHand

LabelOf(s) == Label(obj[s].topic)

MetricsInv ==
    /\ registered = {LabelOf(s) : s \in Live}
    /\ \A s, u \in Live : LabelOf(s) = LabelOf(u) => s = u
    /\ \A n \in Nodes : /\ NoRepeat(node[n].sensors)
                        /\ \A s \in Elems(node[n].sensors) : obj[s].topic[1] = n
    /\ InHand # {} => /\ NoRepeat(th[0].queue)
                      /\ \A s \in InHand : obj[s].topic[1] = th[0].node
    /\ th[0].pc \in Handling => InHand \cap Elems(node[th[0].node].sensors) = {}

\* A step that leaves the lists of sensors alone, and thread 0 where it is or at
\* the sensor it has in hand.
ViewKept ==
    /\ \A n \in Nodes : node'[n].sensors = node[n].sensors /\ node'[n].known = node[n].known
    /\ th'[0].queue = th[0].queue /\ th'[0].node = th[0].node
    /\ th'[0].pc = th[0].pc \/ (th[0].pc \in Handling /\ th'[0].pc \in Handling)

LEMMA LiveSensors ==
    ASSUME TypeInv
    PROVE  /\ \A n \in Nodes : Held(n) \subseteq SensorIds
           /\ InHand \subseteq SensorIds /\ Live \subseteq SensorIds
           /\ 0 \in Threads /\ th[0] \in Thread /\ obj \in Seq(FlowSensor)
  <1>1. 0 \in Threads
    BY HubAssumption DEF Threads
  <1>2. /\ \A n \in Nodes : Elems(node[n].sensors) \subseteq SensorIds
        /\ Elems(th[0].queue) \subseteq SensorIds
        /\ th[0] \in Thread /\ obj \in Seq(FlowSensor)
    BY <1>1 DEF TypeInv, NodesTyped, References
  <1> QED
    BY <1>1, <1>2 DEF Held, InHand, Live

LEMMA ViewSame ==
    ASSUME ViewKept
    PROVE  (\A n \in Nodes : Held(n)' = Held(n)) /\ InHand' = InHand /\ Live' = Live
  <1>1. \A n \in Nodes : Held(n)' = Held(n)
    BY DEF ViewKept, Held, Handling, Elems
  <1>2. InHand' = InHand
    BY DEF ViewKept, InHand, Handling, Elems
  <1> QED
    BY <1>1, <1>2 DEF Live

\* Such a step changes nothing for the metrics.
LEMMA ViewKeepsMetrics ==
    ASSUME TypeInv, MetricsInv, ViewKept, TopicsKept, UNCHANGED registered
    PROVE  MetricsInv' /\ Live' = Live
  <1>2. InHand' = InHand
    BY ViewSame
  <1>3. Live' = Live
    BY ViewSame
  <1>4. \A s \in SensorIds : obj'[s].topic = obj[s].topic
    BY DEF TopicsKept
  <1>5. \A n \in Nodes : node'[n].sensors = node[n].sensors /\ Elems(node[n].sensors) \subseteq SensorIds
    BY DEF ViewKept, TypeInv, NodesTyped
  <1>6. \A s \in Live : LabelOf(s)' = LabelOf(s)
    BY <1>4, LiveSensors DEF LabelOf, Label
  <1>7. registered' = {LabelOf(s)' : s \in Live'}
    BY <1>3, <1>6 DEF MetricsInv
  <1>8. \A s, u \in Live' : LabelOf(s)' = LabelOf(u)' => s = u
    BY <1>3, <1>6 DEF MetricsInv
  <1>9. \A n \in Nodes : /\ NoRepeat(node'[n].sensors)
                        /\ \A s \in Elems(node'[n].sensors) : obj'[s].topic[1] = n
    BY <1>4, <1>5 DEF MetricsInv
  <1>10. InHand' # {} => /\ NoRepeat(th'[0].queue)
                        /\ \A s \in InHand' : obj'[s].topic[1] = th'[0].node
    BY <1>2, <1>4, LiveSensors DEF MetricsInv, ViewKept
  <1>11. th'[0].pc \in Handling => InHand' \cap Elems(node'[th'[0].node].sensors) = {}
    <2>1. ASSUME th[0].pc \in Handling PROVE th[0].node \in Nodes
      BY <2>1 DEF TypeInv, Places, Working, Handling
    <2> QED
      BY <1>2, <2>1 DEF MetricsInv, ViewKept
  <1> QED
    BY <1>3, <1>7, <1>8, <1>9, <1>10, <1>11 DEF MetricsInv, Elems, NoRepeat

\* All steps but those of a hello's SetupSensors are of this kind.
LEMMA ViewSteps ==
    ASSUME TypeInv, [Next]_vars
    PROVE  \/ ViewKept /\ TopicsKept /\ UNCHANGED registered
           \/ \E n \in Nodes : \E spec \in Specs[n] : GotHello(n, spec)
           \/ Shutdown \/ ShutdownDone \/ NewFlowSensor \/ AppendSensor \/ SetupDone
  <1> USE DEF broker, history
  <1>1. 0 \in Threads /\ th \in [Threads -> Thread] /\ th[0] \in Thread
    BY LiveSensors DEF TypeInv, References
  <1>2. BooleansTyped'
    BY BooleansNext
  <1>3. ASSUME NEW t \in Threads, t # 0, NEW new, th' = [th EXCEPT ![t] = new], UNCHANGED node
        PROVE  ViewKept
    BY <1>1, <1>3 DEF ViewKept
  <1>4. ASSUME UNCHANGED <<node, th>> PROVE ViewKept
    BY <1>4 DEF ViewKept
  <1>5. ASSUME NEW t \in Threads, Subscribing(t)
        PROVE  ViewKept /\ TopicsKept /\ UNCHANGED registered
    <2>1. TopicsKept
      BY <1>2, <1>5, SubscribingTyped
    <2>2. UNCHANGED <<node, registered>>
      BY <1>5 DEF Subscribing, SubscribeAgain, SubscribeSend, Waited, WaitedForNothing, SubscribeFails
    <2>3. ViewKept
      <3>1. CASE WaitedForNothing(t)
        BY <1>4, <2>2, <3>1 DEF WaitedForNothing
      <3>2. CASE ~WaitedForNothing(t)
        <4>1. /\ OnlyMoves(t)
              /\ t = 0 => /\ th[0].pc \in Handling /\ th'[0].pc \in Handling
                          /\ th'[0].queue = th[0].queue /\ th'[0].node = th[0].node
          <5>1. CASE SubscribeAgain(t)
            BY <5>1, AgainMoves DEF GoesOn
          <5>2. CASE SubscribeSend(t)
            BY <5>2, SendMoves DEF GoesOn, Handling
          <5>3. CASE Waited(t) \/ SubscribeFails(t)
            <6>1. th[t].pc \in {"send", "wait"} /\ Return(t)
              BY <5>3 DEF Waited, SubscribeFails
            <6> QED
              BY <6>1, ReturnMoves DEF GoesOn, Handling
          <5> QED
            BY <1>5, <3>2, <5>1, <5>2, <5>3 DEF Subscribing
        <4> QED
          BY <1>1, <2>2, <4>1 DEF OnlyMoves, ViewKept
      <3> QED
        BY <3>1, <3>2
    <2> QED
      BY <2>1, <2>2, <2>3
  <1>6. ASSUME NEW t \in Threads, Resubscribing(t)
        PROVE  ViewKept /\ TopicsKept /\ UNCHANGED registered
    <2>1. TopicsKept
      BY <1>2, <1>6, ResubscribingTyped
    <2>2. UNCHANGED <<node, registered>>
      <3>1. ASSUME mqttConnected(t) PROVE UNCHANGED <<node, registered>>
        BY <3>1 DEF mqttConnected
      <3>2. ASSUME ResubscribeDone(t) PROVE UNCHANGED <<node, registered>>
        BY <3>2 DEF ResubscribeDone
      <3>3. ASSUME NEW n \in Nodes, ResubscribeNode(t, n) PROVE UNCHANGED <<node, registered>>
        BY <3>3 DEF ResubscribeNode
      <3> QED
        BY <1>6, <3>1, <3>2, <3>3 DEF Resubscribing
    <2>3. t # 0 /\ OnlyMoves(t)
      BY <1>6, ConnectionMoves DEF Resubscribing
    <2> QED
      BY <1>1, <2>1, <2>2, <2>3 DEF OnlyMoves, ViewKept
  <1>7. ASSUME Events
        PROVE  \/ ViewKept /\ TopicsKept /\ UNCHANGED registered
               \/ \E n \in Nodes : \E spec \in Specs[n] : GotHello(n, spec)
    <2>1. TopicsKept
      BY <1>2, <1>7, EventsTyped
    <2>2. CASE Connect
      <3>1. conns' \in Threads /\ conns' # 0
        BY <2>2, HubAssumption DEF Connect, Threads, TypeInv, OthersTyped
      <3>2. UNCHANGED <<node, registered>> /\ \E new : th' = [th EXCEPT ![conns'] = new]
        BY <2>2 DEF Connect
      <3> QED
        BY <1>3, <2>1, <3>1, <3>2
    <2>3. CASE \/ mqttConnLost
               \/ \E n \in Nodes : \E spec \in Specs[n] : GotSameHello(n, spec)
               \/ \E topic \in Topics : GotReport(topic)
      BY <1>4, <2>1, <2>3 DEF mqttConnLost, GotSameHello, GotReport
    <2> QED
      BY <1>7, <2>2, <2>3 DEF Events
  <1>8. CASE SkipInvalid
    <2>1. TopicsKept
      BY <1>8, Unchanged DEF SkipInvalid
    <2> QED
      BY <1>1, <1>8, <2>1 DEF SkipInvalid, ViewKept, Thread
  <1>9. CASE UNCHANGED vars
    BY <1>4, <1>9, Unchanged DEF vars
  <1> QED
    BY <1>5, <1>6, <1>7, <1>8, <1>9 DEF Next, Step, SettingUp

\* What MetricsInv says besides the labels: whose sensors they are.
Owned ==
    /\ \A n \in Nodes : /\ NoRepeat(node[n].sensors)
                        /\ \A s \in Elems(node[n].sensors) : obj[s].topic[1] = n
    /\ InHand # {} => /\ NoRepeat(th[0].queue)
                      /\ \A s \in InHand : obj[s].topic[1] = th[0].node
    /\ th[0].pc \in Handling => InHand \cap Elems(node[th[0].node].sensors) = {}

\* Sensors only change hands.
LEMMA SameLive ==
    ASSUME TypeInv, MetricsInv, TopicsKept, UNCHANGED registered, Live' = Live, Owned'
    PROVE  MetricsInv'
  <1>1. \A s \in Live : LabelOf(s)' = LabelOf(s)
    BY LiveSensors DEF LabelOf, Label, TopicsKept
  <1>2. registered' = {LabelOf(s)' : s \in Live'}
    BY <1>1 DEF MetricsInv
  <1>3. \A s, u \in Live' : LabelOf(s)' = LabelOf(u)' => s = u
    BY <1>1 DEF MetricsInv
  <1> QED
    BY <1>2, <1>3 DEF MetricsInv, Owned

LEMMA MetricsInit == Init => MetricsInv
  <1> SUFFICES ASSUME Init PROVE MetricsInv
    OBVIOUS
  <1>1. th[0].pc = "idle" /\ \A n \in Nodes : node[n].sensors = <<>>
    BY HubAssumption DEF Init, Threads, Idle
  <1>2. InHand = {} /\ \A n \in Nodes : Held(n) = {}
    BY <1>1, ShortElems DEF InHand, Held, Handling
  <1>3. Live = {} /\ registered = {}
    BY <1>2 DEF Live, Init
  <1> QED
    BY <1>1, <1>2, <1>3, ShortElems DEF MetricsInv, Handling

LEMMA GotHelloMetrics ==
    ASSUME TypeInv, MetricsInv, NEW n \in Nodes, NEW spec \in Specs[n], GotHello(n, spec)
    PROVE  MetricsInv' /\ Live' = Live
  <1>1. /\ th[0].pc = "idle" /\ UNCHANGED <<obj, registered>>
        /\ node' = [node EXCEPT ![n].spec = spec]
        /\ th' = [th EXCEPT ![0] = [@ EXCEPT !.pc = "shutdown", !.node = n,
                                             !.queue = node[n].sensors]]
    BY DEF GotHello, Dispatchable
  <1>2. node \in [Nodes -> NodeObject] /\ th \in [Threads -> Thread] /\ 0 \in Threads
    BY LiveSensors DEF TypeInv, NodesTyped, References
  <1>3. \A m \in Nodes : node'[m].sensors = node[m].sensors
    BY <1>1, <1>2 DEF NodeObject
  <1>4. th'[0].pc = "shutdown" /\ th'[0].node = n /\ th'[0].queue = node[n].sensors
    BY <1>1, <1>2 DEF Thread
  <1>5. /\ InHand = {} /\ InHand' = Elems(node[n].sensors)
        /\ \A m \in Nodes : Held(m) = Elems(node[m].sensors)
        /\ \A m \in Nodes : Held(m)' = IF m = n THEN {} ELSE Elems(node[m].sensors)
    <2>1. InHand = {} /\ \A m \in Nodes : Held(m) = Elems(node[m].sensors)
      BY <1>1 DEF InHand, Held, Handling
    <2>2. InHand' = Elems(node[n].sensors)
      BY <1>4 DEF InHand, Elems
    <2>3. \A m \in Nodes : Held(m)' = IF m = n THEN {} ELSE Elems(node[m].sensors)
      BY <1>3, <1>4 DEF Held, Elems
    <2> QED
      BY <2>1, <2>2, <2>3
  <1>6. Live' = Live
    BY <1>5 DEF Live
  <1>7. Owned'
    <2>1. \A m \in Nodes : /\ NoRepeat(node'[m].sensors)
                           /\ \A s \in Elems(node'[m].sensors) : obj'[s].topic[1] = m
      BY <1>1, <1>3 DEF MetricsInv
    <2>2. NoRepeat(th'[0].queue) /\ \A s \in InHand' : obj'[s].topic[1] = th'[0].node
      BY <1>1, <1>4, <1>5 DEF MetricsInv
    <2> QED
      BY <1>4, <2>1, <2>2 DEF Owned, Handling, Elems, NoRepeat
  <1> QED
    BY <1>1, <1>6, <1>7, Unchanged, SameLive

LEMMA ShutdownMetrics ==
    ASSUME TypeInv, MetricsInv, Shutdown
    PROVE  MetricsInv' /\ Live' = Live \ {Head(th[0].queue)}
  <1> DEFINE q == th[0].queue
             s == Head(q)
             n == th[0].node
  <1>1. /\ th[0].pc = "shutdown" /\ q # <<>> /\ UNCHANGED node /\ Unsubscribe(s)
        /\ registered' = registered \ {LabelOf(s)}
        /\ th' = [th EXCEPT ![0].queue = Tail(q)]
    BY DEF Shutdown, LabelOf
  <1>2. th \in [Threads -> Thread] /\ 0 \in Threads /\ th[0] \in Thread /\ q \in Seq(Nat) /\ n \in Nodes
    BY <1>1, LiveSensors DEF TypeInv, References, Thread, Places, Working
  <1>3. th'[0].pc = "shutdown" /\ th'[0].node = n /\ th'[0].queue = Tail(q)
    BY <1>1, <1>2 DEF Thread
  <1>4. InHand = Elems(q) /\ InHand' = Elems(Tail(q))
    BY <1>1, <1>3 DEF InHand, Handling, Elems
  <1>5. \A m \in Nodes : Held(m)' = Held(m) /\ Held(m) = IF m = n THEN {} ELSE Elems(node[m].sensors)
    BY <1>1, <1>3 DEF Held, Elems
  <1> HIDE DEF q, n
  <1>6. s \in Elems(q) /\ Elems(q) = {s} \cup Elems(Tail(q)) /\ (NoRepeat(q) =>
           NoRepeat(Tail(q)) /\ s \notin Elems(Tail(q)))
    BY <1>1, <1>2, TailElems
  <1>7. NoRepeat(q) /\ \A x \in Elems(q) : obj[x].topic[1] = n
    BY <1>4, <1>6 DEF MetricsInv, q, n
  <1> HIDE DEF s
  <1>8. s \in SensorIds /\ s \in Live /\ Live \subseteq SensorIds
    BY <1>4, <1>6, LiveSensors DEF Live
  <1>9. TopicsKept
    BY <1>1, <1>8, UnsubscribeDoes
  <1>10. \A m \in Nodes : s \notin Held(m)
    BY <1>5, <1>6, <1>7 DEF MetricsInv
  <1>11. Live' = Live \ {s}
    BY <1>4, <1>5, <1>6, <1>7, <1>10 DEF Live
  <1>12. \A x \in SensorIds : obj'[x].topic = obj[x].topic /\ LabelOf(x)' = LabelOf(x)
    BY <1>9 DEF TopicsKept, LabelOf, Label
  <1>13. registered' = {LabelOf(x)' : x \in Live'}
    <2>1. /\ registered = {LabelOf(x) : x \in Live}
          /\ \A x, y \in Live : LabelOf(x) = LabelOf(y) => x = y
      BY DEF MetricsInv
    <2>2. {LabelOf(x) : x \in Live} \ {LabelOf(s)} = {LabelOf(x) : x \in Live \ {s}}
      BY <1>8, <2>1
    <2>3. {LabelOf(x)' : x \in Live'} = {LabelOf(x) : x \in Live \ {s}}
      BY <1>8, <1>11, <1>12
    <2> QED
      BY <1>1, <2>1, <2>2, <2>3
  <1>14. \A x, y \in Live' : LabelOf(x)' = LabelOf(y)' => x = y
    BY <1>8, <1>11, <1>12 DEF MetricsInv
  <1>15. \A m \in Nodes : /\ NoRepeat(node'[m].sensors)
                          /\ \A x \in Elems(node'[m].sensors) : obj'[x].topic[1] = m
    <2>1. \A m \in Nodes : node'[m] = node[m] /\ Elems(node[m].sensors) \subseteq SensorIds
      BY <1>1 DEF TypeInv, NodesTyped
    <2> QED
      BY <1>12, <2>1 DEF MetricsInv
  <1>16. NoRepeat(th'[0].queue) /\ \A x \in InHand' : obj'[x].topic[1] = th'[0].node
    <2>1. Elems(q) \subseteq SensorIds
      BY <1>4, LiveSensors
    <2>2. ASSUME NEW x \in InHand' PROVE obj'[x].topic[1] = n
      <3>1. x \in Elems(q) /\ x \in SensorIds
        BY <1>4, <1>6, <2>1, <2>2
      <3> QED
        BY <1>7, <1>12, <3>1
    <2> QED
      BY <1>3, <1>6, <1>7, <2>2
  <1>17. th'[0].pc \notin Handling
    BY <1>3 DEF Handling
  <1> QED
    BY <1>11, <1>13, <1>14, <1>15, <1>16, <1>17 DEF MetricsInv, NoRepeat, Elems, s, q

LEMMA ShutdownDoneMetrics ==
    ASSUME TypeInv, MetricsInv, ShutdownDone
    PROVE  MetricsInv' /\ Live' = Live
  <1> DEFINE n == th[0].node
  <1>1. /\ th[0].pc = "shutdown" /\ th[0].queue = <<>> /\ UNCHANGED <<obj, registered>>
        /\ node' = [node EXCEPT ![n].sensors = <<>>]
        /\ th' = [th EXCEPT ![0] = [@ EXCEPT !.pc = "create", !.spec = node[n].spec]]
    BY DEF ShutdownDone
  <1>2. /\ node \in [Nodes -> NodeObject] /\ th \in [Threads -> Thread] /\ 0 \in Threads
        /\ th[0] \in Thread /\ n \in Nodes
    BY <1>1, LiveSensors DEF TypeInv, NodesTyped, References, Places, Working
  <1>3. th'[0].pc = "create" /\ th'[0].queue = <<>> /\ th'[0].node = n
    BY <1>1, <1>2 DEF Thread
  <1> HIDE DEF n
  <1>4. \A m \in Nodes : node'[m].sensors = IF m = n THEN <<>> ELSE node[m].sensors
    BY <1>1, <1>2 DEF NodeObject
  <1>5. InHand = {} /\ InHand' = {}
    BY <1>1, <1>3, ShortElems DEF InHand, Handling
  <1>6. \A m \in Nodes : Held(m)' = Held(m)
    <2>1. \A m \in Nodes : Held(m) = IF m = n THEN {} ELSE Elems(node[m].sensors)
      BY <1>1 DEF Held, n
    <2>2. \A m \in Nodes : Held(m)' = IF m = n THEN Elems(<<>>) ELSE Elems(node[m].sensors)
      BY <1>3, <1>4 DEF Held, Elems
    <2> QED
      BY <2>1, <2>2, ShortElems
  <1>7. Live' = Live
    BY <1>5, <1>6 DEF Live
  <1>8. Owned'
    <2>1. \A m \in Nodes : /\ NoRepeat(node'[m].sensors)
                           /\ \A s \in Elems(node'[m].sensors) : obj'[s].topic[1] = m
      BY <1>1, <1>4, ShortElems DEF MetricsInv
    <2> QED
      BY <1>3, <1>5, <2>1 DEF Owned, Handling, Elems, NoRepeat
  <1> QED
    BY <1>1, <1>7, <1>8, Unchanged, SameLive

LEMMA AppendSensorMetrics ==
    ASSUME TypeInv, MetricsInv, AppendSensor
    PROVE  MetricsInv' /\ Live' = Live
  <1> DEFINE n == th[0].node
             s == Head(th[0].queue)
             q == Append(node[n].sensors, s)
  <1>1. /\ th[0].pc = "subscribed" /\ UNCHANGED <<obj, registered>>
        /\ node' = [node EXCEPT ![n].sensors = q]
        /\ th' = [th EXCEPT ![0] = [@ EXCEPT !.pc = "create", !.queue = <<>>]]
    BY DEF AppendSensor
  <1>2. /\ node \in [Nodes -> NodeObject] /\ th \in [Threads -> Thread] /\ 0 \in Threads
        /\ th[0] \in Thread /\ n \in Nodes /\ th[0].queue = <<s>>
    BY <1>1, LiveSensors DEF TypeInv, NodesTyped, References, Places, Working, Handling
  <1>3. th'[0].pc = "create" /\ th'[0].queue = <<>> /\ th'[0].node = n
    BY <1>1, <1>2 DEF Thread
  <1>4. InHand = {s} /\ InHand' = {}
    BY <1>1, <1>2, <1>3, ShortElems DEF InHand, Handling
  <1>5. s \in Nat
    BY <1>4, LiveSensors DEF SensorIds
  <1>6. /\ node[n].sensors \in Seq(Nat) /\ NoRepeat(node[n].sensors) /\ s \notin Elems(node[n].sensors)
        /\ obj[s].topic[1] = n
    BY <1>1, <1>2, <1>4 DEF MetricsInv, Handling, NodeObject
  <1> HIDE DEF n, s
  <1>7. NoRepeat(q) /\ Elems(q) = Elems(node[n].sensors) \cup {s}
    BY <1>5, <1>6, AppendElems
  <1> HIDE DEF q
  <1>8. \A m \in Nodes : node'[m].sensors = IF m = n THEN q ELSE node[m].sensors
    BY <1>1, <1>2 DEF NodeObject
  <1>9. \A m \in Nodes : Held(m)' = IF m = n THEN Held(m) \cup {s} ELSE Held(m)
    <2>1. \A m \in Nodes : Held(m) = Elems(node[m].sensors)
      BY <1>1 DEF Held
    <2>2. \A m \in Nodes : Held(m)' = Elems(node'[m].sensors)
      BY <1>3 DEF Held, Elems
    <2> QED
      BY <1>7, <1>8, <2>1, <2>2
  <1>10. Live' = Live
    BY <1>2, <1>4, <1>9 DEF Live
  <1>11. Owned'
    <2>1. \A m \in Nodes : /\ NoRepeat(node'[m].sensors)
                           /\ \A x \in Elems(node'[m].sensors) : obj'[x].topic[1] = m
      BY <1>1, <1>6, <1>7, <1>8 DEF MetricsInv
    <2> QED
      BY <1>3, <1>4, <2>1 DEF Owned, Handling, Elems, NoRepeat
  <1> QED
    BY <1>1, <1>10, <1>11, Unchanged, SameLive

LEMMA SetupDoneMetrics ==
    ASSUME TypeInv, MetricsInv, SetupDone
    PROVE  MetricsInv' /\ Live' = Live
  <1> DEFINE n == th[0].node
  <1>1. th[0].pc = "create" /\ UNCHANGED <<obj, registered>>
    BY DEF SetupDone
  <1>2. CASE UNCHANGED <<node, th>>
    BY <1>1, <1>2, Unchanged, ViewKeepsMetrics DEF ViewKept
  <1>3. CASE node' = [node EXCEPT ![n].known = TRUE] /\ th' = [th EXCEPT ![0] = Idle]
    <2>1. node \in [Nodes -> NodeObject] /\ th \in [Threads -> Thread] /\ 0 \in Threads
      BY LiveSensors DEF TypeInv, NodesTyped, References
    <2>2. th'[0].pc = "idle" /\ \A m \in Nodes : node'[m].sensors = node[m].sensors
      BY <1>3, <2>1 DEF NodeObject, Idle
    <2>3. InHand = {} /\ InHand' = {}
      BY <1>1, <2>2 DEF InHand, Handling
    <2>4. \A m \in Nodes : Held(m)' = Held(m)
      BY <1>1, <2>2 DEF Held, Elems
    <2>5. Live' = Live
      BY <2>3, <2>4 DEF Live
    <2>6. Owned'
      <3>1. \A m \in Nodes : /\ NoRepeat(node'[m].sensors)
                             /\ \A x \in Elems(node'[m].sensors) : obj'[x].topic[1] = m
        BY <1>1, <2>2 DEF MetricsInv
      <3> QED
        BY <2>2, <2>3, <3>1 DEF Owned, Handling, Elems, NoRepeat
    <2> QED
      BY <1>1, <2>5, <2>6, Unchanged, SameLive
  <1> QED
    BY <1>2, <1>3 DEF SetupDone

\* The panic of MustRegister is what keeps two sensors from sharing a label.
LEMMA NewFlowSensorMetrics ==
    ASSUME TypeInv, MetricsInv, NewFlowSensor
    PROVE  /\ MetricsInv'
           /\ \/ Live' = Live /\ UNCHANGED <<obj, th>>
              \/ /\ Len(obj') \notin SensorIds /\ Live' = Live \cup {Len(obj')}
                 /\ \A x \in SensorIds : obj'[x] = obj[x]
  <1> DEFINE n     == th[0].node
             topic == <<n, Entry>>
             o     == [topic |-> topic, token |-> FALSE, total |-> 0]
  <1>0. PICK s : s = Len(obj')
    OBVIOUS
  <1>1. th[0].pc = "create" /\ th[0].spec # <<>> /\ Entry # Invalid /\ UNCHANGED node
    BY DEF NewFlowSensor
  <1>2. CASE UNCHANGED <<obj, registered, th>>
    BY <1>1, <1>2, Unchanged, ViewKeepsMetrics DEF ViewKept
  <1>3. CASE /\ Label(topic) \notin registered
             /\ registered' = registered \cup {Label(topic)}
             /\ obj' = Append(obj, o)
             /\ th' = [th EXCEPT ![0] = [@ EXCEPT !.pc = "send", !.spec = Tail(th[0].spec),
                                                  !.queue = <<s>>]]
    <2>1. /\ th \in [Threads -> Thread] /\ 0 \in Threads /\ th[0] \in Thread /\ n \in Nodes
          /\ obj \in Seq(FlowSensor)
      BY <1>1, LiveSensors DEF TypeInv, References, Places, Working
    <2>2. Entry \in Flows
      BY <1>1, <2>1 DEF Entry, Thread
    <2>3. o \in FlowSensor /\ o.topic = topic /\ topic[1] = n
      BY <2>1, <2>2 DEF FlowSensor, Topics
    <2> HIDE DEF o
    <2>4. obj' = Append(obj, o)
      BY <1>3
    <2>5. /\ obj' \in Seq(FlowSensor) /\ s \in Nat /\ s \notin SensorIds
          /\ \A x \in SensorIds : obj'[x] = obj[x]
      BY <1>0, <2>1, <2>3, <2>4, NewObject
    <2>6. obj'[s] = o
      BY <1>0, <2>1, <2>4
    <2>7. th'[0].pc = "send" /\ th'[0].queue = <<s>> /\ th'[0].node = n
      BY <1>3, <2>1 DEF Thread
    <2> HIDE DEF n, topic
    <2>8. InHand = {} /\ InHand' = {s} /\ \A m \in Nodes : Held(m)' = Held(m)
      <3>1. InHand = {}
        BY <1>1 DEF InHand, Handling
      <3>2. InHand' = Elems(<<s>>)
        BY <2>7 DEF InHand, Handling, Elems
      <3>3. \A m \in Nodes : Held(m)' = Held(m)
        BY <1>1, <2>7 DEF Held, Elems
      <3> QED
        BY <3>1, <3>2, <3>3, ShortElems
    <2>9. Live' = Live \cup {s} /\ Live \subseteq SensorIds
      BY <2>8, LiveSensors DEF Live
    <2>10. LabelOf(s)' = Label(topic) /\ \A x \in Live : LabelOf(x)' = LabelOf(x)
      BY <2>3, <2>5, <2>6, <2>9 DEF LabelOf, Label
    <2>11. registered' = {LabelOf(x)' : x \in Live'}
      BY <1>3, <2>9, <2>10 DEF MetricsInv
    <2>12. \A x, y \in Live' : LabelOf(x)' = LabelOf(y)' => x = y
      <3>1. \A x \in Live : LabelOf(x) # Label(topic)
        BY <1>3 DEF MetricsInv
      <3> QED
        BY <2>9, <2>10, <3>1 DEF MetricsInv
    <2>13. \A m \in Nodes : /\ node'[m] = node[m] /\ Elems(node[m].sensors) \subseteq SensorIds
                            /\ NoRepeat(node'[m].sensors)
                            /\ \A x \in Elems(node'[m].sensors) : obj'[x].topic[1] = m
      <3>1. \A m \in Nodes : node'[m] = node[m] /\ Elems(node[m].sensors) \subseteq SensorIds
        BY <1>1 DEF TypeInv, NodesTyped
      <3> QED
        BY <2>5, <3>1 DEF MetricsInv
    <2>14. NoRepeat(th'[0].queue) /\ \A x \in InHand' : obj'[x].topic[1] = th'[0].node
      BY <2>3, <2>6, <2>7, <2>8, ShortElems
    <2>15. InHand' \cap Elems(node'[th'[0].node].sensors) = {}
      BY <2>1, <2>5, <2>7, <2>8, <2>13 DEF n
    <2> QED
      BY <1>0, <2>5, <2>9, <2>11, <2>12, <2>13, <2>14, <2>15 DEF MetricsInv, NoRepeat, Elems
  <1> QED
    BY <1>0, <1>2, <1>3 DEF NewFlowSensor

LEMMA MetricsNext == TypeInv /\ MetricsInv /\ [Next]_vars => MetricsInv'
  BY ViewSteps, ViewKeepsMetrics, GotHelloMetrics, ShutdownMetrics, ShutdownDoneMetrics,
     NewFlowSensorMetrics, AppendSensorMetrics, SetupDoneMetrics

\* Between messages nothing is in hand.
LEMMA LiveIsCurrent ==
    ASSUME TypeInv, th[0].pc = "idle"
    PROVE  Live = {x \in SensorIds : Current(x)}
  <1>1. InHand = {} /\ \A n \in Nodes : Held(n) = Elems(node[n].sensors)
    BY DEF InHand, Held, Handling
  <1>2. \A n \in Nodes : /\ node[n].sensors \in Seq(Nat)
                         /\ DOMAIN node[n].sensors = 1 .. Len(node[n].sensors)
    BY DEF TypeInv, NodesTyped, NodeObject
  <1>3. \A x : Current(x) <=> \E n \in Nodes : x \in Elems(node[n].sensors)
    BY <1>2 DEF Current, Elems
  <1> QED
    BY <1>1, <1>3, LiveSensors DEF Live

\* So what is registered are the labels of the sensors the nodes have.
THEOREM MetricsCurrent == Spec => []MetricsAreCurrent
  <1>1. TypeInv /\ MetricsInv => MetricsAreCurrent
    BY LiveIsCurrent DEF MetricsAreCurrent, MetricsInv, LabelOf
  <1> QED
    BY <1>1, MetricsInit, MetricsNext, TypeInvariance, PTL DEF Spec

-----------------------------------------------------------------------------
(* Threads take turns *)

\* A thread that is not at work has nothing before it and nothing behind it.
Rested == \A t \in Threads : ~Working(t) => th[t].queue = <<>> /\ th[t].seen = {}

\* The broker keeps no subscriptions without a connection.
RestInv == Rested /\ (~connected => subs = {})

OneWorks == \A t, u \in Threads : Working(t) /\ Working(u) => t = u

\* Who waits has a token to wait for.
WaitersHaveTokens == \A t \in Threads : th[t].pc = "wait" => obj[Head(th[t].queue)].token

\* No thread has a sensor before it that was shut down.
QueuesLive == \A t \in Threads \ {0} : Working(t) => Elems(th[t].queue) \subseteq Live

\* No subscribed topic leads to one.
RoutesLive == \A tp \in subs : routes[tp] \in Live \cup {0}

TakingTurns == OneWorks /\ WaitersHaveTokens /\ QueuesLive /\ RoutesLive

TurnsInv == ~overlapped => TakingTurns

\* The subscriptions go with the connection.
LEMMA SessionNext ==
    ASSUME [Next]_vars, ~connected => subs = {}
    PROVE  ~connected' => subs' = {}
  <1> USE DEF broker, history
  <1>1. ASSUME UNCHANGED <<connected, subs>> PROVE ~connected' => subs' = {}
    BY <1>1
  <1>2. ASSUME NEW s, Unsubscribe(s) PROVE ~connected' => subs' = {}
    BY Zenon, <1>2 DEF Unsubscribe, Disconnected
  <1>3. ASSUME Connect \/ mqttConnLost PROVE ~connected' => subs' = {}
    BY <1>3 DEF Connect, mqttConnLost, Disconnected
  <1>4. ASSUME NEW t \in Threads, SubscribeAgain(t) PROVE ~connected' => subs' = {}
    BY <1>1, <1>2, <1>4 DEF SubscribeAgain
  <1>5. ASSUME NEW t \in Threads, SubscribeSend(t) PROVE ~connected' => subs' = {}
    BY <1>5 DEF SubscribeSend
  <1>6. ASSUME Shutdown PROVE ~connected' => subs' = {}
    BY <1>2, <1>6 DEF Shutdown
  <1>7. ASSUME NEW t \in Threads, Waited(t) \/ WaitedForNothing(t) \/ SubscribeFails(t)
        PROVE  UNCHANGED <<connected, subs>>
    BY <1>7 DEF Waited, WaitedForNothing, SubscribeFails
  <1>8. ASSUME NEW t \in Threads, Resubscribing(t) PROVE UNCHANGED <<connected, subs>>
    <2>1. ASSUME mqttConnected(t) PROVE UNCHANGED <<connected, subs>>
      BY <2>1 DEF mqttConnected
    <2>2. ASSUME ResubscribeDone(t) PROVE UNCHANGED <<connected, subs>>
      BY <2>2 DEF ResubscribeDone
    <2>3. ASSUME NEW n \in Nodes, ResubscribeNode(t, n) PROVE UNCHANGED <<connected, subs>>
      BY <2>3 DEF ResubscribeNode
    <2> QED
      BY <1>8, <2>1, <2>2, <2>3 DEF Resubscribing
  <1>9. ASSUME ShutdownDone \/ SkipInvalid \/ NewFlowSensor \/ AppendSensor \/ SetupDone
        PROVE  UNCHANGED <<connected, subs>>
    BY <1>9 DEF ShutdownDone, SkipInvalid, NewFlowSensor, AppendSensor, SetupDone
  <1>10. ASSUME NEW n \in Nodes, NEW spec \in Specs[n], GotSameHello(n, spec) \/ GotHello(n, spec)
         PROVE  UNCHANGED <<connected, subs>>
    <2>1. ASSUME GotSameHello(n, spec) PROVE UNCHANGED <<connected, subs>>
      BY <2>1 DEF GotSameHello
    <2>2. ASSUME GotHello(n, spec) PROVE UNCHANGED <<connected, subs>>
      BY <2>2 DEF GotHello
    <2> QED
      BY <1>10, <2>1, <2>2
  <1>11. ASSUME (\E topic \in Topics : GotReport(topic)) \/ UNCHANGED vars
         PROVE  UNCHANGED <<connected, subs>>
    BY <1>11 DEF GotReport, vars
  <1> QED
    BY <1>1, <1>3, <1>4, <1>5, <1>6, <1>7, <1>8, <1>9, <1>10, <1>11
       DEF Next, Events, Step, Subscribing, SettingUp

\* In each step at most one thread moves; it goes on working, or rests with
\* nothing before it, or is a new one at its start.
LEMMA OneMoves ==
    ASSUME TypeInv, [Next]_vars
    PROVE  \/ UNCHANGED th
           \/ \E t \in Threads :
                /\ OnlyMoves(t)
                /\ \/ Working(t)'
                   \/ th'[t] = Idle
                   \/ /\ ~Working(t) /\ ~Working(t)' /\ th'[t].queue = th[t].queue
                      /\ th'[t].seen = th[t].seen
  <1>1. 0 \in Threads
    BY LiveSensors
  <1>2. ASSUME NEW t \in Threads, Subscribing(t)
        PROVE  UNCHANGED th \/ (OnlyMoves(t) /\ Working(t)')
    <2>1. CASE SubscribeAgain(t)
      BY <2>1, AgainMoves DEF GoesOn, Working
    <2>2. CASE SubscribeSend(t)
      BY <2>2, SendMoves DEF GoesOn, Working
    <2>3. CASE Waited(t) \/ SubscribeFails(t)
      <3>1. th[t].pc \in {"send", "wait"} /\ Return(t)
        BY <2>3 DEF Waited, SubscribeFails
      <3> QED
        BY <3>1, ReturnMoves DEF GoesOn, Working
    <2>4. CASE WaitedForNothing(t)
      BY <2>4 DEF WaitedForNothing
    <2> QED
      BY <1>2, <2>1, <2>2, <2>3, <2>4 DEF Subscribing
  <1>3. ASSUME NEW t \in Threads, Resubscribing(t)
        PROVE  OnlyMoves(t) /\ (Working(t)' \/ th'[t] = Idle)
    BY <1>3, ConnectionMoves DEF Resubscribing, Working
  <1>4. ASSUME SettingUp
        PROVE  UNCHANGED th \/ (OnlyMoves(0) /\ (Working(0)' \/ th'[0] = Idle))
    BY <1>4, SetupMoves DEF SettingUp, GoesOn, Working
  <1>5. ASSUME Connect
        PROVE  \E t \in Threads :
                 /\ OnlyMoves(t)
                 /\ ~Working(t) /\ ~Working(t)' /\ th'[t].queue = th[t].queue /\ th'[t].seen = th[t].seen
    BY <1>5, ConnectMoves DEF GoesOn, Working
  <1>6. ASSUME NEW n \in Nodes, NEW spec \in Specs[n], GotHello(n, spec)
        PROVE  OnlyMoves(0) /\ Working(0)'
    BY <1>6, SetupMoves DEF Working
  <1>7. ASSUME \/ mqttConnLost \/ UNCHANGED vars
               \/ \E n \in Nodes : \E spec \in Specs[n] : GotSameHello(n, spec)
               \/ \E topic \in Topics : GotReport(topic)
        PROVE  UNCHANGED th
    BY <1>7 DEF mqttConnLost, GotSameHello, GotReport, vars
  <1> QED
    BY <1>1, <1>2, <1>3, <1>4, <1>5, <1>6, <1>7 DEF Next, Events, Step

LEMMA RestInit == Init => RestInv
  BY DEF Init, RestInv, Rested, Idle

LEMMA RestNext == TypeInv /\ RestInv /\ [Next]_vars => RestInv'
  <1> SUFFICES ASSUME TypeInv, RestInv, [Next]_vars PROVE RestInv'
    OBVIOUS
  <1>1. ~connected' => subs' = {}
    BY SessionNext DEF RestInv
  <1>2. CASE UNCHANGED th
    BY <1>1, <1>2 DEF RestInv, Rested, Working
  <1>3. ASSUME NEW t \in Threads, OnlyMoves(t),
               \/ Working(t)'
               \/ th'[t] = Idle
               \/ /\ ~Working(t) /\ ~Working(t)' /\ th'[t].queue = th[t].queue
                  /\ th'[t].seen = th[t].seen
        PROVE  RestInv'
    BY <1>1, <1>3 DEF RestInv, Rested, Working, OnlyMoves, Idle
  <1> QED
    BY <1>2, <1>3, OneMoves

\* A step of thread t, while no other works.
LEMMA TurnOf ==
    ASSUME TypeInv, RestInv, NEW t \in Threads, OnlyMoves(t),
           \A u \in Threads \ {t} : ~Working(u),
           th'[t].pc = "wait" => obj'[Head(th'[t].queue)].token,
           t # 0 => Elems(th'[t].queue) \subseteq Live',
           RoutesLive'
    PROVE  TakingTurns'
  <1>1. \A u \in Threads \ {t} : ~Working(u)' /\ th'[u].pc # "wait"
    BY DEF OnlyMoves, Working
  <1>2. OneWorks'
    BY <1>1 DEF OneWorks
  <1>3. WaitersHaveTokens'
    BY <1>1 DEF WaitersHaveTokens
  <1>4. QueuesLive'
    BY <1>1 DEF QueuesLive, Elems
  <1> QED
    BY <1>2, <1>3, <1>4 DEF TakingTurns

\* The history of overlaps: who begins while another works makes it true.
LEMMA OverlapHistory ==
    ASSUME TypeInv, [Next]_vars, ~overlapped'
    PROVE  /\ ~overlapped
           /\ \A t \in Threads : mqttConnected(t) => \A u \in Threads \ {t} : ~Working(u)
           /\ \A n \in Nodes : \A spec \in Specs[n] :
                 GotHello(n, spec) => \A u \in Threads \ {0} : ~Working(u)
  <1> USE DEF broker, history
  <1>1. ASSUME NEW t \in Threads, mqttConnected(t)
        PROVE  ~overlapped /\ \A u \in Threads \ {t} : ~Working(u)
    <2>1. overlapped' = (overlapped \/ OthersWork(t))
      BY <1>1 DEF mqttConnected
    <2> QED
      BY Zenon, <2>1 DEF OthersWork, Working
  <1>2. ASSUME NEW n \in Nodes, NEW spec \in Specs[n], GotHello(n, spec)
        PROVE  ~overlapped /\ \A u \in Threads \ {0} : ~Working(u)
    <2>1. overlapped' = (overlapped \/ OthersWork(0))
      BY <1>2 DEF GotHello
    <2> QED
      BY Zenon, <2>1 DEF OthersWork, Working
  <1>3. ASSUME UNCHANGED overlapped PROVE ~overlapped
    BY <1>3
  <1>4. ASSUME NEW t \in Threads, Subscribing(t) PROVE ~overlapped
    <2>1. ASSUME SubscribeAgain(t) \/ SubscribeSend(t) PROVE ~overlapped
      BY <1>3, <2>1 DEF SubscribeAgain, SubscribeSend
    <2>2. ASSUME Waited(t) \/ WaitedForNothing(t) \/ SubscribeFails(t) PROVE ~overlapped
      BY <1>3, <2>2 DEF Waited, WaitedForNothing, SubscribeFails
    <2> QED
      BY <1>4, <2>1, <2>2 DEF Subscribing
  <1>5. ASSUME NEW t \in Threads, ResubscribeDone(t) PROVE ~overlapped
    BY <1>3, <1>5 DEF ResubscribeDone
  <1>6. ASSUME NEW t \in Threads, NEW n \in Nodes, ResubscribeNode(t, n) PROVE ~overlapped
    BY <1>3, <1>6 DEF ResubscribeNode
  <1>7. ASSUME SettingUp PROVE ~overlapped
    BY <1>3, <1>7 DEF SettingUp, Shutdown, ShutdownDone, SkipInvalid, NewFlowSensor, AppendSensor, SetupDone
  <1>8. ASSUME Connect \/ mqttConnLost \/ UNCHANGED vars PROVE ~overlapped
    BY <1>3, <1>8 DEF Connect, mqttConnLost, vars
  <1>9. ASSUME NEW n \in Nodes, NEW spec \in Specs[n], GotSameHello(n, spec) PROVE ~overlapped
    BY <1>3, <1>9 DEF GotSameHello
  <1>10. ASSUME NEW topic \in Topics, GotReport(topic) PROVE ~overlapped
    BY <1>3, <1>10 DEF GotReport
  <1> QED
    BY <1>1, <1>2, <1>4, <1>5, <1>6, <1>7, <1>8, <1>9, <1>10 DEF Next, Events, Step, Resubscribing

\* The routes after an Unsubscribe that leaves the live sensors alone, or takes
\* the one unsubscribed from them.
LEMMA UnsubscribeRoutes ==
    ASSUME TypeInv, RestInv, RoutesLive, NEW s \in SensorIds, Unsubscribe(s),
           Live \ {s} \subseteq Live'
    PROVE  RoutesLive'
  <1>1. /\ subs' \subseteq subs /\ subs \subseteq Topics
        /\ \A tp \in Topics : routes'[tp] \in {routes[tp], 0}
        /\ \A tp \in Topics : routes[tp] # 0 => obj[routes[tp]].topic = tp
    BY UnsubscribeDoes DEF TypeInv, OthersTyped, References
  <1>2. ASSUME NEW tp \in subs', routes'[tp] # 0 PROVE routes'[tp] \in Live'
    <2>1. tp \in subs /\ tp \in Topics /\ routes'[tp] = routes[tp] /\ routes[tp] \in Live
      BY <1>1, <1>2 DEF RoutesLive
    <2>2. connected /\ routes' = [routes EXCEPT ![obj[s].topic] = 0]
      BY <1>2, <2>1 DEF Unsubscribe, Disconnected, RestInv
    <2>3. tp # obj[s].topic
      <3>1. routes \in [Topics -> Nat]
        BY DEF TypeInv, References
      <3> QED
        BY <1>2, <2>1, <2>2, <3>1
    <2>4. routes[tp] # s
      BY <1>1, <1>2, <2>1, <2>3
    <2> QED
      BY <2>1, <2>4
  <1> QED
    BY <1>2 DEF RoutesLive

\* Where nothing is shut down the live sensors only become more.
LEMMA LiveGrows ==
    ASSUME TypeInv, MetricsInv, [Next]_vars, ~Shutdown
    PROVE  Live \subseteq Live'
  BY ViewSteps, ViewKeepsMetrics, GotHelloMetrics, ShutdownDoneMetrics, NewFlowSensorMetrics,
     AppendSensorMetrics, SetupDoneMetrics

\* A step in which nobody who works moves.
LEMMA StillTurns ==
    ASSUME TypeInv, TakingTurns, Live \subseteq Live',
           \A u \in Threads : Working(u)' => th'[u].pc = th[u].pc /\ th'[u].queue = th[u].queue,
           \A x \in SensorIds : obj'[x].token = obj[x].token,
           UNCHANGED routes, subs' \subseteq subs
    PROVE  TakingTurns'
  <1>1. \A u \in Threads : Working(u)' => Working(u)
    BY DEF Working
  <1>2. OneWorks'
    BY <1>1 DEF TakingTurns, OneWorks
  <1>3. WaitersHaveTokens'
    <2> SUFFICES ASSUME NEW u \in Threads, th'[u].pc = "wait"
                 PROVE  obj'[Head(th'[u].queue)].token
      BY DEF WaitersHaveTokens
    <2>1. th[u].pc = "wait" /\ th'[u].queue = th[u].queue
      BY DEF Working
    <2>2. Head(th[u].queue) \in SensorIds /\ obj[Head(th[u].queue)].token
      BY <2>1, ThreadFacts DEF PlaceOf, Handling, TakingTurns, WaitersHaveTokens
    <2> QED
      BY <2>1, <2>2
  <1>4. QueuesLive'
    <2> SUFFICES ASSUME NEW u \in Threads \ {0}, Working(u)' PROVE Elems(th'[u].queue) \subseteq Live'
      BY DEF QueuesLive, Elems
    <2>1. Working(u) /\ th'[u].queue = th[u].queue
      BY <1>1
    <2>2. Elems(th[u].queue) \subseteq Live
      BY <2>1 DEF TakingTurns, QueuesLive
    <2> QED
      BY <2>1, <2>2
  <1>5. RoutesLive'
    BY DEF TakingTurns, RoutesLive
  <1> QED
    BY <1>2, <1>3, <1>4, <1>5 DEF TakingTurns

LEMMA SubscribingTurns ==
    ASSUME TypeInv, MetricsInv, RestInv, TakingTurns, NEW t \in Threads, Subscribing(t),
           Live \subseteq Live'
    PROVE  TakingTurns' /\ ~WaitedForNothing(t)
  <1> DEFINE s == Head(th[t].queue)
  <1> USE DEF broker, history
  <1>1. /\ th[t] \in Thread /\ th \in [Threads -> Thread]
        /\ th[t].queue # <<>> => /\ s \in SensorIds /\ s \in Elems(th[t].queue)
                                 /\ Elems(Tail(th[t].queue)) \subseteq Elems(th[t].queue)
    BY ThreadFacts
  <1>2. Working(t)
    BY DEF Subscribing, SubscribeAgain, SubscribeSend, Waited, WaitedForNothing, SubscribeFails, Working
  <1>3. \A u \in Threads \ {t} : ~Working(u)
    BY <1>2 DEF TakingTurns, OneWorks
  <1>4. t # 0 => Elems(th[t].queue) \subseteq Live'
    BY <1>2 DEF TakingTurns, QueuesLive
  <1>5. ~WaitedForNothing(t)
    BY DEF WaitedForNothing, TakingTurns, WaitersHaveTokens
  <1>6. CASE SubscribeAgain(t)
    <2>1. t # 0 /\ th[t].queue # <<>> /\ GoesOn(t, "send", th[t].queue, th[t].spec)
      BY <1>6, AgainMoves
    <2>2. Unsubscribe(s) \/ UNCHANGED <<connected, subs, hello_sub, routes, obj>>
      BY <1>6 DEF SubscribeAgain
    <2>3. RoutesLive'
      <3>1. CASE Unsubscribe(s)
        BY <1>1, <2>1, <3>1, UnsubscribeRoutes DEF TakingTurns
      <3>2. CASE UNCHANGED <<connected, subs, hello_sub, routes, obj>>
        BY <3>2 DEF TakingTurns, RoutesLive
      <3> QED
        BY <2>2, <3>1, <3>2
    <2>4. OnlyMoves(t) /\ th'[t].pc # "wait" /\ th'[t].queue = th[t].queue
      BY <2>1 DEF GoesOn
    <2> QED
      BY <1>3, <1>4, <1>5, <2>1, <2>3, <2>4, TurnOf
  <1>7. CASE SubscribeSend(t)
    <2>1. /\ th[t].pc = "send" /\ th[t].queue # <<>>
          /\ OnlyMoves(t) /\ th'[t].pc = "wait" /\ th'[t].queue = th[t].queue
      BY <1>7, SendMoves DEF GoesOn
    <2>2. s \in Live'
      <3>1. CASE t # 0
        BY <1>1, <1>4, <2>1, <3>1
      <3>2. CASE t = 0
        BY <1>1, <2>1, <3>2 DEF Live, InHand, Handling
      <3> QED
        BY <3>1, <3>2
    <2>3. obj' = [obj EXCEPT ![s].token = TRUE] /\ obj \in Seq(FlowSensor) /\ s \in SensorIds
      BY <1>1, <1>7, <2>1 DEF SubscribeSend, TypeInv, References
    <2>4. obj'[s].token = TRUE
      BY <2>3, TokenChange
    <2>5. RoutesLive'
      <3> DEFINE topic == obj[s].topic
      <3>1. routes' = [routes EXCEPT ![topic] = s] /\ subs' = subs \cup {topic}
        BY <1>7 DEF SubscribeSend
      <3>2. topic \in Topics
        <4>1. obj[s] \in FlowSensor
          BY <2>3 DEF SensorIds
        <4> QED
          BY <4>1 DEF FlowSensor
      <3> HIDE DEF topic, s
      <3>3. routes \in [Topics -> Nat] /\ subs \subseteq Topics
        BY DEF TypeInv, References, OthersTyped
      <3> QED
        BY <2>2, <3>1, <3>2, <3>3 DEF TakingTurns, RoutesLive
    <2> QED
      BY <1>3, <1>4, <1>5, <2>1, <2>4, <2>5, TurnOf
  <1>8. CASE Waited(t) \/ SubscribeFails(t)
    <2>1. th[t].pc \in {"send", "wait"} /\ Return(t) /\ UNCHANGED <<routes, subs>>
      BY <1>8 DEF Waited, SubscribeFails
    <2>2. OnlyMoves(t) /\ th'[t].pc # "wait" /\ (t # 0 => Elems(th'[t].queue) \subseteq Live')
      BY <1>1, <1>4, <2>1, ReturnMoves DEF GoesOn
    <2>3. RoutesLive'
      BY <2>1 DEF TakingTurns, RoutesLive
    <2> QED
      BY <1>3, <1>5, <2>2, <2>3, TurnOf
  <1> QED
    BY <1>5, <1>6, <1>7, <1>8 DEF Subscribing

LEMMA ResubscribingTurns ==
    ASSUME TypeInv, MetricsInv, RestInv, TakingTurns, NEW t \in Threads, Resubscribing(t),
           mqttConnected(t) => \A u \in Threads \ {t} : ~Working(u),
           Live \subseteq Live'
    PROVE  TakingTurns'
  <1> USE DEF broker, history
  <1>1. UNCHANGED <<routes, subs>> /\ (~mqttConnected(t) => Working(t))
    <2>1. ASSUME mqttConnected(t) PROVE UNCHANGED <<routes, subs>>
      BY <2>1 DEF mqttConnected
    <2>2. ASSUME ResubscribeDone(t) PROVE UNCHANGED <<routes, subs>> /\ Working(t)
      BY <2>2 DEF ResubscribeDone, Working
    <2>3. ASSUME NEW n \in Nodes, ResubscribeNode(t, n) PROVE UNCHANGED <<routes, subs>> /\ Working(t)
      BY <2>3 DEF ResubscribeNode, Working
    <2> QED
      BY <2>1, <2>2, <2>3 DEF Resubscribing
  <1>2. RoutesLive'
    BY <1>1 DEF TakingTurns, RoutesLive
  <1>3. \A u \in Threads \ {t} : ~Working(u)
    BY <1>1 DEF TakingTurns, OneWorks
  <1>4. OnlyMoves(t) /\ th'[t].pc # "wait" /\ Elems(th'[t].queue) \subseteq Live'
    <2>1. CASE mqttConnected(t)
      <3>1. th[t].queue = <<>>
        BY <2>1, ConnectionMoves DEF RestInv, Rested, Working
      <3> QED
        BY <2>1, <3>1, ConnectionMoves, ShortElems
    <2>2. CASE ResubscribeDone(t)
      BY <2>2, ConnectionMoves, ShortElems DEF Idle
    <2>3. ASSUME NEW n \in Nodes, ResubscribeNode(t, n)
          PROVE  OnlyMoves(t) /\ th'[t].pc # "wait" /\ Elems(th'[t].queue) \subseteq Live'
      <3>1. /\ t # 0 /\ th[t].pc = "next" /\ OnlyMoves(t) /\ th'[t].pc = "next"
            /\ th'[t].queue = node[n].sensors
        BY <2>3, ConnectionMoves
      <3>2. 0 \in Threads /\ ~Working(0)
        BY <1>3, <3>1, LiveSensors
      <3>3. Held(n) = Elems(node[n].sensors)
        BY <3>2 DEF Held, Working
      <3> QED
        BY <3>1, <3>3 DEF Live
    <2> QED
      BY <2>1, <2>2, <2>3 DEF Resubscribing
  <1> QED
    BY <1>2, <1>3, <1>4, TurnOf

LEMMA SettingUpTurns ==
    ASSUME TypeInv, MetricsInv, RestInv, TakingTurns, SettingUp, ~Shutdown => Live \subseteq Live'
    PROVE  TakingTurns'
  <1> USE DEF broker, history
  <1>1. 0 \in Threads /\ th \in [Threads -> Thread] /\ Working(0)
    <2>1. th[0].pc \in {"shutdown", "create", "subscribed"}
      BY DEF SettingUp, Shutdown, ShutdownDone, SkipInvalid, NewFlowSensor, AppendSensor, SetupDone
    <2> QED
      BY <2>1, LiveSensors DEF TypeInv, References, Working
  <1>2. \A u \in Threads \ {0} : ~Working(u)
    BY <1>1 DEF TakingTurns, OneWorks
  <1>3. OnlyMoves(0) /\ th'[0].pc # "wait"
    <2>1. UNCHANGED th => OnlyMoves(0)
      BY <1>1 DEF OnlyMoves
    <2>2. CASE UNCHANGED th
      <3>1. th[0].pc # "wait"
        BY DEF SettingUp, Shutdown, ShutdownDone, SkipInvalid, NewFlowSensor, AppendSensor, SetupDone
      <3> QED
        BY <2>1, <2>2, <3>1
    <2>3. CASE OnlyMoves(0) /\ th'[0] = Idle
      BY <2>3 DEF Idle
    <2> QED
      BY <2>2, <2>3, SetupMoves DEF SettingUp, GoesOn
  <1>4. RoutesLive'
    <2>1. CASE Shutdown
      <3>1. /\ th[0].queue # <<>> /\ Unsubscribe(Head(th[0].queue))
        BY <2>1 DEF Shutdown
      <3>2. Head(th[0].queue) \in SensorIds
        BY <1>1, <3>1, ThreadFacts
      <3> QED
        BY <2>1, <3>1, <3>2, ShutdownMetrics, UnsubscribeRoutes DEF TakingTurns
    <2>2. CASE ~Shutdown
      <3>1. UNCHANGED <<routes, subs>>
        BY <2>2 DEF SettingUp, ShutdownDone, SkipInvalid, NewFlowSensor, AppendSensor, SetupDone
      <3> QED
        BY <2>2, <3>1 DEF TakingTurns, RoutesLive
    <2> QED
      BY <2>1, <2>2
  <1> QED
    BY <1>1, <1>2, <1>3, <1>4, TurnOf

LEMMA EventsTurns ==
    ASSUME TypeInv, MetricsInv, RestInv, TakingTurns, Events \/ UNCHANGED vars, Live \subseteq Live',
           \A n \in Nodes : \A spec \in Specs[n] :
              GotHello(n, spec) => \A u \in Threads \ {0} : ~Working(u)
    PROVE  TakingTurns'
  <1> USE DEF broker, history
  <1>1. CASE Connect
    <2>1. \A u \in Threads : Working(u)' => th'[u].pc = th[u].pc /\ th'[u].queue = th[u].queue
      BY <1>1, ConnectMoves DEF GoesOn, OnlyMoves, Working
    <2>2. UNCHANGED <<obj, routes, subs>>
      BY <1>1 DEF Connect
    <2> QED
      BY <2>1, <2>2, StillTurns
  <1>2. CASE mqttConnLost
    BY <1>2, StillTurns DEF mqttConnLost, Disconnected
  <1>3. ASSUME NEW n \in Nodes, NEW spec \in Specs[n], GotSameHello(n, spec) PROVE TakingTurns'
    BY <1>3, StillTurns DEF GotSameHello
  <1>4. ASSUME NEW n \in Nodes, NEW spec \in Specs[n], GotHello(n, spec) PROVE TakingTurns'
    <2>1. 0 \in Threads /\ OnlyMoves(0) /\ th'[0].pc # "wait"
      BY <1>4, SetupMoves, LiveSensors
    <2>2. UNCHANGED <<routes, subs>>
      BY ONLY <1>4 DEF GotHello, broker
    <2>3. RoutesLive'
      BY <2>2 DEF TakingTurns, RoutesLive
    <2> QED
      BY <1>4, <2>1, <2>3, TurnOf
  <1>5. ASSUME NEW topic \in Topics, GotReport(topic) PROVE TakingTurns'
    <2> DEFINE s == routes[topic]
    <2>1. s \in SensorIds /\ obj \in Seq(FlowSensor) /\ UNCHANGED <<routes, subs, th>>
          /\ obj' = [obj EXCEPT ![s].total = @ + 1]
      BY <1>5 DEF GotReport, TypeInv, References
    <2> HIDE DEF s
    <2>2. \A x \in SensorIds : obj[x] \in FlowSensor
      BY <2>1 DEF SensorIds
    <2>3. \A x \in SensorIds : obj'[x].token = obj[x].token
      <3> DEFINE new == [obj[s] EXCEPT !.total = @ + 1]
      <3>1. new.token = obj[s].token
        BY <2>1, <2>2 DEF FlowSensor
      <3>2. obj' = [obj EXCEPT ![s] = new]
        BY <2>1
      <3> HIDE DEF new
      <3> QED
        BY <2>1, <3>1, <3>2 DEF SensorIds
    <2> QED
      BY <2>1, <2>3, StillTurns
  <1>6. CASE UNCHANGED vars
    BY <1>6, StillTurns DEF vars
  <1> QED
    BY <1>1, <1>2, <1>3, <1>4, <1>5, <1>6 DEF Events

LEMMA TurnsInit == Init => TurnsInv
  BY DEF Init, TurnsInv, TakingTurns, OneWorks, WaitersHaveTokens, QueuesLive, RoutesLive, Idle, Working

LEMMA TurnsNext ==
    TypeInv /\ MetricsInv /\ RestInv /\ TurnsInv /\ [Next]_vars => TurnsInv'
  <1> SUFFICES ASSUME TypeInv, MetricsInv, RestInv, TurnsInv, [Next]_vars, ~overlapped'
               PROVE  TakingTurns'
    BY DEF TurnsInv
  <1>1. TakingTurns
    BY OverlapHistory DEF TurnsInv
  <1>2. ~Shutdown => Live \subseteq Live'
    BY LiveGrows
  <1>3. ASSUME ~Shutdown, Events \/ UNCHANGED vars PROVE TakingTurns'
    BY <1>1, <1>2, <1>3, OverlapHistory, EventsTurns
  <1>4. ASSUME NEW t \in Threads, ~Shutdown, Subscribing(t) PROVE TakingTurns'
    BY <1>1, <1>2, <1>4, SubscribingTurns
  <1>5. ASSUME NEW t \in Threads, ~Shutdown, Resubscribing(t) PROVE TakingTurns'
    BY <1>1, <1>2, <1>5, OverlapHistory, ResubscribingTurns
  <1>6. ASSUME SettingUp PROVE TakingTurns'
    BY <1>1, <1>2, <1>6, SettingUpTurns
  <1>7. Shutdown => SettingUp
    BY DEF SettingUp
  <1> QED
    BY <1>3, <1>4, <1>5, <1>6, <1>7 DEF Next, Step

\* The invariants so far, together.
HubInv == TypeInv /\ MetricsInv /\ RestInv /\ TurnsInv

LEMMA HubInvariance == Spec => []HubInv
  <1>1. Init => HubInv
    BY TypeInit, MetricsInit, RestInit, TurnsInit DEF HubInv
  <1>2. HubInv /\ [Next]_vars => HubInv'
    BY TypeNext, MetricsNext, RestNext, TurnsNext DEF HubInv
  <1> QED
    BY <1>1, <1>2, PTL DEF Spec

-----------------------------------------------------------------------------
(* Reports *)

\* Only a report changes a total.
LEMMA TotalsKept ==
    ASSUME TypeInv, [Next]_vars, NEW x \in SensorIds, obj'[x].total # obj[x].total
    PROVE  \E topic \in Topics : GotReport(topic) /\ x = routes[topic]
  <1> USE DEF broker, history
  <1>1. obj \in Seq(FlowSensor)
    BY DEF TypeInv, References
  <1>2. ~UNCHANGED obj
    OBVIOUS
  <1>3. ASSUME NEW s \in SensorIds, NEW b \in BOOLEAN, obj' = [obj EXCEPT ![s].token = b] PROVE FALSE
    BY <1>1, <1>3, TokenChange
  <1>4. ASSUME NEW t \in Threads, Subscribing(t) PROVE FALSE
    <2>1. th[t].queue # <<>> => Head(th[t].queue) \in SensorIds
      BY ThreadFacts
    <2>2. ASSUME SubscribeAgain(t) PROVE FALSE
      <3>1. th[t].queue # <<>> /\ Unsubscribe(Head(th[t].queue))
        BY <1>2, <2>2 DEF SubscribeAgain
      <3> QED
        BY <2>1, <3>1, UnsubscribeDoes
    <2>3. ASSUME SubscribeSend(t) PROVE FALSE
      <3>1. obj' = [obj EXCEPT ![Head(th[t].queue)].token = TRUE]
        BY <2>3 DEF SubscribeSend
      <3> QED
        BY <1>3, <2>1, <2>3, <3>1, SendMoves
    <2>4. ASSUME SubscribeFails(t) PROVE FALSE
      <3>1. /\ th[t].pc \in {"send", "wait"} /\ Return(t)
            /\ obj' = [obj EXCEPT ![Head(th[t].queue)].token = FALSE]
        BY <2>4 DEF SubscribeFails
      <3> QED
        BY <1>3, <2>1, <3>1, ReturnMoves
    <2>5. ~Waited(t) /\ ~WaitedForNothing(t)
      BY <1>2 DEF Waited, WaitedForNothing
    <2> QED
      BY <1>4, <2>2, <2>3, <2>4, <2>5 DEF Subscribing
  <1>5. ASSUME NEW t \in Threads, Resubscribing(t) PROVE FALSE
    <2>1. ~mqttConnected(t) /\ ~ResubscribeDone(t)
      BY <1>2 DEF mqttConnected, ResubscribeDone
    <2>2. \A n \in Nodes : ~ResubscribeNode(t, n)
      BY <1>2 DEF ResubscribeNode
    <2> QED
      BY <1>5, <2>1, <2>2 DEF Resubscribing
  <1>6. ASSUME SettingUp PROVE FALSE
    <2>1. 0 \in Threads
      BY LiveSensors
    <2>2. ASSUME Shutdown PROVE FALSE
      <3>1. th[0].queue # <<>> /\ Unsubscribe(Head(th[0].queue))
        BY <2>2 DEF Shutdown
      <3>2. Head(th[0].queue) \in SensorIds
        BY <2>1, <3>1, ThreadFacts
      <3> QED
        BY <3>1, <3>2, UnsubscribeDoes
    <2>3. ASSUME NewFlowSensor PROVE FALSE
      <3>1. th[0].pc = "create" /\ th[0].spec # <<>> /\ Entry # Invalid
            /\ obj' = Append(obj, [topic |-> <<th[0].node, Entry>>, token |-> FALSE, total |-> 0])
        BY <1>2, <2>3 DEF NewFlowSensor
      <3>2. th[0] \in Thread /\ th[0].node \in Nodes
        BY <3>1, LiveSensors DEF TypeInv, Places, Working
      <3>3. [topic |-> <<th[0].node, Entry>>, token |-> FALSE, total |-> 0] \in FlowSensor
        BY <3>1, <3>2 DEF FlowSensor, Topics, Entry, Thread
      <3> QED
        BY <3>1, <3>3, NewObject
    <2>4. ~ShutdownDone /\ ~SkipInvalid /\ ~AppendSensor /\ ~SetupDone
      BY <1>2 DEF ShutdownDone, SkipInvalid, AppendSensor, SetupDone
    <2> QED
      BY <1>6, <2>2, <2>3, <2>4 DEF SettingUp
  <1>7. ~Connect /\ ~mqttConnLost /\ ~UNCHANGED vars
    BY <1>2 DEF Connect, mqttConnLost, vars
  <1>8. \A n \in Nodes : \A spec \in Specs[n] : ~GotSameHello(n, spec) /\ ~GotHello(n, spec)
    <2> SUFFICES ASSUME NEW n \in Nodes, NEW spec \in Specs[n]
                 PROVE  ~GotSameHello(n, spec) /\ ~GotHello(n, spec)
      OBVIOUS
    <2> QED
      BY ONLY <1>2 DEF GotSameHello, GotHello, broker
  <1>9. ASSUME NEW topic \in Topics, GotReport(topic) PROVE x = routes[topic]
    <2>1. obj' = [obj EXCEPT ![routes[topic]].total = @ + 1]
      BY <1>9 DEF GotReport
    <2> QED
      BY <1>1, <2>1 DEF SensorIds
  <1> QED
    BY <1>4, <1>5, <1>6, <1>7, <1>8, <1>9 DEF Next, Events, Step

\* A subscribed topic leads to a live sensor, and while no message is handled
\* the live ones are those of the nodes.
THEOREM ReportsReachCurrent == Spec => ReportsToCurrentSensors
  <1> DEFINE A == \A s \in SensorIds : obj'[s].total # obj[s].total => Current(s) \/ overlapped
  <1>1. HubInv /\ [Next]_vars => [A]_vars
    <2> SUFFICES ASSUME HubInv, [Next]_vars, NEW s \in SensorIds, obj'[s].total # obj[s].total,
                        ~overlapped
                 PROVE  Current(s)
      OBVIOUS
    <2>1. PICK topic \in Topics : GotReport(topic) /\ s = routes[topic]
      BY TotalsKept DEF HubInv
    <2>2. th[0].pc = "idle" /\ topic \in subs /\ routes[topic] # 0
      BY <2>1 DEF GotReport, Dispatchable
    <2>3. s \in Live
      BY <2>1, <2>2 DEF HubInv, TurnsInv, TakingTurns, RoutesLive
    <2> QED
      BY <2>2, <2>3, LiveIsCurrent DEF HubInv
  <1> QED
    BY <1>1, HubInvariance, PTL DEF Spec, ReportsToCurrentSensors

-----------------------------------------------------------------------------
(* The sensors are those of the specs *)

Building == th[0].pc \in Handling \cup {"create"}

\* How many entries of its spec node n has had its sensors made for.
Done(n) == IF Building /\ n = th[0].node THEN Len(node[n].spec) - Len(th[0].spec)
                                         ELSE Len(node[n].spec)

\* What is left of the spec is the end of it; each sensor a node holds was made
\* for an entry already done, the one in hand for the last of those.
Suffix ==
    Building =>
        /\ Len(th[0].spec) <= Len(node[th[0].node].spec)
        /\ \A i \in 1 .. Len(th[0].spec) :
              th[0].spec[i] = node[th[0].node].spec[Done(th[0].node) + i]

MadeFor(s, n, j) == j \in 1 .. Done(n) /\ node[n].spec[j] = obj[s].topic[2]

HeldMade == \A n \in Nodes : \A s \in Held(n) : \E j \in Nat : MadeFor(s, n, j)

InHandMade ==
    th[0].pc \in Handling =>
        \A n \in Nodes : \A j \in Nat : n = th[0].node /\ j = Done(n) =>
            \A s \in InHand : MadeFor(s, n, j)

SpecInv == Suffix /\ HeldMade /\ InHandMade

\* A step that keeps the specs.
SpecsKept == th'[0].spec = th[0].spec /\ \A n \in Nodes : node'[n].spec = node[n].spec

LEMMA SpecsTyped ==
    ASSUME TypeInv
    PROVE  /\ node \in [Nodes -> NodeObject] /\ th \in [Threads -> Thread] /\ th[0] \in Thread
           /\ \A n \in Nodes : node[n].spec \in Seq(Flows \cup {Invalid}) /\ Len(node[n].spec) \in Nat
           /\ th[0].spec \in Seq(Flows \cup {Invalid}) /\ Len(th[0].spec) \in Nat
           /\ Working(0) => th[0].node \in Nodes
           /\ th[0].spec # <<>> => /\ Tail(th[0].spec) \in Seq(Flows \cup {Invalid})
                                   /\ Len(Tail(th[0].spec)) = Len(th[0].spec) - 1
                                   /\ Len(th[0].spec) > 0 /\ Entry = th[0].spec[1]
                                   /\ \A i \in 1 .. Len(Tail(th[0].spec)) :
                                         Tail(th[0].spec)[i] = th[0].spec[i + 1]
  <1>1. node \in [Nodes -> NodeObject] /\ th \in [Threads -> Thread] /\ th[0] \in Thread
        /\ (Working(0) => th[0].node \in Nodes)
    BY LiveSensors DEF TypeInv, NodesTyped, References, Places
  <1>2. \A n \in Nodes : node[n].spec \in Seq(Flows \cup {Invalid})
    BY <1>1 DEF NodeObject
  <1>3. th[0].spec \in Seq(Flows \cup {Invalid})
    BY <1>1 DEF Thread
  <1>4. \A n \in Nodes : Len(node[n].spec) \in Nat
    BY <1>2
  <1> QED
    BY <1>1, <1>2, <1>3, <1>4 DEF Entry

LEMMA SpecSteps ==
    ASSUME TypeInv, [Next]_vars
    PROVE  \/ SpecsKept
           \/ ShutdownDone \/ SkipInvalid \/ NewFlowSensor
           \/ \E n \in Nodes : \E spec \in Specs[n] : GotHello(n, spec)
  <1> USE DEF broker, history
  <1>1. 0 \in Threads /\ node \in [Nodes -> NodeObject] /\ th \in [Threads -> Thread]
    BY SpecsTyped, LiveSensors
  <1>2. ASSUME UNCHANGED node, NEW t \in Threads, OnlyMoves(t), t = 0 => th'[0].spec = th[0].spec
        PROVE  SpecsKept
    BY <1>1, <1>2 DEF SpecsKept, OnlyMoves
  <1>3. ASSUME UNCHANGED <<node, th>> PROVE SpecsKept
    BY <1>3 DEF SpecsKept
  <1>4. ASSUME NEW t \in Threads, Subscribing(t) PROVE SpecsKept
    <2>1. ASSUME SubscribeAgain(t) PROVE SpecsKept
      <3>1. UNCHANGED node
        BY <2>1 DEF SubscribeAgain
      <3> QED
        BY <1>2, <2>1, <3>1, AgainMoves DEF GoesOn
    <2>2. ASSUME SubscribeSend(t) PROVE SpecsKept
      <3>1. UNCHANGED node
        BY <2>2 DEF SubscribeSend
      <3> QED
        BY <1>2, <2>2, <3>1, SendMoves DEF GoesOn
    <2>3. ASSUME Waited(t) \/ SubscribeFails(t) PROVE SpecsKept
      <3>1. UNCHANGED node /\ th[t].pc \in {"send", "wait"} /\ Return(t)
        BY <2>3 DEF Waited, SubscribeFails
      <3> QED
        BY <1>2, <3>1, ReturnMoves DEF GoesOn
    <2>4. ASSUME WaitedForNothing(t) PROVE SpecsKept
      BY <1>3, <2>4 DEF WaitedForNothing
    <2> QED
      BY <1>4, <2>1, <2>2, <2>3, <2>4 DEF Subscribing
  <1>5. ASSUME NEW t \in Threads, Resubscribing(t) PROVE SpecsKept
    <2>1. ASSUME mqttConnected(t) \/ ResubscribeDone(t) PROVE UNCHANGED node
      BY <2>1 DEF mqttConnected, ResubscribeDone
    <2>2. ASSUME NEW n \in Nodes, ResubscribeNode(t, n) PROVE UNCHANGED node
      BY <2>2 DEF ResubscribeNode
    <2> QED
      BY <1>2, <1>5, <2>1, <2>2, ConnectionMoves DEF Resubscribing
  <1>6. ASSUME Shutdown PROVE SpecsKept
    <2>1. UNCHANGED node
      BY <1>6 DEF Shutdown
    <2> QED
      BY <1>1, <1>2, <1>6, <2>1, SetupMoves DEF GoesOn
  <1>7. ASSUME AppendSensor PROVE SpecsKept
    <2>1. node' = [node EXCEPT ![th[0].node].sensors = Append(@, Head(th[0].queue))]
      BY <1>7 DEF AppendSensor
    <2>2. \A n \in Nodes : node'[n].spec = node[n].spec
      BY <1>1, <2>1 DEF NodeObject
    <2> QED
      BY <1>7, <2>2, SetupMoves DEF GoesOn, SpecsKept
  <1>8. ASSUME SetupDone PROVE SpecsKept
    <2>1. CASE UNCHANGED <<node, th>>
      BY <1>3, <2>1
    <2>2. CASE ~UNCHANGED <<node, th>>
      <3>1. th[0].spec = <<>> /\ node' = [node EXCEPT ![th[0].node].known = TRUE]
        BY <1>8, <2>2 DEF SetupDone
      <3>2. \A n \in Nodes : node'[n].spec = node[n].spec
        BY <1>1, <3>1 DEF NodeObject
      <3>3. th'[0].spec = <<>>
        BY <1>8, <2>2, SetupMoves DEF Idle
      <3> QED
        BY <3>1, <3>2, <3>3 DEF SpecsKept
    <2> QED
      BY <2>1, <2>2
  <1>9. ASSUME Connect PROVE SpecsKept
    <2>1. UNCHANGED node
      BY <1>9 DEF Connect
    <2> QED
      BY <1>2, <1>9, <2>1, ConnectMoves DEF GoesOn
  <1>10. ASSUME mqttConnLost \/ UNCHANGED vars PROVE SpecsKept
    BY <1>3, <1>10 DEF mqttConnLost, vars
  <1>11. ASSUME NEW n \in Nodes, NEW spec \in Specs[n], GotSameHello(n, spec) PROVE SpecsKept
    BY <1>3, <1>11 DEF GotSameHello
  <1>12. ASSUME NEW topic \in Topics, GotReport(topic) PROVE SpecsKept
    BY <1>3, <1>12 DEF GotReport
  <1> QED
    BY <1>4, <1>5, <1>6, <1>7, <1>8, <1>9, <1>10, <1>11, <1>12 DEF Next, Events, Step, SettingUp

LEMMA SpecInit == Init => SpecInv
  <1> SUFFICES ASSUME Init PROVE SpecInv
    OBVIOUS
  <1>1. th[0].pc = "idle" /\ \A n \in Nodes : node[n].sensors = <<>>
    BY HubAssumption DEF Init, Threads, Idle
  <1> QED
    BY <1>1, ShortElems DEF SpecInv, Suffix, HeldMade, InHandMade, Building, Handling, Held

\* Sensors and specs stay as they are.
LEMMA SpecKept ==
    ASSUME TypeInv, SpecInv, TopicsKept, SpecsKept, Building' = Building,
           Building => th'[0].node = th[0].node,
           \A n \in Nodes : Held(n)' \subseteq Held(n),
           th'[0].pc \in Handling => th[0].pc \in Handling /\ InHand' = InHand
    PROVE  SpecInv'
  <1>1. \A n \in Nodes : Done(n)' = Done(n)
    BY DEF Done, SpecsKept
  <1>2. Building => th[0].node \in Nodes
    BY SpecsTyped DEF Building, Handling, Working
  <1>3. Suffix'
    BY <1>1, <1>2 DEF SpecInv, Suffix, SpecsKept
  <1>4. \A s \in SensorIds : obj'[s].topic = obj[s].topic
    BY DEF TopicsKept
  <1>5. \A s \in SensorIds : \A n \in Nodes : \A j : MadeFor(s, n, j) => MadeFor(s, n, j)'
    BY <1>1, <1>4 DEF MadeFor, SpecsKept
  <1>6. HeldMade'
    BY <1>5, LiveSensors DEF SpecInv, HeldMade
  <1>7. InHandMade'
    <2> SUFFICES ASSUME th'[0].pc \in Handling, NEW n \in Nodes, NEW j \in Nat,
                        n = th'[0].node, j = Done(n)', NEW s \in InHand'
                 PROVE  MadeFor(s, n, j)'
      BY DEF InHandMade
    <2>1. s \in InHand /\ s \in SensorIds /\ th[0].pc \in Handling
      BY LiveSensors
    <2>2. n = th[0].node /\ j = Done(n)
      BY <1>1, <2>1 DEF Building
    <2>3. MadeFor(s, n, j)
      BY <2>1, <2>2 DEF SpecInv, InHandMade
    <2> QED
      BY <1>5, <2>1, <2>3
  <1> QED
    BY <1>3, <1>6, <1>7 DEF SpecInv

\* The next entry is taken off.
LEMMA EntryTaken ==
    ASSUME TypeInv, SpecInv, th[0].pc = "create", th[0].spec # <<>>, UNCHANGED node,
           th'[0].spec = Tail(th[0].spec), th'[0].node = th[0].node, th'[0].pc \in {"create", "send"},
           \A x \in SensorIds : obj'[x].topic = obj[x].topic
    PROVE  /\ Suffix' /\ HeldMade'
           /\ Done(th[0].node)' \in 1 .. Len(node[th[0].node].spec)
           /\ node[th[0].node].spec[Done(th[0].node)'] = Entry
  <1>0. PICK m \in Nodes : m = th[0].node /\ m = th'[0].node
    BY SpecsTyped DEF Working
  <1>1. /\ m \in Nodes /\ Building /\ Building' /\ th'[0].node = m
        /\ \A i \in 1 .. Len(Tail(th[0].spec)) : Tail(th[0].spec)[i] = th[0].spec[i + 1]
        /\ Entry = th[0].spec[1] /\ node' = node
    BY <1>0, SpecsTyped DEF Building, Handling
  <1>a. PICK k \in Nat, len \in Nat :
           /\ k = Len(th[0].spec) /\ len = Len(node[m].spec) /\ k > 0
           /\ Len(Tail(th[0].spec)) = k - 1
    BY <1>1, SpecsTyped
  <1>2. k <= len /\ \A i \in 1 .. k : th[0].spec[i] = node[m].spec[Done(m) + i]
    BY <1>0, <1>1, <1>a DEF SpecInv, Suffix
  <1>3. Done(m) = len - k /\ Done(m)' = len - (k - 1)
    BY <1>0, <1>1, <1>a DEF Done
  <1>4. \A n \in Nodes : n # m => Done(n)' = Done(n) /\ Done(n) = Len(node[n].spec)
    BY <1>0, <1>1 DEF Done
  <1>5. \A n \in Nodes : Held(n)' = Held(n)
    BY <1>1 DEF Held, Elems
  <1>6. Done(m)' = Done(m) + 1 /\ Done(m)' \in 1 .. len
    <2>1. k <= len /\ k > 0
      BY <1>a, <1>2
    <2>2. len - (k - 1) = (len - k) + 1 /\ len - (k - 1) \in 1 .. len
      BY <2>1
    <2> QED
      BY <1>3, <2>2
  <1>7. Suffix'
    <2>1. Len(Tail(th[0].spec)) <= Len(node[m].spec)
      BY <1>a, <1>2
    <2>2. ASSUME NEW i \in 1 .. Len(Tail(th[0].spec))
          PROVE  Tail(th[0].spec)[i] = node[m].spec[Done(m)' + i]
      <3>1. i \in 1 .. (k - 1)
        BY <1>a
      <3>2. i + 1 \in 1 .. k /\ Done(m) + (i + 1) = Done(m)' + i
        BY <1>3, <3>1
      <3> QED
        BY <1>1, <1>2, <3>2
    <2> QED
      BY <1>0, <1>1, <2>1, <2>2 DEF Suffix
  <1>8. HeldMade'
    <2> SUFFICES ASSUME NEW n \in Nodes, NEW x \in Held(n)' PROVE \E j \in Nat : MadeFor(x, n, j)'
      BY DEF HeldMade
    <2>1. x \in Held(n) /\ x \in SensorIds
      BY <1>5, LiveSensors
    <2>2. PICK j \in Nat : MadeFor(x, n, j)
      BY <2>1 DEF SpecInv, HeldMade
    <2>3. j \in 1 .. Done(n)'
      <3>1. j \in 1 .. Done(n)
        BY <2>2 DEF MadeFor
      <3>2. n = m => j \in 1 .. Done(n)'
        BY <1>a, <1>3, <3>1
      <3> QED
        BY <1>4, <3>1, <3>2
    <2> QED
      BY <1>1, <2>1, <2>2, <2>3 DEF MadeFor
  <1>9. node[m].spec[Done(m)'] = Entry
    <2>1. 1 \in 1 .. k
      BY <1>a
    <2> QED
      BY <1>1, <1>2, <1>6, <2>1
  <1> QED
    BY <1>0, <1>a, <1>6, <1>7, <1>8, <1>9

LEMMA GotHelloSpec ==
    ASSUME TypeInv, SpecInv, NEW n \in Nodes, NEW spec \in Specs[n], GotHello(n, spec)
    PROVE  SpecInv'
  <1>1. /\ th[0].pc = "idle" /\ UNCHANGED obj
        /\ node' = [node EXCEPT ![n].spec = spec]
    BY DEF GotHello, Dispatchable
  <1>2. th'[0].pc = "shutdown" /\ th'[0].node = n
    BY SetupMoves
  <1>3. ~Building /\ ~Building' /\ th'[0].pc \notin Handling
    BY <1>1, <1>2 DEF Building, Handling
  <1>4. \A m \in Nodes : m # n => node'[m] = node[m] /\ Done(m)' = Done(m)
    BY <1>1, <1>3, SpecsTyped DEF Done
  <1>5. HeldMade'
    <2> SUFFICES ASSUME NEW m \in Nodes, NEW x \in Held(m)' PROVE \E j \in Nat : MadeFor(x, m, j)'
      BY DEF HeldMade
    <2>1. m # n
      BY <1>2 DEF Held
    <2>2. x \in Held(m)
      BY <1>1, <1>2, <1>4, <2>1 DEF Held, Elems
    <2>3. PICK j \in Nat : MadeFor(x, m, j)
      BY <2>2 DEF SpecInv, HeldMade
    <2> QED
      BY <1>1, <1>4, <2>1, <2>3 DEF MadeFor
  <1> QED
    BY <1>3, <1>5 DEF SpecInv, Suffix, InHandMade

LEMMA ShutdownDoneSpec ==
    ASSUME TypeInv, SpecInv, ShutdownDone
    PROVE  SpecInv'
  <1>0. PICK n \in Nodes : n = th[0].node
    BY SpecsTyped DEF ShutdownDone, Working
  <1>1. /\ th[0].pc = "shutdown" /\ UNCHANGED obj /\ n \in Nodes
        /\ node' = [node EXCEPT ![n].sensors = <<>>]
    BY <1>0 DEF ShutdownDone
  <1>2. th'[0].pc = "create" /\ th'[0].spec = node[n].spec /\ th'[0].node = n
    BY <1>0, SetupMoves DEF GoesOn
  <1>3. ~Building /\ Building' /\ th'[0].pc \notin Handling
    BY <1>1, <1>2 DEF Building, Handling
  <1>4. \A m \in Nodes : node'[m].spec = node[m].spec
    BY <1>1, SpecsTyped DEF NodeObject
  <1>5. Done(n)' = 0 /\ \A m \in Nodes : m # n => Done(m)' = Done(m) /\ node'[m] = node[m]
    BY <1>0, <1>1, <1>2, <1>3, <1>4, SpecsTyped DEF Done
  <1>6. Held(n)' = {}
    <2>1. node'[n].sensors = <<>>
      BY <1>1, SpecsTyped DEF NodeObject
    <2> QED
      BY <1>2, <2>1, ShortElems DEF Held, Elems
  <1>7. Suffix'
    BY <1>1, <1>2, <1>4, <1>5, SpecsTyped DEF Suffix
  <1>8. HeldMade'
    <2> SUFFICES ASSUME NEW m \in Nodes, NEW x \in Held(m)' PROVE \E j \in Nat : MadeFor(x, m, j)'
      BY DEF HeldMade
    <2>1. m # n
      BY <1>6
    <2>2. x \in Held(m)
      BY <1>0, <1>1, <1>2, <1>5, <2>1 DEF Held, Elems
    <2>3. PICK j \in Nat : MadeFor(x, m, j)
      BY <2>2 DEF SpecInv, HeldMade
    <2> QED
      BY <1>1, <1>5, <2>1, <2>3 DEF MadeFor
  <1> QED
    BY <1>3, <1>7, <1>8 DEF SpecInv, InHandMade

LEMMA SkipInvalidSpec ==
    ASSUME TypeInv, SpecInv, SkipInvalid
    PROVE  SpecInv'
  <1>1. th[0].pc = "create" /\ th[0].spec # <<>> /\ UNCHANGED <<node, obj>>
    BY DEF SkipInvalid
  <1>2. th'[0].pc = "create" /\ th'[0].spec = Tail(th[0].spec) /\ th'[0].node = th[0].node
    BY SetupMoves DEF GoesOn
  <1>3. Suffix' /\ HeldMade'
    BY <1>1, <1>2, EntryTaken
  <1> QED
    BY <1>2, <1>3 DEF SpecInv, InHandMade, Handling

LEMMA NewFlowSensorSpec ==
    ASSUME TypeInv, SpecInv, NewFlowSensor, ~UNCHANGED <<obj, registered, th>>
    PROVE  SpecInv'
  <1> DEFINE o == [topic |-> <<th[0].node, Entry>>, token |-> FALSE, total |-> 0]
  <1>0. PICK x : x = Len(obj')
    OBVIOUS
  <1>1. /\ th[0].pc = "create" /\ th[0].spec # <<>> /\ Entry # Invalid /\ UNCHANGED node
        /\ obj' = Append(obj, o)
    BY DEF NewFlowSensor
  <1>2. /\ th'[0].pc = "send" /\ th'[0].spec = Tail(th[0].spec) /\ th'[0].node = th[0].node
        /\ th'[0].queue = <<x>>
    BY <1>0, SetupMoves DEF GoesOn
  <1>3. o \in FlowSensor /\ o.topic = <<th[0].node, Entry>>
    BY <1>1, SpecsTyped DEF FlowSensor, Topics, Working
  <1> HIDE DEF o
  <1>4. obj'[x] = o /\ \A y \in SensorIds : obj'[y] = obj[y]
    BY <1>0, <1>1, <1>3, NewObject
  <1>5. /\ Suffix' /\ HeldMade'
        /\ Done(th[0].node)' \in 1 .. Len(node[th[0].node].spec)
        /\ node[th[0].node].spec[Done(th[0].node)'] = Entry
    BY <1>1, <1>2, <1>4, EntryTaken
  <1>6. InHand' = {x}
    BY <1>2, ShortElems DEF InHand, Handling, Elems
  <1>7. InHandMade'
    <2> SUFFICES ASSUME NEW n \in Nodes, NEW j \in Nat, n = th'[0].node, j = Done(n)'
                 PROVE  MadeFor(x, n, j)'
      BY <1>6 DEF InHandMade
    <2>1. n = th[0].node /\ j \in 1 .. Len(node[n].spec) /\ node[n].spec[j] = Entry
      BY <1>2, <1>5
    <2>2. j \in 1 .. Done(n)'
      BY <2>1
    <2> QED
      BY <1>1, <1>3, <1>4, <2>1, <2>2 DEF MadeFor
  <1> QED
    BY <1>5, <1>7 DEF SpecInv

LEMMA AppendSensorSpec ==
    ASSUME TypeInv, MetricsInv, SpecInv, AppendSensor
    PROVE  SpecInv'
  <1>0. PICK n \in Nodes : n = th[0].node
    BY SpecsTyped DEF AppendSensor, Working
  <1> DEFINE x == Head(th[0].queue)
  <1>1. /\ th[0].pc = "subscribed" /\ UNCHANGED obj
        /\ node' = [node EXCEPT ![n].sensors = Append(@, x)]
    BY <1>0 DEF AppendSensor
  <1>2. th'[0].pc = "create" /\ th'[0].spec = th[0].spec /\ th'[0].node = n
    BY <1>0, SetupMoves DEF GoesOn
  <1>3. Building /\ Building' /\ th'[0].pc \notin Handling /\ th[0].pc \in Handling
    BY <1>1, <1>2 DEF Building, Handling
  <1>4. \A m \in Nodes : node'[m].spec = node[m].spec /\ Done(m)' = Done(m)
    <2>1. \A m \in Nodes : node'[m].spec = node[m].spec
      BY <1>1, SpecsTyped DEF NodeObject
    <2> QED
      BY <1>0, <1>2, <1>3, <2>1 DEF Done
  <1>5. InHand = {x}
    <2>1. th[0].queue = <<x>>
      BY <1>3 DEF TypeInv, Places
    <2> QED
      BY <1>3, <2>1, ShortElems DEF InHand
  <1>6. \A m \in Nodes : Held(m)' \subseteq Held(m) \cup (IF m = n THEN {x} ELSE {})
    <2>1. \A m \in Nodes : Held(m) = Elems(node[m].sensors) /\ Held(m)' = Elems(node'[m].sensors)
      BY <1>1, <1>2 DEF Held, Elems
    <2>2. \A m \in Nodes : m # n => node'[m] = node[m]
      BY <1>1, SpecsTyped
    <2>3. node'[n].sensors = Append(node[n].sensors, x)
      BY <1>1, SpecsTyped DEF NodeObject
    <2>4. node[n].sensors \in Seq(Nat) /\ x \in Nat
      <3>1. node[n].sensors \in Seq(Nat)
        BY SpecsTyped DEF NodeObject
      <3>2. x \in SensorIds
        BY <1>5, LiveSensors
      <3> QED
        BY <3>1, <3>2 DEF SensorIds
    <2> HIDE DEF x
    <2>5. Elems(node'[n].sensors) = Elems(node[n].sensors) \cup {x}
      BY <2>3, <2>4, AppendElems
    <2> QED
      BY <2>1, <2>2, <2>5
  <1> HIDE DEF x
  <1>7. HeldMade'
    <2> SUFFICES ASSUME NEW m \in Nodes, NEW y \in Held(m)' PROVE \E j \in Nat : MadeFor(y, m, j)'
      BY DEF HeldMade
    <2>1. \A j : MadeFor(y, m, j) => MadeFor(y, m, j)'
      BY <1>1, <1>4 DEF MadeFor
    <2>2. CASE y \in Held(m)
      BY <2>1, <2>2 DEF SpecInv, HeldMade
    <2>3. CASE m = n /\ y = x
      <3>1. Done(n) \in Nat
        BY <1>0, <1>3, SpecsTyped DEF SpecInv, Suffix, Done
      <3>2. MadeFor(x, n, Done(n))
        BY <1>0, <1>3, <1>5, <3>1 DEF SpecInv, InHandMade
      <3> QED
        BY <2>1, <2>3, <3>1, <3>2
    <2> QED
      BY <1>6, <2>2, <2>3
  <1>8. Suffix'
    BY <1>0, <1>2, <1>3, <1>4 DEF SpecInv, Suffix
  <1> QED
    BY <1>3, <1>7, <1>8 DEF SpecInv, InHandMade

LEMMA SetupDoneSpec ==
    ASSUME TypeInv, SpecInv, SetupDone, ~UNCHANGED <<node, th>>
    PROVE  SpecInv'
  <1>1. /\ th[0].pc = "create" /\ th[0].spec = <<>> /\ UNCHANGED obj
        /\ node' = [node EXCEPT ![th[0].node].known = TRUE]
    BY DEF SetupDone
  <1>2. th'[0].pc = "idle"
    BY SetupMoves DEF Idle
  <1>3. ~Building' /\ th'[0].pc \notin Handling
    BY <1>2 DEF Building, Handling
  <1>4. \A n \in Nodes : node'[n].spec = node[n].spec /\ Held(n)' = Held(n)
    <2>1. \A n \in Nodes : node'[n].spec = node[n].spec /\ node'[n].sensors = node[n].sensors
      BY <1>1, SpecsTyped DEF NodeObject
    <2> QED
      BY <1>1, <1>2, <2>1 DEF Held, Elems
  <1>5. \A n \in Nodes : Done(n)' = Done(n)
    <2>1. Len(th[0].spec) = 0
      BY <1>1
    <2>2. \A n \in Nodes : Done(n) = Len(node[n].spec)
      BY <2>1, SpecsTyped DEF Done
    <2> QED
      BY <1>3, <1>4, <2>2 DEF Done
  <1>6. HeldMade'
    <2>1. \A n \in Nodes : \A x, j : MadeFor(x, n, j) => MadeFor(x, n, j)'
      BY <1>1, <1>4, <1>5 DEF MadeFor
    <2> QED
      BY <1>4, <2>1 DEF SpecInv, HeldMade
  <1> QED
    BY <1>3, <1>6 DEF SpecInv, Suffix, InHandMade

LEMMA SpecNext == TypeInv /\ MetricsInv /\ SpecInv /\ [Next]_vars => SpecInv'
  <1> SUFFICES ASSUME TypeInv, MetricsInv, SpecInv, [Next]_vars PROVE SpecInv'
    OBVIOUS
  <1>1. ASSUME ViewKept, TopicsKept, SpecsKept PROVE SpecInv'
    <2>1. /\ Building' = Building /\ (Building => th'[0].node = th[0].node)
          /\ th'[0].pc \in Handling => th[0].pc \in Handling
      BY <1>1 DEF ViewKept, Building, Handling
    <2> QED
      BY <1>1, <2>1, ViewSame, SpecKept
  <1>2. CASE Shutdown
    <2>1. th[0].queue # <<>> /\ Unsubscribe(Head(th[0].queue)) /\ UNCHANGED node
          /\ th[0].pc = "shutdown"
      BY <1>2 DEF Shutdown
    <2>2. TopicsKept
      <3>1. Head(th[0].queue) \in SensorIds
        BY <2>1, LiveSensors, ThreadFacts
      <3> QED
        BY <2>1, <3>1, UnsubscribeDoes
    <2>3. th'[0].pc = "shutdown" /\ th'[0].node = th[0].node /\ th'[0].spec = th[0].spec
      BY <1>2, SetupMoves DEF GoesOn
    <2>4. SpecsKept /\ \A n \in Nodes : Held(n)' = Held(n)
      BY <2>1, <2>3 DEF SpecsKept, Held, Elems
    <2>5. Building' = Building /\ th'[0].pc \notin Handling
      BY <2>1, <2>3 DEF Building, Handling
    <2> QED
      BY <2>2, <2>3, <2>4, <2>5, SpecKept
  <1>3. CASE UNCHANGED <<node, th, obj>>
    <2>1. ViewKept /\ SpecsKept /\ TopicsKept
      BY <1>3, Unchanged DEF ViewKept, SpecsKept
    <2> QED
      BY <1>1, <2>1
  <1>4. CASE NewFlowSensor
    BY <1>3, <1>4, NewFlowSensorSpec DEF NewFlowSensor
  <1>5. CASE SetupDone
    <2>1. UNCHANGED obj
      BY <1>5 DEF SetupDone
    <2> QED
      BY <1>3, <1>5, <2>1, SetupDoneSpec
  <1>6. CASE SkipInvalid \/ ShutdownDone \/ AppendSensor
    BY <1>6, SkipInvalidSpec, ShutdownDoneSpec, AppendSensorSpec
  <1>7. CASE \E n \in Nodes : \E spec \in Specs[n] : GotHello(n, spec)
    BY <1>7, GotHelloSpec
  <1> QED
    BY <1>1, <1>2, <1>4, <1>5, <1>6, <1>7, ViewSteps, SpecSteps

-----------------------------------------------------------------------------
(* The process panics on shared labels only *)

\* What can crash it.
LEMMA CrashSteps ==
    ASSUME [Next]_vars, crashed' # crashed
    PROVE  /\ UNCHANGED <<node, overlapped>>
           /\ \/ \E t \in Threads : WaitedForNothing(t)
              \/ /\ NewFlowSensor /\ Label(<<th[0].node, Entry>>) \in registered
              \/ /\ SetupDone /\ \E t \in Threads \ {0} : Working(t)
  <1> USE DEF broker, history
  <1>1. ~UNCHANGED crashed
    OBVIOUS
  <1>2. ASSUME NEW t \in Threads, Subscribing(t) PROVE WaitedForNothing(t) /\ UNCHANGED <<node, overlapped>>
    <2>1. ~SubscribeAgain(t) /\ ~SubscribeSend(t) /\ ~Waited(t) /\ ~SubscribeFails(t)
      BY <1>1 DEF SubscribeAgain, SubscribeSend, Waited, SubscribeFails
    <2>2. WaitedForNothing(t)
      BY <1>2, <2>1 DEF Subscribing
    <2> QED
      BY <2>2 DEF WaitedForNothing
  <1>3. ASSUME NEW t \in Threads, Resubscribing(t) PROVE FALSE
    <2>1. ~mqttConnected(t) /\ ~ResubscribeDone(t)
      BY <1>1 DEF mqttConnected, ResubscribeDone
    <2>2. \A n \in Nodes : ~ResubscribeNode(t, n)
      BY <1>1 DEF ResubscribeNode
    <2> QED
      BY <1>3, <2>1, <2>2 DEF Resubscribing
  <1>4. ~Shutdown /\ ~ShutdownDone /\ ~SkipInvalid /\ ~AppendSensor
    BY <1>1 DEF Shutdown, ShutdownDone, SkipInvalid, AppendSensor
  <1>5. ASSUME NewFlowSensor
        PROVE  UNCHANGED <<node, overlapped>> /\ Label(<<th[0].node, Entry>>) \in registered
    BY <1>1, <1>5 DEF NewFlowSensor
  <1>6. ASSUME SetupDone
        PROVE  UNCHANGED <<node, overlapped>> /\ \E t \in Threads \ {0} : Working(t)
    BY <1>1, <1>6 DEF SetupDone, Working
  <1>7. ~Connect /\ ~mqttConnLost /\ ~UNCHANGED vars
    BY <1>1 DEF Connect, mqttConnLost, vars
  <1>8. \A n \in Nodes : \A spec \in Specs[n] : ~GotSameHello(n, spec) /\ ~GotHello(n, spec)
    <2> SUFFICES ASSUME NEW n \in Nodes, NEW spec \in Specs[n]
                 PROVE  ~GotSameHello(n, spec) /\ ~GotHello(n, spec)
      OBVIOUS
    <2> QED
      BY ONLY <1>1 DEF GotSameHello, GotHello, broker
  <1>9. \A topic \in Topics : ~GotReport(topic)
    BY <1>1 DEF GotReport
  <1> QED
    BY <1>2, <1>3, <1>4, <1>5, <1>6, <1>7, <1>8, <1>9 DEF Next, Events, Step, SettingUp

\* The label of the next entry is that of a sensor made for an earlier entry, of
\* this node or of another.
LEMMA TakenLabel ==
    ASSUME TypeInv, MetricsInv, SpecInv, NewFlowSensor,
           Label(<<th[0].node, Entry>>) \in registered
    PROVE  SharedLabels
  <1>1. PICK n \in Nodes : n = th[0].node
    BY SpecsTyped DEF NewFlowSensor, Working
  <1>2. th[0].pc = "create" /\ th[0].spec # <<>> /\ Entry # Invalid
    BY DEF NewFlowSensor
  <1>3. PICK x \in Live : LabelOf(x) = Label(<<n, Entry>>)
    BY <1>1 DEF MetricsInv
  <1>4. InHand = {} /\ \A m \in Nodes : Held(m) = Elems(node[m].sensors)
    BY <1>2 DEF InHand, Held, Handling
  <1>5. PICK m \in Nodes : x \in Held(m)
    BY <1>3, <1>4 DEF Live
  <1>6. PICK j \in Nat : MadeFor(x, m, j)
    BY <1>5 DEF SpecInv, HeldMade
  <1>7. obj[x].topic = <<m, node[m].spec[j]>> /\ node[m].spec[j] # Invalid
    <2>1. obj[x] \in FlowSensor
      BY LiveSensors DEF SensorIds
    <2>2. obj[x].topic \in Nodes \X Flows
      BY <2>1 DEF FlowSensor, Topics
    <2>3. obj[x].topic[1] = m /\ obj[x].topic[2] = node[m].spec[j]
      BY <1>4, <1>5, <1>6 DEF MetricsInv, MadeFor
    <2> QED
      BY <2>2, <2>3, HubAssumption
  <1>8. PICK k \in Nat, len \in Nat :
           /\ k = Len(th[0].spec) /\ len = Len(node[n].spec) /\ k > 0 /\ k <= len
           /\ Done(n) = len - k
    BY <1>1, <1>2, SpecsTyped DEF SpecInv, Suffix, Building, Done
  <1>a. k > 0 /\ k <= len
    BY <1>8
  <1>9. /\ Done(n) + 1 \in 1 .. len /\ Entry = node[n].spec[Done(n) + 1]
    <2>1. 1 \in 1 .. k /\ len - k + 1 \in 1 .. len
      BY <1>a
    <2>2. Entry = th[0].spec[1] /\ Building
      BY <1>2, SpecsTyped DEF Building
    <2> QED
      BY <1>1, <1>8, <2>1, <2>2 DEF SpecInv, Suffix
  <1>10. j \in 1 .. Len(node[m].spec) /\ <<m, j>> # <<n, Done(n) + 1>>
    <2>1. CASE m = n
      <3>1. j \in 1 .. (len - k)
        BY <1>6, <1>8, <2>1 DEF MadeFor
      <3>2. j \in 1 .. len /\ j # len - k + 1
        BY <1>a, <3>1
      <3> QED
        BY <1>8, <2>1, <3>2
    <2>2. CASE m # n
      BY <1>1, <1>6, <2>2 DEF MadeFor, Done
    <2> QED
      BY <2>1, <2>2
  <1>11. j \in DOMAIN node[m].spec /\ Done(n) + 1 \in DOMAIN node[n].spec
    <2>1. \A i \in Nodes : DOMAIN node[i].spec = 1 .. Len(node[i].spec)
      BY SpecsTyped
    <2>2. Done(n) + 1 \in 1 .. Len(node[n].spec)
      BY <1>8, <1>9
    <2> QED
      BY <1>10, <2>1, <2>2
  <1>12. Label(<<m, node[m].spec[j]>>) = Label(<<n, node[n].spec[Done(n) + 1]>>)
    BY <1>3, <1>7, <1>9 DEF LabelOf
  <1> QED
    BY <1>2, <1>7, <1>9, <1>10, <1>11, <1>12 DEF SharedLabels

\* A wait finds its token and SetupDone nobody else at work; so MustRegister is
\* the only panic, and it tells of two entries with one label.
THEOREM PanicsOnSharedLabels == Spec => []PanicOnlyOnSharedLabels
  <1>1. Init => SpecInv /\ PanicOnlyOnSharedLabels
    BY SpecInit DEF Init, PanicOnlyOnSharedLabels
  <1>2. HubInv /\ SpecInv /\ PanicOnlyOnSharedLabels /\ [Next]_vars
           => SpecInv' /\ PanicOnlyOnSharedLabels'
    <2> SUFFICES ASSUME HubInv, SpecInv, PanicOnlyOnSharedLabels, [Next]_vars
                 PROVE  SpecInv' /\ PanicOnlyOnSharedLabels'
      OBVIOUS
    <2>1. SpecInv'
      BY SpecNext DEF HubInv
    <2>2. CASE crashed
      <3>1. UNCHANGED vars
        BY <2>2 DEF Next, Events, Step
      <3> QED
        BY <2>1, <3>1 DEF vars, PanicOnlyOnSharedLabels, SharedLabels, Label
    <2>3. CASE ~crashed
      <3> SUFFICES ASSUME crashed', ~overlapped' PROVE SharedLabels'
        BY <2>1 DEF PanicOnlyOnSharedLabels
      <3>1. crashed' # crashed
        BY Zenon, <2>3
      <3>2. UNCHANGED <<node, overlapped>> /\ ~overlapped
        BY <3>1, CrashSteps
      <3>3. TakingTurns
        BY <3>2 DEF HubInv, TurnsInv
      <3>4. \A t \in Threads : ~WaitedForNothing(t)
        BY <3>3 DEF WaitedForNothing, TakingTurns, WaitersHaveTokens
      <3>5. ~(SetupDone /\ \E t \in Threads \ {0} : Working(t))
        <4>1. SetupDone => Working(0) /\ 0 \in Threads
          BY LiveSensors DEF HubInv, SetupDone, Working
        <4> QED
          BY <3>3, <4>1 DEF TakingTurns, OneWorks
      <3>6. SharedLabels
        BY <3>1, <3>4, <3>5, CrashSteps, TakenLabel DEF HubInv
      <3> QED
        BY <3>2, <3>6 DEF SharedLabels, Label
    <2> QED
      BY <2>2, <2>3
  <1> QED
    BY <1>1, <1>2, HubInvariance, PTL DEF Spec

-----------------------------------------------------------------------------
(* Every sensor is subscribed, or some thread is about to *)

\* Thread t will yet subscribe s: it has not come to its node, or has s before it.
PendingIn(t, s) ==
    /\ t # 0 /\ Working(t)
    /\ \/ \E n \in Nodes \ th[t].seen : s \in Elems(node[n].sensors)
       \/ th[t].pc \in {"next", "send"} /\ s \in Elems(th[t].queue)
       \/ th[t].pc = "wait" /\ s \in Elems(Tail(th[t].queue))

\* The thread of the present connection has begun.
Begun == connected /\ th[conns].pc # "start"

\* A thread that has sent its Subscribe finds it done.
Arrived(t) == th[t].pc \in {"wait", "subscribed"} => Subscribed(Head(th[t].queue))

Covered ==
    Begun => /\ \A n \in Nodes : \A s \in Held(n) :
                   Subscribed(s) \/ \E t \in Threads : PendingIn(t, s)
             /\ \A t \in Threads : Arrived(t)

\* A node that is not in the map has no sensors yet, unless it is being set up.
KnownOrNew ==
    \A n \in Nodes : ~node[n].known /\ node[n].sensors # <<>> => Working(0) /\ th[0].node = n

\* A connection's thread visits every node in the map.
DueCovers ==
    \A t \in Threads \ {0} : Working(t) => \A n \in Nodes : node[n].known => n \in th[t].due

\* Who waits on an old connection, another thread will do its work again.
WaitsHere ==
    \A t \in Threads : th[t].pc = "wait" /\ th[t].conn # conns => th[conns].pc = "start" \/ ~connected

SubInv == KnownOrNew /\ (~overlapped => DueCovers /\ WaitsHere /\ Covered)

LEMMA KnownNext == TypeInv /\ KnownOrNew /\ [Next]_vars => KnownOrNew'
  <1> SUFFICES ASSUME TypeInv, KnownOrNew, [Next]_vars PROVE KnownOrNew'
    OBVIOUS
  <1>0. /\ node \in [Nodes -> NodeObject] /\ (Working(0) => th[0].node \in Nodes)
    BY SpecsTyped
  <1>1. CASE ViewKept
    <2>1. Working(0) => Working(0)' /\ th'[0].node = th[0].node
      BY <1>1 DEF ViewKept, Working, Handling
    <2> QED
      BY <1>1, <2>1 DEF KnownOrNew, ViewKept
  <1>2. ASSUME UNCHANGED node, NEW pc \in {"shutdown", "send"}, th'[0].pc = pc, th'[0].node = th[0].node
        PROVE  KnownOrNew'
    BY <1>2 DEF KnownOrNew, Working
  <1>3. CASE Shutdown
    <2>1. UNCHANGED node /\ th'[0].pc = "shutdown" /\ th'[0].node = th[0].node
      BY <1>3, SetupMoves DEF Shutdown, GoesOn
    <2> QED
      BY <1>2, <2>1
  <1>4. CASE NewFlowSensor
    <2>1. UNCHANGED node
      BY <1>4 DEF NewFlowSensor
    <2>2. CASE UNCHANGED th
      BY <2>1, <2>2 DEF KnownOrNew, Working
    <2>3. CASE th'[0].pc = "send" /\ th'[0].node = th[0].node
      BY <1>2, <2>1, <2>3
    <2> QED
      BY <1>4, <2>2, <2>3, SetupMoves DEF GoesOn
  <1>5. ASSUME NEW n \in Nodes, NEW spec \in Specs[n], GotHello(n, spec) PROVE KnownOrNew'
    <2>1. th[0].pc = "idle" /\ node' = [node EXCEPT ![n].spec = spec]
      BY <1>5 DEF GotHello, Dispatchable
    <2>2. th'[0].pc = "shutdown" /\ th'[0].node = n
      BY <1>5, SetupMoves
    <2>3. \A m \in Nodes : node'[m].known = node[m].known /\ node'[m].sensors = node[m].sensors
      BY <1>0, <2>1 DEF NodeObject
    <2>4. \A m \in Nodes : ~(~node[m].known /\ node[m].sensors # <<>>)
      BY <2>1 DEF KnownOrNew, Working
    <2> QED
      BY <2>3, <2>4 DEF KnownOrNew
  <1>6. ASSUME ShutdownDone \/ AppendSensor PROVE KnownOrNew'
    <2>1. /\ th[0].pc \notin {"idle", "start"}
          /\ \E q : node' = [node EXCEPT ![th[0].node].sensors = q]
      BY <1>6 DEF ShutdownDone, AppendSensor
    <2>2. th'[0].pc = "create" /\ th'[0].node = th[0].node
      BY <1>6, SetupMoves DEF GoesOn
    <2>3. \A m \in Nodes : /\ node'[m].known = node[m].known
                           /\ m # th[0].node => node'[m].sensors = node[m].sensors
      BY <1>0, <2>1 DEF NodeObject
    <2> QED
      BY <2>2, <2>3 DEF KnownOrNew, Working
  <1>7. CASE SetupDone
    <2>1. CASE UNCHANGED <<node, th>>
      BY <2>1 DEF KnownOrNew, Working
    <2>2. CASE ~UNCHANGED <<node, th>>
      <3>1. th[0].pc = "create" /\ node' = [node EXCEPT ![th[0].node].known = TRUE]
        BY <1>7, <2>2 DEF SetupDone
      <3>2. /\ th[0].node \in Nodes /\ node'[th[0].node].known
            /\ \A m \in Nodes : m # th[0].node => node'[m] = node[m]
        BY <1>0, <3>1 DEF NodeObject, Working
      <3> QED
        BY <3>2 DEF KnownOrNew
    <2> QED
      BY <2>1, <2>2
  <1> QED
    BY <1>1, <1>3, <1>4, <1>5, <1>6, <1>7, ViewSteps

\* A step of thread t while no other works.
LEMMA CoveredTurn ==
    ASSUME TypeInv, NEW t \in Threads, OnlyMoves(t), \A u \in Threads \ {t} : ~Working(u),
           t # 0 => \A n \in Nodes : node'[n].known => n \in th'[t].due,
           th'[t].pc = "wait" => th'[t].conn = conns' \/ (th[t].pc = "wait" /\ UNCHANGED <<th, conns, connected>>),
           Begun' => /\ \A n \in Nodes : \A s \in Held(n)' : Subscribed(s)' \/ PendingIn(t, s)'
                     /\ Arrived(t)',
           WaitsHere
    PROVE  DueCovers' /\ WaitsHere' /\ Covered'
  <1>1. \A u \in Threads \ {t} : ~Working(u)' /\ th'[u].pc \notin {"wait", "subscribed"}
    BY DEF OnlyMoves, Working
  <1>2. DueCovers'
    BY <1>1 DEF DueCovers
  <1>3. WaitsHere'
    BY <1>1 DEF WaitsHere
  <1>4. Covered'
    BY <1>1 DEF Covered, Arrived
  <1> QED
    BY <1>2, <1>3, <1>4

\* A connection's thread had not begun anew.
LEMMA BegunBefore ==
    ASSUME TypeInv, NEW t \in Threads, OnlyMoves(t), th[t].pc # "start", UNCHANGED conns,
           connected' => connected, Begun'
    PROVE  Begun
  BY DEF Begun, OnlyMoves, TypeInv, OthersTyped

\* Two live sensors never have one topic.
LEMMA TopicsDiffer ==
    ASSUME MetricsInv, NEW x \in Live, NEW s \in Live, s # x
    PROVE  obj[s].topic # obj[x].topic
  BY DEF MetricsInv, LabelOf

\* The other sensors stay subscribed, as long as the connection does.
LEMMA UnsubscribeOthers ==
    ASSUME TypeInv, MetricsInv, NEW x \in Live, NEW s \in Live, s # x, Unsubscribe(x), connected',
           Subscribed(s)
    PROVE  Subscribed(s)'
  <1>1. x \in SensorIds /\ s \in SensorIds /\ obj[s].topic \in Topics
    <2>1. x \in SensorIds /\ s \in SensorIds /\ obj \in Seq(FlowSensor)
      BY LiveSensors
    <2>2. obj[s] \in FlowSensor
      BY <2>1 DEF SensorIds
    <2> QED
      BY <2>1, <2>2 DEF FlowSensor
  <1>2. obj[s].topic # obj[x].topic
    BY TopicsDiffer
  <1>3. obj'[s].topic = obj[s].topic /\ routes'[obj[s].topic] = routes[obj[s].topic]
    BY <1>1, <1>2, UnsubscribeDoes DEF TopicsKept
  <1>4. subs' = subs \/ subs' = subs \ {obj[x].topic}
    BY Zenon DEF Unsubscribe, Disconnected
  <1> QED
    BY <1>2, <1>3, <1>4 DEF Subscribed

\* What holds before a step while threads take turns.
Covering == TakingTurns /\ DueCovers /\ WaitsHere /\ Covered

\* The client's state is untouched: what was subscribed still is.
SessionKept == UNCHANGED <<connected, conns, subs, routes>> /\ TopicsKept

LEMMA StillSubscribed ==
    ASSUME SessionKept, NEW s \in SensorIds, Subscribed(s)
    PROVE  Subscribed(s)'
  BY DEF SessionKept, TopicsKept, Subscribed

\* While thread t works, only it can have a sensor before it.
LEMMA PendingHere ==
    ASSUME TypeInv, Covering, Begun, NEW t \in Threads, \A u \in Threads \ {t} : ~Working(u)
    PROVE  /\ \A n \in Nodes : \A s \in Held(n) : Subscribed(s) \/ PendingIn(t, s)
           /\ Arrived(t)
  BY DEF Covering, Covered, PendingIn

LEMMA AgainCovers ==
    ASSUME TypeInv, MetricsInv, Covering, NEW t \in Threads, SubscribeAgain(t),
           \A n \in Nodes : Held(n)' = Held(n)
    PROVE  DueCovers' /\ WaitsHere' /\ Covered'
  <1> DEFINE q == th[t].queue
  <1>1. /\ t # 0 /\ th[t].pc = "next" /\ q # <<>>
        /\ OnlyMoves(t) /\ th'[t].pc = "send" /\ th'[t].queue = q
        /\ th'[t].seen = th[t].seen /\ th'[t].due = th[t].due
    BY AgainMoves DEF GoesOn
  <1>2. /\ UNCHANGED <<node, conns>>
        /\ Unsubscribe(Head(q)) \/ UNCHANGED <<connected, subs, hello_sub, routes, obj>>
    BY DEF SubscribeAgain
  <1>3. Working(t) /\ Working(t)' /\ \A u \in Threads \ {t} : ~Working(u)
    BY <1>1 DEF Working, Covering, TakingTurns, OneWorks
  <1>4. PICK x : x = Head(q)
    OBVIOUS
  <1>5. x \in Elems(q) /\ x \in Live
    BY <1>1, <1>3, <1>4, ThreadFacts DEF Covering, TakingTurns, QueuesLive
  <1>6. ASSUME NEW s, PendingIn(t, s) PROVE PendingIn(t, s)'
    BY <1>1, <1>2, <1>3, <1>6 DEF PendingIn, Elems
  <1>7. PendingIn(t, x)'
    BY <1>1, <1>3, <1>5 DEF PendingIn, Elems
  <1>8. connected' => connected
    BY Zenon, <1>2 DEF Unsubscribe, Disconnected
  <1>9. ASSUME Begun' PROVE (\A n \in Nodes : \A s \in Held(n)' : Subscribed(s)' \/ PendingIn(t, s)')
                            /\ Arrived(t)'
    <2>1. Begun /\ connected'
      BY <1>1, <1>2, <1>8, <1>9, BegunBefore DEF Begun
    <2>2. ASSUME NEW n \in Nodes, NEW s \in Held(n)', ~PendingIn(t, s)' PROVE Subscribed(s)'
      <3>1. s \in Held(n) /\ s \in Live /\ s # x /\ s \in SensorIds
        BY <1>7, <2>2, LiveSensors DEF Live
      <3>2. Subscribed(s)
        BY <1>3, <1>6, <2>1, <2>2, <3>1, PendingHere
      <3>3. CASE Unsubscribe(Head(q))
        BY <1>4, <1>5, <2>1, <3>1, <3>2, <3>3, UnsubscribeOthers
      <3>4. CASE UNCHANGED <<connected, subs, hello_sub, routes, obj>>
        BY <3>2, <3>4 DEF Subscribed
      <3> QED
        BY <1>2, <3>3, <3>4
    <2>3. Arrived(t)'
      BY <1>1 DEF Arrived
    <2> QED
      BY <2>2, <2>3
  <1>10. \A n \in Nodes : node'[n].known => n \in th'[t].due
    BY <1>1, <1>2, <1>3 DEF Covering, DueCovers
  <1> QED
    BY <1>1, <1>3, <1>9, <1>10, CoveredTurn DEF Covering

LEMMA SendCovers ==
    ASSUME TypeInv, MetricsInv, Covering, NEW t \in Threads, SubscribeSend(t),
           \A n \in Nodes : Held(n)' = Held(n)
    PROVE  DueCovers' /\ WaitsHere' /\ Covered'
  <1> DEFINE q == th[t].queue
  <1>1. /\ th[t].pc = "send" /\ q # <<>>
        /\ OnlyMoves(t) /\ th'[t].pc = "wait" /\ th'[t].queue = q /\ th'[t].conn = conns
        /\ th'[t].seen = th[t].seen /\ th'[t].due = th[t].due
    BY SendMoves DEF GoesOn
  <1>2. PICK x : x = Head(q)
    OBVIOUS
  <1>3. /\ UNCHANGED <<node, conns, connected>>
        /\ obj' = [obj EXCEPT ![x].token = TRUE]
        /\ routes' = [routes EXCEPT ![obj[x].topic] = x]
        /\ subs' = subs \cup {obj[x].topic}
    BY <1>2 DEF SubscribeSend
  <1>4. Working(t) /\ Working(t)' /\ \A u \in Threads \ {t} : ~Working(u)
    BY <1>1 DEF Working, Covering, TakingTurns, OneWorks
  <1>5. /\ x \in Elems(q) /\ x \in SensorIds /\ x \in Live
        /\ Elems(q) = {x} \cup Elems(Tail(q))
    <2>1. x \in Elems(q) /\ x \in SensorIds /\ Elems(q) = {x} \cup Elems(Tail(q))
      BY <1>1, <1>2, ThreadFacts
    <2>2. t # 0 => x \in Live
      BY <1>4, <2>1 DEF Covering, TakingTurns, QueuesLive
    <2>3. t = 0 => x \in Live
      BY <1>1, <2>1 DEF Live, InHand, Handling
    <2> QED
      BY <2>1, <2>2, <2>3
  <1>6. TopicsKept /\ routes \in [Topics -> Nat] /\ obj[x].topic \in Topics
    <2>1. obj \in Seq(FlowSensor) /\ routes \in [Topics -> Nat]
      BY DEF TypeInv, References
    <2>2. obj[x] \in FlowSensor
      BY <1>5, <2>1 DEF SensorIds
    <2> QED
      BY <1>3, <1>5, <2>1, <2>2, TokenChange DEF FlowSensor
  <1>7. Subscribed(x)'
    BY <1>3, <1>5, <1>6 DEF Subscribed, TopicsKept
  <1>8. ASSUME NEW s \in Live, s # x, Subscribed(s) PROVE Subscribed(s)'
    <2>1. obj[s].topic # obj[x].topic /\ s \in SensorIds
      BY <1>5, <1>8, TopicsDiffer, LiveSensors
    <2> QED
      BY <1>3, <1>6, <1>8, <2>1 DEF Subscribed, TopicsKept
  <1>9. ASSUME NEW s, s # x, PendingIn(t, s) PROVE PendingIn(t, s)'
    <2>1. t # 0 /\ ((\E n \in Nodes \ th[t].seen : s \in Elems(node[n].sensors)) \/ s \in Elems(q))
      BY <1>1, <1>9 DEF PendingIn
    <2>2. CASE \E n \in Nodes \ th[t].seen : s \in Elems(node[n].sensors)
      BY <1>1, <1>3, <1>4, <2>1, <2>2 DEF PendingIn, Elems
    <2>3. CASE s \in Elems(q)
      <3>1. s \in Elems(Tail(q))
        BY <1>5, <1>9, <2>3
      <3>2. th'[t].pc = "wait" /\ s \in Elems(Tail(th'[t].queue))
        BY <1>1, <3>1
      <3> QED
        BY <1>4, <2>1, <3>2 DEF PendingIn, Elems
    <2> QED
      BY <2>1, <2>2, <2>3
  <1>10. ASSUME Begun' PROVE (\A n \in Nodes : \A s \in Held(n)' : Subscribed(s)' \/ PendingIn(t, s)')
                             /\ Arrived(t)'
    <2>1. Begun
      BY <1>1, <1>3, <1>10, BegunBefore
    <2>2. ASSUME NEW n \in Nodes, NEW s \in Held(n)', s # x PROVE Subscribed(s)' \/ PendingIn(t, s)'
      <3>1. s \in Held(n) /\ s \in Live
        BY <2>2 DEF Live
      <3> QED
        BY <1>4, <1>8, <1>9, <2>1, <2>2, <3>1, PendingHere
    <2>3. Arrived(t)'
      BY <1>1, <1>2, <1>7 DEF Arrived, Subscribed
    <2> QED
      BY <1>7, <2>2, <2>3
  <1>11. t # 0 => \A n \in Nodes : node'[n].known => n \in th'[t].due
    BY <1>1, <1>3, <1>4 DEF Covering, DueCovers
  <1> QED
    BY <1>1, <1>3, <1>4, <1>10, <1>11, CoveredTurn DEF Covering

\* A Subscribe that fails leaves a connection that is no longer.
LEMMA ReturnCovers ==
    ASSUME TypeInv, MetricsInv, Covering, NEW t \in Threads, Waited(t) \/ SubscribeFails(t),
           \A n \in Nodes : Held(n)' = Held(n), TopicsKept
    PROVE  DueCovers' /\ WaitsHere' /\ Covered'
  <1> DEFINE q == th[t].queue
  <1> USE DEF broker, history
  <1>1. /\ th[t].pc \in {"send", "wait"} /\ Return(t) /\ UNCHANGED <<node, routes, connected, conns, subs>>
    BY DEF Waited, SubscribeFails
  <1>2. /\ q # <<>> /\ OnlyMoves(t)
        /\ th'[t].seen = th[t].seen /\ th'[t].due = th[t].due
        /\ t = 0 => th'[t].pc = "subscribed" /\ th'[t].queue = q
        /\ t # 0 => th'[t].pc = "next" /\ th'[t].queue = Tail(q)
    BY <1>1, ReturnMoves DEF GoesOn
  <1>3. Working(t) /\ Working(t)' /\ \A u \in Threads \ {t} : ~Working(u)
    BY <1>1, <1>2 DEF Working, Covering, TakingTurns, OneWorks
  <1>4. ASSUME Begun' PROVE Begun /\ th[t].pc = "wait"
    <2>1. Begun
      BY <1>1, <1>2, <1>4, BegunBefore
    <2>2. th[t].pc # "wait" => ~connected
      BY <1>1 DEF Waited, SubscribeFails
    <2> QED
      BY <2>1, <2>2 DEF Begun
  <1>5. SessionKept
    BY <1>1 DEF SessionKept
  <1>6. ASSUME Begun' PROVE (\A n \in Nodes : \A s \in Held(n)' : Subscribed(s)' \/ PendingIn(t, s)')
                            /\ Arrived(t)'
    <2>1. Begun /\ th[t].pc = "wait" /\ Subscribed(Head(q))
      BY <1>3, <1>4, <1>6, PendingHere DEF Arrived
    <2>2. ASSUME NEW n \in Nodes, NEW s \in Held(n)' PROVE Subscribed(s)' \/ PendingIn(t, s)'
      <3>1. s \in Held(n) /\ s \in SensorIds
        BY <2>2, LiveSensors
      <3>2. CASE Subscribed(s)
        BY <1>5, <3>1, <3>2, StillSubscribed
      <3>3. CASE PendingIn(t, s)
        BY <1>1, <1>2, <1>3, <2>1, <3>3 DEF PendingIn, Elems
      <3> QED
        BY <1>3, <2>1, <3>1, <3>2, <3>3, PendingHere
    <2>3. Arrived(t)'
      <3>1. PICK x : x = Head(q)
        OBVIOUS
      <3>2. x \in SensorIds
        BY <1>2, <3>1, ThreadFacts
      <3>3. Subscribed(x)'
        BY <1>5, <2>1, <3>1, <3>2, StillSubscribed
      <3> QED
        BY <1>2, <3>1, <3>3 DEF Arrived, Subscribed
    <2> QED
      BY <2>2, <2>3
  <1>7. t # 0 => \A n \in Nodes : node'[n].known => n \in th'[t].due
    BY <1>1, <1>2, <1>3 DEF Covering, DueCovers
  <1>8. th'[t].pc # "wait"
    BY <1>2
  <1> QED
    BY <1>2, <1>3, <1>6, <1>7, <1>8, CoveredTurn DEF Covering

LEMMA ResubscribingCovers ==
    ASSUME TypeInv, MetricsInv, RestInv, KnownOrNew, Covering, NEW t \in Threads, Resubscribing(t),
           mqttConnected(t) => \A u \in Threads \ {t} : ~Working(u)
    PROVE  DueCovers' /\ WaitsHere' /\ Covered'
  <1>1. UNCHANGED <<node, obj, routes, connected, conns, subs>> /\ (~mqttConnected(t) => Working(t))
    <2>1. ASSUME mqttConnected(t) PROVE UNCHANGED <<node, obj, routes, connected, conns, subs>>
      BY <2>1 DEF mqttConnected
    <2>2. ASSUME ResubscribeDone(t)
          PROVE  UNCHANGED <<node, obj, routes, connected, conns, subs>> /\ Working(t)
      BY <2>2 DEF ResubscribeDone, Working, broker
    <2>3. ASSUME NEW n \in Nodes, ResubscribeNode(t, n)
          PROVE  UNCHANGED <<node, obj, routes, connected, conns, subs>> /\ Working(t)
      BY <2>3 DEF ResubscribeNode, Working, broker
    <2> QED
      BY <2>1, <2>2, <2>3 DEF Resubscribing
  <1>2. t # 0 /\ OnlyMoves(t) /\ th'[t].pc \in {"next", "idle"}
    BY ConnectionMoves DEF Resubscribing, Idle
  <1>3. \A u \in Threads \ {t} : ~Working(u)
    BY <1>1 DEF Covering, TakingTurns, OneWorks
  <1>4. /\ th[0].pc \in {"idle", "start"} /\ th'[0].pc \in {"idle", "start"}
        /\ \A n \in Nodes : Held(n) = Elems(node[n].sensors) /\ Held(n)' = Elems(node[n].sensors)
    <2>1. 0 \in Threads \ {t}
      BY <1>2, LiveSensors
    <2>2. th'[0] = th[0] /\ th[0].pc \in {"idle", "start"}
      BY <1>2, <1>3, <2>1 DEF OnlyMoves, Working
    <2> QED
      BY <1>1, <2>2 DEF Held, Elems
  <1>5. SessionKept
    BY <1>1, Unchanged DEF SessionKept
  <1>6. Arrived(t)'
    BY <1>2 DEF Arrived
  <1>7. ASSUME \A n \in Nodes : node[n].known => n \in th'[t].due,
               Begun' => \A n \in Nodes : \A s \in Held(n)' : Subscribed(s)' \/ PendingIn(t, s)'
        PROVE  DueCovers' /\ WaitsHere' /\ Covered'
    BY <1>1, <1>2, <1>3, <1>6, <1>7, CoveredTurn DEF Covering
  <1>8. CASE mqttConnected(t)
    <2>1. /\ th'[t].pc = "next" /\ th'[t].seen = {} /\ th'[t].due = {n \in Nodes : node[n].known}
      BY <1>8, ConnectionMoves DEF RestInv, Rested, Working
    <2>2. \A n \in Nodes : \A s \in Held(n)' : PendingIn(t, s)'
      BY <1>1, <1>2, <1>4, <2>1 DEF PendingIn, Working, Elems
    <2> QED
      BY <1>7, <2>1, <2>2
  <1>9. ASSUME ~mqttConnected(t) PROVE th[t].pc = "next" /\ th[t].queue = <<>> /\ (Begun' => Begun)
    <2>1. th[t].pc = "next" /\ th[t].queue = <<>>
      BY <1>9, ConnectionMoves DEF Resubscribing
    <2> QED
      BY <1>1, <1>2, <2>1, BegunBefore
  <1>10. ASSUME ~mqttConnected(t), Begun', NEW n \in Nodes, NEW s \in Held(n)'
         PROVE  \/ Subscribed(s)'
                \/ \E m \in Nodes \ th[t].seen : s \in Elems(node[m].sensors)
    <2>1. Begun /\ s \in Held(n) /\ s \in SensorIds
      BY <1>4, <1>9, <1>10, LiveSensors
    <2>2. Subscribed(s) \/ PendingIn(t, s)
      BY <1>3, <2>1, PendingHere
    <2>3. CASE Subscribed(s)
      BY <1>5, <2>1, <2>3, StillSubscribed
    <2>4. CASE PendingIn(t, s)
      BY <1>9, <1>10, <2>4, ShortElems DEF PendingIn
    <2> QED
      BY <2>2, <2>3, <2>4
  <1>11. ASSUME NEW m \in Nodes, ResubscribeNode(t, m) PROVE DueCovers' /\ WaitsHere' /\ Covered'
    <2>1. /\ th[t].pc = "next" /\ th'[t].pc = "next" /\ th'[t].queue = node[m].sensors
          /\ th'[t].seen = th[t].seen \cup {m} /\ th'[t].due = th[t].due
      BY <1>11, ConnectionMoves
    <2>2. ~mqttConnected(t) /\ Working(t)
      BY <2>1 DEF mqttConnected, Working
    <2>3. ASSUME NEW s, NEW k \in Nodes \ th[t].seen, s \in Elems(node[k].sensors)
          PROVE  PendingIn(t, s)'
      <3>1. CASE k = m
        BY <1>2, <2>1, <2>3, <3>1 DEF PendingIn, Working, Elems
      <3>2. CASE k # m
        BY <1>1, <1>2, <2>1, <2>3, <3>2 DEF PendingIn, Working, Elems
      <3> QED
        BY <3>1, <3>2
    <2>4. Begun' => \A n \in Nodes : \A s \in Held(n)' : Subscribed(s)' \/ PendingIn(t, s)'
      BY <1>10, <2>2, <2>3
    <2>5. \A n \in Nodes : node[n].known => n \in th'[t].due
      BY <1>2, <2>1, <2>2 DEF Covering, DueCovers
    <2> QED
      BY <1>7, <2>4, <2>5
  <1>12. CASE ResubscribeDone(t)
    <2>1. th[t].pc = "next" /\ th'[t] = Idle /\ th[t].due \subseteq th[t].seen
      BY <1>12, ConnectionMoves DEF ResubscribeDone
    <2>2. ~mqttConnected(t) /\ Working(t)
      BY <2>1 DEF mqttConnected, Working
    <2>3. \A m \in Nodes \ th[t].seen : node[m].sensors = <<>>
      BY <1>2, <1>4, <2>1, <2>2 DEF KnownOrNew, Covering, DueCovers, Working
    <2>4. Begun' => \A n \in Nodes : \A s \in Held(n)' : Subscribed(s)'
      BY <1>10, <2>2, <2>3, ShortElems
    <2>5. \A u \in Threads : ~Working(u)'
      BY <1>2, <1>3, <2>1 DEF OnlyMoves, Working, Idle
    <2>6. DueCovers' /\ WaitsHere' /\ \A u \in Threads : Arrived(u)'
      BY <2>5 DEF DueCovers, WaitsHere, Arrived, Working
    <2> QED
      BY <2>4, <2>6 DEF Covered
  <1> QED
    BY <1>8, <1>11, <1>12 DEF Resubscribing

\* SetupSensors gives a node no sensor but the one that was just subscribed.
LEMMA SetupHeld ==
    ASSUME TypeInv, SettingUp, NEW n \in Nodes, NEW s \in Held(n)'
    PROVE  s \in Held(n) \/ (AppendSensor /\ s = Head(th[0].queue))
  <1>1. node \in [Nodes -> NodeObject]
    BY SpecsTyped
  <1>2. ASSUME node'[n].sensors = node[n].sensors, th'[0].node = th[0].node,
               th[0].pc = "shutdown" => th'[0].pc = "shutdown"
        PROVE  s \in Held(n)
    BY <1>2 DEF Held, Elems
  <1>3. ASSUME UNCHANGED <<node, th>> PROVE s \in Held(n)
    BY <1>2, <1>3
  <1>4. CASE Shutdown
    <2>1. UNCHANGED node /\ th'[0].pc = "shutdown" /\ th'[0].node = th[0].node
      BY <1>4, SetupMoves DEF Shutdown, GoesOn
    <2> QED
      BY <1>2, <2>1
  <1>5. CASE SkipInvalid
    <2>1. UNCHANGED node /\ th[0].pc = "create" /\ th'[0].node = th[0].node
      BY <1>5, SetupMoves DEF SkipInvalid, GoesOn
    <2> QED
      BY <1>2, <2>1
  <1>6. CASE NewFlowSensor
    <2>1. UNCHANGED node /\ th[0].pc = "create" /\ (UNCHANGED th \/ th'[0].node = th[0].node)
      BY <1>6, SetupMoves DEF NewFlowSensor, GoesOn
    <2> QED
      BY <1>2, <1>3, <2>1
  <1>7. CASE ShutdownDone
    <2>1. /\ th[0].node \in Nodes /\ node' = [node EXCEPT ![th[0].node].sensors = <<>>]
          /\ th'[0].pc = "create"
      BY <1>7, SetupMoves, SpecsTyped DEF ShutdownDone, GoesOn, Working
    <2>2. CASE n = th[0].node
      <3>1. node'[n].sensors = <<>>
        BY <1>1, <2>1, <2>2 DEF NodeObject
      <3>2. Elems(node'[n].sensors) = {}
        BY <3>1, ShortElems
      <3> QED
        BY <2>1, <3>2 DEF Held, Elems
    <2>3. CASE n # th[0].node
      <3>1. node'[n] = node[n]
        BY <1>1, <2>1, <2>3
      <3> QED
        BY <2>1, <2>3, <3>1 DEF Held, Elems
    <2> QED
      BY <2>2, <2>3
  <1>8. CASE AppendSensor
    <2> DEFINE x == Head(th[0].queue)
    <2>1. /\ th[0].pc = "subscribed" /\ th'[0].pc = "create" /\ th[0].queue # <<>>
          /\ node' = [node EXCEPT ![th[0].node].sensors = Append(@, x)]
      <3>1. th[0].pc = "subscribed" /\ node' = [node EXCEPT ![th[0].node].sensors = Append(@, x)]
        BY <1>8 DEF AppendSensor
      <3> QED
        BY <1>8, <3>1, SetupMoves, LiveSensors DEF GoesOn, TypeInv, Places, Handling
    <2>2. x \in Nat
      <3>1. x \in SensorIds
        BY <2>1, LiveSensors, ThreadFacts
      <3> QED
        BY <3>1 DEF SensorIds
    <2> HIDE DEF x
    <2>3. node[n].sensors \in Seq(Nat)
      BY <1>1 DEF NodeObject
    <2>4. \/ node'[n].sensors = node[n].sensors
          \/ node'[n].sensors = Append(node[n].sensors, x)
      BY <1>1, <2>1 DEF NodeObject
    <2>5. Held(n) = Elems(node[n].sensors) /\ Held(n)' = Elems(node'[n].sensors)
      BY <2>1 DEF Held, Elems
    <2>6. Elems(Append(node[n].sensors, x)) = Elems(node[n].sensors) \cup {x}
      BY <2>2, <2>3, AppendElems
    <2>7. s \in Elems(node[n].sensors) \/ s = x
      <3>1. CASE node'[n].sensors = node[n].sensors
        BY <2>5, <3>1
      <3>2. CASE node'[n].sensors = Append(node[n].sensors, x)
        BY <2>5, <2>6, <3>2
      <3> QED
        BY <2>4, <3>1, <3>2
    <2> QED
      BY <1>8, <2>5, <2>7 DEF x
  <1>9. CASE SetupDone
    <2>1. CASE UNCHANGED <<node, th>>
      BY <1>3, <2>1
    <2>2. CASE ~UNCHANGED <<node, th>>
      <3>1. th[0].pc = "create" /\ node' = [node EXCEPT ![th[0].node].known = TRUE]
        BY <1>9, <2>2 DEF SetupDone
      <3>2. th'[0].pc = "idle" /\ node'[n].sensors = node[n].sensors
        BY <1>1, <1>9, <2>2, <3>1, SetupMoves DEF NodeObject, Idle
      <3> QED
        BY <3>1, <3>2 DEF Held, Elems
    <2> QED
      BY <2>1, <2>2
  <1> QED
    BY <1>4, <1>5, <1>6, <1>7, <1>8, <1>9 DEF SettingUp

LEMMA SettingUpCovers ==
    ASSUME TypeInv, MetricsInv, Covering, SettingUp
    PROVE  DueCovers' /\ WaitsHere' /\ Covered'
  <1> USE DEF broker, history
  <1>1. /\ 0 \in Threads /\ th \in [Threads -> Thread] /\ UNCHANGED conns
        /\ th[0].pc \in {"shutdown", "create", "subscribed"}
    <2>1. UNCHANGED conns /\ th[0].pc \in {"shutdown", "create", "subscribed"}
      BY DEF SettingUp, Shutdown, ShutdownDone, SkipInvalid, NewFlowSensor, AppendSensor, SetupDone
    <2> QED
      BY <2>1, LiveSensors DEF TypeInv, References
  <1>2. \A u \in Threads \ {0} : ~Working(u)
    BY <1>1 DEF Covering, TakingTurns, OneWorks, Working
  <1>3. OnlyMoves(0) /\ th'[0].pc \notin {"wait", "subscribed"}
    <2>1. CASE UNCHANGED th
      <3>1. th[0].pc # "subscribed"
        <4>1. ~AppendSensor
          BY <1>1, <2>1, SetupMoves DEF AppendSensor, GoesOn
        <4> QED
          BY <4>1 DEF SettingUp, Shutdown, ShutdownDone, SkipInvalid, NewFlowSensor, SetupDone
      <3> QED
        BY <1>1, <2>1, <3>1 DEF OnlyMoves
    <2>2. CASE ~UNCHANGED th
      BY <2>2, SetupMoves DEF SettingUp, GoesOn, Idle
    <2> QED
      BY <2>1, <2>2
  <1>4. connected' => connected
    <2>1. ASSUME Shutdown PROVE connected' => connected
      BY Zenon, <2>1 DEF Shutdown, Unsubscribe, Disconnected
    <2> QED
      BY <2>1 DEF SettingUp, ShutdownDone, SkipInvalid, NewFlowSensor, AppendSensor, SetupDone
  <1>5. ASSUME Begun' PROVE Begun /\ \A n \in Nodes : \A s \in Held(n) : Subscribed(s)
    <2>1. Begun
      BY <1>1, <1>3, <1>4, <1>5, BegunBefore
    <2> QED
      BY <1>1, <1>2, <2>1, PendingHere DEF PendingIn
  <1>6. ASSUME ~Shutdown PROVE \A s \in SensorIds : Subscribed(s) => Subscribed(s)'
    <2>1. UNCHANGED <<routes, subs>>
      BY <1>6 DEF SettingUp, ShutdownDone, SkipInvalid, NewFlowSensor, AppendSensor, SetupDone
    <2>2. \A s \in SensorIds : obj'[s].topic = obj[s].topic
      <3>1. CASE NewFlowSensor
        BY <3>1, NewFlowSensorMetrics
      <3>2. CASE ~NewFlowSensor
        BY <1>6, <3>2 DEF SettingUp, ShutdownDone, SkipInvalid, AppendSensor, SetupDone
      <3> QED
        BY <3>1, <3>2
    <2> QED
      BY <2>1, <2>2 DEF Subscribed
  <1>7. ASSUME Begun', NEW n \in Nodes, NEW s \in Held(n)' PROVE Subscribed(s)'
    <2>1. CASE s \in Held(n)
      <3>1. s \in SensorIds /\ s \in Live /\ Subscribed(s)
        BY <1>5, <1>7, <2>1, LiveSensors DEF Live
      <3>2. CASE Shutdown
        <4>1. PICK x : x = Head(th[0].queue)
          OBVIOUS
        <4>2. Unsubscribe(x) /\ th[0].queue # <<>> /\ th[0].pc = "shutdown"
          BY <3>2, <4>1 DEF Shutdown
        <4>3. Live' = Live \ {x}
          BY <3>2, <4>1, ShutdownMetrics
        <4>4. s # x /\ connected'
          BY <1>7, <4>3 DEF Live, Begun
        <4>5. x \in Live
          BY <1>1, <4>1, <4>2, ThreadFacts DEF Live, InHand
        <4> QED
          BY <3>1, <4>2, <4>4, <4>5, UnsubscribeOthers
      <3> QED
        BY <1>6, <3>1, <3>2
    <2>2. CASE AppendSensor /\ s = Head(th[0].queue)
      <3>1. th[0].pc = "subscribed" /\ ~Shutdown
        BY <2>2 DEF AppendSensor, Shutdown
      <3>2. Arrived(0)
        BY <1>1, <1>2, <1>5, <1>7, PendingHere
      <3>3. Subscribed(s) /\ s \in SensorIds
        BY <1>1, <2>2, <3>1, <3>2, ThreadFacts DEF Arrived, PlaceOf, Handling
      <3> QED
        BY <1>6, <3>1, <3>3
    <2> QED
      BY <2>1, <2>2, SetupHeld
  <1>8. Arrived(0)'
    BY <1>3 DEF Arrived
  <1> QED
    BY <1>1, <1>2, <1>3, <1>7, <1>8, CoveredTurn DEF Covering

LEMMA EventsCovers ==
    ASSUME TypeInv, MetricsInv, Covering, Events \/ UNCHANGED vars,
           \A n \in Nodes : \A spec \in Specs[n] :
              GotHello(n, spec) => \A u \in Threads \ {0} : ~Working(u)
    PROVE  DueCovers' /\ WaitsHere' /\ Covered'
  <1>1. CASE Connect
    <2>1. UNCHANGED node
      BY ONLY <1>1 DEF Connect
    <2>2. th'[conns'].pc = "start"
      BY <1>1, ConnectMoves DEF GoesOn
    <2>3. \A u \in Threads : Working(u)' => Working(u) /\ th'[u] = th[u]
      BY <1>1, ConnectMoves DEF GoesOn, OnlyMoves, Working
    <2> QED
      BY <2>1, <2>2, <2>3 DEF Covering, DueCovers, WaitsHere, Covered, Begun
  <1>2. CASE mqttConnLost
    <2>1. UNCHANGED <<node, th>> /\ ~connected'
      BY ONLY <1>2 DEF mqttConnLost, Disconnected
    <2> QED
      BY <2>1 DEF Covering, DueCovers, WaitsHere, Covered, Begun, Working
  <1>3. ASSUME UNCHANGED <<node, th>>, SessionKept PROVE DueCovers' /\ WaitsHere' /\ Covered'
    <2>1. DueCovers' /\ WaitsHere' /\ (Begun' => Begun)
      BY <1>3 DEF Covering, DueCovers, WaitsHere, Begun, Working, SessionKept
    <2>2. \A n \in Nodes : Held(n)' = Held(n) /\ Held(n) \subseteq SensorIds
      BY <1>3, LiveSensors DEF Held, Elems
    <2>3. \A t \in Threads : \A s : PendingIn(t, s)' <=> PendingIn(t, s)
      BY <1>3 DEF PendingIn, Working, Elems
    <2>4. \A s \in SensorIds : Subscribed(s) => Subscribed(s)'
      BY <1>3, StillSubscribed
    <2>5. ASSUME NEW t \in Threads, Arrived(t) PROVE Arrived(t)'
      <3>1. PICK x : x = Head(th[t].queue)
        OBVIOUS
      <3>2. th[t].pc \in {"wait", "subscribed"} => x \in SensorIds
        BY <3>1, ThreadFacts DEF PlaceOf, Handling
      <3> QED
        BY <1>3, <2>4, <2>5, <3>1, <3>2 DEF Arrived, Subscribed
    <2> QED
      BY <2>1, <2>2, <2>3, <2>4, <2>5 DEF Covering, Covered
  <1>4. ASSUME NEW n \in Nodes, NEW spec \in Specs[n], GotSameHello(n, spec)
        PROVE  UNCHANGED <<node, th>> /\ SessionKept
    <2>1. UNCHANGED <<node, th, obj, routes, connected, conns, subs>>
      BY ONLY <1>4 DEF GotSameHello, broker
    <2> QED
      BY <2>1, Unchanged DEF SessionKept
  <1>5. ASSUME NEW topic \in Topics, GotReport(topic) PROVE UNCHANGED <<node, th>> /\ SessionKept
    <2>1. UNCHANGED <<node, th, routes, connected, conns, subs, crashed, overlapped, hello_sub>>
      BY ONLY <1>5 DEF GotReport, broker
    <2>2. BooleansTyped'
      BY ONLY TypeInv, <2>1 DEF TypeInv, BooleansTyped
    <2>3. CASE Events
      BY <2>1, <2>2, <2>3, EventsTyped DEF SessionKept
    <2>4. CASE UNCHANGED vars
      BY <2>1, <2>4, Unchanged DEF SessionKept, vars
    <2> QED
      BY <2>3, <2>4
  <1>6. ASSUME UNCHANGED vars PROVE UNCHANGED <<node, th>> /\ SessionKept
    BY <1>6, Unchanged DEF vars, SessionKept
  <1>7. ASSUME NEW n \in Nodes, NEW spec \in Specs[n], GotHello(n, spec)
        PROVE  DueCovers' /\ WaitsHere' /\ Covered'
    <2>1. /\ UNCHANGED <<obj, routes, connected, conns, subs>>
          /\ th[0].pc = "idle" /\ node' = [node EXCEPT ![n].spec = spec]
      BY ONLY <1>7 DEF GotHello, Dispatchable, broker
    <2>2. /\ 0 \in Threads /\ OnlyMoves(0) /\ th'[0].pc = "shutdown" /\ th'[0].node = n
          /\ \A u \in Threads \ {0} : ~Working(u)
      BY <1>7, SetupMoves, LiveSensors
    <2>3. SessionKept
      BY <2>1, Unchanged DEF SessionKept
    <2>4. \A m \in Nodes : node'[m].sensors = node[m].sensors
      BY <2>1, SpecsTyped DEF NodeObject
    <2>5. \A m \in Nodes : Held(m)' \subseteq Held(m) /\ Held(m) \subseteq SensorIds
      BY <2>1, <2>2, <2>4, LiveSensors DEF Held, Elems
    <2>6. ASSUME Begun' PROVE \A m \in Nodes : \A s \in Held(m)' : Subscribed(s)'
      <3>1. Begun
        BY <2>1, <2>2, <2>6, BegunBefore
      <3>2. \A m \in Nodes : \A s \in Held(m) : Subscribed(s)
        BY <2>2, <3>1, PendingHere DEF PendingIn
      <3> QED
        BY <2>3, <2>5, <3>2, StillSubscribed
    <2>7. Arrived(0)'
      BY <2>2 DEF Arrived
    <2> QED
      BY <2>2, <2>6, <2>7, CoveredTurn DEF Covering
  <1> QED
    BY <1>1, <1>2, <1>3, <1>4, <1>5, <1>6, <1>7 DEF Events

\* The calls of the MQTT client leave what the nodes hold alone.
LEMMA SubscribingHeld ==
    ASSUME TypeInv, NEW t \in Threads, Subscribing(t), ~WaitedForNothing(t)
    PROVE  \A n \in Nodes : Held(n)' = Held(n)
  <1>1. UNCHANGED node
    BY DEF Subscribing, SubscribeAgain, SubscribeSend, Waited, SubscribeFails
  <1>2. 0 \in Threads
    BY LiveSensors
  <1>3. ASSUME NEW pc, pc # "shutdown", th[t].pc # "shutdown", GoesOn(t, pc, th'[t].queue, th'[t].spec)
        PROVE  \A n \in Nodes : Held(n)' = Held(n)
    BY <1>1, <1>2, <1>3 DEF GoesOn, OnlyMoves, Held, Elems
  <1>4. CASE SubscribeAgain(t)
    <2>1. th[t].pc = "next" /\ GoesOn(t, "send", th'[t].queue, th'[t].spec)
      BY <1>4, AgainMoves DEF GoesOn
    <2> QED
      BY <1>3, <2>1
  <1>5. CASE SubscribeSend(t)
    <2>1. th[t].pc = "send" /\ GoesOn(t, "wait", th'[t].queue, th'[t].spec)
      <3>1. th[t].pc = "send"
        BY <1>5 DEF SubscribeSend
      <3> QED
        BY <1>5, <3>1, SendMoves DEF GoesOn
    <2> QED
      BY <1>3, <2>1
  <1>6. CASE Waited(t) \/ SubscribeFails(t)
    <2>1. th[t].pc \in {"send", "wait"} /\ Return(t)
      BY <1>6 DEF Waited, SubscribeFails
    <2>2. \E pc \in {"subscribed", "next"} : GoesOn(t, pc, th'[t].queue, th'[t].spec)
      BY <2>1, ReturnMoves DEF GoesOn
    <2> QED
      BY <1>3, <2>1, <2>2
  <1> QED
    BY <1>4, <1>5, <1>6 DEF Subscribing

LEMMA SubscribingCovers ==
    ASSUME HubInv, Covering, NEW t \in Threads, Subscribing(t), BooleansTyped'
    PROVE  DueCovers' /\ WaitsHere' /\ Covered'
  <1>1. TypeInv /\ MetricsInv
    BY DEF HubInv
  <1>2. ~WaitedForNothing(t)
    BY DEF Covering, TakingTurns, WaitersHaveTokens, WaitedForNothing
  <1>3. TopicsKept
    BY <1>1, SubscribingTyped
  <1>4. \A n \in Nodes : Held(n)' = Held(n)
    BY <1>1, <1>2, SubscribingHeld
  <1>5. CASE SubscribeAgain(t)
    BY <1>1, <1>4, <1>5, AgainCovers
  <1>6. CASE SubscribeSend(t)
    BY <1>1, <1>4, <1>6, SendCovers
  <1>7. CASE Waited(t) \/ SubscribeFails(t)
    BY <1>1, <1>3, <1>4, <1>7, ReturnCovers
  <1> QED
    BY <1>2, <1>5, <1>6, <1>7 DEF Subscribing

LEMMA SubInit == Init => SubInv
  <1> SUFFICES ASSUME Init PROVE SubInv
    OBVIOUS
  <1>1. KnownOrNew
    BY DEF Init, KnownOrNew
  <1>2. \A t \in Threads : th[t].pc = "idle" /\ ~Working(t)
    BY DEF Init, Idle, Working
  <1>3. DueCovers /\ WaitsHere
    BY <1>2 DEF DueCovers, WaitsHere
  <1>4. ~Begun
    BY DEF Init, Begun
  <1> QED
    BY <1>1, <1>3, <1>4 DEF SubInv, Covered

LEMMA SubNext == HubInv /\ SubInv /\ [Next]_vars => SubInv'
  <1> SUFFICES ASSUME HubInv, SubInv, [Next]_vars PROVE SubInv'
    OBVIOUS
  <1>1. TypeInv /\ MetricsInv /\ RestInv /\ TurnsInv /\ KnownOrNew
    BY DEF HubInv, SubInv
  <1>2. KnownOrNew'
    BY <1>1, KnownNext
  <1>3. SUFFICES ASSUME ~overlapped' PROVE DueCovers' /\ WaitsHere' /\ Covered'
    BY <1>2 DEF SubInv
  <1>4. /\ ~overlapped
        /\ \A t \in Threads : mqttConnected(t) => \A u \in Threads \ {t} : ~Working(u)
        /\ \A n \in Nodes : \A spec \in Specs[n] :
              GotHello(n, spec) => \A u \in Threads \ {0} : ~Working(u)
    BY <1>1, <1>3, OverlapHistory
  <1>5. Covering
    BY <1>1, <1>4 DEF SubInv, TurnsInv, Covering
  <1>6. BooleansTyped'
    BY <1>1, BooleansNext
  <1>7. ASSUME Events \/ UNCHANGED vars PROVE DueCovers' /\ WaitsHere' /\ Covered'
    BY <1>1, <1>4, <1>5, <1>7, EventsCovers
  <1>8. ASSUME NEW t \in Threads, Subscribing(t) PROVE DueCovers' /\ WaitsHere' /\ Covered'
    BY <1>5, <1>6, <1>8, SubscribingCovers
  <1>9. ASSUME NEW t \in Threads, Resubscribing(t) PROVE DueCovers' /\ WaitsHere' /\ Covered'
    BY <1>1, <1>4, <1>5, <1>9, ResubscribingCovers
  <1>10. ASSUME SettingUp PROVE DueCovers' /\ WaitsHere' /\ Covered'
    BY <1>1, <1>5, <1>10, SettingUpCovers
  <1> QED
    BY <1>7, <1>8, <1>9, <1>10 DEF Next, Step

\* When all threads are idle nothing is pending, so every current sensor is
\* subscribed and its reports reach it: whatever losses of the connection,
\* failed calls and changed specs came before, as long as threads took turns.
THEOREM SensorsAreSubscribed == Spec => []SensorsSubscribed
  <1>1. HubInv /\ SubInv => SensorsSubscribed
    <2> SUFFICES ASSUME HubInv, SubInv, Settled, ~overlapped, NEW s \in SensorIds, Current(s)
                 PROVE  Subscribed(s)
      BY DEF SensorsSubscribed
    <2>1. TypeInv /\ conns \in Threads /\ 0 \in Threads
      BY LiveSensors DEF HubInv, TypeInv, OthersTyped
    <2>2. connected /\ \A t \in Threads : th[t].pc = "idle"
      BY DEF Settled
    <2>3. Begun
      BY <2>1, <2>2 DEF Begun
    <2>4. PICK n \in Nodes : s \in Elems(node[n].sensors)
      <3>1. \A n \in Nodes : DOMAIN node[n].sensors = 1 .. Len(node[n].sensors)
        BY <2>1 DEF TypeInv, NodesTyped, NodeObject
      <3> QED
        BY <3>1 DEF Current, Elems
    <2>5. s \in Held(n)
      BY <2>1, <2>2, <2>4 DEF Held
    <2>6. \A t \in Threads : ~PendingIn(t, s)
      BY <2>2 DEF PendingIn, Working
    <2> QED
      BY <2>3, <2>5, <2>6 DEF SubInv, Covered
  <1> QED
    BY <1>1, SubInit, SubNext, HubInvariance, PTL DEF Spec

=============================================================================
