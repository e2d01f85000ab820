---------------------------- MODULE AlertDelivery ----------------------------
(***************************************************************************)
(* How an alert gets from the rover to a person: TelemetryPublisher sends  *)
(* rover/alerts when the list of active alerts changes and a heartbeat     *)
(* with the whole health once a second; the control center notifies of the *)
(* first and shows the second on its panels.                               *)
(*                                                                         *)
(* Both clients of the broker ask for a clean session: what is sent while  *)
(* the control center is away is lost, whatever its QoS.                   *)
(***************************************************************************)
EXTENDS AlertNotifier, InfluxDBWriter, Dashboard

CONSTANTS
  Scenarios     \* bounds: the environments that are looked at, one per behaviour

ASSUME ScenarioAssumption ==
  \A s \in Scenarios :
    /\ s.healths \in Nat /\ s.messages \in Nat /\ s.upsets \in Nat /\ s.horizon \in Nat
    /\ s.lists \subseteq Seq(Alerts) /\ s.influx \subseteq BOOLEAN /\ s.panels \subseteq PanelSet

VARIABLES
  scenario,
  health,       \* the number of the last RoverHealth of the aggregator
  prevAlerts,   \* TelemetryPublisher: prev_alerts_
  latest,       \* TelemetryPublisher: latest_health_
  roverLink,    \* its client is connected to the broker
  centerLink,   \* that of the control center: off, up, down or dead
  wire,         \* messages on their way
  loop,         \* coroutines MQTTReceiver created and the loop has not started
  upsets        \* bound: panels opened, stalled and closed, restarts

roverVars == <<health, prevAlerts, latest>>
links == <<roverLink, centerLink>>
vars == <<scenario, roverVars, links, wire, loop, upsets, writerVars, notifierVars, dashboardVars>>

Alert(alerts) == [topic |-> "rover/alerts", alerts |-> alerts, health |-> 0]
Heartbeat(h) == [topic |-> "rover/health/overall", alerts |-> <<>>, health |-> h]

Init ==
  /\ scenario \in Scenarios
  /\ health = 0 /\ prevAlerts = <<>> /\ latest = 0
  /\ roverLink = TRUE /\ centerLink = "off"
  /\ wire = <<>> /\ loop = <<>> /\ upsets = 0
  /\ WriterInit
  /\ clock = 0 /\ waiting = {} /\ handed = {}
  /\ last = [a \in Alerts |-> 0]
  /\ notified = [a \in Alerts |-> 0] /\ gap = [a \in Alerts |-> Cooldown]
  /\ DashboardInit

-----------------------------------------------------------------------------
(* The rover. *)

\* The broker passes a message on to whoever is connected.
Sent(m) == IF centerLink = "up" THEN Append(wire, m) ELSE wire

Room == Len(wire) + Len(loop) < scenario.messages

\* Faulty variant: a message that changes no alert is not kept.
OnHealthEdgesOnly(alerts) ==
  /\ health < scenario.healths /\ Room
  /\ health' = health + 1
  /\ latest' = IF alerts # prevAlerts /\ roverLink THEN health' ELSE latest
  /\ prevAlerts' = alerts
  /\ wire' = IF alerts # prevAlerts /\ roverLink THEN Sent(Alert(alerts)) ELSE wire
  /\ UNCHANGED <<scenario, links, loop, upsets, writerVars, notifierVars, dashboardVars>>

\* on_health: an edge is sent once, or is lost if the link is down.
OnHealth(alerts) ==
  /\ health < scenario.healths /\ Room
  /\ health' = health + 1
  /\ latest' = health'
  /\ prevAlerts' = alerts
  /\ wire' = IF alerts # prevAlerts /\ roverLink THEN Sent(Alert(alerts)) ELSE wire
  /\ UNCHANGED <<scenario, links, loop, upsets, writerVars, notifierVars, dashboardVars>>

OnHeartbeatTimer ==
  /\ latest # 0 /\ roverLink /\ Room /\ scenario.panels # {}
  /\ wire' = Sent(Heartbeat(latest))
  /\ UNCHANGED <<scenario, roverVars, links, loop, upsets, writerVars, notifierVars, dashboardVars>>

-----------------------------------------------------------------------------
(* The links.  What the broker has not passed on when one breaks is lost. *)

RoverLinkLost ==
  /\ roverLink
  /\ roverLink' = FALSE
  /\ \E n \in 0..Len(wire) : wire' = SubSeq(wire, 1, n)
  /\ UNCHANGED <<scenario, roverVars, centerLink, loop, upsets, writerVars, notifierVars, dashboardVars>>

RoverLinkRestored ==
  /\ ~roverLink
  /\ roverLink' = TRUE
  /\ UNCHANGED <<scenario, roverVars, centerLink, wire, loop, upsets, writerVars, notifierVars, dashboardVars>>

CenterLinkLost ==
  /\ centerLink = "up"
  /\ centerLink' = "down" /\ wire' = <<>>
  /\ UNCHANGED <<scenario, roverVars, roverLink, loop, upsets, writerVars, notifierVars, dashboardVars>>

\* _on_connect, after the client's thread has connected again.
CenterLinkRestored ==
  /\ centerLink = "down"
  /\ centerLink' = "up"
  /\ UNCHANGED <<scenario, roverVars, roverLink, wire, loop, upsets, writerVars, notifierVars, dashboardVars>>

-----------------------------------------------------------------------------
(* The control center. *)

\* MQTTReceiver.start.  If the broker does not answer the first time,
\* _schedule_reconnect tries once more, but nothing ever starts the thread that
\* would read an answer.
ReceiverStarts == centerLink' \in {"up", "dead"}

\* main
CenterStarts ==
  /\ centerLink = "off"
  /\ ReceiverStarts /\ NotifierStarts /\ WriterStarts(scenario.influx)
  /\ UNCHANGED <<scenario, roverVars, roverLink, wire, loop, upsets, dashboardVars>>

\* Ctrl-C or a crash; everything it knows is in memory.
CenterStops ==
  /\ centerLink # "off" /\ upsets < scenario.upsets
  /\ upsets' = upsets + 1
  /\ centerLink' = "off" /\ wire' = <<>> /\ loop' = <<>>
  /\ waiting' = {}
  /\ WriterEnds /\ DashboardEnds
  /\ UNCHANGED <<scenario, roverVars, roverLink, clock, last, handed, notified, gap>>

\* MQTTReceiver._on_message
OnMessage ==
  /\ wire # <<>>
  /\ loop' = Append(loop, Head(wire))
  /\ wire' = Tail(wire)
  /\ UNCHANGED <<scenario, roverVars, links, upsets, writerVars, notifierVars, dashboardVars>>

\* Faulty variant: the notifier subscribes before the writer, whose turn then comes
\* once the channels are through, if ever.
EmitAlertNotifiesFirst ==
  /\ loop # <<>> /\ Head(loop).topic = "rover/alerts"
  /\ OnAlert(Head(loop).alerts)
  /\ IF waiting' = waiting THEN WriteAlerts(Head(loop).alerts) ELSE UNCHANGED writerVars
  /\ loop' = Tail(loop)
  /\ UNCHANGED <<scenario, roverVars, links, wire, upsets, dashboardVars>>

\* EventBus.emit, as far as it runs at once: one subscriber after the other.
\* The third of evt.alert, _broadcast_alert, has no clients among the panels.
EmitAlert ==
  /\ loop # <<>> /\ Head(loop).topic = "rover/alerts"
  /\ WriteAlerts(Head(loop).alerts)
  /\ OnAlert(Head(loop).alerts)
  /\ loop' = Tail(loop)
  /\ UNCHANGED <<scenario, roverVars, links, wire, upsets, dashboardVars>>

EmitHealth ==
  /\ loop # <<>> /\ Head(loop).topic = "rover/health/overall"
  /\ Cardinality(sends) < scenario.messages
  /\ OnHealthEvent(Head(loop).health)
  /\ loop' = Tail(loop)
  /\ UNCHANGED <<scenario, roverVars, links, wire, upsets, writerVars, notifierVars>>

-----------------------------------------------------------------------------
Serving == centerLink # "off"

Unaffected == UNCHANGED <<scenario, roverVars, links, wire, loop, writerVars, notifierVars>>

PanelUpset ==
  /\ upsets < scenario.upsets
  /\ upsets' = upsets + 1
  /\ \E p \in scenario.panels : Load(p, Serving) \/ Stall(p) \/ Close(p)
  /\ Unaffected

Broadcasting == (SendEnds \/ IterationFails) /\ UNCHANGED upsets /\ Unaffected

PanelStep(p) ==
  /\ BootstrapShown(p) \/ (Serving /\ Accept(p)) \/ Drain(p) \/ PingTimesOut(p) \/ Discard(p) \/ Reconnect(p)
  /\ UNCHANGED upsets
  /\ Unaffected

WriterStep == WriteEnds /\ UNCHANGED <<scenario, roverVars, links, wire, loop, upsets, notifierVars, dashboardVars>>

NotifierStep == DispatchEnds /\ UNCHANGED <<scenario, roverVars, links, wire, loop, upsets, writerVars, dashboardVars>>

Tick ==
  /\ clock < scenario.horizon
  /\ NotifierTick
  /\ UNCHANGED <<scenario, roverVars, links, wire, loop, upsets, writerVars, dashboardVars>>

CenterStep == OnMessage \/ EmitAlert \/ EmitHealth

Next ==
  \/ \E alerts \in scenario.lists : OnHealth(alerts)
  \/ OnHeartbeatTimer
  \/ RoverLinkLost \/ RoverLinkRestored \/ CenterLinkLost \/ CenterLinkRestored
  \/ CenterStarts \/ CenterStops
  \/ CenterStep
  \/ WriterStep
  \/ NotifierStep
  \/ Broadcasting
  \/ PanelUpset
  \/ \E p \in PanelSet : PanelStep(p)
  \/ Tick

Spec == Init /\ [][Next]_vars

\* Timers fire, the event loop runs what is ready, and a stalled socket drains or is
\* closed.
FairSpec ==
  /\ Spec
  /\ WF_vars(OnHeartbeatTimer) /\ WF_vars(CenterStep) /\ WF_vars(Broadcasting)
  /\ \A p \in PanelSet : WF_vars(PanelStep(p))

-----------------------------------------------------------------------------
(* Properties. *)

\* The coroutines that wait are inside their lists, no alert is marked ahead of
\* time, and sockets are in the set only while the server knows them.
TypeOK ==
  /\ last \in [Alerts -> 0..clock] /\ notified \in [Alerts -> 0..clock]
  /\ gap \in [Alerts -> 0..Cooldown]
  /\ writing \cup stored \cup logged \cup failed \subseteq Alerts
  /\ \A t \in waiting : t.at \in DOMAIN t.alerts /\ t.now <= clock
  /\ centerLink \in {"off", "up", "down", "dead"}
  /\ Len(wire) + Len(loop) <= scenario.messages
  /\ members \subseteq PanelSet
  /\ \A p \in members : socket[p] \in {"open", "stalled", "closed"}
  /\ \A p \in PanelSet : shown[p] <= health /\ response[p] \subseteq 0..health
  /\ cached <= latest /\ latest <= health

\* Two notifications of one alert are a cooldown apart, less the time a message may
\* spend waiting for channels: it is dated when its handling starts, not when the
\* alert is dispatched.  So the 60 s of a cooldown hold only as far as channels are
\* quick, whatever messages overlap.
NotificationsSpaced == \A a \in Alerts : gap[a] >= Cooldown - NotifyTicks

\* When the notifier is through with a message, every alert in it is covered by a
\* notification not a cooldown away, unless the host itself was booted less than a
\* cooldown before.
AlertsCovered ==
  \A m \in handed :
    m.now >= Cooldown =>
      \A i \in DOMAIN m.alerts : notified[m.alerts[i]] # 0 /\ m.now - last[m.alerts[i]] < Cooldown

\* What a person was notified of, the database gets: the writer comes before the
\* notifier on the bus, so that no overlap of messages and no channel that keeps a
\* coroutine waiting leaves out a write.  Two ways are left to lose one: an
\* exception, which is logged, and a request that fails in the pool, which nobody
\* notices although the control center's specification asks for synchronous writes.
NotifiedIsWritten ==
  influx /\ Serving =>
    \A a \in Alerts : notified[a] # 0 => a \in writing \cup stored \cup logged \cup failed

\* Once both links and a panel's socket stay up, the panel shows the last health in
\* the end: edges lost with a link, stalled neighbours, iterations that fail and
\* late answers are all made good by the heartbeats.
PanelsConverge ==
  \A p \in PanelSet :
    <>[](roverLink /\ centerLink = "up" /\ socket[p] = "open") => <>[](shown[p] = latest /\ latest = health)

=============================================================================
