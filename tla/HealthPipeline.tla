--------------------------- MODULE HealthPipeline ---------------------------
(***************************************************************************)
(* The way of PX4's state to the safety gate: Px4Probe -> /monitor/px4 ->  *)
(* Aggregator -> /monitor/health -> TelemetryPublisher -> MQTT ->          *)
(* MQTTReceiver -> TelemetryCache -> SafetyGate.                           *)
(*                                                                         *)
(* Each hop keeps a latest value and stamps it anew on reception.  `heard' *)
(* follows a status from hop to hop: the time the probe took the PX4       *)
(* message it was made from.  All components of the monitor share one      *)
(* executor thread, which a command handler can keep busy: a ready         *)
(* callback waits at most ExecLag.  The topics hold one unread message.    *)
(*                                                                         *)
(* Of a status only what the gate looks at is modelled, of a health        *)
(* message its PX4 part; the alerts, which no gate depends on, are left    *)
(* out.                                                                    *)
(***************************************************************************)
EXTENDS Naturals, Sequences

CONSTANTS
  ArmingState,     \* what PX4 says of being armed
  ExecLag,         \* a ready callback of the executor runs within ExecLag
  Px4Stale,        \* px4_stale_timeout_ms
  MergePeriod,     \* 1 / aggregator.publish_rate_hz
  NetDelay,        \* from a heartbeat's publication to its last coroutine
  StaleThreshold,  \* telemetry_cache.stale_threshold_s
  MaxWire,         \* bound: heartbeats and their coroutines outstanding
  Horizon          \* bound: the last instant looked at

ASSUME PipelineAssumption ==
  /\ ExecLag \in Nat /\ Px4Stale \in Nat /\ MergePeriod \in Nat
  /\ NetDelay \in Nat /\ StaleThreshold \in Nat /\ MaxWire \in Nat
  /\ Horizon \in Nat /\ ArmingState \subseteq BOOLEAN

VARIABLES
  now,          \* the clock
  armed,        \* Px4Probe: armed_
  px4Topic,     \* the unread message on /monitor/px4, if any
  px4Cache,     \* Aggregator: px4_cache_ with px4_stamp_, if any
  mergedAt,     \* Aggregator: when its timer last ran
  healthTopic,  \* the unread message on /monitor/health, if any
  latest,       \* TelemetryPublisher: latest_health_, if any
  linked,       \* both ends are connected to the broker
  wire,         \* heartbeats on their way to the control center
  loop,         \* coroutines MQTTReceiver created and the loop has not run
  entry         \* TelemetryCache: _data and _updated_at of health and px4

roverVars == <<armed, px4Topic, px4Cache, mergedAt, healthTopic, latest>>
hostVars == <<loop, entry>>
vars == <<now, roverVars, linked, wire, hostVars>>

-----------------------------------------------------------------------------
(* Messages.                                                               *)

Keys == {"health", "px4"}

Px4Status == [connected : BOOLEAN, armed : BOOLEAN, heard : Nat]
Unread == [msg : Px4Status, since : Nat]
Heartbeat == [px4 : Px4Status, sent : Nat]
Coroutine == [key : Keys, px4 : Px4Status, sent : Nat]
Stamped == [px4 : Px4Status, stamp : Nat]

\* What RoverHealth.px4 holds when the aggregator leaves it at its defaults.
StalePx4 == [connected |-> FALSE, armed |-> FALSE, heard |-> 0]

\* Faulty variant: the topic keeps the unread message too.
PublishKeepsUnread(topic, m) == topic \cup {[msg |-> m, since |-> now]}

\* A depth-1 topic: the new message replaces the unread one, whose callback
\* has been ready all the while.
Publish(topic, m) ==
  {[msg |-> m, since |-> t] :
     t \in IF topic = {} THEN {now} ELSE {u.since : u \in topic}}

Init ==
  /\ now = 0
  /\ armed = FALSE
  /\ px4Topic = {} /\ px4Cache = {} /\ mergedAt = 0
  /\ healthTopic = {} /\ latest = {}
  /\ linked = TRUE
  /\ wire = <<>> /\ loop = <<>>
  /\ entry = [k \in Keys |-> {}]

-----------------------------------------------------------------------------
(* Px4Probe.                                                               *)

\* publish_status: last_any_msg_stamp_ was set just before, so `connected'.
PublishStatus ==
  px4Topic' = Publish(px4Topic,
                [connected |-> TRUE, armed |-> armed', heard |-> now])

OnVehicleStatus ==
  /\ armed' \in ArmingState
  /\ PublishStatus
  /\ UNCHANGED <<now, px4Cache, mergedAt, healthTopic, latest, linked, wire,
                 hostVars>>

\* on_battery_status, and on_heartbeat for the vehicle odometry: armed_ is
\* published again.
OnOtherMessage ==
  /\ UNCHANGED armed
  /\ PublishStatus
  /\ UNCHANGED <<now, px4Cache, mergedAt, healthTopic, latest, linked, wire,
                 hostVars>>

-----------------------------------------------------------------------------
(* Aggregator.                                                             *)

OnPx4 ==
  \E u \in px4Topic :
    /\ px4Cache' = {[px4 |-> u.msg, stamp |-> now]}
    /\ px4Topic' = {}
    /\ UNCHANGED <<now, armed, mergedAt, healthTopic, latest, linked, wire,
                   hostVars>>

\* Faulty variant: the cache is merged whatever its age.
FreshUnchecked == px4Cache

\* What the merge takes from the cache.
Fresh == {c \in px4Cache : now - c.stamp < Px4Stale}

\* on_timer
OnMergeTimer ==
  /\ now > mergedAt
  /\ mergedAt' = now
  /\ \E px4 \in IF Fresh # {} THEN {c.px4 : c \in Fresh} ELSE {StalePx4} :
       healthTopic' = Publish(healthTopic, px4)
  /\ UNCHANGED <<now, armed, px4Topic, px4Cache, latest, linked, wire, hostVars>>

-----------------------------------------------------------------------------
(* TelemetryPublisher.                                                     *)

\* on_health
OnHealth ==
  \E u \in healthTopic :
    /\ latest' = {u.msg}
    /\ healthTopic' = {}
    /\ UNCHANGED <<now, armed, px4Topic, px4Cache, mergedAt, linked, wire,
                   hostVars>>

OnHeartbeatTimer ==
  \E px4 \in latest :
    /\ linked
    /\ Len(wire) + Len(loop) < MaxWire
    /\ wire' = Append(wire, [px4 |-> px4, sent |-> now])
    /\ UNCHANGED <<now, roverVars, linked, hostVars>>

-----------------------------------------------------------------------------
(* The link.  Heartbeats are QoS 0: what is in flight when it breaks is    *)
(* lost.                                                                   *)

LinkLost ==
  /\ linked
  /\ linked' = FALSE
  /\ wire' = <<>>
  /\ UNCHANGED <<now, roverVars, hostVars>>

LinkRestored ==
  /\ ~linked
  /\ linked' = TRUE
  /\ UNCHANGED <<now, roverVars, wire, hostVars>>

-----------------------------------------------------------------------------
(* The control center.                                                     *)

\* _on_message on rover/health/overall: evt.health, then evt.health.px4.
OnMessage ==
  /\ wire # <<>>
  /\ loop' = Append(Append(loop,
               [key |-> "health", px4 |-> Head(wire).px4, sent |-> Head(wire).sent]),
               [key |-> "px4", px4 |-> Head(wire).px4, sent |-> Head(wire).sent])
  /\ wire' = Tail(wire)
  /\ UNCHANGED <<now, roverVars, linked, entry>>

\* TelemetryCache._on_health and _on_px4, each a coroutine of its own.
StoreEntry ==
  /\ loop # <<>>
  /\ entry' = [entry EXCEPT ![Head(loop).key] =
                 {[px4 |-> Head(loop).px4, stamp |-> now]}]
  /\ loop' = Tail(loop)
  /\ UNCHANGED <<now, roverVars, linked, wire>>

\* TelemetryCache.get: what is cached under a key, unless it is stale.
Get(key) == {e.px4 : e \in {e \in entry[key] : now - e.stamp <= StaleThreshold}}

\* Faulty variant: the px4 entry is used whatever its age.
GetEffectivePx4Unchecked ==
  IF entry["px4"] # {} THEN {e.px4 : e \in entry["px4"]} ELSE Get("health")

\* get_effective_px4: the px4 entry, or the PX4 part of the health entry as
\* long as there is none.
GetEffectivePx4 == IF entry["px4"] # {} THEN Get("px4") ELSE Get("health")

\* SafetyGate._check_set_mode (_check_arm asks for more), _check_nav_goal
\* (_check_drive asks for more).
CheckSetMode == \E p \in Get("health") : p.connected
CheckNavGoal == \E p \in GetEffectivePx4 : p.armed

-----------------------------------------------------------------------------

\* Time passes only as far as no ready callback, merge or message in flight
\* misses its deadline.
Tick ==
  /\ now < Horizon
  /\ \A u \in px4Topic \cup healthTopic : now - u.since < ExecLag
  /\ now - mergedAt < MergePeriod + ExecLag
  /\ \A i \in DOMAIN wire : now - wire[i].sent < NetDelay
  /\ \A i \in DOMAIN loop : now - loop[i].sent < NetDelay
  /\ now' = now + 1
  /\ UNCHANGED <<roverVars, linked, wire, hostVars>>

Next ==
  \/ OnVehicleStatus \/ OnOtherMessage
  \/ OnPx4 \/ OnMergeTimer
  \/ OnHealth \/ OnHeartbeatTimer
  \/ LinkLost \/ LinkRestored
  \/ OnMessage \/ StoreEntry
  \/ Tick

Spec == Init /\ [][Next]_vars

-----------------------------------------------------------------------------
(* Properties.                                                             *)

\* Types; the topics and caches hold at most one message.
TypeOK ==
  /\ now \in Nat
  /\ armed \in BOOLEAN
  /\ px4Topic \in SUBSET Unread
  /\ px4Cache \in SUBSET Stamped
  /\ mergedAt \in 0..now
  /\ healthTopic \in SUBSET Unread
  /\ latest \in SUBSET Px4Status
  /\ linked \in BOOLEAN
  /\ wire \in Seq(Heartbeat) /\ loop \in Seq(Coroutine)
  /\ entry \in [Keys -> SUBSET Stamped]
  /\ \A S \in {px4Topic, px4Cache, healthTopic, latest, entry["health"], entry["px4"]} :
       \A a, b \in S : a = b

\* How long ago the probe took the message behind a status in latest_health_,
\* and behind one the gate accepts.
LatestBound == 3 * ExecLag + Px4Stale + MergePeriod
GateBound == LatestBound + NetDelay + StaleThreshold

\* The safety gate opens for arming and mode changes only if PX4 was heard from
\* within GateBound, however the stamps of the five hops, executor stalls and a
\* broken link combine: no hop passes old data off as fresh for ever.
HealthGateFresh ==
  CheckSetMode =>
    \A p \in Get("health") : now - p.heard <= GateBound

\* The same for navigation and driving, which decide on the px4 entry.
Px4GateFresh ==
  CheckNavGoal =>
    \A p \in GetEffectivePx4 : now - p.heard <= GateBound
=============================================================================
