--------------------------- MODULE BringupProofs ----------------------------
(***************************************************************************)
(* What the order of the entities and the timers guarantee, for every set  *)
(* of sessions and every length of the timers: the startup delay keeps a   *)
(* depth camera away from a resetting T265, the gate keeps Nav2 away from  *)
(* an odometry that is silent, and only a mapping session that asks for it *)
(* wipes the map.  And, for every session: the topics and transforms of    *)
(* the odometry and control contract have one owner, and what RTAB-Map,    *)
(* Nav2 and PX4 listen to is produced from a device on.                    *)
(***************************************************************************)
EXTENDS Bringup, FiniteSetTheorems, TLAPS

Stages == {"topics", "odom", "settle"}

\* A timer ends what it counts for; the gate's tells how long it has waited.
TimerInv ==
  /\ visited \in 0..14
  /\ timer \in [{"reset", "delay", "gate", "rviz"} -> Nat] /\ waited \in Nat
  /\ t265 \in {"off", "resetting", "streaming"}
  /\ depth \in {"off", "delayed", "streaming"}
  /\ gate \in {"off", "topics", "odom", "settle", "passed"}
  /\ odomFlows \in BOOLEAN /\ listed \in BOOLEAN

\* While a T265 resets next to a depth camera, the camera's delay outlasts it.
DeviceInv ==
  ResetTicks < DelayTicks /\ t265 = "resetting" => depth = "delayed" /\ timer.reset < timer.delay

GateInv ==
  /\ gate # "off" => visited >= 11
  /\ gate = "off" => waited = 0
  /\ gate = "topics" => waited + timer.gate = StageTicks
  /\ gate = "odom" => waited + timer.gate \in StageTicks..(2 * StageTicks)
  /\ gate = "settle" => /\ waited + timer.gate <= 2 * StageTicks + SettleTicks
                        /\ odomFlows \/ waited + timer.gate >= StageTicks + SettleTicks
  /\ gate = "passed" => /\ waited <= 2 * StageTicks + SettleTicks
                        /\ odomFlows \/ waited >= StageTicks + SettleTicks

\* Nav2 runs only past the gate, and nothing that wipes before RTAB-Map is visited.
NodeInv ==
  /\ \A n \in nodes : n.name = "bt_navigator" => gate = "passed"
  /\ visited < 10 => \A n \in nodes : n.name \notin Wipers

SessionInv ==
  /\ asked \in {{}} \cup {{s} : s \in Sessions}
  /\ database \in {"empty", "mapped"}

IInv == TimerInv /\ DeviceInv /\ GateInv /\ NodeInv /\ SessionInv

-----------------------------------------------------------------------------
\* The entities that matter here and their places.
LEMMA Places ==
  /\ Len(Entities) = 14
  /\ \A i \in 1..14 : Entities[i] = "wait_for_rtabmap" => i = 11
  /\ \A i \in 1..14 : Entities[i] = "rtabmap" => i = 10
BY DEF Entities

\* An argument that an include passes is what the included file sees.
LEMMA IncludeFacts ==
  ASSUME NEW arguments, NEW context0, NEW defaults, NEW a \in DOMAIN arguments
  PROVE  Declare(Include(arguments, context0), defaults)[a] = arguments[a]
BY DEF Declare, Include

\* A conditional node is there under its condition.
LEMMA OnlyFacts ==
  ASSUME NEW condition, NEW node, NEW n \in Only(condition, node)
  PROVE  n = node /\ condition
BY DEF Only

\* The names of the camera nodes.
LEMMA CameraNames ==
  ASSUME NEW c, NEW n \in GazeboNodes(c) \cup RealsenseNodes(c) \cup SimCameraInfo(c) \cup SimT265Relay(c)
                           \cup {JointRelay, StatePublisher}
  PROVE  n.name # "bt_navigator" /\ n.name \notin Wipers
<1>1. CASE n \in GazeboNodes(c)
  BY <1>1, OnlyFacts DEF GazeboNodes, DepthBridge, SpawnEntity, GazeboStatePublisher, T265Bridge, JointStateBridge,
                         RosNode, Wipers
<1>2. CASE n \in RealsenseNodes(c)
  <2>1. \/ n = DepthCamera("d435i", c.d435i_enable_imu) \/ n = DepthCamera("l515", c.l515_enable_imu)
        \/ n = T265Camera(c) \/ n = T265Relay(c)
    BY <1>2, OnlyFacts DEF RealsenseNodes, D435iNode, L515Node, T265Node
  <2>2. \A device, imu : DepthCamera(device, imu).name = device
    BY DEF DepthCamera, RosNode
  <2>3. T265Camera(c).name = "t265" /\ T265Relay(c).name = "t265_odom_relay"
    BY DEF T265Camera, T265Relay, RosNode
  <2> QED BY <2>1, <2>2, <2>3 DEF Wipers
<1>3. CASE n \in SimCameraInfo(c) \cup SimT265Relay(c)
  BY <1>3, OnlyFacts DEF SimCameraInfo, SimT265Relay, RosNode, Wipers
<1>4. CASE n \in {JointRelay, StatePublisher}
  BY <1>4 DEF JointRelay, StatePublisher, RosNode, Wipers
<1> QED BY <1>1, <1>2, <1>3, <1>4

\* The names of the odometry nodes.
LEMMA OdometryNames ==
  ASSUME NEW c, NEW n \in {VinsNode(c), VinsRelay(c), CuvslamNode(c), CuvslamRelay(c),
                           CuvslamRgbdNode(c), CuvslamRgbdRelay(c)}
  PROVE  n.name # "bt_navigator" /\ n.name \notin Wipers
BY DEF VinsNode, VinsRelay, OdomRelay, CuvslamNode, CuvslamRelay, CuvslamRgbdNode, CuvslamRgbdRelay, RosNode, Wipers

\* The names of the monitor's nodes.
LEMMA MonitorNames ==
  ASSUME NEW c, NEW n \in MonitorNodes(c)
  PROVE  n.name # "bt_navigator" /\ n.name \notin Wipers
<1>1. n = DepthProbe(c) \/ n = TrackingProbe(c) \/ n \in MonitorCore \/ n = Telemetry
  BY OnlyFacts DEF MonitorNodes
<1>2. DepthProbe(c).name = "cam_probe_depth" /\ TrackingProbe(c).name = "cam_probe_tracking"
  BY DEF DepthProbe, TrackingProbe, RosNode
<1>3. Telemetry.name = "telemetry_publisher"
      /\ \A m \in MonitorCore : m.name \in {"px4_probe", "jetson_probe", "monitor_aggregator"}
  BY DEF MonitorCore, Telemetry, RosNode
<1> QED BY <1>1, <1>2, <1>3 DEF Wipers

\* Nodes of the entities other than RTAB-Map: none wipes, none is Nav2's.
LEMMA OtherNodes ==
  ASSUME NEW e, NEW c, e # "rtabmap", NEW n \in NodesOf(e, c)
  PROVE  n.name # "bt_navigator" /\ n.name \notin Wipers
<1>1. \/ n \in GazeboNodes(c) \cup RealsenseNodes(c) \cup SimCameraInfo(c) \cup SimT265Relay(c)
                 \cup {JointRelay, StatePublisher}
      \/ n \in {VinsNode(c), VinsRelay(c), CuvslamNode(c), CuvslamRelay(c),
                CuvslamRgbdNode(c), CuvslamRgbdRelay(c)}
      \/ n \in MonitorNodes(c)
  BY DEF NodesOf
<1> QED BY <1>1, CameraNames, OdometryNames, MonitorNames

\* Of RTAB-Map's nodes only the mapping one that was asked to wipe does.
LEMMA SlamNodesFacts ==
  ASSUME NEW c, NEW n \in SlamNodes(c)
  PROVE  n.name # "bt_navigator" /\ (n.name \in Wipers => c.delete_db_on_start /\ ~c.localization)
<1>1. \A name : Rtabmap(c, name).name = name
  BY DEF Rtabmap, RosNode
<1>2. CASE n \in SlamVariants(c)
  <2>1. \/ n = Rtabmap(c, "rtabmap") \/ n = Rtabmap(c, "rtabmap_udebug")
        \/ SlamMappingWipe(c) /\ (n = Rtabmap(c, "rtabmap_wipe") \/ n = Rtabmap(c, "rtabmap_wipe_udebug"))
    BY <1>2, OnlyFacts DEF SlamVariants
  <2> QED BY <1>1, <2>1 DEF SlamMappingWipe, Wipers
<1>3. CASE n \in LocalizationNode(c)
  BY <1>1, <1>3, OnlyFacts DEF LocalizationNode, Wipers
<1>4. CASE n \in {RgbdSync(c), RgbdToPoints(c), ObstacleDetection, DepthToScan(c), RtabmapViz(c)}
  BY <1>4 DEF RgbdSync, RgbdToPoints, ObstacleDetection, DepthToScan, RtabmapViz, RosNode, Wipers
<1> QED BY <1>2, <1>3, <1>4, OnlyFacts DEF SlamNodes

\* The nodes of PX4 and Nav2.
LEMMA Px4Names ==
  ASSUME NEW q, NEW n \in Px4Nodes(q)
  PROVE  n.name # "bt_navigator" /\ n.name \notin Wipers
<1>1. \/ n \in VoXrce(q) \cup VoMavlink(q) \cup VehicleOdom(q) \cup Trajectory(q)
      \/ \E m \in RoverModes : n = RosNode("px4", m, {Global("cmd_vel")}, {})
  BY DEF Px4Nodes, RoverModeNodes
<1>2. CASE n \in VoXrce(q) \cup VoMavlink(q) \cup VehicleOdom(q) \cup Trajectory(q)
  BY <1>2, OnlyFacts DEF VoXrce, VoMavlink, VehicleOdom, Trajectory, RosNode, Wipers
<1>3. CASE \E m \in RoverModes : n = RosNode("px4", m, {Global("cmd_vel")}, {})
  BY <1>3 DEF RoverModes, RosNode, Wipers
<1> QED BY <1>1, <1>2, <1>3

-----------------------------------------------------------------------------
(* Preservation, one lemma per kind of step. *)

\* What a visit adds: Nav2's nodes never, what wipes only with RTAB-Map.
LEMMA VisitFacts ==
  ASSUME IInv, NEW e, VisitNodes(e)
  PROVE  /\ visited \in 0..13 /\ visited' = visited + 1 /\ Entities[visited + 1] = e
         /\ UNCHANGED <<asked, odomFlows, listed>>
         /\ \A n \in nodes' : n \in nodes \/ n.name # "bt_navigator"
         /\ visited' < 10 => \A n \in nodes' : n.name \notin Wipers
         /\ visited < 10 =>
              \A n \in nodes' : n.name \in Wipers =>
                e = "rtabmap" /\ context'.delete_db_on_start /\ ~context'.localization
<1>1. /\ visited \in 0..13 /\ visited' = visited + 1 /\ Entities[visited + 1] = e
      /\ UNCHANGED <<asked, odomFlows, listed>>
      /\ context' = ContextAfter(e, context)
      /\ nodes' = nodes \cup NodesOf(e, context')
  BY Places DEF VisitNodes, NextIs, IInv, TimerInv
<1>2. e = "rtabmap" => visited = 9
  BY <1>1, Places
<1>3. ASSUME NEW n \in NodesOf(e, context')
      PROVE  /\ n.name # "bt_navigator"
             /\ n.name \in Wipers => e = "rtabmap" /\ context'.delete_db_on_start /\ ~context'.localization
  <2>1. CASE e = "rtabmap"
    <3>1. n \in SlamNodes(context')
      BY <1>3, <2>1 DEF NodesOf
    <3> QED BY <2>1, <3>1, SlamNodesFacts
  <2>2. CASE e # "rtabmap"
    BY <1>3, <2>2, OtherNodes
  <2> QED BY <2>1, <2>2
<1>4. visited < 10 => \A n \in nodes : n.name \notin Wipers
  BY DEF IInv, NodeInv
<1> QED BY <1>1, <1>2, <1>3, <1>4

\* Both arguments that delay a depth camera follow the T265.
LEMMA DelayFollowsT265 ==
  ASSUME NEW c
  PROVE  Delayed(Declare(Include(RealsenseArguments(c), c), RealsenseDefaults))
           = Declare(Include(RealsenseArguments(c), c), RealsenseDefaults).enable_t265
<1> DEFINE r == RealsenseArguments(c)
           d == Declare(Include(r, c), RealsenseDefaults)
<1>1. /\ {"enable_t265", "d435i_delayed", "l515_delayed"} \subseteq DOMAIN r
      /\ r.enable_t265 = EnableT265(c) /\ r.d435i_delayed = EnableT265(c) /\ r.l515_delayed = EnableT265(c)
  BY DEF RealsenseArguments
<1> HIDE DEF r
<1>2. d.enable_t265 = r.enable_t265 /\ d.d435i_delayed = r.d435i_delayed /\ d.l515_delayed = r.l515_delayed
  BY <1>1, IncludeFacts
<1> HIDE DEF d
<1>3. Delayed(d) = d.enable_t265
  BY <1>1, <1>2 DEF Delayed
<1> QED BY <1>3 DEF d, r

\* The constants are numbers.
LEMMA TicksAreNumbers ==
  /\ StageTicks \in Nat /\ SettleTicks \in Nat /\ RvizTicks \in Nat /\ ResetTicks \in Nat /\ DelayTicks \in Nat
BY BringupAssumption

\* Visits keep the invariant.
LEMMA VisitKeeps == IInv /\ Visit => IInv'
<1> SUFFICES ASSUME IInv, Visit PROVE IInv'
  OBVIOUS
<1> USE TicksAreNumbers
<1>0. PICK e :
        /\ VisitNodes(e)
        /\ VisitEntity \/ VisitCameras \/ VisitRtabmap \/ (VisitGate /\ e = "wait_for_rtabmap") \/ VisitRviz
  BY DEF Visit, VisitEntity, VisitCameras, VisitRtabmap, VisitGate, VisitRviz
<1>1. /\ visited \in 0..13 /\ visited' = visited + 1 /\ Entities[visited + 1] = e
      /\ UNCHANGED <<asked, odomFlows, listed>>
      /\ \A n \in nodes' : n \in nodes \/ n.name # "bt_navigator"
      /\ visited' < 10 => \A n \in nodes' : n.name \notin Wipers
  BY <1>0, VisitFacts
<1>2. TimerInv /\ DeviceInv /\ GateInv /\ NodeInv /\ SessionInv
  BY DEF IInv
<1>3. waited' = waited
  BY <1>0 DEF VisitEntity, VisitCameras, VisitRtabmap, VisitGate, VisitRviz, readiness
<1>4. SessionInv'
  BY <1>0, <1>1, <1>2 DEF SessionInv, VisitEntity, VisitCameras, VisitRtabmap, VisitGate, VisitRviz
<1>5. CASE UNCHANGED <<t265, depth, gate, timer>>
  <2>1. TimerInv' /\ DeviceInv' /\ GateInv'
    BY <1>1, <1>2, <1>3, <1>5 DEF TimerInv, DeviceInv, GateInv
  <2>2. NodeInv'
    BY <1>1, <1>2, <1>5 DEF NodeInv
  <2> QED BY <1>4, <2>1, <2>2 DEF IInv
<1>6. CASE VisitCameras
  <2>1. UNCHANGED gate
    BY <1>6 DEF VisitCameras, readiness
  <2>2. CASE context.use_gazebo
    BY <1>5, <1>6, <2>1, <2>2 DEF VisitCameras, devices
  <2>3. CASE ~context.use_gazebo
    <3>1. context' = ContextAfter("hw_cameras", context)
      BY <1>6 DEF VisitCameras, VisitNodes
    <3>2. context' = Declare(Include(RealsenseArguments(context), context), RealsenseDefaults)
      BY <2>3, <3>1 DEF ContextAfter
    <3>3. Delayed(context') = context'.enable_t265
      BY <3>2, DelayFollowsT265
    <3>4. /\ t265' = IF context'.enable_t265 THEN "resetting" ELSE "off"
          /\ depth' = IF Delayed(context') THEN "delayed" ELSE "streaming"
          /\ timer' = [timer EXCEPT !.reset = IF context'.enable_t265 THEN ResetTicks ELSE 0,
                                    !.delay = IF Delayed(context') THEN DelayTicks ELSE 0]
      BY <1>6, <2>3 DEF VisitCameras
    <3>5. /\ timer' \in [{"reset", "delay", "gate", "rviz"} -> Nat] /\ timer'.gate = timer.gate
          /\ timer'.reset = IF context'.enable_t265 THEN ResetTicks ELSE 0
          /\ timer'.delay = IF Delayed(context') THEN DelayTicks ELSE 0
      BY <1>2, <3>4 DEF TimerInv
    <3>6. DeviceInv'
      BY <3>3, <3>4, <3>5 DEF DeviceInv
    <3>7. TimerInv' /\ GateInv'
      BY <1>1, <1>2, <1>3, <2>1, <3>4, <3>5 DEF TimerInv, GateInv
    <3>8. NodeInv'
      BY <1>1, <1>2, <2>1 DEF NodeInv
    <3> QED BY <1>4, <3>6, <3>7, <3>8 DEF IInv
  <2> QED BY <2>2, <2>3
<1>7. CASE VisitGate
  <2>1. visited = 10 /\ UNCHANGED <<t265, depth>> /\ gate = "off" /\ waited = 0
    BY <1>0, <1>1, <1>2, <1>7, Places DEF GateInv, TimerInv, VisitGate, VisitNodes, NextIs, devices
  <2>2. CASE context.nav2
    <3>1. gate' \in {"topics", "odom"} /\ timer' = [timer EXCEPT !.gate = StageTicks]
      BY <1>7, <2>2 DEF VisitGate
    <3>2. /\ timer' \in [{"reset", "delay", "gate", "rviz"} -> Nat] /\ timer'.gate = StageTicks
          /\ timer'.reset = timer.reset /\ timer'.delay = timer.delay
      BY <1>2, <3>1 DEF TimerInv
    <3>3. TimerInv' /\ DeviceInv'
      BY <1>1, <1>2, <1>3, <2>1, <3>1, <3>2 DEF TimerInv, DeviceInv
    <3>4. GateInv'
      BY <1>1, <1>3, <2>1, <3>1, <3>2 DEF GateInv
    <3>5. NodeInv'
      BY <1>1, <1>2, <2>1, <3>1 DEF NodeInv
    <3> QED BY <1>4, <3>3, <3>4, <3>5 DEF IInv
  <2>3. CASE ~context.nav2
    BY <1>5, <1>7, <2>1, <2>3 DEF VisitGate
  <2> QED BY <2>2, <2>3
<1>8. CASE VisitRviz
  <2>1. UNCHANGED <<t265, depth, gate>> /\ timer' = [timer EXCEPT !.rviz = RvizTicks]
    BY <1>8 DEF VisitRviz, devices, readiness
  <2>2. /\ timer' \in [{"reset", "delay", "gate", "rviz"} -> Nat] /\ timer'.gate = timer.gate
        /\ timer'.reset = timer.reset /\ timer'.delay = timer.delay
    BY <1>2, <2>1 DEF TimerInv
  <2>3. TimerInv' /\ DeviceInv' /\ GateInv'
    BY <1>1, <1>2, <1>3, <2>1, <2>2 DEF TimerInv, DeviceInv, GateInv
  <2>4. NodeInv'
    BY <1>1, <1>2, <2>1 DEF NodeInv
  <2> QED BY <1>4, <2>3, <2>4 DEF IInv
<1> QED BY <1>5, <1>6, <1>7, <1>8 DEF Visit, VisitEntity, VisitRtabmap, devices, readiness

\* Exits of processes add no node of Nav2's.
\* None of the nodes that follow an exit or a timer is Nav2's.
LEMMA NodeStepsNames ==
  ASSUME NodeSteps
  PROVE  \A n \in nodes' : n \in nodes \/ n.name # "bt_navigator"
<1>1. CASE SpawnExits
  BY <1>1, OnlyFacts DEF SpawnExits, RosNode
<1>2. CASE SpawnerExits
  BY <1>2 DEF SpawnerExits, JointBroadcaster, AckermannController, RosNode
<1>3. CASE RvizStarts
  BY <1>3 DEF RvizStarts, RosNode
<1>4. CASE Px4Starts
  BY <1>4, Px4Names DEF Px4Starts
<1> QED BY <1>1, <1>2, <1>3, <1>4 DEF NodeSteps

\* What starts after an exit or a timer leaves timers and gate alone.
LEMMA NodeStepsKeep == IInv /\ NodeSteps => IInv'
<1> SUFFICES ASSUME IInv, NodeSteps PROVE IInv'
  OBVIOUS
<1>1. Launched /\ OnlyNodes
  BY DEF NodeSteps, SpawnExits, SpawnerExits, RvizStarts, Px4Starts
<1>2. \A n \in nodes' : n \in nodes \/ n.name # "bt_navigator"
  BY NodeStepsNames
<1>3. visited = 14
  BY <1>1, Places DEF Launched
<1> QED BY <1>1, <1>2, <1>3 DEF OnlyNodes, devices, readiness, IInv, TimerInv, DeviceInv, GateInv, NodeInv, SessionInv

\* A depth camera that waits outlasts the reset.
LEMMA EnvironmentKeeps == IInv /\ Environment => IInv'
<1> SUFFICES ASSUME IInv, Environment PROVE IInv'
  OBVIOUS
<1>1. TimerInv /\ DeviceInv /\ GateInv /\ NodeInv /\ SessionInv
  BY DEF IInv
<1>2. CASE ResetEnds
  <2>1. /\ t265' = "streaming" /\ timer' = [timer EXCEPT !.reset = 0]
        /\ UNCHANGED <<asked, context, visited, nodes, depth, gate, waited, odomFlows, listed, database>>
    BY <1>2 DEF ResetEnds, readiness
  <2>2. timer' \in [{"reset", "delay", "gate", "rviz"} -> Nat] /\ timer'.gate = timer.gate
    BY <1>1, <2>1 DEF TimerInv
  <2> QED BY <1>1, <2>1, <2>2 DEF IInv, TimerInv, DeviceInv, GateInv, NodeInv, SessionInv
<1>3. CASE DelayEnds
  <2>1. /\ timer.delay = 0 /\ depth' = "streaming"
        /\ UNCHANGED <<asked, context, visited, nodes, t265, gate, waited, odomFlows, listed, timer, database>>
    BY <1>3 DEF DelayEnds, readiness
  <2>2. timer.reset \in Nat /\ ~(timer.reset < timer.delay)
    BY <1>1, <2>1 DEF TimerInv
  <2> QED BY <1>1, <2>1, <2>2 DEF IInv, TimerInv, DeviceInv, GateInv, NodeInv, SessionInv
<1>4. CASE OdometryStarts \/ InfoListed \/ MapGrows
  <2>1. /\ UNCHANGED <<asked, context, visited, nodes, t265, depth, gate, waited, timer>>
        /\ odomFlows' \in {odomFlows, TRUE} /\ listed' \in {listed, TRUE} /\ database' \in {database, "mapped"}
    BY <1>4 DEF OdometryStarts, InfoListed, MapGrows, devices, readiness
  <2>2. TimerInv'
    BY <1>1, <2>1 DEF TimerInv
  <2>3. DeviceInv' /\ SessionInv'
    BY <1>1, <2>1 DEF DeviceInv, SessionInv
  <2>6. odomFlows => odomFlows'
    BY <2>1
  <2>7. UNCHANGED <<gate, visited, waited, timer>> /\ GateInv
    BY <1>1, <2>1
  <2>4. GateInv'
    BY <2>6, <2>7 DEF GateInv
  <2>5. NodeInv'
    BY <1>1, <2>1 DEF NodeInv
  <2> QED BY <2>2, <2>3, <2>4, <2>5 DEF IInv
<1> QED BY <1>2, <1>3, <1>4 DEF Environment

\* A stage of the gate ends when it has been heard or waited out.
LEMMA GateKeeps == IInv /\ GateSteps => IInv'
<1> SUFFICES ASSUME IInv, GateSteps PROVE IInv'
  OBVIOUS
<1> USE TicksAreNumbers
<1>1. TimerInv /\ DeviceInv /\ GateInv /\ NodeInv /\ SessionInv
  BY DEF IInv
<1>2. visited = 14
  BY Places DEF GateSteps, TopicsStageEnds, OdomStageEnds, GateExits, Launched
<1>3. ASSUME NEW stage \in {"odom", "settle"}, NEW ticks \in Nat, EnterStage(stage, ticks),
             gate \in {"topics", "odom"}
      PROVE  /\ UNCHANGED <<asked, visited, nodes, t265, depth, waited, odomFlows, listed, database>>
             /\ gate' = stage /\ timer' \in [{"reset", "delay", "gate", "rviz"} -> Nat] /\ timer'.gate = ticks
             /\ TimerInv' /\ DeviceInv' /\ NodeInv' /\ SessionInv'
  <2>1. /\ UNCHANGED <<asked, visited, nodes, t265, depth, waited, odomFlows, listed, database>>
        /\ gate' = stage /\ timer' = [timer EXCEPT !.gate = ticks]
    BY <1>3 DEF EnterStage, devices
  <2>2. /\ timer' \in [{"reset", "delay", "gate", "rviz"} -> Nat] /\ timer'.gate = ticks
        /\ timer'.reset = timer.reset /\ timer'.delay = timer.delay
    BY <1>1, <2>1 DEF TimerInv
  <2>3. TimerInv' /\ DeviceInv'
    BY <1>1, <2>1, <2>2 DEF TimerInv, DeviceInv
  <2>4. NodeInv' /\ SessionInv'
    BY <1>1, <1>3, <2>1 DEF NodeInv, SessionInv
  <2> QED BY <2>1, <2>2, <2>3, <2>4
<1>4. CASE TopicsStageEnds
  <2>1. gate = "topics" /\ EnterStage("odom", StageTicks)
    BY <1>4 DEF TopicsStageEnds
  <2>2. /\ waited + timer.gate = StageTicks /\ timer.gate \in Nat /\ waited \in Nat
    BY <1>1, <2>1 DEF GateInv, TimerInv
  <2>3. gate' = "odom" /\ waited' = waited /\ timer'.gate = StageTicks /\ visited' = visited
        /\ TimerInv' /\ DeviceInv' /\ NodeInv' /\ SessionInv'
    BY <1>3, <2>1
  <2>4. GateInv'
    BY <1>2, <2>2, <2>3 DEF GateInv
  <2> QED BY <2>3, <2>4 DEF IInv
<1>5. CASE OdomStageEnds
  <2>1. gate = "odom" /\ (odomFlows \/ timer.gate = 0) /\ EnterStage("settle", SettleTicks)
    BY <1>5 DEF OdomStageEnds
  <2>2. /\ waited + timer.gate \in StageTicks..(2 * StageTicks) /\ timer.gate \in Nat /\ waited \in Nat
    BY <1>1, <2>1 DEF GateInv, TimerInv
  <2>3. gate' = "settle" /\ waited' = waited /\ timer'.gate = SettleTicks /\ visited' = visited
        /\ odomFlows' = odomFlows /\ TimerInv' /\ DeviceInv' /\ NodeInv' /\ SessionInv'
    BY <1>3, <2>1
  <2>4. GateInv'
    BY <1>2, <2>1, <2>2, <2>3 DEF GateInv
  <2> QED BY <2>3, <2>4 DEF IInv
<1>6. CASE GateExits
  <2>1. /\ gate = "settle" /\ timer.gate = 0 /\ gate' = "passed"
        /\ UNCHANGED <<asked, visited, t265, depth, waited, odomFlows, listed, timer, database>>
    BY <1>6 DEF GateExits, devices
  <2>2. TimerInv' /\ DeviceInv' /\ SessionInv'
    BY <1>1, <2>1 DEF TimerInv, DeviceInv, SessionInv
  <2>3. GateInv'
    BY <1>1, <1>2, <2>1 DEF GateInv, TimerInv
  <2>4. NodeInv'
    BY <1>2, <2>1 DEF NodeInv
  <2> QED BY <2>2, <2>3, <2>4 DEF IInv
<1> QED BY <1>4, <1>5, <1>6 DEF GateSteps

\* A tick takes from every timer what it adds to the wait.
LEMMA TickKeeps == IInv /\ Tick => IInv'
<1> SUFFICES ASSUME IInv, Tick PROVE IInv'
  OBVIOUS
<1> USE TicksAreNumbers
<1>1. TimerInv /\ DeviceInv /\ GateInv /\ NodeInv /\ SessionInv
  BY DEF IInv
<1>2. /\ t265 = "resetting" => timer.reset > 0
      /\ gate \in Stages => timer.gate > 0
      /\ timer' = [k \in DOMAIN timer |-> Less(timer[k])]
      /\ waited' = IF gate \in Stages THEN waited + 1 ELSE waited
      /\ UNCHANGED <<asked, visited, nodes, t265, depth, gate, odomFlows, listed, database>>
  BY DEF Tick, Stages, devices
<1>3. /\ timer.reset \in Nat /\ timer.delay \in Nat /\ timer.gate \in Nat /\ waited \in Nat
      /\ DOMAIN timer = {"reset", "delay", "gate", "rviz"}
  BY <1>1 DEF TimerInv
<1>4. \A n \in Nat : Less(n) \in Nat /\ Less(n) <= n /\ (n > 0 => Less(n) = n - 1)
  BY DEF Less
<1>5. /\ timer'.reset = Less(timer.reset) /\ timer'.delay = Less(timer.delay) /\ timer'.gate = Less(timer.gate)
  BY <1>2, <1>3
<1>6. timer' \in [{"reset", "delay", "gate", "rviz"} -> Nat]
  BY <1>1, <1>2, <1>4 DEF TimerInv
<1>7. TimerInv'
  BY <1>1, <1>2, <1>3, <1>6 DEF TimerInv
<1>8. DeviceInv'
  <2> SUFFICES ASSUME ResetTicks < DelayTicks, t265 = "resetting"
               PROVE  depth = "delayed" /\ timer'.reset < timer'.delay
    BY <1>2 DEF DeviceInv
  <2>1. depth = "delayed" /\ timer.reset < timer.delay /\ timer.reset > 0
    BY <1>1, <1>2 DEF DeviceInv
  <2>2. timer'.reset = timer.reset - 1 /\ timer'.delay = timer.delay - 1
    BY <1>3, <1>4, <1>5, <2>1
  <2> QED BY <1>3, <2>1, <2>2
<1>9. GateInv'
  <2>1. CASE gate \in Stages
    <3>1. timer'.gate = timer.gate - 1 /\ waited' = waited + 1
      BY <1>2, <1>3, <1>4, <1>5, <2>1
    <3>2. waited' + timer'.gate = waited + timer.gate
      BY <1>3, <3>1
    <3> QED BY <1>1, <1>2, <2>1, <3>2 DEF GateInv, Stages
  <2>2. CASE gate \notin Stages
    BY <1>1, <1>2, <2>2 DEF GateInv, Stages
  <2> QED BY <2>1, <2>2
<1>10. NodeInv' /\ SessionInv'
  BY <1>1, <1>2 DEF NodeInv, SessionInv
<1> QED BY <1>7, <1>8, <1>9, <1>10 DEF IInv

\* Every step keeps the invariant.
LEMMA StepKeeps == IInv /\ [Next]_vars => IInv'
<1> SUFFICES ASSUME IInv, [Next]_vars PROVE IInv'
  OBVIOUS
<1> USE TicksAreNumbers
<1>1. ASSUME NEW s \in Sessions, Launch(s) PROVE IInv'
  BY <1>1 DEF Launch, devices, readiness, IInv, TimerInv, DeviceInv, GateInv, NodeInv, SessionInv
<1>2. CASE Stop
  <2>1. NoTimer \in [{"reset", "delay", "gate", "rviz"} -> Nat]
    BY DEF NoTimer
  <2>2. /\ asked' = {} /\ visited' = 0 /\ nodes' = {} /\ t265' = "off" /\ depth' = "off" /\ gate' = "off"
        /\ waited' = 0 /\ odomFlows' = FALSE /\ listed' = FALSE /\ timer' = NoTimer /\ database' = database
    BY <1>2 DEF Stop, Idle
  <2>6. odomFlows' \in BOOLEAN /\ listed' \in BOOLEAN
    BY <2>2
  <2>7. visited' \in 0..14 /\ waited' \in Nat
    BY <2>2
  <2>8. timer' \in [{"reset", "delay", "gate", "rviz"} -> Nat]
    BY <2>1, <2>2
  <2>9. /\ t265' \in {"off", "resetting", "streaming"} /\ depth' \in {"off", "delayed", "streaming"}
        /\ gate' \in {"off", "topics", "odom", "settle", "passed"}
    BY <2>2
  <2>3. TimerInv'
    BY <2>6, <2>7, <2>8, <2>9 DEF TimerInv
  <2>4. DeviceInv' /\ GateInv' /\ NodeInv'
    BY <2>2 DEF DeviceInv, GateInv, NodeInv
  <2>5. SessionInv'
    BY <2>2 DEF IInv, SessionInv
  <2> QED BY <2>3, <2>4, <2>5 DEF IInv
<1>3. CASE UNCHANGED vars
  BY <1>3 DEF vars, devices, readiness, IInv, TimerInv, DeviceInv, GateInv, NodeInv, SessionInv
<1> QED BY <1>1, <1>2, <1>3, VisitKeeps, NodeStepsKeep, EnvironmentKeeps, GateKeeps, TickKeeps DEF Next

\* It holds at the start.
LEMMA InitInv == Init => IInv
<1>1. NoTimer \in [{"reset", "delay", "gate", "rviz"} -> Nat]
  BY DEF NoTimer
<1>2. Init => TimerInv
  <2> SUFFICES ASSUME Init PROVE TimerInv
    OBVIOUS
  <2>1. odomFlows \in BOOLEAN /\ listed \in BOOLEAN
    BY DEF Init
  <2>2. visited \in 0..14 /\ waited \in Nat
    BY DEF Init
  <2>3. timer \in [{"reset", "delay", "gate", "rviz"} -> Nat]
    BY <1>1 DEF Init
  <2>4. /\ t265 \in {"off", "resetting", "streaming"} /\ depth \in {"off", "delayed", "streaming"}
        /\ gate \in {"off", "topics", "odom", "settle", "passed"}
    BY DEF Init
  <2> QED BY <2>1, <2>2, <2>3, <2>4 DEF TimerInv
<1>3. Init => DeviceInv /\ GateInv /\ NodeInv /\ SessionInv
  BY DEF Init, DeviceInv, GateInv, NodeInv, SessionInv
<1> QED BY <1>2, <1>3 DEF IInv

-----------------------------------------------------------------------------
(* The theorems. *)

\* The invariant of the launch: timers and what they hold back, and who may run.
THEOREM Invariance == Spec => []IInv
BY InitInv, StepKeeps, PTL DEF Spec

\* Devices, gate and database stay among the states the launch files know, and no
\* timer runs past its end.
THEOREM TypeCorrect == Spec => []TypeOK
<1>1. IInv => TypeOK
  BY Places DEF IInv, TimerInv, SessionInv, TypeOK
<1> QED BY <1>1, Invariance, PTL

\* For every reset shorter than the startup delay, and every combination of
\* arguments, no depth camera streams while a T265 re-enumerates.
THEOREM DepthStartsAfterReset == Spec => []DepthAfterReset
<1>1. IInv => DepthAfterReset
  BY DEF IInv, DeviceInv, DepthAfterReset
<1> QED BY <1>1, Invariance, PTL

\* For every length of the stages, Nav2 has heard odometry or waited the whole stage
\* out, and is held no longer than two stages.
THEOREM NavStartsAfterOdometry == Spec => []NavAfterOdometry
<1>1. ASSUME IInv PROVE NavAfterOdometry
  <2>1. NavUp => gate = "passed"
    BY <1>1 DEF IInv, NodeInv, NavUp, Names
  <2>2. waited \in Nat /\ timer.gate \in Nat /\ StageTicks \in Nat /\ SettleTicks \in Nat
    BY <1>1, TicksAreNumbers DEF IInv, TimerInv
  <2> QED BY <1>1, <2>1, <2>2 DEF IInv, GateInv, TimerInv, NavAfterOdometry
<1> QED BY <1>1, Invariance, PTL

\* For every sequence of sessions, the map is lost only to one that maps and asks for
\* the wipe.
THEOREM MapIsKept == Spec => MapKept
<1>1. ASSUME IInv, [Next]_vars, database = "mapped", database' # "mapped"
      PROVE  context'.delete_db_on_start /\ ~context'.localization
  <2>1. VisitRtabmap
    BY <1>1 DEF Next, Visit, NodeSteps, Environment, GateSteps, Launch, Stop, VisitEntity, VisitCameras, VisitGate,
                VisitRviz, SpawnExits, SpawnerExits, RvizStarts, Px4Starts, OnlyNodes, ResetEnds, DelayEnds,
                OdometryStarts, InfoListed, MapGrows, TopicsStageEnds, OdomStageEnds, EnterStage, GateExits, Tick, vars
  <2>2. VisitNodes("rtabmap") /\ \E n \in nodes' : n.name \in Wipers
    BY <1>1, <2>1 DEF VisitRtabmap
  <2>3. /\ visited \in 0..13 /\ Entities[visited + 1] = "rtabmap"
        /\ visited < 10 =>
             \A n \in nodes' : n.name \in Wipers => context'.delete_db_on_start /\ ~context'.localization
    BY <1>1, <2>2, VisitFacts
  <2>4. visited < 10
    BY <2>3, Places
  <2> QED BY <2>2, <2>3, <2>4
<1>2. IInv /\ [Next]_vars =>
        [database = "mapped" /\ database' # "mapped" => context'.delete_db_on_start /\ ~context'.localization]_vars
  BY <1>1
<1> QED BY <1>2, Invariance, PTL DEF Spec, MapKept

-----------------------------------------------------------------------------
(* The wiring.  From here on: for every session the operator may ask for, what *)
(* the chain of includes leaves in the context, which nodes it starts with it, *)
(* and that they fit together.                                                 *)

RobotArgs ==
  {"use_gazebo", "vision", "localization", "delete_db_on_start", "rtabmap", "rtabmap_viz", "nav2",
   "nav2_controller", "nav2_params_file", "rviz", "enable_px4_sitl", "reversible_drive", "depth_camera",
   "hw_enable_t265", "use_t265_odom", "use_vins_odom", "use_cuvslam_odom", "use_rgbd_odom", "rover_monitor"}

\* What a declaration leaves: what was set, and the defaults of what was not.
LEMMA DeclareFacts ==
  ASSUME NEW c, NEW d
  PROVE  /\ DOMAIN Declare(c, d) = DOMAIN c \cup DOMAIN d
         /\ \A a \in DOMAIN c : Declare(c, d)[a] = c[a]
         /\ \A a \in DOMAIN d \ DOMAIN c : Declare(c, d)[a] = d[a]
BY DEF Declare, Include

\* What an include leaves: what it passes, and the rest as it was.
LEMMA IncludeKeeps ==
  ASSUME NEW arguments, NEW c
  PROVE  /\ DOMAIN Include(arguments, c) = DOMAIN c \cup DOMAIN arguments
         /\ \A a \in DOMAIN arguments : Include(arguments, c)[a] = arguments[a]
         /\ \A a \in DOMAIN c \ DOMAIN arguments : Include(arguments, c)[a] = c[a]
BY DEF Include

\* The arguments of robot_bringup.launch.py, and which of them are switches.
LEMMA RobotArguments ==
  /\ DOMAIN RobotDefaults = RobotArgs
  /\ Switches = RobotArgs \ {"nav2_controller", "nav2_params_file", "depth_camera"}
  /\ \A a \in Switches : RobotDefaults[a] \in BOOLEAN
  /\ RobotDefaults.depth_camera = "l515"
<1> DEFINE sim == SimDefaults
           slam == SlamDefaults
           nav == NavDefaults
           cam == CameraDefaults
<1>1. /\ DOMAIN sim = {"use_gazebo", "vision"}
      /\ sim.use_gazebo \in BOOLEAN /\ sim.vision \in BOOLEAN
  BY DEF SimDefaults
<1>2. /\ DOMAIN slam = {"localization", "delete_db_on_start", "rtabmap", "rtabmap_viz"}
      /\ slam.localization \in BOOLEAN /\ slam.delete_db_on_start \in BOOLEAN
      /\ slam.rtabmap \in BOOLEAN /\ slam.rtabmap_viz \in BOOLEAN
  BY DEF SlamDefaults
<1>3. /\ DOMAIN nav = {"nav2", "nav2_controller", "nav2_params_file", "rviz", "enable_px4_sitl", "reversible_drive"}
      /\ nav.nav2 \in BOOLEAN /\ nav.rviz \in BOOLEAN /\ nav.enable_px4_sitl \in BOOLEAN
      /\ nav.reversible_drive \in BOOLEAN
  BY DEF NavDefaults
<1>4. /\ DOMAIN cam = {"depth_camera", "hw_enable_t265", "use_t265_odom", "use_vins_odom", "use_cuvslam_odom",
                       "use_rgbd_odom", "rover_monitor"}
      /\ cam.hw_enable_t265 \in BOOLEAN /\ cam.use_t265_odom \in BOOLEAN /\ cam.use_vins_odom \in BOOLEAN
      /\ cam.use_cuvslam_odom \in BOOLEAN /\ cam.use_rgbd_odom \in BOOLEAN /\ cam.rover_monitor \in BOOLEAN
      /\ cam.depth_camera = "l515"
  BY DEF CameraDefaults
<1>5. Switches = DOMAIN sim \cup DOMAIN slam \cup {"nav2", "rviz", "enable_px4_sitl", "reversible_drive"}
                   \cup (DOMAIN cam \ {"depth_camera"})
  BY DEF Switches
<1>6. RobotDefaults = Declare(Declare(Declare(sim, slam), nav), cam)
  BY DEF RobotDefaults
<1> DEFINE two == Declare(sim, slam)
           three == Declare(two, nav)
           four == Declare(three, cam)
<1>7. RobotDefaults = four
  BY <1>6
<1> HIDE DEF sim, slam, nav, cam
<1>a. /\ DOMAIN two = DOMAIN sim \cup DOMAIN slam
      /\ \A a \in DOMAIN sim : two[a] = sim[a]
      /\ \A a \in DOMAIN slam \ DOMAIN sim : two[a] = slam[a]
  BY DeclareFacts
<1> HIDE DEF two
<1>b. /\ DOMAIN three = DOMAIN two \cup DOMAIN nav
      /\ \A a \in DOMAIN two : three[a] = two[a]
      /\ \A a \in DOMAIN nav \ DOMAIN two : three[a] = nav[a]
  BY DeclareFacts
<1> HIDE DEF three
<1>c. /\ DOMAIN four = DOMAIN three \cup DOMAIN cam
      /\ \A a \in DOMAIN three : four[a] = three[a]
      /\ \A a \in DOMAIN cam \ DOMAIN three : four[a] = cam[a]
  BY DeclareFacts
<1> HIDE DEF four
<1>8. /\ DOMAIN RobotDefaults = DOMAIN sim \cup DOMAIN slam \cup DOMAIN nav \cup DOMAIN cam
      /\ \A a \in DOMAIN sim : RobotDefaults[a] = sim[a]
      /\ \A a \in DOMAIN slam \ DOMAIN sim : RobotDefaults[a] = slam[a]
      /\ \A a \in DOMAIN nav \ (DOMAIN sim \cup DOMAIN slam) : RobotDefaults[a] = nav[a]
      /\ \A a \in DOMAIN cam \ (DOMAIN sim \cup DOMAIN slam \cup DOMAIN nav) : RobotDefaults[a] = cam[a]
  BY <1>7, <1>a, <1>b, <1>c
<1>9. DOMAIN RobotDefaults = RobotArgs
  BY <1>1, <1>2, <1>3, <1>4, <1>8 DEF RobotArgs
<1>10. Switches = RobotArgs \ {"nav2_controller", "nav2_params_file", "depth_camera"}
  BY <1>1, <1>2, <1>3, <1>4, <1>5 DEF RobotArgs
<1>11. RobotDefaults.depth_camera = "l515"
  BY <1>1, <1>2, <1>3, <1>4, <1>8
<1>12. ASSUME NEW a \in Switches PROVE RobotDefaults[a] \in BOOLEAN
  <2>1. \/ a \in DOMAIN sim \/ a \in DOMAIN slam
        \/ a \in {"nav2", "rviz", "enable_px4_sitl", "reversible_drive"}
        \/ a \in DOMAIN cam \ {"depth_camera"}
    BY <1>5
  <2>2. CASE a \in DOMAIN sim
    BY <1>1, <1>8, <2>2
  <2>3. CASE a \in DOMAIN slam
    BY <1>1, <1>2, <1>8, <2>3
  <2>4. CASE a \in {"nav2", "rviz", "enable_px4_sitl", "reversible_drive"}
    BY <1>1, <1>2, <1>3, <1>8, <2>4
  <2>5. CASE a \in DOMAIN cam \ {"depth_camera"}
    BY <1>1, <1>2, <1>3, <1>4, <1>8, <2>5
  <2> QED BY <2>1, <2>2, <2>3, <2>4, <2>5
<1> QED BY <1>9, <1>10, <1>11, <1>12

-----------------------------------------------------------------------------
(* What an entity does to the arguments. *)

OdomArgs == {"config_file", "raw_odom_topic", "odom_topic"}
ImuArgs == {"d435i_enable_imu", "l515_enable_imu", "t265_enable_imu"}
OdomTopicArgs == {"t265_odom_topic", "vins_odom_topic", "cuvslam_odom_topic", "cuvslam_rgbd_odom_topic"}
StreamArgs == {"rgb_image_topic", "rgb_camera_info_topic", "depth_image_topic", "depth_camera_info_topic",
               "imu_raw_topic"}
TopicArgs == OdomTopicArgs \cup {"enable_odom_relay"}
RealsenseArgs == {"enable_d435i", "enable_l515", "enable_t265", "t265_enable_fisheye", "t265_relay_publish_tf",
                  "d435i_delayed", "l515_delayed"}

\* An include that passes arguments to a file that declares defaults.
Included(arguments, c, defaults) == Declare(Include(arguments, c), defaults)

\* The arguments after such an include.
LEMMA IncludedNames ==
  ASSUME NEW arguments, NEW c, NEW defaults
  PROVE  DOMAIN Included(arguments, c, defaults) = DOMAIN c \cup DOMAIN arguments \cup DOMAIN defaults
BY DEF Included, Declare, Include

\* What it passes wins.
LEMMA IncludedPassed ==
  ASSUME NEW arguments, NEW c, NEW defaults, NEW a \in DOMAIN arguments
  PROVE  Included(arguments, c, defaults)[a] = arguments[a]
BY DEF Included, Declare, Include

\* What was set before and is not passed stays.
LEMMA IncludedKept ==
  ASSUME NEW arguments, NEW c, NEW defaults, NEW a \in DOMAIN c \ DOMAIN arguments
  PROVE  Included(arguments, c, defaults)[a] = c[a]
BY DEF Included, Declare, Include

\* What nobody has set takes the default of the file.
LEMMA IncludedDefaults ==
  ASSUME NEW arguments, NEW c, NEW defaults, NEW a \in DOMAIN defaults \ (DOMAIN c \cup DOMAIN arguments)
  PROVE  Included(arguments, c, defaults)[a] = defaults[a]
BY DEF Included, Declare, Include

\* The arguments that files declare and are passed.
LEMMA GazeboNames ==
  ASSUME NEW c
  PROVE  /\ DOMAIN GazeboArguments(c) = {"enable_px4_sitl", "depth_camera", "enable_t265"}
         /\ DOMAIN GazeboDefaults = {"enable_px4_sitl", "depth_camera", "enable_t265"}
         /\ GazeboArguments(c).enable_px4_sitl = c.enable_px4_sitl
         /\ GazeboArguments(c).depth_camera = c.depth_camera
         /\ GazeboArguments(c).enable_t265 = EnableT265(c)
BY DEF GazeboArguments, GazeboDefaults

\* What realsense_camera.launch.py is passed and declares.
LEMMA RealsenseNames ==
  ASSUME NEW c
  PROVE  /\ DOMAIN RealsenseArguments(c) = RealsenseArgs
         /\ RealsenseArguments(c).enable_d435i = (c.depth_camera = "d435i")
         /\ RealsenseArguments(c).enable_l515 = (c.depth_camera = "l515")
         /\ RealsenseArguments(c).enable_t265 = EnableT265(c)
         /\ RealsenseArguments(c).t265_enable_fisheye = EnableFisheye(c)
         /\ RealsenseArguments(c).t265_relay_publish_tf = c.use_t265_odom
         /\ DOMAIN RealsenseDefaults = RealsenseArgs \cup ImuArgs
         /\ RealsenseDefaults.d435i_enable_imu = TRUE
         /\ RealsenseDefaults.l515_enable_imu = FALSE
         /\ RealsenseDefaults.t265_enable_imu = TRUE
<1>1. /\ DOMAIN RealsenseArguments(c) = RealsenseArgs
      /\ RealsenseArguments(c).enable_d435i = (c.depth_camera = "d435i")
      /\ RealsenseArguments(c).enable_l515 = (c.depth_camera = "l515")
      /\ RealsenseArguments(c).enable_t265 = EnableT265(c)
      /\ RealsenseArguments(c).t265_enable_fisheye = EnableFisheye(c)
      /\ RealsenseArguments(c).t265_relay_publish_tf = c.use_t265_odom
  BY DEF RealsenseArguments, RealsenseArgs
<1> DEFINE one == CameraSwitches
           d4 == D435iDefaults
           l5 == L515Defaults
           t2 == T265Defaults
           two == Declare(one, d4)
           three == Declare(two, l5)
           four == Declare(three, t2)
<1>2. RealsenseDefaults = four
  BY DEF RealsenseDefaults
<1>3. DOMAIN one = {"enable_d435i", "enable_l515", "enable_t265"}
  BY DEF CameraSwitches
<1>4. DOMAIN d4 = {"d435i_enable_imu", "d435i_delayed"} /\ d4.d435i_enable_imu = TRUE
  BY DEF D435iDefaults
<1>5. DOMAIN l5 = {"l515_enable_imu", "l515_delayed"} /\ l5.l515_enable_imu = FALSE
  BY DEF L515Defaults
<1>6. DOMAIN t2 = {"t265_enable_imu", "t265_enable_fisheye", "t265_relay_publish_tf"} /\ t2.t265_enable_imu = TRUE
  BY DEF T265Defaults
<1> HIDE DEF one, d4, l5, t2
<1>7. /\ DOMAIN two = DOMAIN one \cup DOMAIN d4
      /\ \A a \in DOMAIN d4 \ DOMAIN one : two[a] = d4[a]
  BY DeclareFacts
<1> HIDE DEF two
<1>8. /\ DOMAIN three = DOMAIN two \cup DOMAIN l5
      /\ \A a \in DOMAIN two : three[a] = two[a]
      /\ \A a \in DOMAIN l5 \ DOMAIN two : three[a] = l5[a]
  BY DeclareFacts
<1> HIDE DEF three
<1>9. /\ DOMAIN four = DOMAIN three \cup DOMAIN t2
      /\ \A a \in DOMAIN three : four[a] = three[a]
      /\ \A a \in DOMAIN t2 \ DOMAIN three : four[a] = t2[a]
  BY DeclareFacts
<1> HIDE DEF four
<1>10. DOMAIN four = RealsenseArgs \cup ImuArgs
  BY <1>3, <1>4, <1>5, <1>6, <1>7, <1>8, <1>9 DEF RealsenseArgs, ImuArgs
<1>11. four.d435i_enable_imu = TRUE
  BY <1>3, <1>4, <1>7, <1>8, <1>9
<1>12. four.l515_enable_imu = FALSE
  BY <1>3, <1>4, <1>5, <1>7, <1>8, <1>9
<1>13. four.t265_enable_imu = TRUE
  BY <1>3, <1>4, <1>5, <1>6, <1>7, <1>8, <1>9
<1> QED BY <1>1, <1>2, <1>10, <1>11, <1>12, <1>13

\* The three files of the estimators declare the same names.
LEMMA OdometryArgs ==
  DOMAIN VinsDefaults = OdomArgs /\ DOMAIN CuvslamDefaults = OdomArgs /\ DOMAIN CuvslamRgbdDefaults = OdomArgs
BY DEF VinsDefaults, CuvslamDefaults, CuvslamRgbdDefaults, OdomArgs

\* What rtabmap_slam.launch.py is passed and declares.
LEMMA SlamNames ==
  ASSUME NEW c
  PROVE  /\ DOMAIN SlamArguments(c) = StreamArgs
         /\ DOMAIN Declare(SlamOwnDefaults, SlamModeDefaults) = TopicArgs \cup {"rtabmap_udebug"}
         /\ DOMAIN SlamOwnDefaults = OdomTopicArgs
         /\ \A a \in OdomTopicArgs : Declare(SlamOwnDefaults, SlamModeDefaults)[a] = SlamOwnDefaults[a]
         /\ Declare(SlamOwnDefaults, SlamModeDefaults).enable_odom_relay = FALSE
<1>1. DOMAIN SlamArguments(c) = StreamArgs
  BY DEF SlamArguments, CameraArguments, StreamArgs
<1> DEFINE own == SlamOwnDefaults
           mode == SlamModeDefaults
           both == Declare(own, mode)
<1>2. DOMAIN own = OdomTopicArgs
  BY DEF SlamOwnDefaults, OdomTopicArgs
<1>3. DOMAIN mode = {"enable_odom_relay", "rtabmap_udebug"} /\ mode.enable_odom_relay = FALSE
  BY DEF SlamModeDefaults
<1> HIDE DEF own, mode
<1>4. /\ DOMAIN both = DOMAIN own \cup DOMAIN mode
      /\ \A a \in DOMAIN own : both[a] = own[a]
      /\ \A a \in DOMAIN mode \ DOMAIN own : both[a] = mode[a]
  BY DeclareFacts
<1> HIDE DEF both
<1>5. DOMAIN both = TopicArgs \cup {"rtabmap_udebug"}
  BY <1>2, <1>3, <1>4 DEF TopicArgs
<1>6. both.enable_odom_relay = FALSE
  BY <1>2, <1>3, <1>4 DEF OdomTopicArgs
<1> QED BY <1>1, <1>2, <1>4, <1>5, <1>6 DEF own, mode, both

\* What nav2_bringup.launch.py is passed and declares.
LEMMA NavNames ==
  ASSUME NEW c
  PROVE  /\ DOMAIN NavArguments(c) = {"controller", "params_file"}
         /\ NavArguments(c).controller = c.nav2_controller
         /\ NavArguments(c).params_file = c.nav2_params_file
BY DEF NavArguments

\* What monitor.launch.py declares.
LEMMA MonitorArgs ==
  DOMAIN MonitorDefaults = {"depth_camera", "enable_telemetry", "tracking_camera", "tracking_expect_stream"}
BY DEF MonitorDefaults

\* An entity changes no argument of robot_bringup.launch.py; those of an estimator are
\* set by the first one that is started, those of the cameras and of RTAB-Map by theirs.
LEMMA ArgumentsAfter ==
  ASSUME NEW c, NEW e, NEW d, d = ContextAfter(e, c), RobotArgs \subseteq DOMAIN c
  PROVE  /\ RobotArgs \subseteq DOMAIN d
         /\ \A a \in RobotArgs : d[a] = c[a]
         /\ \A a \in ImuArgs : a \in DOMAIN d => a \in DOMAIN c \/ (e = "hw_cameras" /\ ~c.use_gazebo)
         /\ \A a \in OdomArgs : a \in DOMAIN d => \/ a \in DOMAIN c
                                                  \/ e = "vins" /\ c.use_vins_odom /\ d[a] = VinsDefaults[a]
                                                  \/ e = "cuvslam" /\ c.use_cuvslam_odom /\ d[a] = CuvslamDefaults[a]
                                                  \/ e = "cuvslam_rgbd" /\ c.use_rgbd_odom /\ d[a] = CuvslamRgbdDefaults[a]
         /\ \A a \in TopicArgs : a \in DOMAIN d => a \in DOMAIN c \/ (e = "rtabmap" /\ c.rtabmap)
         /\ \A a \in TopicArgs \cup OdomArgs : a \in DOMAIN c => a \in DOMAIN d /\ d[a] = c[a]
         /\ e # "rtabmap" => \A a \in StreamArgs : a \in DOMAIN c => a \in DOMAIN d /\ d[a] = c[a]
<1> USE DEF RobotArgs, ImuArgs, OdomArgs, TopicArgs, OdomTopicArgs, StreamArgs
<1>1. CASE e = "gazebo" /\ c.use_gazebo
  <2>1. d = Included(GazeboArguments(c), c, GazeboDefaults)
    BY <1>1 DEF ContextAfter, Included
  <2> DEFINE passed == GazeboArguments(c)
             declared == GazeboDefaults
  <2>2. /\ DOMAIN passed = {"enable_px4_sitl", "depth_camera", "enable_t265"}
        /\ DOMAIN declared = {"enable_px4_sitl", "depth_camera", "enable_t265"}
        /\ passed.enable_px4_sitl = c.enable_px4_sitl /\ passed.depth_camera = c.depth_camera
    BY GazeboNames
  <2> DEFINE j == Included(passed, c, declared)
  <2>3. d = j
    BY <2>1
  <2> HIDE DEF passed, declared
  <2>a. /\ DOMAIN j = DOMAIN c \cup DOMAIN passed \cup DOMAIN declared
        /\ \A a \in DOMAIN passed : j[a] = passed[a]
        /\ \A a \in DOMAIN c \ DOMAIN passed : j[a] = c[a]
    <3>1. DOMAIN j = DOMAIN c \cup DOMAIN passed \cup DOMAIN declared
      BY IncludedNames
    <3>2. \A a \in DOMAIN passed : j[a] = passed[a]
      BY IncludedPassed
    <3>3. \A a \in DOMAIN c \ DOMAIN passed : j[a] = c[a]
      BY IncludedKept
    <3> QED BY <3>1, <3>2, <3>3
  <2> HIDE DEF j
  <2>4. /\ DOMAIN d = DOMAIN c \cup DOMAIN passed \cup DOMAIN declared
        /\ \A a \in DOMAIN passed : d[a] = passed[a]
        /\ \A a \in DOMAIN c \ DOMAIN passed : d[a] = c[a]
    BY <2>3, <2>a
  <2> QED BY <1>1, <2>2, <2>4
<1>2. CASE e = "hw_cameras" /\ ~c.use_gazebo
  <2>1. d = Included(RealsenseArguments(c), c, RealsenseDefaults)
    BY <1>2 DEF ContextAfter, Included
  <2> DEFINE passed == RealsenseArguments(c)
             declared == RealsenseDefaults
  <2>2. DOMAIN passed = RealsenseArgs /\ DOMAIN declared = RealsenseArgs \cup ImuArgs
    BY RealsenseNames
  <2> DEFINE j == Included(passed, c, declared)
  <2>3. d = j
    BY <2>1
  <2> HIDE DEF passed, declared
  <2>a. /\ DOMAIN j = DOMAIN c \cup DOMAIN passed \cup DOMAIN declared
        /\ \A a \in DOMAIN c \ DOMAIN passed : j[a] = c[a]
    <3>1. DOMAIN j = DOMAIN c \cup DOMAIN passed \cup DOMAIN declared
      BY IncludedNames
    <3>2. \A a \in DOMAIN c \ DOMAIN passed : j[a] = c[a]
      BY IncludedKept
    <3> QED BY <3>1, <3>2
  <2> HIDE DEF j
  <2>4. /\ DOMAIN d = DOMAIN c \cup DOMAIN passed \cup DOMAIN declared
        /\ \A a \in DOMAIN c \ DOMAIN passed : d[a] = c[a]
    BY <2>3, <2>a
  <2> QED BY <1>2, <2>2, <2>4 DEF RealsenseArgs
<1>3. ASSUME NEW declared, d = Declare(c, declared), DOMAIN declared = OdomArgs,
             \/ e = "vins" /\ c.use_vins_odom
             \/ e = "cuvslam" /\ c.use_cuvslam_odom
             \/ e = "cuvslam_rgbd" /\ c.use_rgbd_odom
      PROVE  /\ RobotArgs \subseteq DOMAIN d
             /\ \A a \in RobotArgs : d[a] = c[a]
             /\ \A a \in ImuArgs : a \in DOMAIN d => a \in DOMAIN c
             /\ \A a \in TopicArgs : a \in DOMAIN d => a \in DOMAIN c
             /\ \A a \in TopicArgs \cup OdomArgs : a \in DOMAIN c => a \in DOMAIN d /\ d[a] = c[a]
             /\ \A a \in StreamArgs : a \in DOMAIN c => a \in DOMAIN d /\ d[a] = c[a]
             /\ \A a \in OdomArgs : a \in DOMAIN c \/ d[a] = declared[a]
  <2> DEFINE j == Declare(c, declared)
  <2>2. /\ DOMAIN j = DOMAIN c \cup DOMAIN declared
        /\ \A a \in DOMAIN c : j[a] = c[a]
        /\ \A a \in DOMAIN declared \ DOMAIN c : j[a] = declared[a]
    BY DeclareFacts
  <2>3. d = j
    BY <1>3
  <2> HIDE DEF j
  <2>1. /\ DOMAIN d = DOMAIN c \cup DOMAIN declared
        /\ \A a \in DOMAIN c : d[a] = c[a]
        /\ \A a \in DOMAIN declared \ DOMAIN c : d[a] = declared[a]
    BY <2>2, <2>3
  <2>4. DOMAIN declared = OdomArgs
    BY <1>3
  <2> QED BY <2>1, <2>4
<1>4. CASE e = "vins" /\ c.use_vins_odom
  <2>1. d = Declare(c, VinsDefaults)
    BY <1>4 DEF ContextAfter
  <2>2. DOMAIN VinsDefaults = OdomArgs
    BY OdometryArgs
  <2> QED BY <1>3, <1>4, <2>1, <2>2
<1>5. CASE e = "cuvslam" /\ c.use_cuvslam_odom
  <2>1. d = Declare(c, CuvslamDefaults)
    BY <1>5 DEF ContextAfter
  <2>2. DOMAIN CuvslamDefaults = OdomArgs
    BY OdometryArgs
  <2> QED BY <1>3, <1>5, <2>1, <2>2
<1>6. CASE e = "cuvslam_rgbd" /\ c.use_rgbd_odom
  <2>1. d = Declare(c, CuvslamRgbdDefaults)
    BY <1>6 DEF ContextAfter
  <2>2. DOMAIN CuvslamRgbdDefaults = OdomArgs
    BY OdometryArgs
  <2> QED BY <1>3, <1>6, <2>1, <2>2
<1>7. CASE e = "rtabmap" /\ c.rtabmap
  <2> DEFINE passed == SlamArguments(c)
             declared == Declare(SlamOwnDefaults, SlamModeDefaults)
             j == Included(passed, c, declared)
  <2>1. d = j
    BY <1>7 DEF ContextAfter, Included
  <2>2. DOMAIN passed = StreamArgs /\ DOMAIN declared = TopicArgs \cup {"rtabmap_udebug"}
    BY SlamNames
  <2> HIDE DEF passed, declared
  <2>a. /\ DOMAIN j = DOMAIN c \cup DOMAIN passed \cup DOMAIN declared
        /\ \A a \in DOMAIN c \ DOMAIN passed : j[a] = c[a]
    <3>1. DOMAIN j = DOMAIN c \cup DOMAIN passed \cup DOMAIN declared
      BY IncludedNames
    <3>2. \A a \in DOMAIN c \ DOMAIN passed : j[a] = c[a]
      BY IncludedKept
    <3> QED BY <3>1, <3>2
  <2> HIDE DEF j
  <2>4. /\ DOMAIN d = DOMAIN c \cup DOMAIN passed \cup DOMAIN declared
        /\ \A a \in DOMAIN c \ DOMAIN passed : d[a] = c[a]
    BY <2>1, <2>a
  <2> QED BY <1>7, <2>2, <2>4
<1>8. CASE e = "rover_monitor" /\ c.rover_monitor
  <2> DEFINE declared == MonitorDefaults
             j == Declare(c, declared)
  <2>1. d = j
    BY <1>8 DEF ContextAfter
  <2>2. DOMAIN declared = {"depth_camera", "enable_telemetry", "tracking_camera", "tracking_expect_stream"}
    BY MonitorArgs
  <2> HIDE DEF declared
  <2>4. /\ DOMAIN j = DOMAIN c \cup DOMAIN declared
        /\ \A a \in DOMAIN c : j[a] = c[a]
    BY DeclareFacts
  <2> HIDE DEF j
  <2>3. /\ DOMAIN d = DOMAIN c \cup DOMAIN declared
        /\ \A a \in DOMAIN c : d[a] = c[a]
    BY <2>1, <2>4
  <2> QED BY <1>8, <2>2, <2>3
<1>9. CASE /\ ~(e = "gazebo" /\ c.use_gazebo) /\ ~(e = "hw_cameras" /\ ~c.use_gazebo)
           /\ ~(e = "vins" /\ c.use_vins_odom) /\ ~(e = "cuvslam" /\ c.use_cuvslam_odom)
           /\ ~(e = "cuvslam_rgbd" /\ c.use_rgbd_odom) /\ ~(e = "rtabmap" /\ c.rtabmap)
           /\ ~(e = "rover_monitor" /\ c.rover_monitor)
  <2>1. d = c
    BY <1>9 DEF ContextAfter
  <2> QED BY <2>1
<1> QED BY <1>1, <1>2, <1>4, <1>5, <1>6, <1>7, <1>8, <1>9

\* What RTAB-Map's include leaves of the passed its nodes read.
LEMMA SlamArgumentsAfter ==
  ASSUME NEW c, c.rtabmap, NEW d, d = ContextAfter("rtabmap", c), TopicArgs \cap DOMAIN c = {},
         StreamArgs \cap RobotArgs = {}
  PROVE  /\ TopicArgs \cup StreamArgs \subseteq DOMAIN d
         /\ \A a \in StreamArgs : d[a] = CameraArguments(c)[a]
         /\ \A a \in OdomTopicArgs : d[a] = SlamOwnDefaults[a]
         /\ d.enable_odom_relay = FALSE
<1> DEFINE passed == SlamArguments(c)
           declared == Declare(SlamOwnDefaults, SlamModeDefaults)
<1> DEFINE j == Included(passed, c, declared)
<1>1. d = j
  BY DEF ContextAfter, Included
<1>2. /\ DOMAIN passed = StreamArgs /\ DOMAIN declared = TopicArgs \cup {"rtabmap_udebug"}
      /\ \A a \in OdomTopicArgs : declared[a] = SlamOwnDefaults[a]
      /\ declared.enable_odom_relay = FALSE
      /\ passed = CameraArguments(c)
  BY SlamNames DEF SlamArguments
<1> HIDE DEF passed, declared
<1>a. /\ DOMAIN j = DOMAIN c \cup DOMAIN passed \cup DOMAIN declared
      /\ \A a \in DOMAIN passed : j[a] = passed[a]
      /\ \A a \in DOMAIN declared \ (DOMAIN c \cup DOMAIN passed) : j[a] = declared[a]
  <2>1. DOMAIN j = DOMAIN c \cup DOMAIN passed \cup DOMAIN declared
    BY IncludedNames
  <2>2. \A a \in DOMAIN passed : j[a] = passed[a]
    BY IncludedPassed
  <2>3. \A a \in DOMAIN declared \ (DOMAIN c \cup DOMAIN passed) : j[a] = declared[a]
    BY IncludedDefaults
  <2> QED BY <2>1, <2>2, <2>3
<1> HIDE DEF j
<1>3. /\ DOMAIN d = DOMAIN c \cup DOMAIN passed \cup DOMAIN declared
      /\ \A a \in DOMAIN passed : d[a] = passed[a]
      /\ \A a \in DOMAIN declared \ (DOMAIN c \cup DOMAIN passed) : d[a] = declared[a]
  BY <1>1, <1>a
<1>4. OdomTopicArgs \subseteq TopicArgs /\ "enable_odom_relay" \in TopicArgs /\ TopicArgs \cap StreamArgs = {}
  BY DEF OdomTopicArgs, TopicArgs, StreamArgs
<1> QED BY <1>2, <1>3, <1>4

\* What the cameras' include leaves of the passed their nodes read.
LEMMA CameraArgumentsAfter ==
  ASSUME NEW c, ~c.use_gazebo, NEW d, d = ContextAfter("hw_cameras", c), ImuArgs \cap DOMAIN c = {}
  PROVE  /\ d.enable_d435i = (c.depth_camera = "d435i") /\ d.enable_l515 = (c.depth_camera = "l515")
         /\ d.enable_t265 = EnableT265(c) /\ d.t265_enable_fisheye = EnableFisheye(c)
         /\ d.t265_relay_publish_tf = c.use_t265_odom
         /\ d.d435i_enable_imu = TRUE /\ d.l515_enable_imu = FALSE /\ d.t265_enable_imu = TRUE
<1> DEFINE passed == RealsenseArguments(c)
           declared == RealsenseDefaults
<1> DEFINE j == Included(passed, c, declared)
<1>1. d = j
  BY DEF ContextAfter, Included
<1>2. /\ DOMAIN passed = RealsenseArgs
      /\ passed.enable_d435i = (c.depth_camera = "d435i")
      /\ passed.enable_l515 = (c.depth_camera = "l515")
      /\ passed.enable_t265 = EnableT265(c)
      /\ passed.t265_enable_fisheye = EnableFisheye(c)
      /\ passed.t265_relay_publish_tf = c.use_t265_odom
      /\ DOMAIN declared = RealsenseArgs \cup ImuArgs
      /\ declared.d435i_enable_imu = TRUE /\ declared.l515_enable_imu = FALSE /\ declared.t265_enable_imu = TRUE
  BY RealsenseNames
<1> HIDE DEF passed, declared
<1>a. /\ \A a \in DOMAIN passed : j[a] = passed[a]
      /\ \A a \in DOMAIN declared \ (DOMAIN c \cup DOMAIN passed) : j[a] = declared[a]
  <2>1. \A a \in DOMAIN passed : j[a] = passed[a]
    BY IncludedPassed
  <2>2. \A a \in DOMAIN declared \ (DOMAIN c \cup DOMAIN passed) : j[a] = declared[a]
    BY IncludedDefaults
  <2> QED BY <2>1, <2>2
<1> HIDE DEF j
<1>3. /\ \A a \in DOMAIN passed : d[a] = passed[a]
      /\ \A a \in DOMAIN declared \ (DOMAIN c \cup DOMAIN passed) : d[a] = declared[a]
  BY <1>1, <1>a
<1>4. \A a \in ImuArgs : d[a] = declared[a]
  BY <1>2, <1>3 DEF ImuArgs, RealsenseArgs
<1>5. \A a \in RealsenseArgs : d[a] = passed[a]
  BY <1>2, <1>3
<1>6. d.d435i_enable_imu = TRUE /\ d.l515_enable_imu = FALSE /\ d.t265_enable_imu = TRUE
  BY <1>2, <1>4 DEF ImuArgs
<1> QED BY <1>2, <1>5, <1>6 DEF RealsenseArgs

-----------------------------------------------------------------------------
(* The invariant of the wiring.                                             *)

OdometryFlags == {"use_cuvslam_odom", "use_rgbd_odom", "use_vins_odom", "use_t265_odom"}
OdomTopics == {Global("vins_odom"), Global("cuvslam_odom"), Global("cuvslam_rgbd_odom")}
RawTopics == {<<"vins", "raw_odometry">>, <<"cuvslam", "raw_odometry">>, <<"cuvslam_rgbd", "raw_odometry">>}
MapTf == <<"tf", "map->odom">>
T265Odom == <<"t265", "odom">>

\* Two contexts agree on the arguments of robot_bringup.launch.py.
SameRobot(c, d) == RobotArgs \subseteq DOMAIN d /\ \A a \in RobotArgs : d[a] = c[a]

RobotContext(c) ==
  /\ RobotArgs \subseteq DOMAIN c
  /\ \A a \in Switches : c[a] \in BOOLEAN
  /\ c.depth_camera \in DepthCameras \cup {"none"}

OneFlag(c) == \A f, g \in OdometryFlags : c[f] /\ c[g] => f = g

\* What the included files have set when v entities have been visited.
Arguments(v, c) ==
  /\ v < 4 => ImuArgs \cap DOMAIN c = {}
  /\ v < 7 => OdomArgs \cap DOMAIN c = {}
  /\ v < 8 /\ ~c.use_vins_odom => OdomArgs \cap DOMAIN c = {}
  /\ v < 9 /\ ~c.use_vins_odom /\ ~c.use_cuvslam_odom => OdomArgs \cap DOMAIN c = {}
  /\ "odom_topic" \in DOMAIN c => c.odom_topic \in OdomTopics
  /\ "raw_odom_topic" \in DOMAIN c => c.raw_odom_topic \in RawTopics
  /\ v < 10 => TopicArgs \cap DOMAIN c = {}
  /\ v >= 10 /\ c.rtabmap =>
       /\ TopicArgs \cup StreamArgs \subseteq DOMAIN c
       /\ \A a \in StreamArgs : c[a] = CameraArguments(c)[a]
       /\ \A a \in OdomTopicArgs : c[a] = SlamOwnDefaults[a]
       /\ c.enable_odom_relay = FALSE

ContextInv ==
  /\ visited \in 0..14
  /\ RobotContext(context)
  /\ \A s \in asked : SameRobot(Declare(s.robot, RobotDefaults), context)
  /\ Arguments(visited, context)
  /\ gate = "passed" => /\ visited = 14
                        /\ context.controller = context.nav2_controller
                        /\ context.params_file = context.nav2_params_file
  /\ ~Running => context = RobotDefaults /\ visited = 0 /\ nodes = {} /\ gate = "off"

\* Who owns a topic, by the arguments alone.
JointOwner(c) ==
  IF ~c.use_gazebo THEN JointRelay ELSE IF c.enable_px4_sitl THEN JointStateBridge ELSE JointBroadcaster

SimRelay == RosNode("robot", "sim_t265_odom_relay", {T265Odom}, {NavOdom, OdomTf})

BaseCamera(c) == T265Camera([t265_enable_imu |-> TRUE, t265_enable_fisheye |-> EnableFisheye(c)])

BaseRelay(c) == IF c.use_gazebo THEN SimRelay ELSE T265Relay([t265_relay_publish_tf |-> c.use_t265_odom])

OdomOwner(c) ==
  IF c.use_cuvslam_odom THEN CuvslamRelay(CuvslamDefaults)
  ELSE IF c.use_rgbd_odom THEN CuvslamRgbdRelay(CuvslamRgbdDefaults)
  ELSE IF c.use_vins_odom THEN VinsRelay(VinsDefaults)
  ELSE BaseRelay(c)

\* The topics of the sensors that SLAM and the T265's relay need.
Sensed(c) ==
  {T265Odom} \cup Streams(c.depth_camera, {"aligned_depth_to_color/image_raw", "aligned_depth_to_color/camera_info",
                                           "depth_image", "camera_info"})

\* Only the owner publishes an owned topic, and sensor topics come from nodes that
\* need nothing.
WellWired(c, n) ==
  /\ Global("joint_states") \in n.pub => n = JointOwner(c)
  /\ CmdVel \in n.pub => n = CollisionMonitor \/ n = Telemetry
  /\ NavOdom \in n.pub => n = BaseRelay(c)
  /\ OneFlag(c) =>
       /\ OdomTf \in n.pub => n = OdomOwner(c) /\ \E f \in OdometryFlags : c[f]
       /\ Global("cuvslam_odom") \in n.pub => n = CuvslamRelay(CuvslamDefaults)
       /\ Global("cuvslam_rgbd_odom") \in n.pub => n = CuvslamRgbdRelay(CuvslamRgbdDefaults)
       /\ Global("vins_odom") \in n.pub => n = VinsRelay(VinsDefaults)
  /\ <<"odometry", "filtered">> \notin n.pub
  /\ NavScan \in n.pub => n.needs \subseteq Sensed(c)
  /\ n.pub \cap Sensed(c) # {} => n.needs = {}

\* Nodes that feed no topic of PX4, are none of Nav2's, and that no handler waits for.
Ordinary(n) == n.file # "nav2" /\ n.name \notin {"spawner", "px4_vehicle_odometry"} /\ VisionInput \notin n.pub

\* What has been started when v entities have been visited.
Present(v, c, ns) ==
  /\ v >= 1 /\ c.use_gazebo => DepthBridge(c) \in ns /\ (EnableT265(c) => T265Bridge \in ns)
  /\ v >= 4 /\ ~c.use_gazebo =>
       /\ c.depth_camera = "d435i" => DepthCamera("d435i", TRUE) \in ns
       /\ c.depth_camera = "l515" => DepthCamera("l515", FALSE) \in ns
       /\ EnableT265(c) =>
            /\ BaseCamera(c) \in ns
            /\ BaseRelay(c) \in ns
  /\ v >= 6 /\ c.use_gazebo /\ c.use_t265_odom => BaseRelay(c) \in ns
  /\ OneFlag(c) =>
       /\ v >= 7 /\ c.use_vins_odom => VinsNode(VinsDefaults) \in ns /\ VinsRelay(VinsDefaults) \in ns
       /\ v >= 8 /\ c.use_cuvslam_odom => CuvslamNode(CuvslamDefaults) \in ns /\ CuvslamRelay(CuvslamDefaults) \in ns
       /\ v >= 9 /\ c.use_rgbd_odom =>
            CuvslamRgbdNode(CuvslamRgbdDefaults) \in ns /\ CuvslamRgbdRelay(CuvslamRgbdDefaults) \in ns
  /\ v >= 10 /\ c.rtabmap =>
       RgbdSync(CameraArguments(c)) \in ns /\ (c.vision => DepthToScan(CameraArguments(c)) \in ns)

PresentInv == Present(visited, context, nodes)

OwnerInv == \A n \in nodes : WellWired(context, n)

NavInv == \A n \in nodes : n.file = "nav2" => gate = "passed" /\ n \in LoadNodes /\ LoadNodes \subseteq nodes

JointInv ==
  /\ SpawnEntity \in nodes => context.use_gazebo
  /\ \A n \in nodes : n.name = "spawner" => context.use_gazebo /\ ~context.enable_px4_sitl

Px4Inv ==
  \A n \in nodes : VisionInput \in n.pub \/ n.name = "px4_vehicle_odometry" =>
    /\ visited = 14
    /\ \E s \in asked : \E p \in s.px4 :
         n \in Px4Nodes(Declare(p, Px4Defaults)) /\ Px4Nodes(Declare(p, Px4Defaults)) \subseteq nodes

MapInv ==
  /\ visited < 10 => \A n \in nodes : MapTf \notin n.pub
  /\ \A n, m \in nodes : MapTf \in n.pub \cap m.pub => n = m

WiringInv == ContextInv /\ PresentInv /\ OwnerInv /\ NavInv /\ JointInv /\ Px4Inv /\ MapInv


-----------------------------------------------------------------------------
(* What the arguments of robot_bringup.launch.py determine.                 *)

\* Contexts that agree there agree on every argument of the launch.
LEMMA SameArguments ==
  ASSUME NEW c, NEW d, SameRobot(c, d)
  PROVE  /\ d.use_gazebo = c.use_gazebo /\ d.vision = c.vision /\ d.localization = c.localization
         /\ d.delete_db_on_start = c.delete_db_on_start /\ d.rtabmap = c.rtabmap /\ d.nav2 = c.nav2
         /\ d.nav2_controller = c.nav2_controller /\ d.nav2_params_file = c.nav2_params_file
         /\ d.enable_px4_sitl = c.enable_px4_sitl /\ d.reversible_drive = c.reversible_drive
         /\ d.depth_camera = c.depth_camera /\ d.hw_enable_t265 = c.hw_enable_t265
         /\ d.rover_monitor = c.rover_monitor
         /\ d.use_t265_odom = c.use_t265_odom /\ d.use_vins_odom = c.use_vins_odom
         /\ d.use_cuvslam_odom = c.use_cuvslam_odom /\ d.use_rgbd_odom = c.use_rgbd_odom
         /\ \A f \in OdometryFlags : d[f] = c[f]
BY DEF SameRobot, RobotArgs, OdometryFlags

\* ... are both contexts of the launch.
LEMMA SameRobotContext ==
  ASSUME NEW c, NEW d, SameRobot(c, d), RobotContext(c)
  PROVE  RobotContext(d)
<1>1. Switches \subseteq RobotArgs
  BY RobotArguments
<1>2. d.depth_camera = c.depth_camera
  BY SameArguments
<1> QED BY <1>1, <1>2 DEF SameRobot, RobotContext

\* ... have the same owners, devices and streams.
LEMMA SameOwners ==
  ASSUME NEW c, NEW d, SameRobot(c, d)
  PROVE  /\ JointOwner(d) = JointOwner(c) /\ BaseRelay(d) = BaseRelay(c) /\ OdomOwner(d) = OdomOwner(c)
         /\ BaseCamera(d) = BaseCamera(c)
         /\ EnableT265(d) = EnableT265(c) /\ EnableFisheye(d) = EnableFisheye(c)
         /\ DepthBridge(d) = DepthBridge(c) /\ Sensed(d) = Sensed(c)
         /\ CameraArguments(d) = CameraArguments(c)
         /\ OneFlag(d) <=> OneFlag(c)
         /\ (\E f \in OdometryFlags : d[f]) <=> \E f \in OdometryFlags : c[f]
<1>1. BaseRelay(d) = BaseRelay(c)
  BY SameArguments DEF BaseRelay
<1>2. JointOwner(d) = JointOwner(c) /\ EnableT265(d) = EnableT265(c) /\ EnableFisheye(d) = EnableFisheye(c)
  BY SameArguments DEF JointOwner, EnableT265, EnableFisheye
<1>3. OdomOwner(d) = OdomOwner(c)
  BY SameArguments, <1>1 DEF OdomOwner
<1>4. DepthBridge(d) = DepthBridge(c) /\ Sensed(d) = Sensed(c)
  BY SameArguments DEF DepthBridge, Sensed
<1>5. CameraArguments(d) = CameraArguments(c)
  BY SameArguments DEF CameraArguments
<1>6. OneFlag(d) <=> OneFlag(c)
  BY SameArguments DEF OneFlag
<1>7. (\E f \in OdometryFlags : d[f]) <=> \E f \in OdometryFlags : c[f]
  BY SameArguments
<1>8. BaseCamera(d) = BaseCamera(c)
  <2>1. EnableFisheye(d) = EnableFisheye(c)
    BY <1>2
  <2> QED BY <2>1 DEF BaseCamera
<1> QED BY <1>1, <1>2, <1>3, <1>4, <1>5, <1>6, <1>7, <1>8

\* ... and what is well wired in one is in the other.
LEMMA SameWiring ==
  ASSUME NEW c, NEW d, SameRobot(c, d), NEW n, WellWired(c, n)
  PROVE  WellWired(d, n)
BY SameOwners DEF WellWired

\* What has been started stays started under the same arguments.
LEMMA SamePresent ==
  ASSUME NEW c, NEW d, SameRobot(c, d), NEW v, NEW ns, NEW ms, Present(v, c, ns),
         \A n \in ns : n \in ms \/ n.name \in {"spawn_entity", "spawner"}
  PROVE  Present(v, d, ms)
<1>1. \A n : n \in ns /\ n.name \notin {"spawn_entity", "spawner"} => n \in ms
  OBVIOUS
<1>2. DepthBridge(c).name = "parameter_bridge" /\ T265Bridge.name = "t265_parameter_bridge"
  BY DEF DepthBridge, T265Bridge, RosNode
<1>3. /\ DepthCamera("d435i", TRUE).name = "d435i" /\ DepthCamera("l515", FALSE).name = "l515"
      /\ BaseCamera(c).name = "t265"
  BY DEF DepthCamera, BaseCamera, T265Camera, RosNode
<1>4. BaseRelay(c).name \in {"sim_t265_odom_relay", "t265_odom_relay"}
  BY DEF BaseRelay, SimRelay, T265Relay, RosNode
<1>5. /\ VinsNode(VinsDefaults).name = "vins_estimator" /\ VinsRelay(VinsDefaults).name = "vins_odom_relay"
      /\ CuvslamNode(CuvslamDefaults).name = "cuvslam_odom_node"
      /\ CuvslamRelay(CuvslamDefaults).name = "cuvslam_odom_relay"
      /\ CuvslamRgbdNode(CuvslamRgbdDefaults).name = "cuvslam_rgbd_node"
      /\ CuvslamRgbdRelay(CuvslamRgbdDefaults).name = "cuvslam_odom_relay"
  BY DEF VinsNode, VinsRelay, CuvslamNode, CuvslamRelay, CuvslamRgbdNode, CuvslamRgbdRelay, OdomRelay, RosNode
<1>6. RgbdSync(CameraArguments(c)).name = "rgbd_sync" /\ DepthToScan(CameraArguments(c)).name = "rgbd_to_scan"
  BY DEF RgbdSync, DepthToScan, RosNode
<1>7. v >= 1 /\ d.use_gazebo => DepthBridge(d) \in ms /\ (EnableT265(d) => T265Bridge \in ms)
  BY <1>1, <1>2, SameArguments, SameOwners DEF Present
<1>a. v >= 4 /\ ~d.use_gazebo =>
        /\ d.depth_camera = "d435i" => DepthCamera("d435i", TRUE) \in ms
        /\ d.depth_camera = "l515" => DepthCamera("l515", FALSE) \in ms
  BY <1>1, <1>3, SameArguments DEF Present
<1>b. ASSUME v >= 4, ~d.use_gazebo, EnableT265(d)
      PROVE  BaseCamera(d) \in ms /\ BaseRelay(d) \in ms
  <2>1. ~c.use_gazebo
    BY <1>b, SameArguments
  <2>2. EnableT265(c)
    BY <1>b, SameOwners
  <2>3. BaseCamera(c) \in ns /\ BaseRelay(c) \in ns
    BY <1>b, <2>1, <2>2 DEF Present
  <2>4. BaseCamera(c) \in ms /\ BaseRelay(c) \in ms
    BY <1>1, <1>3, <1>4, <2>3
  <2>5. BaseCamera(d) = BaseCamera(c) /\ BaseRelay(d) = BaseRelay(c)
    BY SameOwners
  <2> QED BY <2>4, <2>5
<1>c. v >= 6 /\ d.use_gazebo /\ d.use_t265_odom => BaseRelay(d) \in ms
  BY <1>1, <1>4, SameArguments, SameOwners DEF Present
<1>8. OneFlag(d) =>
       /\ v >= 7 /\ d.use_vins_odom => VinsNode(VinsDefaults) \in ms /\ VinsRelay(VinsDefaults) \in ms
       /\ v >= 8 /\ d.use_cuvslam_odom => CuvslamNode(CuvslamDefaults) \in ms /\ CuvslamRelay(CuvslamDefaults) \in ms
       /\ v >= 9 /\ d.use_rgbd_odom =>
            CuvslamRgbdNode(CuvslamRgbdDefaults) \in ms /\ CuvslamRgbdRelay(CuvslamRgbdDefaults) \in ms
  BY <1>1, <1>5, SameArguments, SameOwners DEF Present
<1>9. v >= 10 /\ d.rtabmap =>
       RgbdSync(CameraArguments(d)) \in ms /\ (d.vision => DepthToScan(CameraArguments(d)) \in ms)
  BY <1>1, <1>6, SameArguments, SameOwners DEF Present
<1> QED BY <1>7, <1>a, <1>b, <1>c, <1>8, <1>9 DEF Present

-----------------------------------------------------------------------------
(* The arguments, entity by entity.                                         *)

\* The place of every entity.
LEMMA Order ==
  /\ Len(Entities) = 14
  /\ Entities[1] = "gazebo" /\ Entities[2] = "hw_joint_state_publisher" /\ Entities[3] = "hw_robot_state_publisher"
  /\ Entities[4] = "hw_cameras" /\ Entities[5] = "t265_sim_camera_info" /\ Entities[6] = "sim_t265_odom_relay"
  /\ Entities[7] = "vins" /\ Entities[8] = "cuvslam" /\ Entities[9] = "cuvslam_rgbd" /\ Entities[10] = "rtabmap"
  /\ Entities[11] = "wait_for_rtabmap" /\ Entities[12] = "nav2_delayed" /\ Entities[13] = "rviz_delayed"
  /\ Entities[14] = "rover_monitor"
BY DEF Entities

\* Each entity has one place.
LEMMA PlaceOf ==
  ASSUME NEW v \in 0..13, NEW e, e = Entities[v + 1]
  PROVE  /\ e = "gazebo" <=> v = 0
         /\ e = "hw_cameras" <=> v = 3
         /\ e = "sim_t265_odom_relay" <=> v = 5
         /\ e = "vins" <=> v = 6
         /\ e = "cuvslam" <=> v = 7
         /\ e = "cuvslam_rgbd" <=> v = 8
         /\ e = "rtabmap" <=> v = 9
<1>1. \/ v = 0 \/ v = 1 \/ v = 2 \/ v = 3 \/ v = 4 \/ v = 5 \/ v = 6 \/ v = 7 \/ v = 8 \/ v = 9 \/ v = 10
      \/ v = 11 \/ v = 12 \/ v = 13
  OBVIOUS
<1> QED BY <1>1, Order

\* An entity leaves the robot's arguments alone and what the files before it have set.
LEMMA ArgumentsStep ==
  ASSUME NEW v \in 0..13, NEW c, RobotContext(c), Arguments(v, c), NEW e, e = Entities[v + 1],
         NEW d, d = ContextAfter(e, c)
  PROVE  SameRobot(c, d) /\ RobotContext(d) /\ Arguments(v + 1, d)
<1>1. RobotArgs \subseteq DOMAIN c
  BY DEF RobotContext
<1>2. SameRobot(c, d)
  BY <1>1, ArgumentsAfter DEF SameRobot
<1>3. RobotContext(d)
  BY <1>2, SameRobotContext
<1>4. /\ e = "hw_cameras" => v = 3
      /\ e = "vins" => v = 6
      /\ e = "cuvslam" => v = 7
      /\ e = "cuvslam_rgbd" => v = 8
      /\ e = "rtabmap" <=> v = 9
  BY PlaceOf
<1>5. /\ d.use_vins_odom = c.use_vins_odom /\ d.use_cuvslam_odom = c.use_cuvslam_odom
      /\ d.use_rgbd_odom = c.use_rgbd_odom /\ d.rtabmap = c.rtabmap
  BY <1>2, SameArguments
<1>6. v + 1 < 4 => ImuArgs \cap DOMAIN d = {}
  <2>1. \A a \in ImuArgs : a \in DOMAIN d => a \in DOMAIN c \/ e = "hw_cameras"
    BY <1>1, ArgumentsAfter
  <2>2. v + 1 < 4 => v < 4 /\ v # 3
    OBVIOUS
  <2> QED BY <1>4, <2>1, <2>2 DEF Arguments
<1>7. \A a \in OdomArgs : a \in DOMAIN d => \/ a \in DOMAIN c
                                            \/ v = 6 /\ c.use_vins_odom
                                            \/ v = 7 /\ c.use_cuvslam_odom
                                            \/ v = 8 /\ c.use_rgbd_odom
  BY <1>1, <1>4, ArgumentsAfter
<1>8. /\ v + 1 < 7 => OdomArgs \cap DOMAIN d = {}
      /\ v + 1 < 8 /\ ~d.use_vins_odom => OdomArgs \cap DOMAIN d = {}
      /\ v + 1 < 9 /\ ~d.use_vins_odom /\ ~d.use_cuvslam_odom => OdomArgs \cap DOMAIN d = {}
  BY <1>5, <1>7 DEF Arguments
<1>9. \A a \in OdomArgs : /\ a \in DOMAIN c => a \in DOMAIN d /\ d[a] = c[a]
                          /\ a \in DOMAIN d \ DOMAIN c =>
                               d[a] \in {VinsDefaults[a], CuvslamDefaults[a], CuvslamRgbdDefaults[a]}
  BY <1>1, ArgumentsAfter
<1>10. /\ {VinsDefaults.odom_topic, CuvslamDefaults.odom_topic, CuvslamRgbdDefaults.odom_topic} \subseteq OdomTopics
       /\ {VinsDefaults.raw_odom_topic, CuvslamDefaults.raw_odom_topic, CuvslamRgbdDefaults.raw_odom_topic}
            \subseteq RawTopics
  BY DEF VinsDefaults, CuvslamDefaults, CuvslamRgbdDefaults, OdomTopics, RawTopics
<1>11. "odom_topic" \in OdomArgs /\ "raw_odom_topic" \in OdomArgs
  BY DEF OdomArgs
<1>12. "odom_topic" \in DOMAIN d => d.odom_topic \in OdomTopics
  <2>1. "odom_topic" \in DOMAIN c => c.odom_topic \in OdomTopics
    BY DEF Arguments
  <2> QED BY <1>9, <1>10, <1>11, <2>1
<1>13. "raw_odom_topic" \in DOMAIN d => d.raw_odom_topic \in RawTopics
  <2>1. "raw_odom_topic" \in DOMAIN c => c.raw_odom_topic \in RawTopics
    BY DEF Arguments
  <2> QED BY <1>9, <1>10, <1>11, <2>1
<1>14. v + 1 < 10 => TopicArgs \cap DOMAIN d = {}
  <2>1. v + 1 < 10 => v < 10 /\ v # 9
    OBVIOUS
  <2>2. v + 1 < 10 => TopicArgs \cap DOMAIN c = {}
    BY <2>1 DEF Arguments
  <2>3. \A a \in TopicArgs : a \in DOMAIN d => a \in DOMAIN c \/ e = "rtabmap"
    BY <1>1, ArgumentsAfter
  <2> QED BY <1>4, <2>1, <2>2, <2>3
<1>15. ASSUME v + 1 >= 10, d.rtabmap
       PROVE  /\ TopicArgs \cup StreamArgs \subseteq DOMAIN d
              /\ \A a \in StreamArgs : d[a] = CameraArguments(d)[a]
              /\ \A a \in OdomTopicArgs : d[a] = SlamOwnDefaults[a]
              /\ d.enable_odom_relay = FALSE
  <2>1. CameraArguments(d) = CameraArguments(c)
    BY <1>2, SameOwners
  <2>2. c.rtabmap
    BY <1>5, <1>15
  <2>3. CASE v = 9
    <3>1. TopicArgs \cap DOMAIN c = {}
      BY <2>3 DEF Arguments
    <3>2. e = "rtabmap" /\ d = ContextAfter("rtabmap", c)
      BY <1>4, <2>3
    <3>3. StreamArgs \cap RobotArgs = {}
      BY DEF StreamArgs, RobotArgs
    <3>4. /\ TopicArgs \cup StreamArgs \subseteq DOMAIN d
          /\ \A a \in StreamArgs : d[a] = CameraArguments(c)[a]
          /\ \A a \in OdomTopicArgs : d[a] = SlamOwnDefaults[a]
          /\ d.enable_odom_relay = FALSE
      BY <2>2, <3>1, <3>2, <3>3, SlamArgumentsAfter
    <3> QED BY <2>1, <3>4
  <2>4. CASE v # 9
    <3>1. v >= 10
      BY <1>15, <2>4
    <3>2. /\ TopicArgs \cup StreamArgs \subseteq DOMAIN c
          /\ \A a \in StreamArgs : c[a] = CameraArguments(c)[a]
          /\ \A a \in OdomTopicArgs : c[a] = SlamOwnDefaults[a]
          /\ c.enable_odom_relay = FALSE
      BY <2>2, <3>1 DEF Arguments
    <3>3. e # "rtabmap"
      BY <1>4, <2>4
    <3>4. \A a \in TopicArgs : a \in DOMAIN c => a \in DOMAIN d /\ d[a] = c[a]
      BY <1>1, ArgumentsAfter
    <3>5. \A a \in StreamArgs : a \in DOMAIN c => a \in DOMAIN d /\ d[a] = c[a]
      BY <1>1, <3>3, ArgumentsAfter
    <3>6. OdomTopicArgs \subseteq TopicArgs /\ "enable_odom_relay" \in TopicArgs
      BY DEF TopicArgs
    <3>7. /\ TopicArgs \subseteq DOMAIN d
          /\ \A a \in OdomTopicArgs : d[a] = SlamOwnDefaults[a]
          /\ d.enable_odom_relay = FALSE
      BY <3>2, <3>4, <3>6
    <3>8. StreamArgs \subseteq DOMAIN d /\ \A a \in StreamArgs : d[a] = CameraArguments(c)[a]
      BY <3>2, <3>5
    <3> QED BY <2>1, <3>7, <3>8
  <2> QED BY <2>3, <2>4
<1>16. Arguments(v + 1, d)
  BY <1>6, <1>8, <1>12, <1>13, <1>14, <1>15 DEF Arguments
<1> QED BY <1>2, <1>3, <1>16

-----------------------------------------------------------------------------
(* The nodes, file by file.                                                 *)

\* What one flag excludes.
LEMMA FlagFacts ==
  ASSUME NEW c, OneFlag(c)
  PROVE  /\ ~(c.use_cuvslam_odom /\ c.use_rgbd_odom) /\ ~(c.use_cuvslam_odom /\ c.use_vins_odom)
         /\ ~(c.use_cuvslam_odom /\ c.use_t265_odom) /\ ~(c.use_rgbd_odom /\ c.use_vins_odom)
         /\ ~(c.use_rgbd_odom /\ c.use_t265_odom) /\ ~(c.use_vins_odom /\ c.use_t265_odom)
<1>1. \A f, g \in {"use_cuvslam_odom", "use_rgbd_odom", "use_vins_odom", "use_t265_odom"} : c[f] /\ c[g] => f = g
  BY DEF OneFlag, OdometryFlags
<1> QED BY <1>1

\* A node whose topics are none of those that are owned, nor sensor topics.
LEMMA UnownedNodes ==
  ASSUME NEW c, NEW n,
         n.pub \cap {Global("joint_states"), CmdVel, NavOdom, OdomTf, Global("cuvslam_odom"),
                     Global("cuvslam_rgbd_odom"), Global("vins_odom"), <<"odometry", "filtered">>, NavScan} = {},
         n.pub \cap Sensed(c) = {} \/ n.needs = {}
  PROVE  WellWired(c, n)
BY DEF WellWired

\* The nodes of gazebo_bringup and controller_bringup.
LEMMA GazeboWiring ==
  ASSUME NEW c, RobotContext(c), c.use_gazebo, NEW n \in GazeboNodes(c)
  PROVE  WellWired(c, n) /\ Ordinary(n) /\ MapTf \notin n.pub
<1> USE DEF RosNode, Global, Streams, CmdVel, NavOdom, OdomTf, NavScan
<1>1. \/ n = DepthBridge(c) \/ n = SpawnEntity \/ n = GazeboStatePublisher \/ n = T265Bridge
      \/ n = JointStateBridge /\ c.enable_px4_sitl
  BY OnlyFacts DEF GazeboNodes
<1>2. c.depth_camera \in {"l515", "d435i", "none"}
  BY DEF RobotContext, DepthCameras
<1>3. Ordinary(n) /\ MapTf \notin n.pub
  BY <1>1, <1>2 DEF Ordinary, VisionInput, MapTf, DepthBridge, SpawnEntity, GazeboStatePublisher, T265Bridge,
                    JointStateBridge, FisheyeStreams, FisheyeInfo, SimDepthStreams, DepthCameras
<1>4. CASE n = DepthBridge(c)
  BY <1>2, <1>3, <1>4, UnownedNodes DEF DepthBridge, SimDepthStreams, DepthCameras
<1>5. CASE n = T265Bridge
  BY <1>3, <1>5, UnownedNodes DEF T265Bridge, FisheyeStreams, FisheyeInfo
<1>6. CASE n = SpawnEntity \/ n = GazeboStatePublisher
  BY <1>3, <1>6, UnownedNodes DEF SpawnEntity, GazeboStatePublisher
<1>7. CASE n = JointStateBridge /\ c.enable_px4_sitl
  <2>1. n.pub = {Global("joint_states")} /\ n.needs = {}
    BY <1>7 DEF JointStateBridge
  <2>2. n = JointOwner(c)
    BY <1>7 DEF JointOwner
  <2> QED BY <1>3, <2>1, <2>2 DEF WellWired
<1> QED BY <1>1, <1>4, <1>5, <1>6, <1>7

\* The drivers of realsense_camera.launch.py.
LEMMA CameraWiring ==
  ASSUME NEW c, RobotContext(c), ~c.use_gazebo, c.t265_relay_publish_tf = c.use_t265_odom,
         NEW n \in RealsenseNodes(c)
  PROVE  WellWired(c, n) /\ Ordinary(n) /\ MapTf \notin n.pub
<1> USE DEF RosNode, Global, Streams, CmdVel, NavOdom, OdomTf, NavScan
<1>1. \/ n = DepthCamera("d435i", c.d435i_enable_imu) \/ n = DepthCamera("l515", c.l515_enable_imu)
      \/ n = T265Camera(c) \/ n = T265Relay(c)
  BY OnlyFacts DEF RealsenseNodes, D435iNode, L515Node, T265Node
<1>2. c.depth_camera \in {"l515", "d435i", "none"}
  BY DEF RobotContext, DepthCameras
<1>3. CASE \E device \in {"d435i", "l515"} : \E imu : n = DepthCamera(device, imu)
  <2>1. PICK device \in {"d435i", "l515"} : \E imu : n = DepthCamera(device, imu)
    BY <1>3
  <2>2. n.needs = {} /\ n.pub \subseteq {device} \X (DepthStreams \cup {"imu"}) /\ Ordinary(n)
    BY <2>1 DEF DepthCamera, Ordinary, VisionInput
  <2>3. \A t \in n.pub : t[1] \in {"d435i", "l515"} /\ t = <<t[1], t[2]>>
    BY <2>2
  <2> QED BY <2>2, <2>3, UnownedNodes DEF MapTf
<1>4. CASE n = T265Camera(c)
  <2>1. n.needs = {} /\ n.pub \subseteq {"t265"} \X ({"odom", "imu"} \cup FisheyeStreams \cup FisheyeInfo)
    BY <1>4 DEF T265Camera
  <2>2. Ordinary(n)
    BY <1>4, <2>1 DEF T265Camera, Ordinary, VisionInput
  <2> QED BY <2>1, <2>2, UnownedNodes DEF MapTf, FisheyeStreams, FisheyeInfo
<1>5. CASE n = T265Relay(c)
  <2>1. n = BaseRelay(c)
    BY <1>5 DEF BaseRelay, T265Relay
  <2>2. n.pub = {NavOdom} \cup (IF c.use_t265_odom THEN {OdomTf} ELSE {}) /\ n.needs = {T265Odom}
    BY <1>5 DEF T265Relay, T265Odom
  <2>3. Ordinary(n) /\ MapTf \notin n.pub
    BY <1>5, <2>2 DEF T265Relay, Ordinary, VisionInput, MapTf
  <2>4. OneFlag(c) /\ c.use_t265_odom => n = OdomOwner(c) /\ \E f \in OdometryFlags : c[f]
    BY <2>1, FlagFacts DEF OdomOwner, OdometryFlags
  <2>5. n.pub \cap Sensed(c) = {}
    BY <1>2, <2>2 DEF Sensed, T265Odom
  <2>6. OdomTf \in n.pub => c.use_t265_odom
    BY <2>2
  <2>7. n.pub \subseteq {NavOdom, OdomTf}
    BY <2>2
  <2>8. Global("joint_states") \notin n.pub /\ CmdVel \notin n.pub /\ <<"odometry", "filtered">> \notin n.pub
        /\ NavScan \notin n.pub /\ n.pub \cap OdomTopics = {}
    BY <2>7 DEF OdomTopics
  <2> QED BY <2>1, <2>3, <2>4, <2>5, <2>6, <2>8 DEF WellWired, OdomTopics
<1> QED BY <1>1, <1>3, <1>4, <1>5

\* The nodes robot_bringup adds itself.
LEMMA RobotWiring ==
  ASSUME NEW c, RobotContext(c),
         NEW n \in SimCameraInfo(c) \cup SimT265Relay(c) \cup Only(~c.use_gazebo, JointRelay)
                     \cup Only(~c.use_gazebo, StatePublisher)
  PROVE  WellWired(c, n) /\ Ordinary(n) /\ MapTf \notin n.pub
<1> USE DEF RosNode, Global, Streams, CmdVel, NavOdom, OdomTf, NavScan
<1>1. c.depth_camera \in {"l515", "d435i", "none"}
  BY DEF RobotContext, DepthCameras
<1>2. CASE n \in SimCameraInfo(c)
  <2>1. n.pub = Streams("t265", FisheyeInfo) /\ n.file = "robot" /\ n.name = "t265_sim_camera_info"
    BY <1>2 DEF SimCameraInfo, Only
  <2>2. n.pub \cap Sensed(c) = {}
    BY <1>1, <2>1 DEF FisheyeInfo, Sensed, T265Odom
  <2> QED BY <2>1, <2>2, UnownedNodes DEF FisheyeInfo, MapTf, Ordinary, VisionInput
<1>3. CASE n \in SimT265Relay(c)
  <2>1. c.use_gazebo /\ c.use_t265_odom /\ n = SimRelay
    BY <1>3 DEF SimT265Relay, Only, SimRelay, T265Odom
  <2>2. n.pub = {NavOdom, OdomTf} /\ Ordinary(n) /\ MapTf \notin n.pub
    BY <2>1 DEF SimRelay, Ordinary, VisionInput, MapTf
  <2>3. n = BaseRelay(c)
    BY <2>1 DEF BaseRelay
  <2>4. OneFlag(c) => n = OdomOwner(c) /\ \E f \in OdometryFlags : c[f]
    BY <2>1, <2>3, FlagFacts DEF OdomOwner, OdometryFlags
  <2>5. n.pub \cap Sensed(c) = {}
    BY <1>1, <2>2 DEF Sensed, T265Odom
  <2>8. Global("joint_states") \notin n.pub /\ CmdVel \notin n.pub /\ <<"odometry", "filtered">> \notin n.pub
        /\ NavScan \notin n.pub /\ n.pub \cap OdomTopics = {}
    BY <2>2 DEF OdomTopics
  <2> QED BY <2>2, <2>3, <2>4, <2>5, <2>8 DEF WellWired, OdomTopics
<1>4. CASE ~c.use_gazebo /\ n = JointRelay
  <2>1. n.pub = {Global("joint_states")} /\ n.needs = {} /\ Ordinary(n) /\ MapTf \notin n.pub
    BY <1>4 DEF JointRelay, Ordinary, VisionInput, MapTf
  <2>2. n = JointOwner(c)
    BY <1>4 DEF JointOwner
  <2> QED BY <2>1, <2>2 DEF WellWired
<1>5. CASE n = StatePublisher
  BY <1>5, UnownedNodes DEF StatePublisher, Ordinary, VisionInput, MapTf
<1> QED BY <1>2, <1>3, <1>4, <1>5, OnlyFacts

\* The topics of an estimator and of its relay.
LEMMA EstimatorWiring ==
  ASSUME NEW c, RobotContext(c), NEW n, c.raw_odom_topic \in RawTopics,
         n.pub \subseteq {c.raw_odom_topic}, n.file = "odometry", n.name # "spawner",
         n.name # "px4_vehicle_odometry"
  PROVE  WellWired(c, n) /\ Ordinary(n) /\ MapTf \notin n.pub
<1>1. c.depth_camera \in {"l515", "d435i", "none"}
  BY DEF RobotContext, DepthCameras
<1>2. RawTopics \cap {Global("joint_states"), CmdVel, NavOdom, OdomTf, Global("cuvslam_odom"),
                      Global("cuvslam_rgbd_odom"), Global("vins_odom"), <<"odometry", "filtered">>, NavScan} = {}
      /\ RawTopics \cap Sensed(c) = {} /\ VisionInput \notin RawTopics /\ MapTf \notin RawTopics
  BY <1>1 DEF RawTopics, Global, CmdVel, NavOdom, OdomTf, NavScan, Sensed, Streams, T265Odom, VisionInput, MapTf
<1>3. n.pub \subseteq RawTopics
  OBVIOUS
<1> QED BY <1>2, <1>3, UnownedNodes DEF Ordinary

\* A relay that publishes the rover's odometry.
LEMMA RelayWiring ==
  ASSUME NEW c, RobotContext(c), NEW n, c.odom_topic \in OdomTopics, n.pub = {c.odom_topic, OdomTf},
         n.file = "odometry", n.name # "spawner", n.name # "px4_vehicle_odometry",
         \E f \in OdometryFlags : c[f], OneFlag(c) => n = OdomOwner(c),
         OneFlag(c) /\ c.odom_topic = Global("cuvslam_odom") => n = CuvslamRelay(CuvslamDefaults),
         OneFlag(c) /\ c.odom_topic = Global("cuvslam_rgbd_odom") => n = CuvslamRgbdRelay(CuvslamRgbdDefaults),
         OneFlag(c) /\ c.odom_topic = Global("vins_odom") => n = VinsRelay(VinsDefaults)
  PROVE  WellWired(c, n) /\ Ordinary(n) /\ MapTf \notin n.pub
<1>1. c.depth_camera \in {"l515", "d435i", "none"}
  BY DEF RobotContext, DepthCameras
<1>2. /\ n.pub \cap {Global("joint_states"), CmdVel, NavOdom, <<"odometry", "filtered">>, NavScan} = {}
      /\ n.pub \cap Sensed(c) = {} /\ VisionInput \notin n.pub /\ MapTf \notin n.pub
  BY <1>1 DEF OdomTopics, Global, CmdVel, NavOdom, OdomTf, NavScan, Sensed, Streams, T265Odom, VisionInput, MapTf
<1>3. OdomTf \notin OdomTopics
  BY DEF OdomTopics, OdomTf, Global
<1>4. \A t \in OdomTopics : t \in n.pub => t = c.odom_topic
  BY <1>3
<1>5. OdomTopics = {Global("vins_odom"), Global("cuvslam_odom"), Global("cuvslam_rgbd_odom")}
  BY DEF OdomTopics
<1> QED BY <1>2, <1>4, <1>5 DEF WellWired, Ordinary

\* An estimator is alone with its arguments if it is the only source asked for.
LEMMA EstimatorArguments ==
  ASSUME NEW c, NEW declared, DOMAIN declared = OdomArgs, NEW d, d = Declare(c, declared)
  PROVE  /\ OdomArgs \subseteq DOMAIN d
         /\ OdomArgs \cap DOMAIN c = {} => /\ d.config_file = declared.config_file
                                           /\ d.raw_odom_topic = declared.raw_odom_topic
                                           /\ d.odom_topic = declared.odom_topic
<1> DEFINE j == Declare(c, declared)
<1>1. /\ DOMAIN j = DOMAIN c \cup DOMAIN declared
      /\ \A a \in DOMAIN declared \ DOMAIN c : j[a] = declared[a]
  BY DeclareFacts
<1>2. d = j
  OBVIOUS
<1> HIDE DEF j
<1>3. /\ DOMAIN d = DOMAIN c \cup DOMAIN declared
      /\ \A a \in DOMAIN declared \ DOMAIN c : d[a] = declared[a]
  BY <1>1, <1>2
<1>4. "config_file" \in OdomArgs /\ "raw_odom_topic" \in OdomArgs /\ "odom_topic" \in OdomArgs
  BY DEF OdomArgs
<1> QED BY <1>3, <1>4

\* The nodes of vins_fusion.launch.py.
LEMMA VinsWiring ==
  ASSUME NEW c, RobotContext(c), c.use_vins_odom, NEW n \in {VinsNode(c), VinsRelay(c)},
         c.raw_odom_topic \in RawTopics, c.odom_topic \in OdomTopics,
         OneFlag(c) => c.raw_odom_topic = VinsDefaults.raw_odom_topic /\ c.odom_topic = VinsDefaults.odom_topic
  PROVE  WellWired(c, n) /\ Ordinary(n) /\ MapTf \notin n.pub
<1>1. CASE n = VinsNode(c)
  <2>1. n.pub \subseteq {c.raw_odom_topic} /\ n.file = "odometry" /\ n.name = "vins_estimator"
    BY <1>1 DEF VinsNode, RosNode
  <2> QED BY <2>1, EstimatorWiring
<1>2. CASE n = VinsRelay(c)
  <2>1. n.pub = {c.odom_topic, OdomTf} /\ n.file = "odometry" /\ n.name = "vins_odom_relay"
    BY <1>2 DEF VinsRelay, OdomRelay, RosNode
  <2>2. OneFlag(c) => n = VinsRelay(VinsDefaults)
    BY <1>2 DEF VinsRelay, OdomRelay
  <2>3. OneFlag(c) => n = OdomOwner(c)
    BY <2>2, FlagFacts DEF OdomOwner
  <2>4. OneFlag(c) => c.odom_topic = Global("vins_odom")
    BY DEF VinsDefaults
  <2>5. OneFlag(c) => c.odom_topic # Global("cuvslam_odom") /\ c.odom_topic # Global("cuvslam_rgbd_odom")
    BY <2>4 DEF Global
  <2>6. \E f \in OdometryFlags : c[f]
    BY DEF OdometryFlags
  <2> QED BY <2>1, <2>2, <2>3, <2>5, <2>6, RelayWiring
<1> QED BY <1>1, <1>2

\* The nodes of cuvslam.launch.py.
LEMMA CuvslamWiring ==
  ASSUME NEW c, RobotContext(c), c.use_cuvslam_odom, NEW n \in {CuvslamNode(c), CuvslamRelay(c)},
         c.raw_odom_topic \in RawTopics, c.odom_topic \in OdomTopics,
         OneFlag(c) => c.raw_odom_topic = CuvslamDefaults.raw_odom_topic /\ c.odom_topic = CuvslamDefaults.odom_topic
  PROVE  WellWired(c, n) /\ Ordinary(n) /\ MapTf \notin n.pub
<1>1. CASE n = CuvslamNode(c)
  <2>1. n.pub \subseteq {c.raw_odom_topic} /\ n.file = "odometry" /\ n.name = "cuvslam_odom_node"
    BY <1>1 DEF CuvslamNode, RosNode
  <2> QED BY <2>1, EstimatorWiring
<1>2. CASE n = CuvslamRelay(c)
  <2>1. n.pub = {c.odom_topic, OdomTf} /\ n.file = "odometry" /\ n.name = "cuvslam_odom_relay"
    BY <1>2 DEF CuvslamRelay, OdomRelay, RosNode
  <2>2. OneFlag(c) => n = CuvslamRelay(CuvslamDefaults)
    BY <1>2 DEF CuvslamRelay, OdomRelay
  <2>3. OneFlag(c) => n = OdomOwner(c)
    BY <2>2 DEF OdomOwner
  <2>4. OneFlag(c) => c.odom_topic = Global("cuvslam_odom")
    BY DEF CuvslamDefaults
  <2>5. OneFlag(c) => c.odom_topic # Global("vins_odom") /\ c.odom_topic # Global("cuvslam_rgbd_odom")
    BY <2>4 DEF Global
  <2>6. \E f \in OdometryFlags : c[f]
    BY DEF OdometryFlags
  <2> QED BY <2>1, <2>2, <2>3, <2>5, <2>6, RelayWiring
<1> QED BY <1>1, <1>2

\* The nodes of cuvslam_rgbd.launch.py.
LEMMA CuvslamRgbdWiring ==
  ASSUME NEW c, RobotContext(c), c.use_rgbd_odom, NEW n \in {CuvslamRgbdNode(c), CuvslamRgbdRelay(c)},
         c.raw_odom_topic \in RawTopics, c.odom_topic \in OdomTopics,
         OneFlag(c) => /\ c.raw_odom_topic = CuvslamRgbdDefaults.raw_odom_topic
                       /\ c.odom_topic = CuvslamRgbdDefaults.odom_topic
  PROVE  WellWired(c, n) /\ Ordinary(n) /\ MapTf \notin n.pub
<1>1. CASE n = CuvslamRgbdNode(c)
  <2>1. n.pub \subseteq {c.raw_odom_topic} /\ n.file = "odometry" /\ n.name = "cuvslam_rgbd_node"
    BY <1>1 DEF CuvslamRgbdNode, RosNode
  <2> QED BY <2>1, EstimatorWiring
<1>2. CASE n = CuvslamRgbdRelay(c)
  <2>1. n.pub = {c.odom_topic, OdomTf} /\ n.file = "odometry" /\ n.name = "cuvslam_odom_relay"
    BY <1>2 DEF CuvslamRgbdRelay, OdomRelay, RosNode
  <2>2. OneFlag(c) => n = CuvslamRgbdRelay(CuvslamRgbdDefaults)
    BY <1>2 DEF CuvslamRgbdRelay, OdomRelay
  <2>3. OneFlag(c) => n = OdomOwner(c)
    BY <2>2, FlagFacts DEF OdomOwner
  <2>4. OneFlag(c) => c.odom_topic = Global("cuvslam_rgbd_odom")
    BY DEF CuvslamRgbdDefaults
  <2>5. OneFlag(c) => c.odom_topic # Global("vins_odom") /\ c.odom_topic # Global("cuvslam_odom")
    BY <2>4 DEF Global
  <2>6. \E f \in OdometryFlags : c[f]
    BY DEF OdometryFlags
  <2> QED BY <2>1, <2>2, <2>3, <2>5, <2>6, RelayWiring
<1> QED BY <1>1, <1>2

\* The nodes of rtabmap_slam.launch.py.
LEMMA SlamWiring ==
  ASSUME NEW c, RobotContext(c), \A a \in StreamArgs : c[a] = CameraArguments(c)[a], NEW n \in SlamNodes(c)
  PROVE  WellWired(c, n) /\ Ordinary(n)
<1> USE DEF RosNode, Global, CmdVel, NavOdom, OdomTf, NavScan
<1>1. c.depth_camera \in {"l515", "d435i", "none"}
  BY DEF RobotContext, DepthCameras
<1>2. CASE n = DepthToScan(c)
  <2>1. n.pub = {NavScan} /\ n.needs = {c.depth_image_topic, c.depth_camera_info_topic}
    BY <1>2 DEF DepthToScan, Scan, DepthTopics
  <2>2. /\ c.depth_image_topic = CameraArguments(c).depth_image_topic
        /\ c.depth_camera_info_topic = CameraArguments(c).depth_camera_info_topic
    BY DEF StreamArgs
  <2>3. {CameraArguments(c).depth_image_topic, CameraArguments(c).depth_camera_info_topic} \subseteq Sensed(c)
    BY DEF CameraArguments, Sensed, Streams
  <2>4. n.pub \cap Sensed(c) = {} /\ Ordinary(n)
    BY <1>1, <1>2, <2>1 DEF Sensed, Streams, T265Odom, Ordinary, VisionInput, DepthToScan
  <2> QED BY <2>1, <2>2, <2>3, <2>4 DEF WellWired
<1>3. CASE \E name \in Mappers \cup {"rtabmap_localization"} : n = Rtabmap(c, name)
  <2>1. n.pub = {Global("map"), MapTf} /\ n.file = "slam" /\ n.name \in Mappers \cup {"rtabmap_localization"}
    BY <1>3 DEF Rtabmap, MapTf
  <2>2. n.pub \cap Sensed(c) = {} /\ VisionInput \notin n.pub
    BY <1>1, <2>1 DEF Sensed, Streams, T265Odom, MapTf, VisionInput
  <2>3. Ordinary(n)
    BY <2>1, <2>2 DEF Ordinary, Mappers, Wipers
  <2> QED BY <2>1, <2>2, <2>3, UnownedNodes DEF MapTf
<1>4. CASE n \in {RgbdSync(c), RgbdToPoints(c), ObstacleDetection, RtabmapViz(c)}
  <2>1. n.pub \subseteq {Global("rgbd_image"), <<"camera", "cloud">>, <<"camera", "obstacles">>, <<"camera", "ground">>}
        /\ n.file = "slam" /\ n.name \notin {"spawner", "px4_vehicle_odometry"}
    BY <1>4 DEF RgbdSync, RgbdToPoints, ObstacleDetection, RtabmapViz, RgbdImage
  <2>2. n.pub \cap Sensed(c) = {} /\ VisionInput \notin n.pub
    BY <1>1, <2>1 DEF Sensed, Streams, T265Odom, VisionInput
  <2> QED BY <2>1, <2>2, UnownedNodes DEF Ordinary
<1>5. n \in SlamVariants(c) \cup LocalizationNode(c) =>
        \E name \in Mappers \cup {"rtabmap_localization"} : n = Rtabmap(c, name)
  BY OnlyFacts DEF SlamVariants, LocalizationNode, Mappers, Wipers
<1>6. \/ n \in SlamVariants(c) \cup LocalizationNode(c)
      \/ n = DepthToScan(c) \/ n \in {RgbdSync(c), RgbdToPoints(c), ObstacleDetection, RtabmapViz(c)}
  BY OnlyFacts DEF SlamNodes
<1> QED BY <1>2, <1>3, <1>4, <1>5, <1>6

\* The nodes of monitor.launch.py.
LEMMA MonitorWiring ==
  ASSUME NEW c, RobotContext(c), NEW n \in MonitorNodes(c)
  PROVE  WellWired(c, n) /\ Ordinary(n) /\ MapTf \notin n.pub
<1> USE DEF RosNode, Global, CmdVel, NavOdom, OdomTf, NavScan
<1>1. c.depth_camera \in {"l515", "d435i", "none"}
  BY DEF RobotContext, DepthCameras
<1>2. n = DepthProbe(c) \/ n = TrackingProbe(c) \/ n \in MonitorCore \/ n = Telemetry
  BY OnlyFacts DEF MonitorNodes
<1>3. n.pub \subseteq {<<"monitor", "camera">>, CmdVel} /\ n.file = "monitor"
      /\ n.name \notin {"spawner", "px4_vehicle_odometry"}
  BY <1>2 DEF DepthProbe, TrackingProbe, MonitorCore, Telemetry
<1>4. n.pub \cap Sensed(c) = {} /\ VisionInput \notin n.pub /\ MapTf \notin n.pub
  BY <1>1, <1>3 DEF Sensed, Streams, T265Odom, VisionInput, MapTf
<1>5. CmdVel \in n.pub => n = Telemetry
  BY <1>2 DEF DepthProbe, TrackingProbe, MonitorCore
<1>6. n.pub \cap {Global("joint_states"), NavOdom, OdomTf, Global("cuvslam_odom"),
                  Global("cuvslam_rgbd_odom"), Global("vins_odom"), <<"odometry", "filtered">>, NavScan} = {}
  BY <1>3
<1> QED BY <1>3, <1>4, <1>5, <1>6 DEF Ordinary, WellWired

\* SpawnEntity belongs to Gazebo.
LEMMA SpawnIsGazebos ==
  ASSUME NEW e, NEW c, SpawnEntity \in NodesOf(e, c)
  PROVE  c.use_gazebo
<1> DEFINE n == SpawnEntity
<1>1. n.name = "spawn_entity" /\ n.file = "gazebo"
  BY DEF SpawnEntity, RosNode
<1>2. n \in NodesOf(e, c)
  OBVIOUS
<1> HIDE DEF n
<1>3. \/ c.use_gazebo
      \/ n \in RealsenseNodes(c) \cup SimCameraInfo(c) \cup SimT265Relay(c) \cup {JointRelay, StatePublisher}
      \/ n \in {VinsNode(c), VinsRelay(c), CuvslamNode(c), CuvslamRelay(c),
                CuvslamRgbdNode(c), CuvslamRgbdRelay(c)}
      \/ n \in MonitorNodes(c) \/ n \in SlamNodes(c)
  BY <1>2 DEF NodesOf
<1>4. n \notin RealsenseNodes(c)
  BY <1>1, OnlyFacts DEF RealsenseNodes, D435iNode, L515Node, T265Node, DepthCamera, T265Camera, T265Relay, RosNode
<1>5. n \notin SimCameraInfo(c) \cup SimT265Relay(c) \cup {JointRelay, StatePublisher}
  BY <1>1, OnlyFacts DEF SimCameraInfo, SimT265Relay, JointRelay, StatePublisher, RosNode
<1>6. n \notin {VinsNode(c), VinsRelay(c), CuvslamNode(c), CuvslamRelay(c), CuvslamRgbdNode(c), CuvslamRgbdRelay(c)}
  BY <1>1 DEF VinsNode, VinsRelay, OdomRelay, CuvslamNode, CuvslamRelay, CuvslamRgbdNode, CuvslamRgbdRelay, RosNode
<1>7. n \notin MonitorNodes(c)
  <2>1. n \in MonitorNodes(c) => n = DepthProbe(c) \/ n = TrackingProbe(c) \/ n \in MonitorCore \/ n = Telemetry
    BY OnlyFacts DEF MonitorNodes
  <2> QED BY <1>1, <2>1 DEF DepthProbe, TrackingProbe, MonitorCore, Telemetry, RosNode
<1>8. n \notin SlamNodes(c)
  <2>1. n \in SlamNodes(c) => n.file = "slam"
    BY OnlyFacts DEF SlamNodes, SlamVariants, LocalizationNode, Rtabmap, RgbdSync, RgbdToPoints, ObstacleDetection,
                     DepthToScan, RtabmapViz, RosNode
  <2> QED BY <1>1, <2>1
<1> QED BY <1>3, <1>4, <1>5, <1>6, <1>7, <1>8

\* Every entity starts well-wired nodes.
LEMMA EntityWiring ==
  ASSUME NEW v \in 0..13, NEW c, RobotContext(c), Arguments(v, c), NEW e, e = Entities[v + 1],
         NEW d, d = ContextAfter(e, c), NEW n \in NodesOf(e, d)
  PROVE  WellWired(d, n) /\ Ordinary(n) /\ (e # "rtabmap" => MapTf \notin n.pub)
<1>1. RobotArgs \subseteq DOMAIN c
  BY DEF RobotContext
<1>2. SameRobot(c, d) /\ RobotContext(d) /\ Arguments(v + 1, d)
  BY ArgumentsStep
<1>3. /\ d.use_gazebo = c.use_gazebo /\ d.use_t265_odom = c.use_t265_odom /\ d.use_vins_odom = c.use_vins_odom
      /\ d.use_cuvslam_odom = c.use_cuvslam_odom /\ d.use_rgbd_odom = c.use_rgbd_odom /\ d.rtabmap = c.rtabmap
  BY <1>2, SameArguments
<1>4. OneFlag(d) <=> OneFlag(c)
  BY <1>2, SameOwners
<1>5. CASE e = "gazebo" /\ d.use_gazebo
  <2>1. n \in GazeboNodes(d)
    BY <1>5 DEF NodesOf
  <2> QED BY <1>2, <1>5, <2>1, GazeboWiring
<1>6. CASE e = "hw_cameras" /\ ~d.use_gazebo
  <2>1. n \in RealsenseNodes(d)
    BY <1>6 DEF NodesOf
  <2>2. v = 3
    BY <1>6, PlaceOf
  <2>3. ImuArgs \cap DOMAIN c = {}
    BY <2>2 DEF Arguments
  <2>4. d.t265_relay_publish_tf = c.use_t265_odom
    BY <1>3, <1>6, <2>3, CameraArgumentsAfter
  <2> QED BY <1>2, <1>3, <1>6, <2>1, <2>4, CameraWiring
<1>7. CASE e = "vins" /\ d.use_vins_odom
  <2>1. d = Declare(c, VinsDefaults)
    BY <1>3, <1>7 DEF ContextAfter
  <2>2. n \in {VinsNode(d), VinsRelay(d)}
    BY <1>7 DEF NodesOf
  <2>3. v = 6
    BY <1>7, PlaceOf
  <2>4. OdomArgs \cap DOMAIN c = {}
    BY <2>3 DEF Arguments
  <2>5. OdomArgs \subseteq DOMAIN d /\ d.raw_odom_topic = VinsDefaults.raw_odom_topic
        /\ d.odom_topic = VinsDefaults.odom_topic
    BY <2>1, <2>4, EstimatorArguments, OdometryArgs
  <2>6. d.raw_odom_topic \in RawTopics /\ d.odom_topic \in OdomTopics
    BY <2>5 DEF VinsDefaults, RawTopics, OdomTopics
  <2> QED BY <1>2, <1>7, <2>2, <2>5, <2>6, VinsWiring
<1>8. CASE e = "cuvslam" /\ d.use_cuvslam_odom
  <2>1. d = Declare(c, CuvslamDefaults)
    BY <1>3, <1>8 DEF ContextAfter
  <2>2. n \in {CuvslamNode(d), CuvslamRelay(d)}
    BY <1>8 DEF NodesOf
  <2>3. v = 7
    BY <1>8, PlaceOf
  <2>4. OneFlag(d) => OdomArgs \cap DOMAIN c = {}
    <3>1. OneFlag(d) => ~d.use_vins_odom
      BY <1>8, FlagFacts
    <3> QED BY <1>3, <2>3, <3>1 DEF Arguments
  <2>5. OdomArgs \subseteq DOMAIN d
        /\ (OneFlag(d) => d.raw_odom_topic = CuvslamDefaults.raw_odom_topic /\ d.odom_topic = CuvslamDefaults.odom_topic)
    BY <2>1, <2>4, EstimatorArguments, OdometryArgs
  <2>6. d.raw_odom_topic \in RawTopics /\ d.odom_topic \in OdomTopics
    BY <1>2, <2>5 DEF Arguments, OdomArgs
  <2> QED BY <1>2, <1>8, <2>2, <2>5, <2>6, CuvslamWiring
<1>9. CASE e = "cuvslam_rgbd" /\ d.use_rgbd_odom
  <2>1. d = Declare(c, CuvslamRgbdDefaults)
    BY <1>3, <1>9 DEF ContextAfter
  <2>2. n \in {CuvslamRgbdNode(d), CuvslamRgbdRelay(d)}
    BY <1>9 DEF NodesOf
  <2>3. v = 8
    BY <1>9, PlaceOf
  <2>4. OneFlag(d) => OdomArgs \cap DOMAIN c = {}
    <3>1. OneFlag(d) => ~d.use_vins_odom /\ ~d.use_cuvslam_odom
      BY <1>9, FlagFacts
    <3> QED BY <1>3, <2>3, <3>1 DEF Arguments
  <2>5. OdomArgs \subseteq DOMAIN d
        /\ (OneFlag(d) => /\ d.raw_odom_topic = CuvslamRgbdDefaults.raw_odom_topic
                          /\ d.odom_topic = CuvslamRgbdDefaults.odom_topic)
    BY <2>1, <2>4, EstimatorArguments, OdometryArgs
  <2>6. d.raw_odom_topic \in RawTopics /\ d.odom_topic \in OdomTopics
    BY <1>2, <2>5 DEF Arguments, OdomArgs
  <2> QED BY <1>2, <1>9, <2>2, <2>5, <2>6, CuvslamRgbdWiring
<1>10. CASE e = "rtabmap" /\ d.rtabmap
  <2>1. n \in SlamNodes(d)
    BY <1>10 DEF NodesOf
  <2>2. v = 9
    BY <1>10, PlaceOf
  <2>3. v + 1 >= 10
    BY <2>2
  <2>4. \A a \in StreamArgs : d[a] = CameraArguments(d)[a]
    BY <1>2, <1>10, <2>3 DEF Arguments
  <2> QED BY <1>2, <1>10, <2>1, <2>4, SlamWiring
<1>11. CASE e = "rover_monitor" /\ d.rover_monitor
  <2>1. n \in MonitorNodes(d)
    BY <1>11 DEF NodesOf
  <2> QED BY <1>2, <2>1, MonitorWiring
<1>12. CASE n \in SimCameraInfo(d) \cup SimT265Relay(d) \cup Only(~d.use_gazebo, JointRelay)
                     \cup Only(~d.use_gazebo, StatePublisher)
  BY <1>2, <1>12, RobotWiring
<1>13. \/ e = "gazebo" /\ d.use_gazebo
       \/ e = "hw_cameras" /\ ~d.use_gazebo
       \/ e = "vins" /\ d.use_vins_odom
       \/ e = "cuvslam" /\ d.use_cuvslam_odom
       \/ e = "cuvslam_rgbd" /\ d.use_rgbd_odom
       \/ e = "rtabmap" /\ d.rtabmap
       \/ e = "rover_monitor" /\ d.rover_monitor
       \/ n \in SimCameraInfo(d) \cup SimT265Relay(d) \cup Only(~d.use_gazebo, JointRelay)
                  \cup Only(~d.use_gazebo, StatePublisher)
  BY DEF NodesOf, Only
<1> QED BY <1>5, <1>6, <1>7, <1>8, <1>9, <1>10, <1>11, <1>12, <1>13

\* At most one node of RTAB-Map's file publishes its transform.
LEMMA OneMap ==
  ASSUME NEW c, NEW n \in SlamNodes(c), NEW m \in SlamNodes(c), MapTf \in n.pub, MapTf \in m.pub
  PROVE  n = m
<1>1. \A k \in SlamNodes(c) : MapTf \in k.pub => k \in SlamVariants(c) \cup LocalizationNode(c)
  <2> TAKE k \in SlamNodes(c)
  <2>1. k \in SlamVariants(c) \cup LocalizationNode(c)
        \/ k \in {RgbdSync(c), RgbdToPoints(c), ObstacleDetection, DepthToScan(c), RtabmapViz(c)}
    BY OnlyFacts DEF SlamNodes
  <2>2. CASE k \in {RgbdSync(c), RgbdToPoints(c), ObstacleDetection, DepthToScan(c), RtabmapViz(c)}
    BY <2>2 DEF RgbdSync, RgbdToPoints, ObstacleDetection, DepthToScan, RtabmapViz, RosNode, MapTf, RgbdImage, Scan,
                Global
  <2> QED BY <2>1, <2>2
<1>2. \A k \in SlamVariants(c) \cup LocalizationNode(c) :
        \/ c.localization /\ k = Rtabmap(c, "rtabmap_localization")
        \/ ~c.localization /\ ~c.delete_db_on_start /\ ~c.rtabmap_udebug /\ k = Rtabmap(c, "rtabmap")
        \/ ~c.localization /\ ~c.delete_db_on_start /\ c.rtabmap_udebug /\ k = Rtabmap(c, "rtabmap_udebug")
        \/ ~c.localization /\ c.delete_db_on_start /\ ~c.rtabmap_udebug /\ k = Rtabmap(c, "rtabmap_wipe")
        \/ ~c.localization /\ c.delete_db_on_start /\ c.rtabmap_udebug /\ k = Rtabmap(c, "rtabmap_wipe_udebug")
  <2> TAKE k \in SlamVariants(c) \cup LocalizationNode(c)
  <2>1. \/ k \in Only(c.localization, Rtabmap(c, "rtabmap_localization"))
        \/ k \in Only(SlamMappingKeep(c) /\ ~c.rtabmap_udebug, Rtabmap(c, "rtabmap"))
        \/ k \in Only(SlamMappingKeep(c) /\ c.rtabmap_udebug, Rtabmap(c, "rtabmap_udebug"))
        \/ k \in Only(SlamMappingWipe(c) /\ ~c.rtabmap_udebug, Rtabmap(c, "rtabmap_wipe"))
        \/ k \in Only(SlamMappingWipe(c) /\ c.rtabmap_udebug, Rtabmap(c, "rtabmap_wipe_udebug"))
    BY DEF SlamVariants, LocalizationNode
  <2>2. k \in Only(c.localization, Rtabmap(c, "rtabmap_localization")) =>
          c.localization /\ k = Rtabmap(c, "rtabmap_localization")
    BY OnlyFacts
  <2>3. k \in Only(SlamMappingKeep(c) /\ ~c.rtabmap_udebug, Rtabmap(c, "rtabmap")) =>
          SlamMappingKeep(c) /\ ~c.rtabmap_udebug /\ k = Rtabmap(c, "rtabmap")
    BY OnlyFacts
  <2>4. k \in Only(SlamMappingKeep(c) /\ c.rtabmap_udebug, Rtabmap(c, "rtabmap_udebug")) =>
          SlamMappingKeep(c) /\ c.rtabmap_udebug /\ k = Rtabmap(c, "rtabmap_udebug")
    BY OnlyFacts
  <2>5. k \in Only(SlamMappingWipe(c) /\ ~c.rtabmap_udebug, Rtabmap(c, "rtabmap_wipe")) =>
          SlamMappingWipe(c) /\ ~c.rtabmap_udebug /\ k = Rtabmap(c, "rtabmap_wipe")
    BY OnlyFacts
  <2>6. k \in Only(SlamMappingWipe(c) /\ c.rtabmap_udebug, Rtabmap(c, "rtabmap_wipe_udebug")) =>
          SlamMappingWipe(c) /\ c.rtabmap_udebug /\ k = Rtabmap(c, "rtabmap_wipe_udebug")
    BY OnlyFacts
  <2> QED BY <2>1, <2>2, <2>3, <2>4, <2>5, <2>6 DEF SlamMappingKeep, SlamMappingWipe
<1> QED BY <1>1, <1>2

\* What has been started once one more entity has been visited.
LEMMA VisitPresent ==
  ASSUME NEW v \in 0..13, NEW c, RobotContext(c), Arguments(v, c), NEW e, e = Entities[v + 1],
         NEW d, d = ContextAfter(e, c), NEW ns, Present(v, c, ns)
  PROVE  Present(v + 1, d, ns \cup NodesOf(e, d))
<1> DEFINE ms == ns \cup NodesOf(e, d)
<1>1. SameRobot(c, d) /\ RobotContext(d) /\ Arguments(v + 1, d)
  BY ArgumentsStep
<1>2. Present(v, d, ms)
  BY <1>1, SamePresent
<1>3. NodesOf(e, d) \subseteq ms
  OBVIOUS
<1>4. /\ d.use_gazebo = c.use_gazebo /\ d.use_t265_odom = c.use_t265_odom /\ d.use_vins_odom = c.use_vins_odom
      /\ d.use_cuvslam_odom = c.use_cuvslam_odom /\ d.use_rgbd_odom = c.use_rgbd_odom /\ d.rtabmap = c.rtabmap
      /\ d.depth_camera = c.depth_camera
  BY <1>1, SameArguments
<1> HIDE DEF ms
<1>5. v + 1 >= 1 /\ d.use_gazebo => DepthBridge(d) \in ms /\ (EnableT265(d) => T265Bridge \in ms)
  <2>1. CASE v = 0
    <3> SUFFICES ASSUME d.use_gazebo PROVE DepthBridge(d) \in ms /\ (EnableT265(d) => T265Bridge \in ms)
      OBVIOUS
    <3>1. e = "gazebo"
      BY <2>1, PlaceOf
    <3>2. NodesOf(e, d) = GazeboNodes(d)
      BY <3>1 DEF NodesOf
    <3>3. d = Included(GazeboArguments(c), c, GazeboDefaults)
      BY <1>4, <3>1 DEF ContextAfter, Included
    <3>4. d.enable_t265 = EnableT265(c)
      <4>1. "enable_t265" \in DOMAIN GazeboArguments(c) /\ GazeboArguments(c).enable_t265 = EnableT265(c)
        BY GazeboNames
      <4> QED BY <3>3, <4>1, IncludedPassed
    <3>5. EnableT265(d) = EnableT265(c)
      BY <1>1, SameOwners
    <3>6. DepthBridge(d) \in NodesOf(e, d)
      BY <3>2 DEF GazeboNodes
    <3>7. EnableT265(d) => T265Bridge \in NodesOf(e, d)
      BY <3>2, <3>4, <3>5 DEF GazeboNodes, Only
    <3> QED BY <1>3, <3>6, <3>7
  <2>2. CASE v # 0
    BY <1>2, <2>2 DEF Present
  <2> QED BY <2>1, <2>2
<1>6. v + 1 >= 4 /\ ~d.use_gazebo =>
        /\ d.depth_camera = "d435i" => DepthCamera("d435i", TRUE) \in ms
        /\ d.depth_camera = "l515" => DepthCamera("l515", FALSE) \in ms
        /\ EnableT265(d) => BaseCamera(d) \in ms /\ BaseRelay(d) \in ms
  <2>1. CASE v = 3
    <3> SUFFICES ASSUME ~d.use_gazebo
                 PROVE  /\ d.depth_camera = "d435i" => DepthCamera("d435i", TRUE) \in ms
                        /\ d.depth_camera = "l515" => DepthCamera("l515", FALSE) \in ms
                        /\ EnableT265(d) => BaseCamera(d) \in ms /\ BaseRelay(d) \in ms
      OBVIOUS
    <3>1. e = "hw_cameras"
      BY <2>1, PlaceOf
    <3>2. NodesOf(e, d) = RealsenseNodes(d)
      BY <3>1 DEF NodesOf
    <3>3. ImuArgs \cap DOMAIN c = {} /\ ~c.use_gazebo
      BY <1>4, <2>1 DEF Arguments
    <3>4. /\ d.enable_d435i = (c.depth_camera = "d435i") /\ d.enable_l515 = (c.depth_camera = "l515")
          /\ d.enable_t265 = EnableT265(c) /\ d.t265_enable_fisheye = EnableFisheye(c)
          /\ d.t265_relay_publish_tf = c.use_t265_odom
          /\ d.d435i_enable_imu = TRUE /\ d.l515_enable_imu = FALSE /\ d.t265_enable_imu = TRUE
      BY <3>1, <3>3, CameraArgumentsAfter
    <3>5. d.depth_camera = "d435i" => DepthCamera("d435i", TRUE) \in NodesOf(e, d)
      BY <1>4, <3>2, <3>4 DEF RealsenseNodes, D435iNode, Only
    <3>6. d.depth_camera = "l515" => DepthCamera("l515", FALSE) \in NodesOf(e, d)
      BY <1>4, <3>2, <3>4 DEF RealsenseNodes, L515Node, Only
    <3>7. EnableT265(d) = EnableT265(c) /\ EnableFisheye(d) = EnableFisheye(c)
      BY <1>1, SameOwners
    <3>8. EnableT265(d) => T265Camera(d) \in NodesOf(e, d) /\ T265Relay(d) \in NodesOf(e, d)
      BY <3>2, <3>4, <3>7 DEF RealsenseNodes, T265Node, Only
    <3>9. T265Camera(d) = BaseCamera(d)
      BY <3>4, <3>7 DEF BaseCamera, T265Camera
    <3>10. T265Relay(d) = BaseRelay(d)
      BY <1>4, <3>4 DEF BaseRelay, T265Relay
    <3> QED BY <1>3, <3>5, <3>6, <3>8, <3>9, <3>10
  <2>2. CASE v # 3
    <3>1. v + 1 >= 4 => v >= 4
      BY <2>2
    <3>2. v >= 4 /\ ~d.use_gazebo =>
            /\ d.depth_camera = "d435i" => DepthCamera("d435i", TRUE) \in ms
            /\ d.depth_camera = "l515" => DepthCamera("l515", FALSE) \in ms
            /\ EnableT265(d) => BaseCamera(d) \in ms /\ BaseRelay(d) \in ms
      BY <1>2, Zenon DEF Present
    <3> QED BY <3>1, <3>2
  <2> QED BY <2>1, <2>2
<1>7. v + 1 >= 6 /\ d.use_gazebo /\ d.use_t265_odom => BaseRelay(d) \in ms
  <2>1. CASE v = 5
    <3> SUFFICES ASSUME d.use_gazebo, d.use_t265_odom PROVE BaseRelay(d) \in ms
      OBVIOUS
    <3>1. e = "sim_t265_odom_relay"
      BY <2>1, PlaceOf
    <3>2. NodesOf(e, d) = SimT265Relay(d)
      BY <3>1 DEF NodesOf
    <3>3. SimRelay \in SimT265Relay(d) /\ BaseRelay(d) = SimRelay
      BY DEF SimT265Relay, SimRelay, BaseRelay, Only, T265Odom, NavOdom
    <3> QED BY <1>3, <3>2, <3>3
  <2>2. CASE v # 5
    BY <1>2, <2>2 DEF Present
  <2> QED BY <2>1, <2>2
<1>8. OneFlag(d) /\ v + 1 >= 7 /\ d.use_vins_odom => VinsNode(VinsDefaults) \in ms /\ VinsRelay(VinsDefaults) \in ms
  <2>1. CASE v = 6
    <3> SUFFICES ASSUME d.use_vins_odom PROVE VinsNode(VinsDefaults) \in ms /\ VinsRelay(VinsDefaults) \in ms
      OBVIOUS
    <3>1. e = "vins"
      BY <2>1, PlaceOf
    <3>2. d = Declare(c, VinsDefaults) /\ NodesOf(e, d) = {VinsNode(d), VinsRelay(d)}
      BY <1>4, <3>1 DEF NodesOf, ContextAfter
    <3>3. OdomArgs \cap DOMAIN c = {}
      BY <2>1 DEF Arguments
    <3>4. d.raw_odom_topic = VinsDefaults.raw_odom_topic /\ d.odom_topic = VinsDefaults.odom_topic
      BY <3>2, <3>3, EstimatorArguments, OdometryArgs
    <3>5. VinsNode(d) = VinsNode(VinsDefaults) /\ VinsRelay(d) = VinsRelay(VinsDefaults)
      BY <3>4 DEF VinsNode, VinsRelay, OdomRelay
    <3> QED BY <1>3, <3>2, <3>5
  <2>2. CASE v # 6
    BY <1>2, <2>2 DEF Present
  <2> QED BY <2>1, <2>2
<1>9. OneFlag(d) /\ v + 1 >= 8 /\ d.use_cuvslam_odom =>
        CuvslamNode(CuvslamDefaults) \in ms /\ CuvslamRelay(CuvslamDefaults) \in ms
  <2>1. CASE v = 7
    <3> SUFFICES ASSUME OneFlag(d), d.use_cuvslam_odom
                 PROVE  CuvslamNode(CuvslamDefaults) \in ms /\ CuvslamRelay(CuvslamDefaults) \in ms
      OBVIOUS
    <3>1. e = "cuvslam"
      BY <2>1, PlaceOf
    <3>2. d = Declare(c, CuvslamDefaults) /\ NodesOf(e, d) = {CuvslamNode(d), CuvslamRelay(d)}
      BY <1>4, <3>1 DEF NodesOf, ContextAfter
    <3>3. OdomArgs \cap DOMAIN c = {}
      <4>1. ~c.use_vins_odom
        BY <1>4, FlagFacts
      <4> QED BY <2>1, <4>1 DEF Arguments
    <3>4. /\ d.raw_odom_topic = CuvslamDefaults.raw_odom_topic /\ d.odom_topic = CuvslamDefaults.odom_topic
          /\ d.config_file = CuvslamDefaults.config_file
      BY <3>2, <3>3, EstimatorArguments, OdometryArgs
    <3>5. CuvslamNode(d) = CuvslamNode(CuvslamDefaults) /\ CuvslamRelay(d) = CuvslamRelay(CuvslamDefaults)
      BY <3>4 DEF CuvslamNode, CuvslamRelay, OdomRelay, ParameterFile
    <3> QED BY <1>3, <3>2, <3>5
  <2>2. CASE v # 7
    BY <1>2, <2>2 DEF Present
  <2> QED BY <2>1, <2>2
<1>10. OneFlag(d) /\ v + 1 >= 9 /\ d.use_rgbd_odom =>
         CuvslamRgbdNode(CuvslamRgbdDefaults) \in ms /\ CuvslamRgbdRelay(CuvslamRgbdDefaults) \in ms
  <2>1. CASE v = 8
    <3> SUFFICES ASSUME OneFlag(d), d.use_rgbd_odom
                 PROVE  CuvslamRgbdNode(CuvslamRgbdDefaults) \in ms /\ CuvslamRgbdRelay(CuvslamRgbdDefaults) \in ms
      OBVIOUS
    <3>1. e = "cuvslam_rgbd"
      BY <2>1, PlaceOf
    <3>2. d = Declare(c, CuvslamRgbdDefaults) /\ NodesOf(e, d) = {CuvslamRgbdNode(d), CuvslamRgbdRelay(d)}
      BY <1>4, <3>1 DEF NodesOf, ContextAfter
    <3>3. OdomArgs \cap DOMAIN c = {}
      <4>1. ~c.use_vins_odom /\ ~c.use_cuvslam_odom
        BY <1>4, FlagFacts
      <4> QED BY <2>1, <4>1 DEF Arguments
    <3>4. /\ d.raw_odom_topic = CuvslamRgbdDefaults.raw_odom_topic /\ d.odom_topic = CuvslamRgbdDefaults.odom_topic
          /\ d.config_file = CuvslamRgbdDefaults.config_file
      BY <3>2, <3>3, EstimatorArguments, OdometryArgs
    <3>5. CuvslamRgbdNode(d) = CuvslamRgbdNode(CuvslamRgbdDefaults)
          /\ CuvslamRgbdRelay(d) = CuvslamRgbdRelay(CuvslamRgbdDefaults)
      BY <3>4 DEF CuvslamRgbdNode, CuvslamRgbdRelay, OdomRelay, ParameterFile
    <3> QED BY <1>3, <3>2, <3>5
  <2>2. CASE v # 8
    BY <1>2, <2>2 DEF Present
  <2> QED BY <2>1, <2>2
<1>11. v + 1 >= 10 /\ d.rtabmap =>
         RgbdSync(CameraArguments(d)) \in ms /\ (d.vision => DepthToScan(CameraArguments(d)) \in ms)
  <2>1. CASE v = 9
    <3> SUFFICES ASSUME d.rtabmap
                 PROVE  RgbdSync(CameraArguments(d)) \in ms /\ (d.vision => DepthToScan(CameraArguments(d)) \in ms)
      OBVIOUS
    <3>1. e = "rtabmap"
      BY <2>1, PlaceOf
    <3>2. NodesOf(e, d) = SlamNodes(d)
      BY <3>1 DEF NodesOf
    <3>3. \A a \in StreamArgs : d[a] = CameraArguments(d)[a]
      BY <1>1, <2>1 DEF Arguments
    <3>4. RgbdSync(CameraArguments(d)) = RgbdSync(d) /\ DepthToScan(CameraArguments(d)) = DepthToScan(d)
      BY <3>3 DEF RgbdSync, DepthToScan, SensorTopics, ColorTopics, DepthTopics, StreamArgs
    <3>5. RgbdSync(d) \in SlamNodes(d) /\ (d.vision => DepthToScan(d) \in SlamNodes(d))
      BY DEF SlamNodes, Only
    <3> QED BY <1>3, <3>2, <3>4, <3>5
  <2>2. CASE v # 9
    BY <1>2, <2>2 DEF Present
  <2> QED BY <2>1, <2>2
<1>12. Present(v + 1, d, ms)
  BY <1>5, <1>6, <1>7, <1>8, <1>9, <1>10, <1>11 DEF Present
<1> QED BY <1>12 DEF ms

-----------------------------------------------------------------------------
(* The nodes that no entity starts.                                         *)

\* The nodes of nav2_bringup.launch.py.
LEMMA NavWiring ==
  ASSUME NEW c, RobotContext(c), NEW n \in LoadNodes
  PROVE  WellWired(c, n) /\ n.file = "nav2" /\ n.name \notin {"spawner", "px4_vehicle_odometry", "spawn_entity"}
         /\ VisionInput \notin n.pub /\ MapTf \notin n.pub
<1> USE DEF RosNode, Global, CmdVel, NavOdom, OdomTf, NavScan, CmdVelNav, CmdVelSmoothed
<1>1. c.depth_camera \in {"l515", "d435i", "none"}
  BY DEF RobotContext, DepthCameras
<1>2. n \in {ControllerServer, PlannerServer, BehaviorServer, BtNavigator, VelocitySmoother, CollisionMonitor,
             LifecycleManager}
  BY DEF LoadNodes, Servers
<1>3. /\ n.file = "nav2" /\ n.name \notin {"spawner", "px4_vehicle_odometry", "spawn_entity"}
      /\ n.pub \subseteq {CmdVelNav, CmdVelSmoothed, CmdVel, Global("plan")}
  BY <1>2 DEF ControllerServer, PlannerServer, BehaviorServer, BtNavigator, VelocitySmoother, CollisionMonitor,
              LifecycleManager
<1>4. n.pub \cap Sensed(c) = {} /\ VisionInput \notin n.pub /\ MapTf \notin n.pub
  BY <1>1, <1>3 DEF Sensed, Streams, T265Odom, VisionInput, MapTf
<1>5. CmdVel \in n.pub => n = CollisionMonitor
  BY <1>2 DEF ControllerServer, PlannerServer, BehaviorServer, BtNavigator, VelocitySmoother, CollisionMonitor,
              LifecycleManager
<1>6. n.pub \cap {Global("joint_states"), NavOdom, OdomTf, Global("cuvslam_odom"),
                  Global("cuvslam_rgbd_odom"), Global("vins_odom"), <<"odometry", "filtered">>, NavScan} = {}
  BY <1>3
<1> QED BY <1>3, <1>4, <1>5, <1>6 DEF WellWired

\* The spawner, RViz and the Ackermann controller publish nothing.
LEMMA ControllerWiring ==
  ASSUME NEW c, RobotContext(c),
         NEW n \in {RosNode("controller", "spawner", {}, {}), RosNode("robot", "rviz2", {}, {}), AckermannController}
  PROVE  WellWired(c, n) /\ n.file # "nav2" /\ n.name \notin {"px4_vehicle_odometry", "spawn_entity"}
         /\ n.pub = {} /\ (n.name = "spawner" => n.file = "controller")
<1>1. n.pub = {} /\ n.file # "nav2" /\ n.name \notin {"px4_vehicle_odometry", "spawn_entity"}
      /\ (n.name = "spawner" => n.file = "controller")
  BY DEF RosNode, AckermannController
<1> QED BY <1>1, UnownedNodes

\* The broadcaster is the owner of the joint states where it starts.
LEMMA BroadcasterWiring ==
  ASSUME NEW c, RobotContext(c), c.use_gazebo, ~c.enable_px4_sitl
  PROVE  WellWired(c, JointBroadcaster) /\ Ordinary(JointBroadcaster) /\ MapTf \notin JointBroadcaster.pub
         /\ JointBroadcaster.name # "spawn_entity"
<1>1. /\ JointBroadcaster.pub = {Global("joint_states")} /\ JointBroadcaster.needs = {}
      /\ JointBroadcaster.name = "joint_state_broadcaster" /\ JointBroadcaster.file = "controller"
  BY DEF JointBroadcaster, RosNode
<1>2. JointBroadcaster = JointOwner(c)
  BY DEF JointOwner
<1>3. Ordinary(JointBroadcaster) /\ MapTf \notin JointBroadcaster.pub
  BY <1>1 DEF Ordinary, VisionInput, MapTf, Global
<1>4. \A t \in JointBroadcaster.pub : t # CmdVel /\ t # NavOdom /\ t # OdomTf /\ t # NavScan /\ t \notin OdomTopics
                                      /\ t # <<"odometry", "filtered">>
  BY <1>1 DEF Global, CmdVel, NavOdom, OdomTf, NavScan, OdomTopics
<1> QED BY <1>1, <1>2, <1>3, <1>4 DEF WellWired, OdomTopics

\* The nodes of px4_bringup.launch.py.
LEMMA Px4Wiring ==
  ASSUME NEW c, RobotContext(c), NEW q, NEW n \in Px4Nodes(q)
  PROVE  WellWired(c, n) /\ n.file = "px4" /\ n.name \notin {"spawner", "spawn_entity"} /\ MapTf \notin n.pub
<1> USE DEF RosNode, Global, CmdVel, NavOdom, OdomTf, NavScan
<1>1. c.depth_camera \in {"l515", "d435i", "none"}
  BY DEF RobotContext, DepthCameras
<1>2. \/ n \in VoXrce(q) \cup VoMavlink(q) \cup VehicleOdom(q) \cup Trajectory(q)
      \/ \E m \in RoverModes : n = RosNode("px4", m, {Global("cmd_vel")}, {})
  BY DEF Px4Nodes, RoverModeNodes
<1>3. n.file = "px4" /\ n.pub \subseteq {VisionInput, Global("px4_vehicle_odom")}
      /\ n.name \notin {"spawner", "spawn_entity"}
  <2>1. CASE n \in VoXrce(q) \cup VoMavlink(q) \cup VehicleOdom(q) \cup Trajectory(q)
    BY <2>1, OnlyFacts DEF VoXrce, VoMavlink, VehicleOdom, Trajectory
  <2>2. CASE \E m \in RoverModes : n = RosNode("px4", m, {Global("cmd_vel")}, {})
    BY <2>2 DEF RoverModes
  <2> QED BY <1>2, <2>1, <2>2
<1>4. n.pub \cap Sensed(c) = {} /\ MapTf \notin n.pub
  BY <1>1, <1>3 DEF Sensed, Streams, T265Odom, VisionInput, MapTf
<1> QED BY <1>3, <1>4, UnownedNodes DEF VisionInput

\* What Nav2's include leaves of the arguments.
LEMMA NavArgumentsAfter ==
  ASSUME NEW c, RobotContext(c), Arguments(14, c), NEW d,
         d = Declare(Include(NavArguments(c), c), Declare(NavOwnDefaults, NavModeDefaults))
  PROVE  /\ SameRobot(c, d) /\ RobotContext(d) /\ Arguments(14, d)
         /\ d.controller = d.nav2_controller /\ d.params_file = d.nav2_params_file
<1> DEFINE own == NavOwnDefaults
           mode == NavModeDefaults
           declared == Declare(own, mode)
           passed == NavArguments(c)
           j == Included(passed, c, declared)
<1>1. DOMAIN own = {"controller", "params_file", "use_composition", "container_name"}
      /\ DOMAIN mode = {"reversible_drive", "autostart"}
  BY DEF NavOwnDefaults, NavModeDefaults
<1>2. /\ DOMAIN passed = {"controller", "params_file"}
      /\ passed.controller = c.nav2_controller /\ passed.params_file = c.nav2_params_file
  BY NavNames
<1>3. d = j
  BY DEF Included
<1> HIDE DEF own, mode, passed
<1>4. DOMAIN declared = DOMAIN own \cup DOMAIN mode
  BY DeclareFacts
<1> HIDE DEF declared
<1>a. DOMAIN j = DOMAIN c \cup DOMAIN passed \cup DOMAIN declared
  BY ONLY IncludedNames
<1>b. \A a \in DOMAIN c \ DOMAIN passed : j[a] = c[a]
  BY ONLY IncludedKept
<1>c. \A a \in DOMAIN passed : j[a] = passed[a]
  BY ONLY IncludedPassed
<1> HIDE DEF j
<1>5. DOMAIN d = DOMAIN c \cup DOMAIN passed \cup DOMAIN declared
  BY ONLY <1>3, <1>a
<1>6. \A a \in DOMAIN c \ DOMAIN passed : d[a] = c[a]
  BY ONLY <1>3, <1>b
<1>7. \A a \in DOMAIN passed : d[a] = passed[a]
  BY ONLY <1>3, <1>c
<1>8. DOMAIN d = DOMAIN c \cup {"controller", "params_file", "use_composition", "container_name", "reversible_drive",
                                "autostart"}
  BY <1>1, <1>2, <1>4, <1>5
<1>9. RobotArgs \subseteq DOMAIN c
  BY DEF RobotContext
<1>10. SameRobot(c, d)
  BY <1>2, <1>6, <1>8, <1>9 DEF SameRobot, RobotArgs
<1>11. RobotContext(d)
  BY <1>10, SameRobotContext
<1>12. d.controller = d.nav2_controller /\ d.params_file = d.nav2_params_file
  BY <1>2, <1>7, <1>10, SameArguments
<1>13. /\ "odom_topic" \in DOMAIN d => d.odom_topic \in OdomTopics
       /\ "raw_odom_topic" \in DOMAIN d => d.raw_odom_topic \in RawTopics
  BY <1>2, <1>6, <1>8 DEF Arguments
<1>14. ASSUME d.rtabmap
       PROVE  /\ TopicArgs \cup StreamArgs \subseteq DOMAIN d
              /\ \A a \in StreamArgs : d[a] = CameraArguments(d)[a]
              /\ \A a \in OdomTopicArgs : d[a] = SlamOwnDefaults[a]
              /\ d.enable_odom_relay = FALSE
  <2>1. c.rtabmap
    BY <1>10, <1>14, SameArguments
  <2>2. /\ TopicArgs \cup StreamArgs \subseteq DOMAIN c
        /\ \A a \in StreamArgs : c[a] = CameraArguments(c)[a]
        /\ \A a \in OdomTopicArgs : c[a] = SlamOwnDefaults[a]
        /\ c.enable_odom_relay = FALSE
    BY <2>1 DEF Arguments
  <2>3. CameraArguments(d) = CameraArguments(c)
    BY <1>10, SameOwners
  <2>4. TopicArgs \cap DOMAIN passed = {} /\ StreamArgs \cap DOMAIN passed = {}
    BY <1>2 DEF TopicArgs, OdomTopicArgs, StreamArgs
  <2>5. \A a \in TopicArgs \cup StreamArgs : a \in DOMAIN d /\ d[a] = c[a]
    BY <1>6, <1>8, <2>2, <2>4
  <2>6. OdomTopicArgs \subseteq TopicArgs /\ "enable_odom_relay" \in TopicArgs
    BY DEF TopicArgs
  <2> QED BY <2>2, <2>3, <2>5, <2>6
<1>15. Arguments(14, d)
  <2>1. ~(14 < 4) /\ ~(14 < 7) /\ ~(14 < 8) /\ ~(14 < 9) /\ ~(14 < 10)
    OBVIOUS
  <2> QED BY ONLY <1>13, <1>14, <2>1, Zenon DEF Arguments
<1> QED BY <1>10, <1>11, <1>12, <1>15

\* What start_ros2_nodes.sh passes for a session.
LEMMA LaunchArguments ==
  ASSUME NEW s \in Sessions, NEW c, c = Declare(s.robot, RobotDefaults)
  PROVE  RobotContext(c) /\ SameRobot(c, c) /\ Arguments(0, c)
<1>1. /\ DOMAIN s.robot \subseteq RobotArgs \cup {"rtabmap_udebug", "use_composition"}
      /\ \A a \in Switches \cap DOMAIN s.robot : s.robot[a] \in BOOLEAN
      /\ "depth_camera" \in DOMAIN s.robot => s.robot.depth_camera \in DepthCameras \cup {"none"}
  BY SessionAssumption, RobotArguments
<1> DEFINE r == s.robot
           ds == RobotDefaults
           j == Declare(r, ds)
<1>2. c = j
  OBVIOUS
<1>3. /\ DOMAIN ds = RobotArgs /\ \A a \in Switches : ds[a] \in BOOLEAN
      /\ ds.depth_camera = "l515"
  BY RobotArguments
<1> HIDE DEF r, ds
<1>4. /\ DOMAIN j = DOMAIN r \cup DOMAIN ds
      /\ \A a \in DOMAIN r : j[a] = r[a]
      /\ \A a \in DOMAIN ds \ DOMAIN r : j[a] = ds[a]
  BY DeclareFacts
<1> HIDE DEF j
<1>5. /\ DOMAIN c = DOMAIN r \cup DOMAIN ds
      /\ \A a \in DOMAIN r : c[a] = r[a]
      /\ \A a \in DOMAIN ds \ DOMAIN r : c[a] = ds[a]
  BY <1>2, <1>4
<1>6. /\ DOMAIN r \subseteq RobotArgs \cup {"rtabmap_udebug", "use_composition"}
      /\ \A a \in Switches \cap DOMAIN r : r[a] \in BOOLEAN
      /\ "depth_camera" \in DOMAIN r => r.depth_camera \in DepthCameras \cup {"none"}
  BY <1>1 DEF r
<1>7. Switches \subseteq RobotArgs /\ "depth_camera" \in RobotArgs
  BY RobotArguments DEF RobotArgs
<1>8. \A a \in Switches : c[a] \in BOOLEAN
  BY <1>3, <1>5, <1>6, <1>7
<1>9. c.depth_camera \in DepthCameras \cup {"none"}
  BY <1>3, <1>5, <1>6, <1>7 DEF DepthCameras
<1>10. RobotContext(c) /\ SameRobot(c, c)
  BY <1>3, <1>5, <1>8, <1>9 DEF RobotContext, SameRobot
<1>11. DOMAIN c \subseteq RobotArgs \cup {"rtabmap_udebug", "use_composition"}
  BY <1>3, <1>5, <1>6
<1>12. /\ ImuArgs \cap DOMAIN c = {} /\ OdomArgs \cap DOMAIN c = {} /\ TopicArgs \cap DOMAIN c = {}
       /\ "odom_topic" \notin DOMAIN c /\ "raw_odom_topic" \notin DOMAIN c
  BY <1>11 DEF RobotArgs, ImuArgs, OdomArgs, TopicArgs, OdomTopicArgs
<1> QED BY <1>10, <1>12 DEF Arguments

-----------------------------------------------------------------------------
(* The wiring is kept.                                                      *)

\* Nodes that start by themselves under the same arguments.
LEMMA NodesGrow ==
  ASSUME WiringInv, Running, UNCHANGED <<asked, context, visited, gate>>,
         \A n \in nodes : n \in nodes' \/ n.name \in {"spawn_entity", "spawner"},
         \A n \in nodes' : n \in nodes \/
           /\ WellWired(context, n) /\ MapTf \notin n.pub /\ n.file # "nav2" /\ n.name # "spawn_entity"
           /\ n.name = "spawner" => context.use_gazebo /\ ~context.enable_px4_sitl
           /\ VisionInput \in n.pub \/ n.name = "px4_vehicle_odometry" =>
                visited = 14 /\ \E s \in asked : \E p \in s.px4 :
                                  /\ n \in Px4Nodes(Declare(p, Px4Defaults))
                                  /\ Px4Nodes(Declare(p, Px4Defaults)) \subseteq nodes'
  PROVE  WiringInv'
<1> USE DEF WiringInv
<1>1. ContextInv'
  BY DEF ContextInv, Running
<1>2. PresentInv'
  <2>1. SameRobot(context, context)
    BY DEF ContextInv, RobotContext, SameRobot
  <2>2. Present(visited, context, nodes')
    BY <2>1, SamePresent DEF PresentInv
  <2> QED BY <2>2 DEF PresentInv
<1>3. OwnerInv'
  BY DEF OwnerInv
<1>4. NavInv'
  <2>1. \A n \in LoadNodes : n.name \notin {"spawn_entity", "spawner"}
    BY NavWiring DEF ContextInv
  <2> QED BY <2>1 DEF NavInv
<1>5. JointInv'
  <2>1. SpawnEntity.name = "spawn_entity"
    BY DEF SpawnEntity, RosNode
  <2> QED BY <2>1 DEF JointInv
<1>6. Px4Inv'
  <2> SUFFICES ASSUME NEW n \in nodes', VisionInput \in n.pub \/ n.name = "px4_vehicle_odometry"
               PROVE  visited = 14 /\ \E s \in asked : \E p \in s.px4 :
                                        /\ n \in Px4Nodes(Declare(p, Px4Defaults))
                                        /\ Px4Nodes(Declare(p, Px4Defaults)) \subseteq nodes'
    BY DEF Px4Inv
  <2>1. CASE n \in nodes
    <3>1. visited = 14
      BY <2>1 DEF Px4Inv
    <3>2. PICK s \in asked : \E p \in s.px4 : /\ n \in Px4Nodes(Declare(p, Px4Defaults))
                                              /\ Px4Nodes(Declare(p, Px4Defaults)) \subseteq nodes
      BY <2>1 DEF Px4Inv
    <3>3. PICK p \in s.px4 : n \in Px4Nodes(Declare(p, Px4Defaults)) /\ Px4Nodes(Declare(p, Px4Defaults)) \subseteq nodes
      BY <3>2
    <3>4. \A m \in Px4Nodes(Declare(p, Px4Defaults)) : m.name \notin {"spawn_entity", "spawner"}
      BY Px4Wiring DEF ContextInv
    <3>5. Px4Nodes(Declare(p, Px4Defaults)) \subseteq nodes'
      BY <3>3, <3>4
    <3> QED BY <3>1, <3>2, <3>3, <3>5
  <2>2. CASE n \notin nodes
    BY <2>2
  <2> QED BY <2>1, <2>2
<1>7. MapInv'
  BY DEF MapInv
<1> QED BY <1>1, <1>2, <1>3, <1>4, <1>5, <1>6, <1>7

\* Exits and timers.
LEMMA NodeStepsKeepWiring ==
  ASSUME WiringInv, NodeSteps
  PROVE  WiringInv'
<1>1. /\ Running /\ visited = 14 /\ UNCHANGED <<asked, context, visited, gate>>
  BY Order DEF NodeSteps, SpawnExits, SpawnerExits, RvizStarts, Px4Starts, OnlyNodes, Launched, readiness
<1>2. RobotContext(context)
  BY DEF WiringInv, ContextInv
<1>3. CASE SpawnExits
  <2>1. /\ SpawnEntity \in nodes
        /\ nodes' = (nodes \ {SpawnEntity})
                      \cup Only(~context.enable_px4_sitl, RosNode("controller", "spawner", {}, {}))
    BY <1>3 DEF SpawnExits
  <2>2. context.use_gazebo
    BY <2>1 DEF WiringInv, JointInv
  <2>3. SpawnEntity.name = "spawn_entity"
    BY DEF SpawnEntity, RosNode
  <2>4. \A n \in nodes' : n \in nodes \/ (n = RosNode("controller", "spawner", {}, {}) /\ ~context.enable_px4_sitl)
    BY <2>1 DEF Only
  <2>5. \A n : n = RosNode("controller", "spawner", {}, {}) =>
                 WellWired(context, n) /\ n.file # "nav2" /\ n.name \notin {"px4_vehicle_odometry", "spawn_entity"}
                 /\ n.pub = {}
    BY <1>2, ControllerWiring
  <2>6. \A n \in nodes : n \in nodes' \/ n.name \in {"spawn_entity", "spawner"}
    BY <2>1, <2>3
  <2> QED BY <1>1, <2>2, <2>4, <2>5, <2>6, NodesGrow
<1>4. CASE SpawnerExits
  <2>1. PICK broadcaster \in {{}, {JointBroadcaster}} :
          nodes' = {n \in nodes : n.name # "spawner"} \cup broadcaster \cup {AckermannController}
    BY <1>4 DEF SpawnerExits
  <2>2. context.use_gazebo /\ ~context.enable_px4_sitl
    BY <1>4 DEF WiringInv, JointInv, SpawnerExits, Names
  <2>3. \A n \in nodes' : n \in nodes \/ n = JointBroadcaster \/ n = AckermannController
    BY <2>1
  <2>4. /\ WellWired(context, JointBroadcaster) /\ Ordinary(JointBroadcaster) /\ MapTf \notin JointBroadcaster.pub
        /\ JointBroadcaster.name # "spawn_entity"
    BY <1>2, <2>2, BroadcasterWiring
  <2>5. /\ WellWired(context, AckermannController) /\ AckermannController.file # "nav2"
        /\ AckermannController.name \notin {"px4_vehicle_odometry", "spawn_entity"} /\ AckermannController.pub = {}
    BY <1>2, ControllerWiring
  <2>6. \A n \in nodes : n \in nodes' \/ n.name \in {"spawn_entity", "spawner"}
    BY <2>1
  <2> QED BY <1>1, <2>2, <2>3, <2>4, <2>5, <2>6, NodesGrow DEF Ordinary
<1>5. CASE RvizStarts
  <2>1. nodes' = nodes \cup {RosNode("robot", "rviz2", {}, {})}
    BY <1>5 DEF RvizStarts
  <2>2. \A n : n = RosNode("robot", "rviz2", {}, {}) =>
                 WellWired(context, n) /\ n.file # "nav2" /\ n.name = "rviz2" /\ n.pub = {}
    BY <1>2, ControllerWiring DEF RosNode
  <2>3. \A n \in nodes' : n \in nodes \/ n = RosNode("robot", "rviz2", {}, {})
    BY <2>1
  <2>4. \A n \in nodes : n \in nodes' \/ n.name \in {"spawn_entity", "spawner"}
    BY <2>1
  <2> QED BY <1>1, <2>2, <2>3, <2>4, NodesGrow
<1>6. CASE Px4Starts
  <2>1. PICK s \in asked : \E p \in s.px4 : nodes' = nodes \cup Px4Nodes(Declare(p, Px4Defaults))
    BY <1>6 DEF Px4Starts
  <2>2. PICK p \in s.px4 : nodes' = nodes \cup Px4Nodes(Declare(p, Px4Defaults))
    BY <2>1
  <2>3. \A n \in Px4Nodes(Declare(p, Px4Defaults)) :
          WellWired(context, n) /\ n.file = "px4" /\ n.name \notin {"spawner", "spawn_entity"} /\ MapTf \notin n.pub
    BY <1>2, Px4Wiring
  <2>4. \A n \in nodes' : n \in nodes \/ n \in Px4Nodes(Declare(p, Px4Defaults))
    BY <2>2
  <2>5. \A n \in nodes : n \in nodes' \/ n.name \in {"spawn_entity", "spawner"}
    BY <2>2
  <2>6. Px4Nodes(Declare(p, Px4Defaults)) \subseteq nodes'
    BY <2>2
  <2>7. \A n \in nodes' : n \in nodes \/
           /\ WellWired(context, n) /\ MapTf \notin n.pub /\ n.file # "nav2" /\ n.name # "spawn_entity"
           /\ n.name # "spawner"
           /\ \E q \in s.px4 : n \in Px4Nodes(Declare(q, Px4Defaults)) /\ Px4Nodes(Declare(q, Px4Defaults)) \subseteq nodes'
    BY <2>2, <2>3, <2>4, <2>6
  <2> QED BY <1>1, <2>1, <2>5, <2>7, NodesGrow
<1> QED BY <1>3, <1>4, <1>5, <1>6 DEF NodeSteps

\* A session is launched.
LEMMA LaunchKeeps ==
  ASSUME WiringInv, NEW s \in Sessions, Launch(s)
  PROVE  WiringInv'
<1>1. /\ ~Running /\ asked' = {s} /\ context' = Declare(s.robot, RobotDefaults)
      /\ visited' = visited /\ nodes' = nodes /\ gate' = gate
  BY DEF Launch, readiness
<1>2. visited = 0 /\ nodes = {} /\ gate = "off"
  BY <1>1 DEF WiringInv, ContextInv
<1> DEFINE c == Declare(s.robot, RobotDefaults)
<1>3. RobotContext(c) /\ SameRobot(c, c) /\ Arguments(0, c)
  BY LaunchArguments
<1>4. ContextInv'
  BY <1>1, <1>2, <1>3 DEF ContextInv, Running
<1>5. PresentInv'
  BY <1>1, <1>2 DEF PresentInv, Present
<1>6. OwnerInv' /\ NavInv' /\ JointInv' /\ Px4Inv' /\ MapInv'
  BY <1>1, <1>2 DEF OwnerInv, NavInv, JointInv, Px4Inv, MapInv
<1> QED BY <1>4, <1>5, <1>6 DEF WiringInv

\* Between sessions there is nothing to wire.
LEMMA DefaultContext ==
  RobotContext(RobotDefaults) /\ Arguments(0, RobotDefaults)
<1>1. RobotContext(RobotDefaults)
  BY RobotArguments DEF RobotContext, DepthCameras
<1>2. /\ ImuArgs \cap DOMAIN RobotDefaults = {} /\ OdomArgs \cap DOMAIN RobotDefaults = {}
      /\ TopicArgs \cap DOMAIN RobotDefaults = {}
      /\ "odom_topic" \notin DOMAIN RobotDefaults /\ "raw_odom_topic" \notin DOMAIN RobotDefaults
  BY RobotArguments DEF RobotArgs, ImuArgs, OdomArgs, TopicArgs, OdomTopicArgs
<1> QED BY <1>1, <1>2 DEF Arguments

\* Nothing runs at first.
LEMMA InitWiring ==
  ASSUME Init
  PROVE  WiringInv
<1>1. ContextInv
  BY DefaultContext DEF ContextInv, Init, Running
<1>2. PresentInv
  BY DEF PresentInv, Present, Init
<1>3. OwnerInv /\ NavInv /\ JointInv /\ Px4Inv /\ MapInv
  BY DEF OwnerInv, NavInv, JointInv, Px4Inv, MapInv, Init
<1> QED BY <1>1, <1>2, <1>3 DEF WiringInv

\* Nothing runs after Ctrl-C.
LEMMA IdleWiring ==
  ASSUME Idle
  PROVE  WiringInv'
<1>1. asked' = {} /\ context' = RobotDefaults /\ visited' = 0 /\ nodes' = {} /\ gate' = "off"
  BY DEF Idle
<1>2. ContextInv'
  BY <1>1, DefaultContext DEF ContextInv, Running
<1>3. PresentInv'
  BY <1>1 DEF PresentInv, Present
<1>4. OwnerInv' /\ NavInv' /\ JointInv' /\ Px4Inv' /\ MapInv'
  BY <1>1 DEF OwnerInv, NavInv, JointInv, Px4Inv, MapInv
<1> QED BY <1>2, <1>3, <1>4 DEF WiringInv

\* A visit.
LEMMA VisitKeepsWiring ==
  ASSUME WiringInv, NEW e, VisitNodes(e), gate' = "passed" => gate = "passed"
  PROVE  WiringInv'
<1> USE DEF WiringInv
<1>1. /\ Running /\ visited \in 0..13 /\ visited' = visited + 1 /\ Entities[visited + 1] = e
      /\ asked' = asked /\ context' = ContextAfter(e, context)
      /\ nodes' = nodes \cup NodesOf(e, context')
  BY Order DEF VisitNodes, NextIs, ContextInv
<1>2. RobotContext(context) /\ Arguments(visited, context)
  BY DEF ContextInv
<1>3. gate # "passed" /\ gate' # "passed"
  BY <1>1 DEF ContextInv
<1>4. SameRobot(context, context') /\ RobotContext(context') /\ Arguments(visited + 1, context')
  BY <1>1, <1>2, ArgumentsStep
<1>5. ContextInv'
  <2>1. \A s \in asked : SameRobot(Declare(s.robot, RobotDefaults), context')
    BY <1>4 DEF ContextInv, SameRobot
  <2>2. visited' \in 0..14
    BY <1>1
  <2> QED BY <1>1, <1>3, <1>4, <2>1, <2>2 DEF ContextInv, Running
<1>6. PresentInv'
  <2>1. Present(visited + 1, context', nodes \cup NodesOf(e, context'))
    BY <1>1, <1>2, VisitPresent DEF PresentInv
  <2> QED BY <1>1, <2>1 DEF PresentInv
<1>7. \A n \in NodesOf(e, context') : WellWired(context', n) /\ Ordinary(n) /\ (e # "rtabmap" => MapTf \notin n.pub)
  BY <1>1, <1>2, EntityWiring
<1>8. OwnerInv'
  <2>1. \A n \in nodes : WellWired(context', n)
    BY <1>4, SameWiring DEF OwnerInv
  <2> QED BY <1>1, <1>7, <2>1 DEF OwnerInv
<1>9. NavInv'
  BY <1>1, <1>3, <1>7 DEF NavInv, Ordinary
<1>10. JointInv'
  <2>1. context'.use_gazebo = context.use_gazebo /\ context'.enable_px4_sitl = context.enable_px4_sitl
    BY <1>4, SameArguments
  <2>2. SpawnEntity \in NodesOf(e, context') => context'.use_gazebo
    BY SpawnIsGazebos
  <2>3. \A n \in NodesOf(e, context') : n.name # "spawner"
    BY <1>7 DEF Ordinary
  <2> QED BY <1>1, <2>1, <2>2, <2>3 DEF JointInv
<1>11. Px4Inv'
  <2>1. \A n \in nodes : VisionInput \notin n.pub /\ n.name # "px4_vehicle_odometry"
    BY <1>1 DEF Px4Inv
  <2>2. \A n \in NodesOf(e, context') : VisionInput \notin n.pub /\ n.name # "px4_vehicle_odometry"
    BY <1>7 DEF Ordinary
  <2>3. \A n \in nodes' : VisionInput \notin n.pub /\ n.name # "px4_vehicle_odometry"
    BY <1>1, <2>1, <2>2
  <2> QED BY <2>3 DEF Px4Inv
<1>12. MapInv'
  <2>1. e = "rtabmap" <=> visited = 9
    BY <1>1, PlaceOf
  <2>2. CASE visited = 9
    <3>1. \A n \in nodes : MapTf \notin n.pub
      BY <2>2 DEF MapInv
    <3>2. NodesOf(e, context') \subseteq SlamNodes(context')
      BY <2>1, <2>2 DEF NodesOf
    <3>3. \A n, m \in NodesOf(e, context') : MapTf \in n.pub \cap m.pub => n = m
      BY <3>2, OneMap
    <3>4. \A n, m \in nodes' : MapTf \in n.pub \cap m.pub => n = m
      BY <1>1, <3>1, <3>3
    <3>5. ~(visited' < 10)
      BY <1>1, <2>2
    <3> QED BY <3>4, <3>5 DEF MapInv
  <2>3. CASE visited # 9
    <3>1. \A n \in NodesOf(e, context') : MapTf \notin n.pub
      BY <1>7, <2>1, <2>3
    <3>2. visited' < 10 => visited < 10
      BY <1>1
    <3> QED BY <1>1, <3>1, <3>2 DEF MapInv
  <2> QED BY <2>2, <2>3
<1> QED BY <1>5, <1>6, <1>8, <1>9, <1>10, <1>11, <1>12

\* Nav2 comes up.
LEMMA GateExitsKeeps ==
  ASSUME WiringInv, GateExits
  PROVE  WiringInv'
<1> USE DEF WiringInv
<1>1. /\ Running /\ visited = 14 /\ gate = "settle" /\ gate' = "passed" /\ visited' = visited /\ asked' = asked
      /\ context' = Declare(Include(NavArguments(context), context), Declare(NavOwnDefaults, NavModeDefaults))
      /\ nodes' = nodes \cup NavNodes(context')
  BY Order DEF GateExits, Launched
<1>2. RobotContext(context) /\ Arguments(14, context)
  BY <1>1 DEF ContextInv
<1>3. /\ SameRobot(context, context') /\ RobotContext(context') /\ Arguments(14, context')
      /\ context'.controller = context'.nav2_controller /\ context'.params_file = context'.nav2_params_file
  BY <1>1, <1>2, NavArgumentsAfter
<1>4. ContextInv'
  <2>1. \A s \in asked : SameRobot(Declare(s.robot, RobotDefaults), context')
    BY <1>3 DEF ContextInv, SameRobot
  <2> QED BY <1>1, <1>3, <2>1 DEF ContextInv, Running
<1>5. PresentInv'
  <2>1. \A n \in nodes : n \in nodes'
    BY <1>1
  <2>2. Present(visited, context', nodes')
    BY <1>3, <2>1, SamePresent DEF PresentInv
  <2> QED BY <1>1, <2>2 DEF PresentInv
<1>6. NavNodes(context') = {} \/ NavNodes(context') = LoadNodes
  BY DEF NavNodes, LoadComposableNodes
<1>7. \A n \in LoadNodes :
        /\ WellWired(context', n) /\ n.file = "nav2" /\ n.name \notin {"spawner", "px4_vehicle_odometry", "spawn_entity"}
        /\ VisionInput \notin n.pub /\ MapTf \notin n.pub
  BY <1>3, NavWiring
<1>8. OwnerInv'
  <2>1. \A n \in nodes : WellWired(context', n)
    BY <1>3, SameWiring DEF OwnerInv
  <2> QED BY <1>1, <1>6, <1>7, <2>1 DEF OwnerInv
<1>9. NavInv'
  <2>1. \A n \in nodes : n.file # "nav2"
    BY <1>1 DEF NavInv
  <2> QED BY <1>1, <1>6, <2>1 DEF NavInv
<1>10. JointInv'
  <2>1. context'.use_gazebo = context.use_gazebo /\ context'.enable_px4_sitl = context.enable_px4_sitl
    BY <1>3, SameArguments
  <2>2. SpawnEntity.name = "spawn_entity"
    BY DEF SpawnEntity, RosNode
  <2>3. SpawnEntity \notin LoadNodes
    BY <1>7, <2>2
  <2> QED BY <1>1, <1>6, <1>7, <2>1, <2>3 DEF JointInv
<1>11. Px4Inv'
  <2> SUFFICES ASSUME NEW n \in nodes', VisionInput \in n.pub \/ n.name = "px4_vehicle_odometry"
               PROVE  \E s \in asked : \E p \in s.px4 :
                        n \in Px4Nodes(Declare(p, Px4Defaults)) /\ Px4Nodes(Declare(p, Px4Defaults)) \subseteq nodes'
    BY <1>1 DEF Px4Inv
  <2>1. n \in nodes
    BY <1>1, <1>6, <1>7
  <2>2. \E s \in asked : \E p \in s.px4 :
          n \in Px4Nodes(Declare(p, Px4Defaults)) /\ Px4Nodes(Declare(p, Px4Defaults)) \subseteq nodes
    BY <2>1 DEF Px4Inv
  <2> QED BY <1>1, <2>2
<1>12. MapInv'
  BY <1>1, <1>6, <1>7 DEF MapInv
<1> QED BY <1>4, <1>5, <1>8, <1>9, <1>10, <1>11, <1>12

\* Steps that change neither the arguments nor the nodes.
LEMMA QuietKeeps ==
  ASSUME WiringInv, UNCHANGED <<asked, context, visited, nodes>>, gate' = gate \/ (Running /\ {gate, gate'} \cap {"passed"} = {})
  PROVE  WiringInv'
<1> USE DEF WiringInv
<1>1. ContextInv'
  BY DEF ContextInv, Running
<1>2. PresentInv'
  BY DEF PresentInv
<1>3. OwnerInv' /\ NavInv' /\ JointInv' /\ Px4Inv' /\ MapInv'
  BY DEF OwnerInv, NavInv, JointInv, Px4Inv, MapInv
<1> QED BY <1>1, <1>2, <1>3

\* The wiring is an invariant.
LEMMA WiringStep ==
  ASSUME WiringInv, [Next]_vars
  PROVE  WiringInv'
<1>1. CASE \E s \in Sessions : Launch(s)
  BY <1>1, LaunchKeeps
<1>2. CASE Stop
  BY <1>2, IdleWiring DEF Stop
<1>3. CASE Visit
  <2>1. \E e : VisitNodes(e)
    BY <1>3 DEF Visit, VisitEntity, VisitCameras, VisitRtabmap, VisitGate, VisitRviz
  <2>2. gate' = "passed" => gate = "passed"
    BY <1>3 DEF Visit, VisitEntity, VisitCameras, VisitRtabmap, VisitGate, VisitRviz, readiness
  <2> QED BY <2>1, <2>2, VisitKeepsWiring
<1>4. CASE NodeSteps
  BY <1>4, NodeStepsKeepWiring
<1>5. CASE Environment
  BY <1>5, QuietKeeps DEF Environment, ResetEnds, DelayEnds, OdometryStarts, InfoListed, MapGrows, readiness
<1>6. CASE TopicsStageEnds
  BY <1>6, QuietKeeps DEF TopicsStageEnds, EnterStage, Launched
<1>7. CASE OdomStageEnds
  BY <1>7, QuietKeeps DEF OdomStageEnds, EnterStage, Launched
<1>8. CASE GateExits
  BY <1>8, GateExitsKeeps
<1>9. CASE Tick
  BY <1>9, QuietKeeps DEF Tick
<1>10. CASE UNCHANGED vars
  BY <1>10, QuietKeeps DEF vars, readiness
<1> QED BY <1>1, <1>2, <1>3, <1>4, <1>5, <1>6, <1>7, <1>8, <1>9, <1>10 DEF Next, GateSteps

\* The wiring is an invariant of the launch.
LEMMA WiringIsInvariant == Spec => []WiringInv
<1>1. Init => WiringInv
  BY InitWiring
<1>2. WiringInv /\ [Next]_vars => WiringInv'
  BY WiringStep
<1> QED BY <1>1, <1>2, PTL DEF Spec

-----------------------------------------------------------------------------
(* What the wiring shows.                                                   *)


\* The nodes publish in stages, and no stage takes back what was there.
LEMMA ProducedStages ==
  ASSUME NEW ns
  PROVE  \E s : /\ \A i \in 0..7 : s[i] \subseteq s[i + 1]
                /\ \A i \in 0..7 : \A n \in ns : n.needs \subseteq s[i] => n.pub \subseteq s[i + 1]
                /\ s[8] = Produced(ns)
<1> DEFINE s1 == PublishedWith(ns, {})
           s2 == PublishedWith(ns, s1)
           s3 == PublishedWith(ns, s2)
           s4 == PublishedWith(ns, s3)
           s5 == PublishedWith(ns, s4)
           s6 == PublishedWith(ns, s5)
           s7 == PublishedWith(ns, s6)
           s8 == PublishedWith(ns, s7)
           Stage(f) == [i \in 0..8 |-> IF i = 0 THEN {} ELSE PublishedWith(ns, f[i - 1])]
           w == [i \in 0..8 |-> IF i = 0 THEN {} ELSE IF i = 1 THEN s1 ELSE IF i = 2 THEN s2 ELSE IF i = 3 THEN s3
                  ELSE IF i = 4 THEN s4 ELSE IF i = 5 THEN s5 ELSE IF i = 6 THEN s6 ELSE IF i = 7 THEN s7 ELSE s8]
           s == CHOOSE f : f = Stage(f)
<1>1. w = Stage(w)
  <2> HIDE DEF s1, s2, s3, s4, s5, s6, s7, s8
  <2>1. ASSUME NEW i \in 0..8 PROVE w[i] = Stage(w)[i]
    <3> HIDE DEF w, Stage
    <3>1. w[0] = {} /\ w[1] = s1 /\ w[2] = s2 /\ w[3] = s3 /\ w[4] = s4 /\ w[5] = s5 /\ w[6] = s6 /\ w[7] = s7 /\ w[8] = s8
      BY DEF w
    <3>2. Stage(w)[0] = {} /\ \A j \in 0..7 : Stage(w)[j + 1] = PublishedWith(ns, w[j])
      <4>1. \A j \in 0..7 : Stage(w)[j + 1] = PublishedWith(ns, w[(j + 1) - 1])
        BY DEF Stage
      <4>2. \A j \in 0..7 : (j + 1) - 1 = j
        OBVIOUS
      <4>3. Stage(w)[0] = {}
        BY DEF Stage
      <4> QED BY <4>1, <4>2, <4>3
    <3>3. /\ Stage(w)[1] = PublishedWith(ns, {}) /\ Stage(w)[2] = PublishedWith(ns, s1)
          /\ Stage(w)[3] = PublishedWith(ns, s2) /\ Stage(w)[4] = PublishedWith(ns, s3)
          /\ Stage(w)[5] = PublishedWith(ns, s4) /\ Stage(w)[6] = PublishedWith(ns, s5)
          /\ Stage(w)[7] = PublishedWith(ns, s6) /\ Stage(w)[8] = PublishedWith(ns, s7)
      BY <3>1, <3>2
    <3>4. /\ Stage(w)[1] = s1 /\ Stage(w)[2] = s2 /\ Stage(w)[3] = s3 /\ Stage(w)[4] = s4
          /\ Stage(w)[5] = s5 /\ Stage(w)[6] = s6 /\ Stage(w)[7] = s7 /\ Stage(w)[8] = s8
      BY <3>3 DEF s1, s2, s3, s4, s5, s6, s7, s8
    <3>5. i = 0 \/ i = 1 \/ i = 2 \/ i = 3 \/ i = 4 \/ i = 5 \/ i = 6 \/ i = 7 \/ i = 8
      OBVIOUS
    <3> QED BY <3>1, <3>2, <3>4, <3>5
  <2>2. \A i \in 0..8 : w[i] = Stage(w)[i]
    BY <2>1
  <2>3. w = [i \in 0..8 |-> w[i]] /\ Stage(w) = [i \in 0..8 |-> Stage(w)[i]]
    OBVIOUS
  <2> HIDE DEF w, Stage
  <2> QED BY <2>2, <2>3
<1>2. s = Stage(s)
  <2> HIDE DEF w, Stage
  <2> QED BY <1>1
<1>3. Produced(ns) = s[8]
  BY DEF Produced
<1>4. s[0] = {} /\ \A i \in 0..7 : s[i + 1] = PublishedWith(ns, s[i])
  <2> HIDE DEF s
  <2>1. s[0] = {} /\ \A j \in 0..7 : s[j + 1] = PublishedWith(ns, s[(j + 1) - 1])
    BY <1>2
  <2>2. \A j \in 0..7 : (j + 1) - 1 = j
    OBVIOUS
  <2> QED BY <2>1, <2>2
<1> HIDE DEF s
<1>5. \A S, T : S \subseteq T => PublishedWith(ns, S) \subseteq PublishedWith(ns, T)
  BY DEF PublishedWith
<1>6. \A S : \A n \in ns : n.needs \subseteq S => n.pub \subseteq PublishedWith(ns, S)
  BY DEF PublishedWith
<1>7. s[0] \subseteq s[1]
  BY <1>4
<1>8. \A i \in 0..6 : s[i] \subseteq s[i + 1] => s[i + 1] \subseteq s[i + 2]
  <2> TAKE i \in 0..6
  <2>1. s[i + 1] = PublishedWith(ns, s[i]) /\ s[(i + 1) + 1] = PublishedWith(ns, s[i + 1])
    BY <1>4
  <2>2. (i + 1) + 1 = i + 2
    OBVIOUS
  <2> QED BY <1>5, <2>1, <2>2
<1>9. /\ s[1] \subseteq s[2] /\ s[2] \subseteq s[3] /\ s[3] \subseteq s[4] /\ s[4] \subseteq s[5]
      /\ s[5] \subseteq s[6] /\ s[6] \subseteq s[7] /\ s[7] \subseteq s[8]
  <2>1. s[1] \subseteq s[2]
    BY <1>7, <1>8
  <2>2. s[2] \subseteq s[3]
    BY <2>1, <1>8
  <2>3. s[3] \subseteq s[4]
    BY <2>2, <1>8
  <2>4. s[4] \subseteq s[5]
    BY <2>3, <1>8
  <2>5. s[5] \subseteq s[6]
    BY <2>4, <1>8
  <2>6. s[6] \subseteq s[7]
    BY <2>5, <1>8
  <2>7. s[7] \subseteq s[8]
    BY <2>6, <1>8
  <2> QED BY <2>1, <2>2, <2>3, <2>4, <2>5, <2>6, <2>7
<1>10. \A i \in 0..7 : s[i] \subseteq s[i + 1]
  BY <1>7, <1>9
<1>11. \A i \in 0..7 : \A n \in ns : n.needs \subseteq s[i] => n.pub \subseteq s[i + 1]
  BY <1>4, <1>6
<1> QED BY <1>3, <1>10, <1>11

\* What a chain of nodes publishes is produced, from a node that needs nothing on.
LEMMA ChainProduces ==
  ASSUME NEW ns, NEW n1 \in ns, NEW n2 \in ns, NEW n3 \in ns, NEW n4 \in ns,
         n1.needs = {}, n2.needs \subseteq n1.pub, n3.needs \subseteq n2.pub, n4.needs \subseteq n3.pub
  PROVE  n1.pub \cup n2.pub \cup n3.pub \cup n4.pub \subseteq Produced(ns)
<1>1. PICK s : /\ \A i \in 0..7 : s[i] \subseteq s[i + 1]
               /\ \A i \in 0..7 : \A n \in ns : n.needs \subseteq s[i] => n.pub \subseteq s[i + 1]
               /\ s[8] = Produced(ns)
  BY ProducedStages
<1>2. /\ s[1] \subseteq s[2] /\ s[2] \subseteq s[3] /\ s[3] \subseteq s[4] /\ s[4] \subseteq s[5]
      /\ s[5] \subseteq s[6] /\ s[6] \subseteq s[7] /\ s[7] \subseteq s[8]
  BY <1>1
<1>3. n1.pub \subseteq s[1]
  BY <1>1
<1>4. n2.pub \subseteq s[2]
  BY <1>1, <1>3
<1>5. n3.pub \subseteq s[3]
  BY <1>1, <1>4
<1>6. n4.pub \subseteq s[4]
  BY <1>1, <1>5
<1> QED BY <1>1, <1>2, <1>3, <1>4, <1>5, <1>6

\* A set without two different elements, and a set with exactly one.
LEMMA AtMostOne ==
  ASSUME NEW S, \A x, y \in S : x = y
  PROVE  Cardinality(S) <= 1
<1>1. CASE S = {}
  BY <1>1, FS_EmptySet
<1>2. CASE S # {}
  <2>1. PICK x \in S : TRUE
    BY <1>2
  <2>2. S = {x}
    BY <2>1
  <2> QED BY <2>2, FS_Singleton
<1> QED BY <1>1, <1>2

\* Two flags that are set are two odometry sources.
LEMMA OneSourceIsOneFlag ==
  ASSUME NEW c
  PROVE  Cardinality(OdomFlags(c)) <= 1 =>
           \A f, g \in {"use_cuvslam_odom", "use_rgbd_odom", "use_vins_odom", "use_t265_odom"} : c[f] /\ c[g] => f = g
<1>1. OdomFlags(c) \subseteq {"use_cuvslam_odom", "use_rgbd_odom", "use_vins_odom", "use_t265_odom"}
  BY DEF OdomFlags
<1>2. IsFiniteSet({"use_cuvslam_odom", "use_rgbd_odom", "use_vins_odom", "use_t265_odom"})
  <2>1. IsFiniteSet({"use_cuvslam_odom"})
    BY FS_Singleton
  <2>2. IsFiniteSet({"use_cuvslam_odom"} \cup {"use_rgbd_odom"})
    BY <2>1, FS_AddElement
  <2>3. IsFiniteSet(({"use_cuvslam_odom"} \cup {"use_rgbd_odom"}) \cup {"use_vins_odom"})
    BY <2>2, FS_AddElement
  <2>4. IsFiniteSet((({"use_cuvslam_odom"} \cup {"use_rgbd_odom"}) \cup {"use_vins_odom"}) \cup {"use_t265_odom"})
    BY <2>3, FS_AddElement
  <2>5. (({"use_cuvslam_odom"} \cup {"use_rgbd_odom"}) \cup {"use_vins_odom"}) \cup {"use_t265_odom"}
          = {"use_cuvslam_odom", "use_rgbd_odom", "use_vins_odom", "use_t265_odom"}
    OBVIOUS
  <2> QED BY <2>4, <2>5
<1>3. IsFiniteSet(OdomFlags(c))
  BY <1>1, <1>2, FS_Subset
<1> SUFFICES ASSUME Cardinality(OdomFlags(c)) <= 1,
                    NEW f \in {"use_cuvslam_odom", "use_rgbd_odom", "use_vins_odom", "use_t265_odom"},
                    NEW g \in {"use_cuvslam_odom", "use_rgbd_odom", "use_vins_odom", "use_t265_odom"},
                    c[f], c[g], f # g
             PROVE  FALSE
  OBVIOUS
<1>4. {f, g} \subseteq OdomFlags(c)
  BY DEF OdomFlags
<1>5. Cardinality({f, g}) <= Cardinality(OdomFlags(c))
  BY <1>3, <1>4, FS_Subset
<1>6. Cardinality({f, g}) = 2
  <2>1. IsFiniteSet({f}) /\ Cardinality({f}) = 1
    BY FS_Singleton
  <2>2. Cardinality({f} \cup {g}) = Cardinality({f}) + 1
    BY <2>1, FS_AddElement
  <2>3. {f} \cup {g} = {f, g}
    OBVIOUS
  <2> QED BY <2>1, <2>2, <2>3
<1>7. Cardinality(OdomFlags(c)) \in Nat
  BY <1>3, FS_CardinalityType
<1> QED BY <1>5, <1>6, <1>7

\* At most one odometry source is at most one flag.
LEMMA OneSourceOneFlag == OneSource => OneFlag(context)
BY OneSourceIsOneFlag DEF OneSource, OneFlag, OdometryFlags

\* One bridge publishes PX4's vision input, by the transport that was asked for.
LEMMA VisionBridge ==
  ASSUME NEW p, NEW n \in Px4Nodes(p), VisionInput \in n.pub
  PROVE  /\ p.enable_vo_bridge
         /\ \/ p.odometry_transport = "xrce" /\ n = RosNode("px4", "px4_vision_odom", {p.odom_topic}, {VisionInput})
            \/ p.odometry_transport = "mavlink" /\ n = RosNode("px4", "px4_mavlink_vpe", {p.odom_topic}, {VisionInput})
<1>1. n \notin VehicleOdom(p)
  BY OnlyFacts DEF VehicleOdom, RosNode, VisionInput, Global
<1>2. n \notin Trajectory(p)
  BY OnlyFacts DEF Trajectory, RosNode
<1>3. n \notin RoverModeNodes(p)
  BY DEF RoverModeNodes, RosNode
<1>4. n \in VoXrce(p) \/ n \in VoMavlink(p)
  BY <1>1, <1>2, <1>3 DEF Px4Nodes
<1>5. CASE n \in VoXrce(p)
  BY <1>5 DEF VoXrce, Only
<1>6. CASE n \in VoMavlink(p)
  BY <1>6 DEF VoMavlink, Only
<1> QED BY <1>4, <1>5, <1>6

\* The arguments of px4_bringup.launch.py in the session that runs.
Px4Contexts == UNION {{Declare(p, Px4Defaults) : p \in s.px4} : s \in asked}

\* They follow the odometry flags, and the nodes of the bridge come from them.
LEMMA SessionPx4 ==
  ASSUME IInv, WiringInv
  PROVE  /\ \A j, k \in Px4Contexts : j = k
         /\ \A j \in Px4Contexts : /\ j.odom_topic = OdomReadyTopic(context)
                                   /\ j.enable_vehicle_odometry = j.enable_vo_bridge
                                   /\ j.odometry_transport \in {"xrce", "mavlink"}
         /\ \A n \in nodes : VisionInput \in n.pub \/ n.name = "px4_vehicle_odometry" =>
              \E j \in Px4Contexts : n \in Px4Nodes(j) /\ Px4Nodes(j) \subseteq nodes
<1>1. asked = {} \/ \E s \in Sessions : asked = {s}
  BY DEF IInv, SessionInv
<1>2. \A j, k \in Px4Contexts : j = k
  <2>1. \A s \in Sessions : \A p, q \in s.px4 : p = q
    BY SessionAssumption
  <2> QED BY <1>1, <2>1 DEF Px4Contexts
<1>3. ASSUME NEW s \in asked, NEW p \in s.px4
      PROVE  /\ Declare(p, Px4Defaults).odom_topic = OdomReadyTopic(context)
             /\ Declare(p, Px4Defaults).enable_vehicle_odometry = Declare(p, Px4Defaults).enable_vo_bridge
             /\ Declare(p, Px4Defaults).odometry_transport \in {"xrce", "mavlink"}
  <2> DEFINE c == Declare(s.robot, RobotDefaults)
  <2>1. SameRobot(c, context)
    BY DEF WiringInv, ContextInv
  <2>2. s \in Sessions
    BY <1>1
  <2>3. /\ Declare(p, Px4Defaults).odom_topic = OdomReadyTopic(c)
        /\ Declare(p, Px4Defaults).enable_vehicle_odometry = Declare(p, Px4Defaults).enable_vo_bridge
        /\ Declare(p, Px4Defaults).odometry_transport \in {"xrce", "mavlink"}
    BY <2>2, SessionAssumption
  <2> HIDE DEF c
  <2>4. OdomReadyTopic(c) = OdomReadyTopic(context)
    BY <2>1, SameArguments DEF OdomReadyTopic
  <2> QED BY <2>3, <2>4
<1>4. \A j \in Px4Contexts : \E s \in asked : \E p \in s.px4 : j = Declare(p, Px4Defaults)
  BY DEF Px4Contexts
<1>5. \A j \in Px4Contexts : /\ j.odom_topic = OdomReadyTopic(context)
                             /\ j.enable_vehicle_odometry = j.enable_vo_bridge
                             /\ j.odometry_transport \in {"xrce", "mavlink"}
  BY <1>3, <1>4
<1>6. \A s \in asked : \A p \in s.px4 : Declare(p, Px4Defaults) \in Px4Contexts
  BY DEF Px4Contexts
<1>7. ASSUME NEW n \in nodes, VisionInput \in n.pub \/ n.name = "px4_vehicle_odometry"
      PROVE  \E j \in Px4Contexts : n \in Px4Nodes(j) /\ Px4Nodes(j) \subseteq nodes
  <2>1. PICK s \in asked : \E p \in s.px4 :
               n \in Px4Nodes(Declare(p, Px4Defaults)) /\ Px4Nodes(Declare(p, Px4Defaults)) \subseteq nodes
    BY <1>7 DEF WiringInv, Px4Inv
  <2>2. PICK p \in s.px4 : n \in Px4Nodes(Declare(p, Px4Defaults)) /\ Px4Nodes(Declare(p, Px4Defaults)) \subseteq nodes
    BY <2>1
  <2>3. Declare(p, Px4Defaults) \in Px4Contexts
    BY <1>6
  <2> QED BY <2>2, <2>3
<1> QED BY <1>2, <1>5, <1>7

\* The bridge of a session is one, and it is fed from the odometry in use.
LEMMA SessionBridge ==
  ASSUME IInv, WiringInv
  PROVE  /\ \A n, m \in nodes : VisionInput \in n.pub \cap m.pub => n = m
         /\ \A n \in nodes : VisionInput \in n.pub => n.needs = {OdomReadyTopic(context)} /\ n.pub = {VisionInput}
         /\ "px4_vehicle_odometry" \in Names => \E n \in nodes : VisionInput \in n.pub
<1>1. ASSUME NEW n \in nodes, NEW m \in nodes, VisionInput \in n.pub, VisionInput \in m.pub
      PROVE  n = m
  <2>1. PICK j \in Px4Contexts : n \in Px4Nodes(j)
    BY <1>1, SessionPx4
  <2>2. PICK k \in Px4Contexts : m \in Px4Nodes(k)
    BY <1>1, SessionPx4
  <2>3. m \in Px4Nodes(j)
    BY <2>2, SessionPx4
  <2>4. \/ j.odometry_transport = "xrce" /\ n = RosNode("px4", "px4_vision_odom", {j.odom_topic}, {VisionInput})
        \/ j.odometry_transport = "mavlink" /\ n = RosNode("px4", "px4_mavlink_vpe", {j.odom_topic}, {VisionInput})
    BY <1>1, <2>1, VisionBridge
  <2>5. \/ j.odometry_transport = "xrce" /\ m = RosNode("px4", "px4_vision_odom", {j.odom_topic}, {VisionInput})
        \/ j.odometry_transport = "mavlink" /\ m = RosNode("px4", "px4_mavlink_vpe", {j.odom_topic}, {VisionInput})
    BY <1>1, <2>3, VisionBridge
  <2> QED BY <2>4, <2>5
<1>2. ASSUME NEW n \in nodes, VisionInput \in n.pub
      PROVE  n.needs = {OdomReadyTopic(context)} /\ n.pub = {VisionInput}
  <2>1. PICK j \in Px4Contexts : n \in Px4Nodes(j)
    BY <1>2, SessionPx4
  <2>2. n.needs = {j.odom_topic} /\ n.pub = {VisionInput}
    BY <1>2, <2>1, VisionBridge DEF RosNode
  <2>3. j.odom_topic = OdomReadyTopic(context)
    BY SessionPx4
  <2> QED BY <2>2, <2>3
<1>3. ASSUME "px4_vehicle_odometry" \in Names PROVE \E n \in nodes : VisionInput \in n.pub
  <2>1. PICK n \in nodes : n.name = "px4_vehicle_odometry"
    BY <1>3 DEF Names
  <2>2. PICK j \in Px4Contexts : n \in Px4Nodes(j) /\ Px4Nodes(j) \subseteq nodes
    BY <2>1, SessionPx4
  <2>3. j.enable_vehicle_odometry = j.enable_vo_bridge /\ j.odometry_transport \in {"xrce", "mavlink"}
    BY SessionPx4
  <2>4. j.enable_vehicle_odometry
    <3>1. n \notin VoXrce(j) /\ n \notin VoMavlink(j) /\ n \notin Trajectory(j)
      BY <2>1, OnlyFacts DEF VoXrce, VoMavlink, Trajectory, RosNode
    <3>2. n \notin RoverModeNodes(j)
      BY <2>1 DEF RoverModeNodes, RoverModes, RosNode
    <3> QED BY <2>2, <3>1, <3>2, OnlyFacts DEF Px4Nodes, VehicleOdom
  <2>5. j.enable_vo_bridge
    BY <2>3, <2>4
  <2>6. \/ RosNode("px4", "px4_vision_odom", {j.odom_topic}, {VisionInput}) \in Px4Nodes(j)
        \/ RosNode("px4", "px4_mavlink_vpe", {j.odom_topic}, {VisionInput}) \in Px4Nodes(j)
    BY <2>3, <2>5 DEF Px4Nodes, VoXrce, VoMavlink, Only
  <2>7. /\ VisionInput \in RosNode("px4", "px4_vision_odom", {j.odom_topic}, {VisionInput}).pub
        /\ VisionInput \in RosNode("px4", "px4_mavlink_vpe", {j.odom_topic}, {VisionInput}).pub
    BY DEF RosNode
  <2> QED BY <2>2, <2>6, <2>7
<1> QED BY <1>1, <1>2, <1>3

\* With one flag, what is waited for has one publisher, as every owned topic has.
LEMMA OnePublisher ==
  ASSUME IInv, WiringInv, OneFlag(context), NEW topic \in Owned \cup {OdomReadyTopic(context)},
         NEW n \in nodes \ {Telemetry}, NEW m \in nodes \ {Telemetry}, topic \in n.pub, topic \in m.pub
  PROVE  n = m
<1>1. WellWired(context, n) /\ WellWired(context, m)
  BY DEF WiringInv, OwnerInv
<1>2. CASE topic = Global("joint_states")
  BY <1>1, <1>2 DEF WellWired
<1>3. CASE topic = CmdVel
  BY <1>1, <1>3 DEF WellWired
<1>4. CASE topic = NavOdom
  BY <1>1, <1>4 DEF WellWired
<1>5. CASE topic = VisionInput
  BY <1>5, SessionBridge
<1>6. CASE topic = OdomTf
  BY <1>1, <1>6 DEF WellWired
<1>7. CASE topic = MapTf
  BY <1>7 DEF WiringInv, MapInv
<1>8. CASE topic = Global("cuvslam_odom")
  BY <1>1, <1>8 DEF WellWired
<1>9. CASE topic = Global("cuvslam_rgbd_odom")
  BY <1>1, <1>9 DEF WellWired
<1>10. CASE topic = Global("vins_odom")
  BY <1>1, <1>10 DEF WellWired
<1>11. topic # <<"odometry", "filtered">>
  BY <1>1 DEF WellWired
<1>12. OdomReadyTopic(context) \in {Global("cuvslam_odom"), Global("cuvslam_rgbd_odom"), Global("vins_odom"), NavOdom,
                                    <<"odometry", "filtered">>}
  BY DEF OdomReadyTopic, NavOdom
<1> QED BY <1>2, <1>3, <1>4, <1>5, <1>6, <1>7, <1>8, <1>9, <1>10, <1>11, <1>12 DEF Owned, CmdVel, MapTf

\* With the T265's odometry its relay runs.
LEMMA RelayPresent ==
  ASSUME NEW c, NEW ns, Present(14, c, ns), c.use_t265_odom
  PROVE  BaseRelay(c) \in ns
<1>1. 14 >= 4 /\ 14 >= 6
  OBVIOUS
<1>2. EnableT265(c)
  BY DEF EnableT265
<1>3. CASE c.use_gazebo
  BY ONLY <1>1, <1>3, Present(14, c, ns), c.use_t265_odom, Zenon DEF Present
<1>4. CASE ~c.use_gazebo
  BY ONLY <1>1, <1>2, <1>4, Present(14, c, ns), Zenon DEF Present
<1> QED BY <1>3, <1>4

\* What owns the transform from odom to base_link runs.
LEMMA OdomOwnerRuns ==
  ASSUME WiringInv, OneFlag(context), Launched, \E f \in OdometryFlags : context[f]
  PROVE  OdomOwner(context) \in nodes /\ OdomTf \in OdomOwner(context).pub
<1>1. Present(14, context, nodes)
  BY Order DEF WiringInv, PresentInv, Launched
<1>2. \A f \in OdometryFlags : context[f] \in BOOLEAN
  BY RobotArguments DEF WiringInv, ContextInv, RobotContext, OdometryFlags, RobotArgs
<1>3. CASE context.use_cuvslam_odom
  <2>1. OdomOwner(context) \in nodes
    BY <1>1, <1>3 DEF Present, OdomOwner
  <2> QED BY <1>3, <2>1 DEF OdomOwner, CuvslamRelay, OdomRelay, RosNode
<1>4. CASE context.use_rgbd_odom
  <2>1. ~context.use_cuvslam_odom
    BY <1>4 DEF OneFlag, OdometryFlags
  <2>2. OdomOwner(context) \in nodes
    BY <1>1, <1>4, <2>1 DEF Present, OdomOwner
  <2> QED BY <1>4, <2>1, <2>2 DEF OdomOwner, CuvslamRgbdRelay, OdomRelay, RosNode
<1>5. CASE context.use_vins_odom
  <2>1. ~context.use_cuvslam_odom /\ ~context.use_rgbd_odom
    BY <1>5 DEF OneFlag, OdometryFlags
  <2>2. OdomOwner(context) \in nodes
    BY <1>1, <1>5, <2>1 DEF Present, OdomOwner
  <2> QED BY <1>5, <2>1, <2>2 DEF OdomOwner, VinsRelay, OdomRelay, RosNode
<1>6. CASE context.use_t265_odom
  <2>1. ~context.use_cuvslam_odom /\ ~context.use_rgbd_odom /\ ~context.use_vins_odom
    BY <1>6 DEF OneFlag, OdometryFlags
  <2>2. OdomOwner(context) = BaseRelay(context)
    BY <2>1 DEF OdomOwner
  <2>4. BaseRelay(context) \in nodes
    BY <1>1, <1>6, RelayPresent
  <2>5. OdomTf \in BaseRelay(context).pub
    BY <1>6 DEF BaseRelay, SimRelay, T265Relay, RosNode
  <2> QED BY <2>2, <2>4, <2>5
<1> QED BY <1>3, <1>4, <1>5, <1>6 DEF OdometryFlags

\* Owners are unique in every state of the invariant.
LEMMA OneOwnerHolds == IInv /\ WiringInv => OneOwner
<1> SUFFICES ASSUME IInv, WiringInv, OneSource PROVE
      /\ \A topic \in Owned \cup {OdomReadyTopic(context)} : Cardinality(AutonomousPublishers(topic)) <= 1
      /\ Launched /\ context.rtabmap =>
           Cardinality({n \in nodes \cup NodesNotAdded(context) : OdomTf \in n.pub}) = 1
  BY DEF OneOwner
<1>1. OneFlag(context)
  BY OneSourceOneFlag
<1>2. ASSUME NEW topic \in Owned \cup {OdomReadyTopic(context)}
      PROVE  Cardinality(AutonomousPublishers(topic)) <= 1
  <2>1. \A n, m \in AutonomousPublishers(topic) : n = m
    BY <1>1, OnePublisher DEF AutonomousPublishers, Publishers
  <2> QED BY <2>1, AtMostOne
<1>3. ASSUME Launched, context.rtabmap
      PROVE  \E n : {m \in nodes \cup NodesNotAdded(context) : OdomTf \in m.pub} = {n}
  <2>1. context.enable_odom_relay = FALSE
    BY <1>3, Order DEF WiringInv, ContextInv, Arguments, Launched
  <2>2. \A m \in nodes : OdomTf \in m.pub => m = OdomOwner(context) /\ \E f \in OdometryFlags : context[f]
    BY <1>1 DEF WiringInv, OwnerInv, WellWired
  <2>3. /\ NodesNotAdded(context) \subseteq {ImuTransform(context), ImuFilter, EkfFilter(context), VisualOdom(context), IcpOdom}
        /\ EkfFilter(context) \in NodesNotAdded(context)
    BY <2>1, OnlyFacts DEF NodesNotAdded
  <2>4. /\ OdomTf \notin ImuTransform(context).pub /\ OdomTf \notin ImuFilter.pub /\ OdomTf \notin VisualOdom(context).pub
        /\ OdomTf \notin IcpOdom.pub
    BY DEF OdomTf, ImuTransform, ImuFilter, VisualOdom, IcpOdom, RosNode, Global
  <2>5. OdomTf \in EkfFilter(context).pub <=> ~ \E f \in OdometryFlags : context[f]
    BY DEF EkfFilter, OdomTf, RosNode, OdomFlags, OdometryFlags
  <2>6. CASE \E f \in OdometryFlags : context[f]
    <3>1. OdomOwner(context) \in nodes /\ OdomTf \in OdomOwner(context).pub
      BY <1>1, <1>3, <2>6, OdomOwnerRuns
    <3>2. \A m \in NodesNotAdded(context) : OdomTf \notin m.pub
      BY <2>3, <2>4, <2>5, <2>6
    <3>3. {m \in nodes \cup NodesNotAdded(context) : OdomTf \in m.pub} = {OdomOwner(context)}
      BY <2>2, <3>1, <3>2
    <3> QED BY <3>3
  <2>7. CASE ~ \E f \in OdometryFlags : context[f]
    <3>1. {m \in nodes \cup NodesNotAdded(context) : OdomTf \in m.pub} = {EkfFilter(context)}
      BY <2>2, <2>3, <2>4, <2>5, <2>7
    <3> QED BY <3>1
  <2> QED BY <2>6, <2>7
<1>4. Launched /\ context.rtabmap =>
        Cardinality({n \in nodes \cup NodesNotAdded(context) : OdomTf \in n.pub}) = 1
  BY <1>3, FS_Singleton
<1> QED BY <1>2, <1>4

\* bt_navigator is the one that the launch file of Nav2 loads.
NavUpInv == \A n \in nodes : n.name = "bt_navigator" => n \in LoadNodes

\* Only the exit of the gate starts bt_navigator.
LEMMA NavUpStep ==
  ASSUME IInv, IInv', WiringInv, NavUpInv, [Next]_vars
  PROVE  NavUpInv'
<1>1. CASE gate' # "passed"
  BY <1>1 DEF IInv, NodeInv, NavUpInv
<1>2. CASE gate' = "passed"
  <2>1. ASSUME UNCHANGED nodes PROVE NavUpInv'
    BY <2>1 DEF NavUpInv
  <2>2. CASE \E s \in Sessions : Launch(s)
    BY <2>1, <2>2 DEF Launch
  <2>3. ~Stop
    BY <1>2 DEF Stop, Idle
  <2>4. ~Visit
    <3> SUFFICES ASSUME Visit PROVE FALSE
      OBVIOUS
    <3>1. gate = "passed"
      BY <1>2 DEF Visit, VisitEntity, VisitCameras, VisitRtabmap, VisitGate, VisitRviz, readiness
    <3>2. visited = 14
      BY <3>1 DEF WiringInv, ContextInv
    <3>3. visited < 14
      BY Order DEF Visit, VisitEntity, VisitCameras, VisitRtabmap, VisitGate, VisitRviz, VisitNodes, NextIs
    <3> QED BY <3>2, <3>3
  <2>5. CASE NodeSteps
    BY <2>5, NodeStepsNames DEF NavUpInv
  <2>6. CASE Environment
    BY <2>1, <2>6 DEF Environment, ResetEnds, DelayEnds, OdometryStarts, InfoListed, MapGrows
  <2>7. CASE TopicsStageEnds \/ OdomStageEnds
    BY <2>1, <2>7 DEF TopicsStageEnds, OdomStageEnds, EnterStage
  <2>8. CASE GateExits
    <3>1. nodes' = nodes \cup NavNodes(context')
      BY <2>8 DEF GateExits
    <3>2. NavNodes(context') \subseteq LoadNodes
      BY DEF NavNodes, LoadComposableNodes
    <3> QED BY <3>1, <3>2 DEF NavUpInv
  <2>9. CASE Tick
    BY <2>1, <2>9 DEF Tick
  <2>10. CASE UNCHANGED vars
    BY <2>1, <2>10 DEF vars
  <2> QED BY <2>2, <2>3, <2>4, <2>5, <2>6, <2>7, <2>8, <2>9, <2>10 DEF Next, GateSteps
<1> QED BY <1>1, <1>2

\* All of it, as one invariant.
LaunchInv == IInv /\ WiringInv /\ NavUpInv

\* It holds in every state.
LEMMA LaunchInvariance == Spec => []LaunchInv
<1>1. Init => LaunchInv
  <2>1. Init => NavUpInv
    BY DEF Init, NavUpInv
  <2> QED BY <2>1, InitInv, InitWiring DEF LaunchInv
<1>2. LaunchInv /\ [Next]_vars => LaunchInv'
  <2> SUFFICES ASSUME LaunchInv, [Next]_vars PROVE LaunchInv'
    OBVIOUS
  <2>1. IInv /\ WiringInv /\ NavUpInv
    BY DEF LaunchInv
  <2>2. IInv'
    BY <2>1, StepKeeps
  <2>3. WiringInv'
    BY <2>1, WiringStep
  <2>4. NavUpInv'
    BY <2>1, <2>2, NavUpStep
  <2> QED BY <2>2, <2>3, <2>4 DEF LaunchInv
<1> QED BY <1>1, <1>2, PTL DEF Spec

\* A T265 in use tells its odometry, simulated or not.
LEMMA T265Device ==
  ASSUME NEW c, NEW ns, Present(14, c, ns), EnableT265(c)
  PROVE  \E n \in ns : n.needs = {} /\ T265Odom \in n.pub
<1>1. 14 >= 1 /\ 14 >= 4
  OBVIOUS
<1>2. CASE c.use_gazebo
  <2>1. T265Bridge \in ns
    BY ONLY <1>1, <1>2, EnableT265(c), Present(14, c, ns), Zenon DEF Present
  <2>2. T265Bridge.needs = {} /\ T265Odom \in T265Bridge.pub
    BY DEF T265Bridge, RosNode, T265Odom, Streams
  <2> QED BY <2>1, <2>2
<1>3. CASE ~c.use_gazebo
  <2>1. BaseCamera(c) \in ns
    BY ONLY <1>1, <1>3, EnableT265(c), Present(14, c, ns), Zenon DEF Present
  <2>2. BaseCamera(c).needs = {} /\ T265Odom \in BaseCamera(c).pub
    BY DEF BaseCamera, T265Camera, RosNode, T265Odom, Streams
  <2> QED BY <2>1, <2>2
<1> QED BY <1>2, <1>3

\* It feeds its relay.
LEMMA T265Produces ==
  ASSUME NEW c, NEW ns, Present(14, c, ns), (~c.use_gazebo /\ EnableT265(c)) \/ c.use_t265_odom
  PROVE  NavOdom \in Produced(ns)
<1>1. EnableT265(c)
  BY DEF EnableT265
<1>2. BaseRelay(c).needs = {T265Odom} /\ NavOdom \in BaseRelay(c).pub
  BY DEF BaseRelay, SimRelay, T265Relay, RosNode, T265Odom, NavOdom
<1>3. BaseRelay(c) \in ns
  <2>1. CASE c.use_t265_odom
    BY <2>1, RelayPresent
  <2>2. CASE ~c.use_gazebo
    <3>1. 14 >= 4
      OBVIOUS
    <3> QED BY ONLY <1>1, <2>2, <3>1, Present(14, c, ns), Zenon DEF Present
  <2> QED BY <2>1, <2>2
<1>4. PICK n \in ns : n.needs = {} /\ T265Odom \in n.pub
  BY <1>1, T265Device
<1> QED BY <1>2, <1>3, <1>4, ChainProduces

\* Nav2 is wired in every state of the invariant.
LEMMA NavWiredHolds == LaunchInv => NavWired
<1> SUFFICES ASSUME LaunchInv, NavUp PROVE
      /\ {n.name : n \in {m \in nodes : m.file = "nav2"}} = LifecycleNodes \cup {LifecycleManager.name}
      /\ \A n \in AutonomousPublishers(CmdVel) : n.needs = {CmdVelSmoothed}
      /\ (ParamsFile(context) = "nav2_params_rpp.yaml" => context.controller = "rpp") =>
           \A r \in DOMAIN Reverse(context) : Reverse(context)[r] = context.reversible_drive
      /\ {NavOdom, NavScan} \subseteq Produced(nodes) => CmdVel \in Produced(nodes \ {Telemetry})
      /\ (~context.use_gazebo /\ EnableT265(context)) \/ context.use_t265_odom => NavOdom \in Produced(nodes)
  BY DEF NavWired
<1>1. IInv /\ WiringInv /\ NavUpInv
  BY DEF LaunchInv
<1>2. gate = "passed" /\ LoadNodes \subseteq nodes
  <2>1. PICK n \in nodes : n.name = "bt_navigator"
    BY DEF NavUp, Names
  <2>2. n \in LoadNodes
    BY <1>1, <2>1 DEF NavUpInv
  <2>3. n.file = "nav2"
    BY <1>1, <2>2, NavWiring DEF WiringInv, ContextInv
  <2> QED BY <1>1, <2>1, <2>3 DEF WiringInv, NavInv
<1>3. {m \in nodes : m.file = "nav2"} = LoadNodes
  <2>1. \A n \in LoadNodes : n.file = "nav2"
    BY <1>1, NavWiring DEF WiringInv, ContextInv
  <2> QED BY <1>1, <1>2, <2>1 DEF WiringInv, NavInv
<1>4. {n.name : n \in LoadNodes} = LifecycleNodes \cup {LifecycleManager.name}
  <2>1. /\ ControllerServer.name = "controller_server" /\ PlannerServer.name = "planner_server"
        /\ BehaviorServer.name = "behavior_server" /\ BtNavigator.name = "bt_navigator"
        /\ VelocitySmoother.name = "velocity_smoother" /\ CollisionMonitor.name = "collision_monitor"
    BY DEF ControllerServer, PlannerServer, BehaviorServer, BtNavigator, VelocitySmoother, CollisionMonitor, RosNode
  <2>2. LoadNodes = {ControllerServer, PlannerServer, BehaviorServer, BtNavigator, VelocitySmoother,
                     CollisionMonitor, LifecycleManager}
    BY DEF LoadNodes, Servers
  <2> QED BY <2>1, <2>2 DEF LifecycleNodes
<1>5. \A n \in AutonomousPublishers(CmdVel) : n.needs = {CmdVelSmoothed}
  <2>1. \A n \in AutonomousPublishers(CmdVel) : n = CollisionMonitor
    BY <1>1 DEF AutonomousPublishers, Publishers, WiringInv, OwnerInv, WellWired
  <2> QED BY <2>1 DEF CollisionMonitor, RosNode
<1>6. ASSUME ParamsFile(context) = "nav2_params_rpp.yaml" => context.controller = "rpp",
             NEW r \in DOMAIN Reverse(context)
      PROVE  Reverse(context)[r] = context.reversible_drive
  <2>1. context.reversible_drive \in BOOLEAN
    BY <1>1, RobotArguments DEF WiringInv, ContextInv, RobotContext, RobotArgs
  <2>2. DOMAIN Reverse(context) = {"planner", "controller", "smoother"}
    BY DEF Reverse
  <2>3. /\ Reverse(context)["planner"] = context.reversible_drive
        /\ Reverse(context)["smoother"] = context.reversible_drive
    BY DEF Reverse
  <2>4. Reverse(context)["controller"] = context.reversible_drive
    BY <1>6, <2>1 DEF Reverse
  <2> QED BY <2>2, <2>3, <2>4
<1>7. CmdVel \in Produced(nodes \ {Telemetry})
  <2> DEFINE ns == nodes \ {Telemetry}
  <2>0. BehaviorServer.file = "nav2" /\ VelocitySmoother.file = "nav2" /\ CollisionMonitor.file = "nav2"
        /\ Telemetry.file = "monitor"
    BY DEF BehaviorServer, VelocitySmoother, CollisionMonitor, Telemetry, RosNode
  <2>1. BehaviorServer \in ns /\ VelocitySmoother \in ns /\ CollisionMonitor \in ns
    BY <1>2, <2>0 DEF LoadNodes, Servers
  <2>2. /\ BehaviorServer.needs = {} /\ BehaviorServer.pub = {CmdVelNav}
        /\ VelocitySmoother.needs = {CmdVelNav} /\ VelocitySmoother.pub = {CmdVelSmoothed}
        /\ CollisionMonitor.needs = {CmdVelSmoothed} /\ CollisionMonitor.pub = {CmdVel}
    BY DEF BehaviorServer, VelocitySmoother, CollisionMonitor, RosNode
  <2> HIDE DEF ns
  <2>3. CmdVel \in Produced(ns)
    BY <2>1, <2>2, ChainProduces
  <2> QED BY <2>3 DEF ns
<1>8. (~context.use_gazebo /\ EnableT265(context)) \/ context.use_t265_odom => NavOdom \in Produced(nodes)
  <2>1. Present(14, context, nodes)
    BY <1>1, <1>2 DEF WiringInv, ContextInv, PresentInv
  <2> QED BY <2>1, T265Produces
<1> QED BY <1>3, <1>4, <1>5, <1>6, <1>7, <1>8

\* The streams of the T265, by the bridge or by its driver.
LEMMA T265Streams ==
  ASSUME NEW c, NEW ns, Present(14, c, ns), c.use_vins_odom \/ c.use_cuvslam_odom
  PROVE  \E n \in ns : n.needs = {} /\ Streams("t265", FisheyeStreams \cup FisheyeInfo \cup {"imu"}) \subseteq n.pub
<1>1. 14 >= 1 /\ 14 >= 4
  OBVIOUS
<1>2. EnableT265(c) /\ EnableFisheye(c)
  BY DEF EnableT265, EnableFisheye
<1>3. CASE c.use_gazebo
  <2>1. T265Bridge \in ns
    BY ONLY <1>1, <1>2, <1>3, Present(14, c, ns), Zenon DEF Present
  <2>2. T265Bridge.needs = {} /\ Streams("t265", FisheyeStreams \cup FisheyeInfo \cup {"imu"}) \subseteq T265Bridge.pub
    BY DEF T265Bridge, RosNode, Streams
  <2> QED BY <2>1, <2>2
<1>4. CASE ~c.use_gazebo
  <2>1. BaseCamera(c) \in ns
    BY ONLY <1>1, <1>2, <1>4, Present(14, c, ns), Zenon DEF Present
  <2>2. BaseCamera(c).needs = {} /\ Streams("t265", FisheyeStreams \cup FisheyeInfo \cup {"imu"}) \subseteq BaseCamera(c).pub
    BY <1>2 DEF BaseCamera, T265Camera, RosNode, Streams
  <2> QED BY <2>1, <2>2
<1> QED BY <1>3, <1>4

\* From a device to the odometry in use and to its transform there is a chain of nodes.
LEMMA OdometryChain ==
  ASSUME NEW c, NEW ns, Present(14, c, ns), OneFlag(c), \E f \in OdometryFlags : c[f],
         c.use_rgbd_odom => ~c.use_gazebo /\ c.depth_camera = "d435i"
  PROVE  \E n1, n2, n3 \in ns : /\ n1.needs = {} /\ n2.needs \subseteq n1.pub /\ n3.needs \subseteq n2.pub
                                /\ {OdomReadyTopic(c), OdomTf} \subseteq n3.pub
<1>1. 14 >= 1 /\ 14 >= 4 /\ 14 >= 6 /\ 14 >= 7 /\ 14 >= 8 /\ 14 >= 9
  OBVIOUS
<1>2. CASE c.use_cuvslam_odom
  <2>1. PICK n \in ns : n.needs = {} /\ Streams("t265", FisheyeStreams \cup FisheyeInfo \cup {"imu"}) \subseteq n.pub
    BY <1>2, T265Streams
  <2>2. CuvslamNode(CuvslamDefaults) \in ns /\ CuvslamRelay(CuvslamDefaults) \in ns
    BY ONLY <1>1, <1>2, Present(14, c, ns), OneFlag(c), Zenon DEF Present
  <2>3. /\ CuvslamNode(CuvslamDefaults).needs = Streams("t265", FisheyeStreams \cup FisheyeInfo \cup {"imu"})
        /\ CuvslamNode(CuvslamDefaults).pub = {<<"cuvslam", "raw_odometry">>}
    BY DEF CuvslamNode, CuvslamDefaults, ParameterFile, RosNode
  <2>4. /\ CuvslamRelay(CuvslamDefaults).needs = {<<"cuvslam", "raw_odometry">>}
        /\ CuvslamRelay(CuvslamDefaults).pub = {Global("cuvslam_odom"), OdomTf}
    BY DEF CuvslamRelay, OdomRelay, CuvslamDefaults, RosNode
  <2>5. OdomReadyTopic(c) = Global("cuvslam_odom")
    BY <1>2 DEF OdomReadyTopic
  <2> QED BY <2>1, <2>2, <2>3, <2>4, <2>5
<1>3. CASE c.use_rgbd_odom
  <2>1. ~c.use_cuvslam_odom
    BY <1>3 DEF OneFlag, OdometryFlags
  <2>2. DepthCamera("d435i", TRUE) \in ns
    BY ONLY <1>1, <1>3, Present(14, c, ns), c.use_rgbd_odom => ~c.use_gazebo /\ c.depth_camera = "d435i", Zenon DEF Present
  <2>3. CuvslamRgbdNode(CuvslamRgbdDefaults) \in ns /\ CuvslamRgbdRelay(CuvslamRgbdDefaults) \in ns
    BY ONLY <1>1, <1>3, Present(14, c, ns), OneFlag(c), Zenon DEF Present
  <2>4. /\ CuvslamRgbdNode(CuvslamRgbdDefaults).needs
             = Streams("d435i", {"color/image_raw", "color/camera_info", "depth/image_rect_raw", "imu"})
        /\ CuvslamRgbdNode(CuvslamRgbdDefaults).pub = {<<"cuvslam_rgbd", "raw_odometry">>}
    BY DEF CuvslamRgbdNode, CuvslamRgbdDefaults, ParameterFile, RosNode
  <2>5. /\ CuvslamRgbdRelay(CuvslamRgbdDefaults).needs = {<<"cuvslam_rgbd", "raw_odometry">>}
        /\ CuvslamRgbdRelay(CuvslamRgbdDefaults).pub = {Global("cuvslam_rgbd_odom"), OdomTf}
    BY DEF CuvslamRgbdRelay, OdomRelay, CuvslamRgbdDefaults, RosNode
  <2>6. /\ DepthCamera("d435i", TRUE).needs = {}
        /\ Streams("d435i", {"color/image_raw", "color/camera_info", "depth/image_rect_raw", "imu"})
             \subseteq DepthCamera("d435i", TRUE).pub
    BY DEF DepthCamera, DepthStreams, Streams, RosNode
  <2>7. OdomReadyTopic(c) = Global("cuvslam_rgbd_odom")
    BY <1>3, <2>1 DEF OdomReadyTopic
  <2> QED BY <2>2, <2>3, <2>4, <2>5, <2>6, <2>7
<1>4. CASE c.use_vins_odom
  <2>1. ~c.use_cuvslam_odom /\ ~c.use_rgbd_odom
    BY <1>4 DEF OneFlag, OdometryFlags
  <2>2. PICK n \in ns : n.needs = {} /\ Streams("t265", FisheyeStreams \cup FisheyeInfo \cup {"imu"}) \subseteq n.pub
    BY <1>4, T265Streams
  <2>3. VinsNode(VinsDefaults) \in ns /\ VinsRelay(VinsDefaults) \in ns
    BY ONLY <1>1, <1>4, Present(14, c, ns), OneFlag(c), Zenon DEF Present
  <2>4. /\ VinsNode(VinsDefaults).needs = Streams("t265", FisheyeStreams \cup {"imu"})
        /\ VinsNode(VinsDefaults).pub = {<<"vins", "raw_odometry">>}
    BY DEF VinsNode, VinsDefaults, RosNode
  <2>5. Streams("t265", FisheyeStreams \cup {"imu"}) \subseteq Streams("t265", FisheyeStreams \cup FisheyeInfo \cup {"imu"})
    BY DEF Streams
  <2>6. /\ VinsRelay(VinsDefaults).needs = {<<"vins", "raw_odometry">>}
        /\ VinsRelay(VinsDefaults).pub = {Global("vins_odom"), OdomTf}
    BY DEF VinsRelay, OdomRelay, VinsDefaults, RosNode
  <2>7. OdomReadyTopic(c) = Global("vins_odom")
    BY <1>4, <2>1 DEF OdomReadyTopic
  <2>8. VinsNode(VinsDefaults).needs \subseteq n.pub
    BY <2>2, <2>4, <2>5
  <2>9. VinsRelay(VinsDefaults).needs \subseteq VinsNode(VinsDefaults).pub
    BY <2>4, <2>6
  <2>10. {OdomReadyTopic(c), OdomTf} \subseteq VinsRelay(VinsDefaults).pub
    BY <2>6, <2>7
  <2> HIDE DEF VinsRelay, VinsNode, VinsDefaults
  <2> QED BY <2>2, <2>3, <2>8, <2>9, <2>10
<1>5. CASE c.use_t265_odom
  <2>1. ~c.use_cuvslam_odom /\ ~c.use_rgbd_odom /\ ~c.use_vins_odom
    BY <1>5 DEF OneFlag, OdometryFlags
  <2>2. BaseRelay(c) \in ns
    BY <1>5, RelayPresent
  <2>3. BaseRelay(c).needs = {T265Odom} /\ {NavOdom, OdomTf} \subseteq BaseRelay(c).pub
    BY <1>5 DEF BaseRelay, SimRelay, T265Relay, RosNode, T265Odom, NavOdom
  <2>4. OdomReadyTopic(c) = NavOdom
    BY <1>5, <2>1 DEF OdomReadyTopic, NavOdom
  <2>a. EnableT265(c)
    BY <1>5 DEF EnableT265
  <2>5. \E n \in ns : n.needs = {} /\ T265Odom \in n.pub
    BY <2>a, T265Device
  <2>6. \A n : n.needs = {} => n.needs \subseteq n.pub
    OBVIOUS
  <2> QED BY <2>2, <2>3, <2>4, <2>5, <2>6
<1> QED BY <1>2, <1>3, <1>4, <1>5 DEF OdometryFlags

\* The streams of a depth camera, by the bridge or by its driver.
LEMMA DepthDevice ==
  ASSUME NEW c, NEW ns, Present(14, c, ns), c.depth_camera \in DepthCameras, c.use_gazebo \in BOOLEAN
  PROVE  \E n \in ns : /\ n.needs = {} /\ SensorTopics(CameraArguments(c)) \subseteq n.pub
                       /\ ~c.use_gazebo => DepthProbeTopics(c) \subseteq n.pub
<1>1. 14 >= 1 /\ 14 >= 4
  OBVIOUS
<1>2. /\ CameraArguments(c).rgb_image_topic = <<c.depth_camera, IF c.use_gazebo THEN "image" ELSE "color/image_raw">>
      /\ CameraArguments(c).rgb_camera_info_topic
           = <<c.depth_camera, IF c.use_gazebo THEN "camera_info" ELSE "color/camera_info">>
      /\ CameraArguments(c).depth_image_topic
           = <<c.depth_camera, IF c.use_gazebo THEN "depth_image" ELSE "aligned_depth_to_color/image_raw">>
      /\ CameraArguments(c).depth_camera_info_topic
           = <<c.depth_camera, IF c.use_gazebo THEN "camera_info" ELSE "aligned_depth_to_color/camera_info">>
  BY DEF CameraArguments
<1>3. CASE c.use_gazebo
  <2>1. DepthBridge(c) \in ns
    BY ONLY <1>1, <1>3, Present(14, c, ns), Zenon DEF Present
  <2>2. DepthBridge(c).needs = {} /\ Streams(c.depth_camera, SimDepthStreams) \subseteq DepthBridge(c).pub
    BY DEF DepthBridge, RosNode
  <2>3. SensorTopics(CameraArguments(c)) \subseteq Streams(c.depth_camera, SimDepthStreams)
    BY <1>2, <1>3 DEF SensorTopics, ColorTopics, DepthTopics, Streams, SimDepthStreams
  <2> QED BY <1>3, <2>1, <2>2, <2>3
<1>4. CASE ~c.use_gazebo
  <2>1. \E imu \in BOOLEAN : DepthCamera(c.depth_camera, imu) \in ns
    <3>1. CASE c.depth_camera = "d435i"
      <4>1. DepthCamera("d435i", TRUE) \in ns
        BY ONLY <1>1, <1>4, <3>1, Present(14, c, ns), Zenon DEF Present
      <4> QED BY <3>1, <4>1
    <3>2. CASE c.depth_camera = "l515"
      <4>1. DepthCamera("l515", FALSE) \in ns
        BY ONLY <1>1, <1>4, <3>2, Present(14, c, ns), Zenon DEF Present
      <4> QED BY <3>2, <4>1
    <3> QED BY <3>1, <3>2 DEF DepthCameras
  <2>2. PICK imu \in BOOLEAN : DepthCamera(c.depth_camera, imu) \in ns
    BY <2>1
  <2>3. /\ DepthCamera(c.depth_camera, imu).needs = {}
        /\ Streams(c.depth_camera, DepthStreams) \subseteq DepthCamera(c.depth_camera, imu).pub
    BY DEF DepthCamera, Streams, RosNode
  <2>4. SensorTopics(CameraArguments(c)) \subseteq Streams(c.depth_camera, DepthStreams)
    BY <1>2, <1>4 DEF SensorTopics, ColorTopics, DepthTopics, Streams, DepthStreams
  <2>5. DepthProbeTopics(c) \subseteq Streams(c.depth_camera, DepthStreams)
    BY DEF DepthProbeTopics, Streams, DepthStreams
  <2> QED BY <2>2, <2>3, <2>4, <2>5
<1> QED BY <1>3, <1>4

\* One usable source is one flag, and its devices exist.
LEMMA UsableOneFlag ==
  ASSUME Usable
  PROVE  OneFlag(context) /\ (\E f \in OdometryFlags : context[f])
         /\ (context.use_rgbd_odom => ~context.use_gazebo /\ context.depth_camera = "d435i")
<1>1. Cardinality(OdomFlags(context)) = 1
  BY DEF Usable
<1>2. OneSource
  BY <1>1 DEF OneSource
<1>3. OdomFlags(context) # {}
  BY <1>1, FS_EmptySet
<1>4. \E f \in OdometryFlags : context[f]
  BY <1>3 DEF OdomFlags, OdometryFlags
<1> QED BY <1>2, <1>4, OneSourceOneFlag DEF Usable

\* RTAB-Map is told the topic that is waited for.
LEMMA SlamTopic ==
  ASSUME NEW c, Arguments(14, c), c.rtabmap, OdomFlags(c) # {}
  PROVE  SlamOdomTopic(c) = OdomReadyTopic(c)
<1>1. 14 >= 10
  OBVIOUS
<1>2. \A a \in OdomTopicArgs : c[a] = SlamOwnDefaults[a]
  BY ONLY <1>1, Arguments(14, c), c.rtabmap, Zenon DEF Arguments
<1>3. /\ c.t265_odom_topic = <<"t265", "odom_base">> /\ c.vins_odom_topic = Global("vins_odom")
      /\ c.cuvslam_odom_topic = Global("cuvslam_odom") /\ c.cuvslam_rgbd_odom_topic = Global("cuvslam_rgbd_odom")
  BY <1>2 DEF OdomTopicArgs, SlamOwnDefaults
<1>4. c.use_cuvslam_odom \/ c.use_rgbd_odom \/ c.use_vins_odom \/ c.use_t265_odom
  BY DEF OdomFlags
<1> QED BY <1>3, <1>4 DEF SlamOdomTopic, OdomReadyTopic

\* The RGB-D image and the scan are made from the depth camera's streams.
LEMMA SlamProduces ==
  ASSUME NEW c, NEW ns, Present(14, c, ns), c.depth_camera \in DepthCameras, c.use_gazebo \in BOOLEAN,
         c.rtabmap, c.vision
  PROVE  {RgbdImage, Scan} \subseteq Produced(ns)
<1>1. 14 >= 10
  OBVIOUS
<1>2. RgbdSync(CameraArguments(c)) \in ns /\ DepthToScan(CameraArguments(c)) \in ns
  BY ONLY <1>1, Present(14, c, ns), c.rtabmap, c.vision, Zenon DEF Present
<1>3. PICK n \in ns : n.needs = {} /\ SensorTopics(CameraArguments(c)) \subseteq n.pub
  BY DepthDevice
<1>4. /\ RgbdSync(CameraArguments(c)).needs = SensorTopics(CameraArguments(c))
      /\ RgbdSync(CameraArguments(c)).pub = {RgbdImage}
  BY DEF RgbdSync, RosNode
<1>5. /\ DepthToScan(CameraArguments(c)).needs = DepthTopics(CameraArguments(c))
      /\ DepthToScan(CameraArguments(c)).pub = {Scan}
  BY DEF DepthToScan, RosNode
<1>6. DepthTopics(CameraArguments(c)) \subseteq SensorTopics(CameraArguments(c))
  BY DEF SensorTopics
<1>7. RgbdImage \in Produced(ns)
  BY <1>2, <1>3, <1>4, ChainProduces
<1>8. Scan \in Produced(ns)
  BY <1>2, <1>3, <1>5, <1>6, ChainProduces
<1> QED BY <1>7, <1>8

\* After the visits all that was asked for has been started.
LEMMA LaunchedFacts ==
  ASSUME LaunchInv, visited = 14
  PROVE  /\ Present(14, context, nodes) /\ Arguments(14, context)
         /\ context.use_gazebo \in BOOLEAN /\ context.vision \in BOOLEAN
BY RobotArguments DEF LaunchInv, WiringInv, PresentInv, ContextInv, RobotContext, RobotArgs

\* Odometry is wired in every state of the invariant.
LEMMA OdometryWiredHolds == LaunchInv => OdometryWired
<1> SUFFICES ASSUME LaunchInv, Launched PROVE
      /\ context.rtabmap /\ OdomFlags(context) # {} => SlamOdomTopic(context) = OdomReadyTopic(context)
      /\ Usable => {OdomReadyTopic(context), OdomTf} \subseteq Produced(nodes)
      /\ Usable /\ context.rtabmap /\ context.vision /\ HasDepthCamera => SlamInputs(context) \subseteq Produced(nodes)
  BY DEF OdometryWired
<1>1. /\ Present(14, context, nodes) /\ Arguments(14, context)
      /\ context.use_gazebo \in BOOLEAN /\ context.vision \in BOOLEAN
  BY LaunchedFacts, Order DEF Launched
<1>2. context.rtabmap /\ OdomFlags(context) # {} => SlamOdomTopic(context) = OdomReadyTopic(context)
  BY <1>1, SlamTopic
<1>3. ASSUME Usable PROVE {OdomReadyTopic(context), OdomTf} \subseteq Produced(nodes)
  <2>1. PICK n1, n2, n3 \in nodes : /\ n1.needs = {} /\ n2.needs \subseteq n1.pub /\ n3.needs \subseteq n2.pub
                                    /\ {OdomReadyTopic(context), OdomTf} \subseteq n3.pub
    BY <1>1, <1>3, UsableOneFlag, OdometryChain
  <2>2. n1.needs \subseteq n1.pub
    BY <2>1
  <2> QED BY <2>1, <2>2, ChainProduces
<1>4. ASSUME Usable, context.rtabmap, context.vision, HasDepthCamera
      PROVE  SlamInputs(context) \subseteq Produced(nodes)
  <2>1. {RgbdImage, Scan} \subseteq Produced(nodes)
    BY <1>1, <1>4, SlamProduces DEF HasDepthCamera
  <2>2. OdomFlags(context) # {}
    BY <1>4, UsableOneFlag DEF OdomFlags, OdometryFlags
  <2> QED BY <1>2, <1>3, <1>4, <2>1, <2>2 DEF SlamInputs
<1> QED BY <1>2, <1>3, <1>4

\* PX4 and the monitor are fed in every state of the invariant.
LEMMA Px4FedHolds == LaunchInv => Px4Fed
<1> SUFFICES ASSUME LaunchInv PROVE Px4Fed
  OBVIOUS
<1>1. IInv /\ WiringInv
  BY DEF LaunchInv
<1>2. ASSUME Usable, "px4_vehicle_odometry" \in Names
      PROVE  Cardinality(Publishers(VisionInput)) = 1 /\ VisionInput \in Produced(nodes)
  <2>1. PICK n \in nodes : VisionInput \in n.pub
    BY <1>1, <1>2, SessionBridge
  <2>2. Publishers(VisionInput) = {n}
    BY <1>1, <2>1, SessionBridge DEF Publishers
  <2>3. n.needs = {OdomReadyTopic(context)}
    BY <1>1, <2>1, SessionBridge
  <2>4. visited = 14
    BY <1>1, <2>1 DEF WiringInv, Px4Inv
  <2>5. Present(14, context, nodes)
    BY <2>4, LaunchedFacts
  <2>6. PICK n1, n2, n3 \in nodes : /\ n1.needs = {} /\ n2.needs \subseteq n1.pub /\ n3.needs \subseteq n2.pub
                                    /\ {OdomReadyTopic(context), OdomTf} \subseteq n3.pub
    BY <1>2, <2>5, UsableOneFlag, OdometryChain
  <2>7. VisionInput \in Produced(nodes)
    BY <2>1, <2>3, <2>6, ChainProduces
  <2> QED BY <2>2, <2>7, FS_Singleton
<1>3. ASSUME Launched, context.rover_monitor, ~context.use_gazebo, HasDepthCamera
      PROVE  DepthProbeTopics(context) \subseteq Produced(nodes)
  <2>1. Present(14, context, nodes) /\ context.use_gazebo \in BOOLEAN
    BY <1>3, LaunchedFacts, Order DEF Launched
  <2>2. PICK n \in nodes : n.needs = {} /\ DepthProbeTopics(context) \subseteq n.pub
    BY <1>3, <2>1, DepthDevice DEF HasDepthCamera
  <2>3. n.needs \subseteq n.pub
    BY <2>2
  <2> QED BY <2>2, <2>3, ChainProduces
<1> QED BY <1>2, <1>3 DEF Px4Fed

\* For every combination of arguments with at most one odometry source, joint states,
\* velocity, odometry, PX4's vision input and the two transforms have one publisher,
\* from the first entity that is visited to Ctrl-C, and the transform to odom one owner;
\* the operator's e-stop and drive commands are a second one of the velocity.
THEOREM OwnersAreUnique == Spec => []OneOwner
<1>1. LaunchInv => OneOwner
  BY OneOwnerHolds DEF LaunchInv
<1> QED BY <1>1, LaunchInvariance, PTL

\* For every combination of arguments, RTAB-Map listens to the odometry the gate waits
\* for; with one usable source it is produced from a device on, and so is all that
\* RTAB-Map synchronizes on.
THEOREM OdometryIsWired == Spec => []OdometryWired
BY OdometryWiredHolds, LaunchInvariance, PTL

\* For every combination of arguments, the servers Nav2 manages are those it starts,
\* what is planned gets to cmd_vel through the collision monitor only, and they agree
\* on reversing.
THEOREM NavIsWired == Spec => []NavWired
BY NavWiredHolds, LaunchInvariance, PTL

\* For every session, the bridge to PX4 that is started feeds its vision input once, from
\* the odometry in use, and the depth probe watches the camera that was started.
THEOREM Px4IsFed == Spec => []Px4Fed
BY Px4FedHolds, LaunchInvariance, PTL

=============================================================================
