------------------------------ MODULE Bringup -------------------------------
(***************************************************************************)
(* robot_bringup.launch.py as a process: it visits its entities in order,  *)
(* every include changing the context the next ones see, and then reacts   *)
(* to the exit of processes and to timers.  Sessions follow one another on *)
(* the same RTAB-Map database; px4_bringup.launch.py is started next to    *)
(* each, as start_ros2_nodes.sh does.                                      *)
(*                                                                         *)
(* Time is counted in ticks.  Every timer is a countdown that holds time   *)
(* back once it has run out.                                               *)
(***************************************************************************)
EXTENDS OdometryLaunch, SlamLaunch, NavLaunch, Px4Launch, Integers, Sequences, FiniteSets

CONSTANTS
  Sessions,     \* what the operator may ask for: arguments of the two launches
  StageTicks,   \* `timeout 60' of a stage of the readiness gate
  SettleTicks,  \* `sleep 3' before Nav2
  ResetTicks,   \* the longest reset and re-enumeration of a T265
  DelayTicks,   \* 20 s, the startup delay of a depth camera next to a T265
  RvizTicks     \* 5 s, the period of rviz_delayed

ASSUME BringupAssumption ==
  /\ StageTicks \in Nat /\ SettleTicks \in Nat /\ RvizTicks \in Nat
  /\ ResetTicks \in Nat /\ DelayTicks \in Nat

\* The operator sets arguments of robot_bringup.launch.py and two more, but none that
\* wires an included file: the switches are true or false, and the two arguments of
\* the bridge to PX4 are one flag of start_ros2_nodes.sh, whose odometry topic
\* follows the odometry flags (an explicit --odom-topic, which overrides it, is the
\* operator's own wiring and left out).
ASSUME SessionAssumption ==
  \A s \in Sessions :
    /\ DOMAIN s.robot \subseteq DOMAIN RobotDefaults \cup {"rtabmap_udebug", "use_composition"}
    /\ \A a \in Switches \cap DOMAIN s.robot : s.robot[a] \in BOOLEAN
    /\ "depth_camera" \in DOMAIN s.robot => s.robot.depth_camera \in DepthCameras \cup {"none"}
    /\ \A p, q \in s.px4 : p = q
    /\ \A p \in s.px4 :
         LET arguments == Declare(p, Px4Defaults) IN
         /\ arguments.odom_topic = OdomReadyTopic(Declare(s.robot, RobotDefaults))
         /\ arguments.enable_vehicle_odometry = arguments.enable_vo_bridge
         /\ arguments.odometry_transport \in {"xrce", "mavlink"}

VARIABLES
  asked,     \* the session that runs, {} between sessions
  context,   \* the launch configurations
  visited,   \* how many entities have been visited
  nodes,     \* the nodes that run
  t265,      \* the T265: off, resetting or streaming
  depth,     \* the depth camera: off, delayed or streaming
  gate,      \* wait_for_rtabmap: off, topics, odom, settle or passed
  waited,    \* ghost: ticks since wait_for_rtabmap was started
  odomFlows, \* messages arrive on the topic the gate listens to
  listed,    \* ros2 topic list shows /rtabmap/info
  timer,     \* the countdowns
  database   \* rover.db: empty or mapped

devices == <<t265, depth>>
readiness == <<gate, waited>>
vars == <<asked, context, visited, nodes, devices, readiness, odomFlows, listed, timer, database>>

-----------------------------------------------------------------------------
(* The entities, in the order of ld.add_action. *)

Entities == <<"gazebo", "hw_joint_state_publisher", "hw_robot_state_publisher", "hw_cameras",
              "t265_sim_camera_info", "sim_t265_odom_relay", "vins", "cuvslam", "cuvslam_rgbd",
              "rtabmap", "wait_for_rtabmap", "nav2_delayed", "rviz_delayed", "rover_monitor">>

\* The context an entity leaves behind.
ContextAfter(e, c) ==
  CASE e = "gazebo" /\ c.use_gazebo ->
         Declare(Include(GazeboArguments(c), c), GazeboDefaults)
    [] e = "hw_cameras" /\ ~c.use_gazebo ->
         Declare(Include(RealsenseArguments(c), c), RealsenseDefaults)
    [] e = "vins" /\ c.use_vins_odom -> Declare(c, VinsDefaults)
    [] e = "cuvslam" /\ c.use_cuvslam_odom -> Declare(c, CuvslamDefaults)
    [] e = "cuvslam_rgbd" /\ c.use_rgbd_odom -> Declare(c, CuvslamRgbdDefaults)
    [] e = "rtabmap" /\ c.rtabmap ->
         Declare(Include(SlamArguments(c), c), Declare(SlamOwnDefaults, SlamModeDefaults))
    [] e = "rover_monitor" /\ c.rover_monitor -> Declare(c, MonitorDefaults)
    [] OTHER -> c

\* The nodes an entity starts, c being the context it leaves behind.
NodesOf(e, c) ==
  CASE e = "gazebo" /\ c.use_gazebo -> GazeboNodes(c)
    [] e = "hw_joint_state_publisher" /\ ~c.use_gazebo -> {JointRelay}
    [] e = "hw_robot_state_publisher" /\ ~c.use_gazebo -> {StatePublisher}
    [] e = "hw_cameras" /\ ~c.use_gazebo -> RealsenseNodes(c)
    [] e = "t265_sim_camera_info" -> SimCameraInfo(c)
    [] e = "sim_t265_odom_relay" -> SimT265Relay(c)
    [] e = "vins" /\ c.use_vins_odom -> {VinsNode(c), VinsRelay(c)}
    [] e = "cuvslam" /\ c.use_cuvslam_odom -> {CuvslamNode(c), CuvslamRelay(c)}
    [] e = "cuvslam_rgbd" /\ c.use_rgbd_odom -> {CuvslamRgbdNode(c), CuvslamRgbdRelay(c)}
    [] e = "rtabmap" /\ c.rtabmap -> SlamNodes(c)
    [] e = "rover_monitor" /\ c.rover_monitor -> MonitorNodes(c)
    [] OTHER -> {}

Running == asked # {}
Launched == Running /\ visited = Len(Entities)
Names == {n.name : n \in nodes}
Publishers(topic) == {n \in nodes : topic \in n.pub}

\* What a set of nodes publishes when the topics are there.
PublishedWith(ns, topics) == UNION {n.pub : n \in {m \in ns : m.needs \subseteq topics}}

\* What a set of nodes produces: a node publishes once all it needs is there.
\* No path from a device to a consumer is longer than 8 nodes.
Produced(ns) ==
  LET after[i \in 0..8] == IF i = 0 THEN {} ELSE LET there == after[i - 1] IN PublishedWith(ns, there)
  IN  after[8]

\* The nodes without the cameras that have not started to stream.
Streaming ==
  {n \in nodes : /\ n.file = "realsense" /\ n.name = "t265" => t265 = "streaming"
                 /\ n.file = "realsense" /\ n.name \in {"d435i", "l515"} => depth = "streaming"}

-----------------------------------------------------------------------------
(* A session. *)

NoTimer == [reset |-> 0, delay |-> 0, gate |-> 0, rviz |-> 0]

Idle ==
  /\ asked' = {} /\ context' = RobotDefaults /\ visited' = 0 /\ nodes' = {}
  /\ t265' = "off" /\ depth' = "off" /\ gate' = "off" /\ waited' = 0
  /\ odomFlows' = FALSE /\ listed' = FALSE /\ timer' = NoTimer

Init ==
  /\ asked = {} /\ context = RobotDefaults /\ visited = 0 /\ nodes = {}
  /\ t265 = "off" /\ depth = "off" /\ gate = "off" /\ waited = 0
  /\ odomFlows = FALSE /\ listed = FALSE /\ timer = NoTimer
  /\ database = "empty"

Launch(s) ==
  /\ ~Running
  /\ asked' = {s}
  /\ context' = Declare(s.robot, RobotDefaults)
  /\ UNCHANGED <<visited, nodes, devices, readiness, odomFlows, listed, timer, database>>

\* Ctrl-C: all nodes end, the database stays.
Stop ==
  /\ Running
  /\ Idle
  /\ UNCHANGED database

-----------------------------------------------------------------------------
(* Visiting the entities. *)

NextIs(e) == Running /\ visited < Len(Entities) /\ Entities[visited + 1] = e

VisitNodes(e) ==
  /\ NextIs(e)
  /\ visited' = visited + 1
  /\ context' = ContextAfter(e, context)
  /\ nodes' = nodes \cup NodesOf(e, ContextAfter(e, context))
  /\ UNCHANGED <<asked, odomFlows, listed>>

VisitEntity ==
  /\ \E e \in {Entities[i] : i \in 1..Len(Entities)}
         \ {"hw_cameras", "rtabmap", "wait_for_rtabmap", "rviz_delayed"} : VisitNodes(e)
  /\ UNCHANGED <<devices, readiness, timer, database>>

Delayed(c) == IF c.depth_camera = "d435i" THEN c.d435i_delayed ELSE c.l515_delayed

\* t265_enable_hardware_reset is true.
VisitCameras ==
  /\ VisitNodes("hw_cameras")
  /\ IF context.use_gazebo
     THEN UNCHANGED <<devices, timer>>
     ELSE /\ t265' = IF context'.enable_t265 THEN "resetting" ELSE "off"
          /\ depth' = IF Delayed(context') THEN "delayed" ELSE "streaming"
          /\ timer' = [timer EXCEPT !.reset = IF context'.enable_t265 THEN ResetTicks ELSE 0,
                                    !.delay = IF Delayed(context') THEN DelayTicks ELSE 0]
  /\ UNCHANGED <<readiness, database>>

\* An rtabmap with -d deletes the database when it comes up.
VisitRtabmap ==
  /\ VisitNodes("rtabmap")
  /\ database' = IF \E n \in nodes' : n.name \in Wipers THEN "empty" ELSE database
  /\ UNCHANGED <<devices, readiness, timer>>

VisitGate ==
  /\ VisitNodes("wait_for_rtabmap")
  /\ IF context.nav2
     THEN /\ gate' = IF context.rtabmap THEN "topics" ELSE "odom"
          /\ timer' = [timer EXCEPT !.gate = StageTicks]
     ELSE UNCHANGED <<gate, timer>>
  /\ UNCHANGED <<devices, waited, database>>

VisitRviz ==
  /\ VisitNodes("rviz_delayed")
  /\ timer' = [timer EXCEPT !.rviz = RvizTicks]
  /\ UNCHANGED <<devices, readiness, database>>

-----------------------------------------------------------------------------
(* After the visit: exits, timers, devices. *)

OnlyNodes == UNCHANGED <<asked, context, visited, devices, readiness, odomFlows, listed, timer, database>>

\* ros2_controller_callback: the spawner of the broadcaster, unless PX4 SITL
\* drives the joints.
SpawnExits ==
  /\ Launched /\ SpawnEntity \in nodes
  /\ nodes' = (nodes \ {SpawnEntity})
                \cup Only(~context.enable_px4_sitl, RosNode("controller", "spawner", {}, {}))
  /\ OnlyNodes

\* ackermann_controller_callback: it does not look at the exit code.
SpawnerExits ==
  /\ Launched /\ "spawner" \in Names
  /\ \E broadcaster \in {{}, {JointBroadcaster}} :
       nodes' = {n \in nodes : n.name # "spawner"} \cup broadcaster \cup {AckermannController}
  /\ OnlyNodes

RvizStarts ==
  /\ Launched /\ timer.rviz = 0 /\ context.rviz /\ "rviz2" \notin Names
  /\ nodes' = nodes \cup {RosNode("robot", "rviz2", {}, {})}
  /\ OnlyNodes

\* start_ros2_nodes.sh starts px4_bringup next to robot_bringup.
Px4Starts ==
  /\ Launched
  /\ \E s \in asked : /\ s.px4 # {}
                      /\ \E p \in s.px4 : nodes' = nodes \cup Px4Nodes(Declare(p, Px4Defaults))
  /\ nodes' # nodes
  /\ OnlyNodes

\* It re-enumerates at the latest when its timer runs out.
ResetEnds ==
  /\ Launched /\ t265 = "resetting"
  /\ t265' = "streaming"
  /\ timer' = [timer EXCEPT !.reset = 0]
  /\ UNCHANGED <<asked, context, visited, nodes, depth, readiness, odomFlows, listed, database>>

DelayEnds ==
  /\ Launched /\ depth = "delayed" /\ timer.delay = 0
  /\ depth' = "streaming"
  /\ UNCHANGED <<asked, context, visited, nodes, t265, readiness, odomFlows, listed, timer, database>>

\* An estimator takes its time, or never starts.
OdometryStarts ==
  /\ Launched /\ ~odomFlows
  /\ OdomReadyTopic(context) \in Produced(Streaming)
  /\ odomFlows' = TRUE
  /\ UNCHANGED <<asked, context, visited, nodes, devices, readiness, listed, timer, database>>

\* Not by this launch, whose rtabmap runs in the root namespace.
InfoListed ==
  /\ Launched /\ ~listed
  /\ listed' = TRUE
  /\ UNCHANGED <<asked, context, visited, nodes, devices, readiness, odomFlows, timer, database>>

\* RTAB-Map adds a node to the map; in localization mode it does not.
MapGrows ==
  /\ Launched /\ odomFlows /\ Names \cap Mappers # {}
  /\ database' = "mapped"
  /\ UNCHANGED <<asked, context, visited, nodes, devices, readiness, odomFlows, listed, timer>>

-----------------------------------------------------------------------------
(* wait_for_rtabmap and nav2_delayed. *)

EnterStage(stage, ticks) ==
  /\ gate' = stage
  /\ timer' = [timer EXCEPT !.gate = ticks]
  /\ UNCHANGED <<asked, context, visited, nodes, devices, waited, odomFlows, listed, database>>

TopicsStageEnds == Launched /\ gate = "topics" /\ (listed \/ timer.gate = 0) /\ EnterStage("odom", StageTicks)

\* Faulty variant: no timeout on odometry.
OdomStageEndsHeard == Launched /\ gate = "odom" /\ odomFlows /\ EnterStage("settle", SettleTicks)

\* Faulty variant: once the topics are there odometry is taken for granted.
OdomStageEndsUnheard ==
  Launched /\ gate = "odom" /\ (odomFlows \/ listed \/ timer.gate = 0) /\ EnterStage("settle", SettleTicks)

OdomStageEnds == Launched /\ gate = "odom" /\ (odomFlows \/ timer.gate = 0) /\ EnterStage("settle", SettleTicks)

\* The process exits, and nav2_launch is visited.
GateExits ==
  /\ Launched /\ gate = "settle" /\ timer.gate = 0
  /\ gate' = "passed"
  /\ context' = Declare(Include(NavArguments(context), context), Declare(NavOwnDefaults, NavModeDefaults))
  /\ nodes' = nodes \cup NavNodes(context')
  /\ UNCHANGED <<asked, visited, devices, waited, odomFlows, listed, timer, database>>

\* Faulty variant: a timer goes on below 0.
LessUnbounded(n) == n - 1

Less(n) == IF n = 0 THEN 0 ELSE n - 1

\* Time does not pass a timer that has run out, nor a visit that is under way.
Tick ==
  /\ Launched
  /\ timer # NoTimer
  /\ t265 = "resetting" => timer.reset > 0
  /\ depth = "delayed" => timer.delay > 0
  /\ gate \in {"topics", "odom", "settle"} => timer.gate > 0
  /\ timer' = [k \in DOMAIN timer |-> Less(timer[k])]
  /\ waited' = IF gate \in {"topics", "odom", "settle"} THEN waited + 1 ELSE waited
  /\ UNCHANGED <<asked, context, visited, nodes, devices, gate, odomFlows, listed, database>>

-----------------------------------------------------------------------------
Visit == VisitEntity \/ VisitCameras \/ VisitRtabmap \/ VisitGate \/ VisitRviz
NodeSteps == SpawnExits \/ SpawnerExits \/ RvizStarts \/ Px4Starts
Environment == ResetEnds \/ DelayEnds \/ OdometryStarts \/ InfoListed \/ MapGrows
GateSteps == TopicsStageEnds \/ OdomStageEnds \/ GateExits

Next ==
  \/ \E s \in Sessions : Launch(s)
  \/ Stop
  \/ Visit
  \/ NodeSteps
  \/ Environment
  \/ GateSteps
  \/ Tick

Spec == Init /\ [][Next]_vars

\* The launch service handles its events, devices whose time has come go on, and
\* time passes.
FairSpec ==
  /\ Spec
  /\ WF_vars(Visit) /\ WF_vars(GateSteps) /\ WF_vars(ResetEnds) /\ WF_vars(DelayEnds)
  /\ WF_vars(Tick)

-----------------------------------------------------------------------------
(* Properties.  The launch files leave combinations of odometry flags to the    *)
(* operator; most of what they promise is meant for at most one.                *)

OneSource == Cardinality(OdomFlags(context)) <= 1

\* Whose cameras exist: cuVSLAM RGB-D listens to a real D435i.
Usable ==
  /\ Cardinality(OdomFlags(context)) = 1
  /\ context.use_rgbd_odom => ~context.use_gazebo /\ context.depth_camera = "d435i"

HasDepthCamera == context.depth_camera \in DepthCameras

\* What must have one publisher: joint states, velocity, odometry, PX4's vision
\* input, odom -> base_link and map -> odom (so that at most one rtabmap runs).
Owned == {Global("joint_states"), Global("cmd_vel"), NavOdom, VisionInput, OdomTf, <<"tf", "map->odom">>}

\* Not counted is the node through which the operator drives and stops the rover, a
\* publisher of cmd_vel of its own, past the collision monitor.
AutonomousPublishers(topic) == Publishers(topic) \ {Telemetry}

NavUp == "bt_navigator" \in Names

\* The devices, the stages of the gate and the database are the ones the launch
\* files know, and no timer runs past its end.
TypeOK ==
  /\ asked \in {{}} \cup {{s} : s \in Sessions}
  /\ visited \in 0..Len(Entities)
  /\ t265 \in {"off", "resetting", "streaming"}
  /\ depth \in {"off", "delayed", "streaming"}
  /\ gate \in {"off", "topics", "odom", "settle", "passed"}
  /\ waited \in Nat
  /\ timer \in [{"reset", "delay", "gate", "rviz"} -> Nat]
  /\ odomFlows \in BOOLEAN /\ listed \in BOOLEAN
  /\ database \in {"empty", "mapped"}

\* With at most one odometry flag no topic and no transform edge of the control and
\* odometry contract has two publishers, whatever simulation, cameras and PX4 are
\* combined, but for the operator's way to cmd_vel through the monitor; and were the EKF, RTAB-Map's own odometry and the relay added again,
\* odom -> base_link would still have exactly one owner, external or the EKF.
OneOwner ==
  OneSource =>
    /\ \A topic \in Owned \cup {OdomReadyTopic(context)} : Cardinality(AutonomousPublishers(topic)) <= 1
    /\ Launched /\ context.rtabmap =>
         Cardinality({n \in nodes \cup NodesNotAdded(context) : OdomTf \in n.pub}) = 1

\* The topic whose readiness is waited for is the one RTAB-Map consumes, for every
\* combination of flags; with one usable flag it is produced from a camera on, and
\* so are the transform and, with a depth camera, all that RTAB-Map synchronizes on:
\* the RGB-D image and the scan made from its depth.
OdometryWired ==
  Launched =>
    /\ context.rtabmap /\ OdomFlags(context) # {} => SlamOdomTopic(context) = OdomReadyTopic(context)
    /\ Usable => {OdomReadyTopic(context), OdomTf} \subseteq Produced(nodes)
    /\ Usable /\ context.rtabmap /\ context.vision /\ HasDepthCamera => SlamInputs(context) \subseteq Produced(nodes)

\* The map survives every sequence of sessions until one is asked to map and to
\* wipe: a localization session never deletes the database it loads.
MapKept ==
  [][database = "mapped" /\ database' # "mapped" =>
       context'.delete_db_on_start /\ ~context'.localization]_vars

\* If every T265 re-enumerates within the startup delay, the pipeline of a depth
\* camera never starts while one does.
DepthAfterReset == ResetTicks < DelayTicks => ~(t265 = "resetting" /\ depth = "streaming")

\* Nav2 comes up only after odometry has been heard, or the whole stage has been
\* waited out for it; and the gate never holds it longer than two stages.
NavAfterOdometry ==
  /\ NavUp => odomFlows \/ waited >= StageTicks + SettleTicks
  /\ waited <= 2 * StageTicks + SettleTicks

\* The servers the lifecycle manager waits for are those started; what is planned
\* gets to cmd_vel through the smoother and the collision monitor only, and with a
\* T265 behind it, it does; planner, controller and smoother agree on going backwards,
\* if the parameter file is one for the controller.
NavWired ==
  NavUp =>
    /\ {n.name : n \in {m \in nodes : m.file = "nav2"}} = LifecycleNodes \cup {LifecycleManager.name}
    /\ \A n \in AutonomousPublishers(CmdVel) : n.needs = {CmdVelSmoothed}
    /\ (ParamsFile(context) = "nav2_params_rpp.yaml" => context.controller = "rpp") =>
         \A r \in DOMAIN Reverse(context) : Reverse(context)[r] = context.reversible_drive
    /\ {NavOdom, NavScan} \subseteq Produced(nodes) => CmdVel \in Produced(nodes \ {Telemetry})
    /\ (~context.use_gazebo /\ EnableT265(context)) \/ context.use_t265_odom => NavOdom \in Produced(nodes)

\* A bridge started next to the rover feeds PX4's vision input from the odometry
\* in use, through one transport; the depth probe of the monitor watches the camera
\* that was started, if one was, although its launch file is not told which one.
Px4Fed ==
  /\ Usable /\ "px4_vehicle_odometry" \in Names =>
       Cardinality(Publishers(VisionInput)) = 1 /\ VisionInput \in Produced(nodes)
  /\ Launched /\ context.rover_monitor /\ ~context.use_gazebo /\ HasDepthCamera =>
       DepthProbeTopics(context) \subseteq Produced(nodes)

\* Nav2, once asked for and not composed, comes up unless the session is stopped.
NavComes ==
  (Running /\ context.nav2 /\ "use_composition" \notin DOMAIN context) ~> (NavUp \/ ~Running)

=============================================================================
