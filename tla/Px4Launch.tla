----------------------------- MODULE Px4Launch ------------------------------
(* px4_bringup.launch.py, which is a launch of its own, started next to
   robot_bringup, and monitor.launch.py, which is included by it. *)
EXTENDS LaunchArgs

RoverModes == {"speed_steering", "speed_attitude", "speed_rate", "manual"}

\* mode_type as the set of names it lists; "all" stands for no restriction.
ModeArguments == [reversible_drive |-> FALSE, enable_mode_node |-> TRUE, mode_type |-> {"all"}]

VoArguments == [enable_vo_bridge |-> FALSE, odom_topic |-> <<"odometry", "filtered">>,
                odometry_transport |-> "xrce"]

VehicleOdometryArguments == [enable_vehicle_odometry |-> TRUE]

Px4Defaults == Declare(Declare(ModeArguments, VoArguments), VehicleOdometryArguments)

\* PX4's vision input.
VisionInput == <<"fmu", "in/vehicle_visual_odometry">>

\* Faulty variant: the XRCE bridge runs whatever the transport.
VoXrceAlways(p) ==
    Only(p.enable_vo_bridge, RosNode("px4", "px4_vision_odom", {p.odom_topic}, {VisionInput}))

VoXrce(p) ==
    Only(p.enable_vo_bridge /\ p.odometry_transport = "xrce",
         RosNode("px4", "px4_vision_odom", {p.odom_topic}, {VisionInput}))

VoMavlink(p) ==
    Only(p.enable_vo_bridge /\ p.odometry_transport = "mavlink",
         RosNode("px4", "px4_mavlink_vpe", {p.odom_topic}, {VisionInput}))

VehicleOdom(p) ==
    Only(p.enable_vehicle_odometry,
         RosNode("px4", "px4_vehicle_odometry", {}, {Global("px4_vehicle_odom")}))

Trajectory(p) ==
    Only(p.enable_mode_node /\ p.mode_type = {"trajectory"},
         RosNode("px4", "offboard_trajectory_mode", {}, {}))

RoverModeCondition(p, mode) ==
    p.enable_mode_node /\ (p.mode_type = {"all"} \/ mode \in p.mode_type)

RoverModeNodes(p) ==
    {RosNode("px4", m, {Global("cmd_vel")}, {}) : m \in {n \in RoverModes : RoverModeCondition(p, n)}}

Px4Nodes(p) == VoXrce(p) \cup VoMavlink(p) \cup VehicleOdom(p) \cup Trajectory(p) \cup RoverModeNodes(p)

-----------------------------------------------------------------------------
(* monitor.launch.py.  robot_bringup passes it use_sim_time only; the camera is
   the one the context has. *)

MonitorDefaults == [depth_camera |-> "d435i", enable_telemetry |-> TRUE,
                    tracking_camera |-> "t265", tracking_expect_stream |-> FALSE]

\* cam_topic_overrides without the IMU, which the L515 driver leaves off.
DepthProbeTopics(c) == Streams(c.depth_camera, {"color/image_raw", "depth/image_rect_raw"})

DepthProbe(c) ==
    RosNode("monitor", "cam_probe_depth",
            DepthProbeTopics(c) \cup {<<c.depth_camera, "imu">>}, {<<"monitor", "camera">>})

\* tracking_topic_overrides; images are only required with tracking_expect_stream.
TrackingProbe(c) ==
    RosNode("monitor", "cam_probe_tracking",
            Streams(c.tracking_camera, {"imu", "odom"} \cup
                IF c.tracking_expect_stream THEN {"fisheye1/image_raw"} ELSE {}),
            {<<"monitor", "camera">>})

MonitorCore == {RosNode("monitor", n, {}, {}) : n \in {"px4_probe", "jetson_probe", "monitor_aggregator"}}

\* It publishes on cmd_vel itself, for the operator's e-stop and drive commands.
Telemetry == RosNode("monitor", "telemetry_publisher", {}, {Global("cmd_vel")})

MonitorNodes(c) ==
    {DepthProbe(c)} \cup Only(c.tracking_camera # "", TrackingProbe(c)) \cup MonitorCore
        \cup Only(c.enable_telemetry, Telemetry)

=============================================================================
