---------------------------- MODULE LaunchArgs ------------------------------
(* Launch arguments.  All files included by robot_bringup.launch.py share one
   context, a record of the arguments set so far: an include sets the arguments
   it passes and never unsets them, and a declaration gives an argument its
   default value only if nothing has set it before.  Arguments that only carry
   text into a node (spawn pose, tuning values, behavior trees, frames) are left
   out.  A topic is a pair of its namespace and its name. *)

\* IncludeLaunchDescription(..., launch_arguments=arguments).
Include(arguments, context) ==
    [a \in DOMAIN arguments \cup DOMAIN context |->
       IF a \in DOMAIN arguments THEN arguments[a] ELSE context[a]]

\* DeclareLaunchArgument(name, default_value).
Declare(context, defaults) == Include(context, defaults)

Global(name) == <<"/", name>>

Streams(device, names) == {device} \X names

\* A node: the file that starts it, its name, the topics it needs in order to
\* publish, and those it publishes.
RosNode(file, name, needs, pub) == [file |-> file, name |-> name, needs |-> needs, pub |-> pub]

Only(condition, node) == IF condition THEN {node} ELSE {}

\* The transform edge from odom to base_link is a resource with one owner, as a
\* topic is with its publisher.
OdomTf == <<"tf", "odom->ackermann/base_link">>

-----------------------------------------------------------------------------
(* The arguments of robot_bringup.launch.py. *)

SimDefaults == [use_gazebo |-> TRUE, vision |-> TRUE]

SlamDefaults == [localization |-> FALSE, delete_db_on_start |-> FALSE,
                 rtabmap |-> FALSE, rtabmap_viz |-> FALSE]

NavDefaults == [nav2 |-> FALSE, nav2_controller |-> "mppi",
                nav2_params_file |-> "nav2_params.yaml", rviz |-> TRUE,
                enable_px4_sitl |-> FALSE, reversible_drive |-> FALSE]

CameraDefaults == [depth_camera |-> "l515", hw_enable_t265 |-> FALSE,
                   use_t265_odom |-> FALSE, use_vins_odom |-> FALSE,
                   use_cuvslam_odom |-> FALSE, use_rgbd_odom |-> FALSE,
                   rover_monitor |-> FALSE]

\* The switches, whose choices are true and false, and the depth cameras there are;
\* start_ros2_nodes.sh knows "none" besides.
Switches == DOMAIN SimDefaults \cup DOMAIN SlamDefaults
              \cup {"nav2", "rviz", "enable_px4_sitl", "reversible_drive"}
              \cup (DOMAIN CameraDefaults \ {"depth_camera"})
DepthCameras == {"l515", "d435i"}

RobotDefaults == Declare(Declare(Declare(SimDefaults, SlamDefaults), NavDefaults), CameraDefaults)

\* The odometry sources selected by their flags.
OdomFlags(c) ==
    {f \in {"use_cuvslam_odom", "use_rgbd_odom", "use_vins_odom", "use_t265_odom"} : c[f]}

\* odom_ready_topic: the topic the readiness gate of Nav2 listens to.
OdomReadyTopic(c) ==
    IF c.use_cuvslam_odom THEN Global("cuvslam_odom")
    ELSE IF c.use_rgbd_odom THEN Global("cuvslam_rgbd_odom")
    ELSE IF c.use_vins_odom THEN Global("vins_odom")
    ELSE IF c.use_t265_odom THEN <<"t265", "odom_base">>
    ELSE <<"odometry", "filtered">>

\* enable_t265: it runs for its own odometry and for the two estimators it feeds.
EnableT265(c) ==
    c.hw_enable_t265 \/ c.use_t265_odom \/ c.use_vins_odom \/ c.use_cuvslam_odom

\* t265_enable_fisheye.
EnableFisheye(c) == c.use_vins_odom \/ c.use_cuvslam_odom

=============================================================================
