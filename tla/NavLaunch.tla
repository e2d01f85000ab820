----------------------------- MODULE NavLaunch ------------------------------
(* nav2_bringup.launch.py, with the arguments robot_bringup gives it.  The path
   of a velocity is controller or behavior -> cmd_vel_nav -> smoother ->
   cmd_vel_smoothed -> collision monitor -> cmd_vel. *)
EXTENDS LaunchArgs

NavArguments(c) == [controller |-> c.nav2_controller, params_file |-> c.nav2_params_file]

NavOwnDefaults == [controller |-> "mppi", params_file |-> "", use_composition |-> FALSE,
                   container_name |-> "nav2_container"]

NavModeDefaults == [reversible_drive |-> FALSE, autostart |-> TRUE]

\* The controller argument decides only if no file is given; robot_bringup
\* always gives one.
ParamsFile(c) ==
    IF c.params_file # "" THEN c.params_file
    ELSE IF c.controller = "rpp" THEN "nav2_params_rpp.yaml" ELSE "nav2_params.yaml"

LifecycleNodes == {"controller_server", "planner_server", "behavior_server",
                   "velocity_smoother", "collision_monitor", "bt_navigator"}

\* remappings: odom is the T265's, whatever source was selected.
NavOdom == <<"t265", "odom_base">>

\* Scan and the three stages of a velocity.
NavScan == Global("scan")
CmdVelNav == Global("cmd_vel_nav")
CmdVelSmoothed == Global("cmd_vel_smoothed")
CmdVel == Global("cmd_vel")

\* Which servers may go backwards.  vx_min is rewritten wherever a file has it,
\* allow_reversing of the RPP file (false there) only if the controller argument
\* says so; min_velocity is given to the smoother directly.
Reverse(c) ==
    [planner |-> c.reversible_drive,
     controller |-> c.reversible_drive
                      /\ (ParamsFile(c) = "nav2_params_rpp.yaml" => c.controller = "rpp"),
     smoother |-> c.reversible_drive]

ControllerServer == RosNode("nav2", "controller_server", {NavOdom, NavScan}, {CmdVelNav})
PlannerServer == RosNode("nav2", "planner_server", {NavScan}, {Global("plan")})
BehaviorServer == RosNode("nav2", "behavior_server", {}, {CmdVelNav})
BtNavigator == RosNode("nav2", "bt_navigator", {NavOdom}, {})

\* Faulty variant: the smoother writes past the collision monitor.
VelocitySmootherDirect == RosNode("nav2", "velocity_smoother", {CmdVelNav}, {CmdVel})

VelocitySmoother == RosNode("nav2", "velocity_smoother", {CmdVelNav}, {CmdVelSmoothed})
CollisionMonitor == RosNode("nav2", "collision_monitor", {CmdVelSmoothed}, {CmdVel})

Servers == {ControllerServer, PlannerServer, BehaviorServer, BtNavigator, VelocitySmoother,
            CollisionMonitor}

LifecycleManager == RosNode("nav2", "lifecycle_manager_navigation", {}, {})

\* load_nodes.
LoadNodes == Servers \cup {LifecycleManager}

\* load_composable_nodes: components are loaded into a container that no launch
\* file starts, so none of them runs unless somebody else has started it.
LoadComposableNodes(containers, c) ==
    IF c.container_name \in containers THEN LoadNodes ELSE {}

NavNodes(c) ==
    IF c.use_composition THEN LoadComposableNodes({"monitor_container"}, c) ELSE LoadNodes

=============================================================================
