----------------------------- MODULE MCBringup ------------------------------
(* The sessions that are checked: every combination of odometry flags on every
   platform, the modes of RTAB-Map, the variants of Nav2, PX4 and the monitor. *)
EXTENDS Bringup, TLC

NoPx4 == {}
Robot(platform, flags, rest) == platform @@ flags @@ rest

Flags == {[use_t265_odom |-> t, use_vins_odom |-> v, use_cuvslam_odom |-> s, use_rgbd_odom |-> r] :
            t, v, s, r \in BOOLEAN}
T265Only == [use_t265_odom |-> TRUE]

Simulated == {[use_gazebo |-> TRUE, depth_camera |-> d, enable_px4_sitl |-> p] :
                d \in {"l515", "d435i"}, p \in BOOLEAN}
Hardware == {[use_gazebo |-> FALSE, depth_camera |-> d, hw_enable_t265 |-> t] :
               d \in {"l515", "d435i"}, t \in BOOLEAN}

OdometrySessions ==
  {[robot |-> Robot(p, f, [rtabmap |-> n, nav2 |-> n, rviz |-> FALSE]), px4 |-> NoPx4] :
     p \in Simulated \cup Hardware, f \in Flags, n \in BOOLEAN}

SlamSessions ==
  {[robot |-> Robot([use_gazebo |-> FALSE, rviz |-> FALSE], T265Only,
                    [rtabmap |-> TRUE, localization |-> l, delete_db_on_start |-> d,
                     rtabmap_udebug |-> u, vision |-> v, rtabmap_viz |-> v]), px4 |-> NoPx4] :
     l, d, u, v \in BOOLEAN}

NavSessions ==
  {[robot |-> Robot([use_gazebo |-> g], [use_t265_odom |-> g, use_cuvslam_odom |-> ~g],
                    [nav2 |-> TRUE, rtabmap |-> r, rover_monitor |-> r]), px4 |-> NoPx4] :
     g, r \in BOOLEAN}
  \cup {[robot |-> [use_t265_odom |-> TRUE, nav2 |-> TRUE, nav2_controller |-> c,
                     nav2_params_file |-> f, reversible_drive |-> TRUE, rviz |-> FALSE], px4 |-> NoPx4] :
           c \in {"mppi", "rpp"}, f \in {"nav2_params.yaml", "nav2_params_rpp.yaml", ""}}
  \cup {[robot |-> [nav2 |-> TRUE, use_composition |-> TRUE], px4 |-> NoPx4]}

\* What start_ros2_nodes.sh passes: the odometry topic follows the same flags.
Px4Sessions ==
  {[robot |-> [use_gazebo |-> FALSE, depth_camera |-> d, rviz |-> FALSE, rover_monitor |-> TRUE] @@ f,
    px4 |-> {[enable_vo_bridge |-> TRUE, odometry_transport |-> t, mode_type |-> m,
              odom_topic |-> OdomReadyTopic(f @@ RobotDefaults)]}] :
     d \in {"l515", "d435i"}, t \in {"xrce", "mavlink"}, m \in {{"all"}, {"trajectory"}, {"manual", "speed_rate"}},
     f \in {T265Only, [use_rgbd_odom |-> TRUE], [use_cuvslam_odom |-> TRUE]}}

\* Without a depth camera, as the script chooses if only odometry is asked for; PX4
\* with its rover mode alone.
NoCameraSessions ==
  {[robot |-> [use_gazebo |-> g, depth_camera |-> "none", rover_monitor |-> ~g, rtabmap |-> r,
               rviz |-> FALSE] @@ f,
    px4 |-> {[enable_vo_bridge |-> FALSE, enable_vehicle_odometry |-> FALSE, mode_type |-> {"manual"},
              odom_topic |-> OdomReadyTopic(f @@ RobotDefaults)]}] :
     g, r \in BOOLEAN, f \in {T265Only, [use_vins_odom |-> TRUE], [use_cuvslam_odom |-> TRUE]}}

MCSessions == OdometrySessions \cup SlamSessions \cup NavSessions \cup Px4Sessions \cup NoCameraSessions

=============================================================================
