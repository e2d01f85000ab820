---------------------------- MODULE SlamLaunch ------------------------------
(* rtabmap_slam.launch.py, with the arguments robot_bringup gives it. *)
EXTENDS LaunchArgs

\* The camera topics follow the depth camera and the source of its images.
CameraArguments(c) ==
    LET stream(real, simulated) == <<c.depth_camera, IF c.use_gazebo THEN simulated ELSE real>>
    IN [rgb_image_topic |-> stream("color/image_raw", "image"),
        rgb_camera_info_topic |-> stream("color/camera_info", "camera_info"),
        depth_image_topic |-> stream("aligned_depth_to_color/image_raw", "depth_image"),
        depth_camera_info_topic |-> stream("aligned_depth_to_color/camera_info", "camera_info"),
        imu_raw_topic |-> stream("imu", "imu/raw")]

\* Its further arguments: vision, localization, delete_db_on_start, rtabmap_viz
\* and the odometry flags are in the context already.
SlamArguments(c) == CameraArguments(c)

SlamOwnDefaults ==
    [t265_odom_topic |-> <<"t265", "odom_base">>, vins_odom_topic |-> Global("vins_odom"),
     cuvslam_odom_topic |-> Global("cuvslam_odom"),
     cuvslam_rgbd_odom_topic |-> Global("cuvslam_rgbd_odom")]

SlamModeDefaults == [enable_odom_relay |-> FALSE, rtabmap_udebug |-> FALSE]

\* odom_topic.  It is computed in Python and does not enter the context, where
\* an estimator's file has left its own odom_topic.
SlamOdomTopic(c) ==
    IF c.use_cuvslam_odom THEN c.cuvslam_odom_topic
    ELSE IF c.use_rgbd_odom THEN c.cuvslam_rgbd_odom_topic
    ELSE IF c.use_vins_odom THEN c.vins_odom_topic
    ELSE IF c.use_t265_odom THEN c.t265_odom_topic
    ELSE IF c.vision THEN Global("vo_odom") ELSE Global("icp_odom")

-----------------------------------------------------------------------------
(* The nodes that are added. *)

ColorTopics(c) == {c.rgb_image_topic, c.rgb_camera_info_topic}
DepthTopics(c) == {c.depth_image_topic, c.depth_camera_info_topic}
SensorTopics(c) == ColorTopics(c) \cup DepthTopics(c)

RgbdImage == Global("rgbd_image")
Scan == Global("scan")

RgbdSync(c) == RosNode("slam", "rgbd_sync", SensorTopics(c), {RgbdImage})

DepthToScan(c) == RosNode("slam", "rgbd_to_scan", DepthTopics(c), {Scan})

\* subscribe_rgbd, subscribe_scan and subscribe_odom are all true.
SlamInputs(c) == {RgbdImage, Scan, SlamOdomTopic(c)}

\* An rtabmap process; its name tells its memory mode and its options.
Rtabmap(c, name) == RosNode("slam", name, SlamInputs(c), {Global("map"), <<"tf", "map->odom">>})

Wipers == {"rtabmap_wipe", "rtabmap_wipe_udebug"}
Mappers == {"rtabmap", "rtabmap_udebug"} \cup Wipers

SlamMappingKeep(c) == ~c.localization /\ ~c.delete_db_on_start

\* Faulty variant: the wipe is not switched off in localization mode.
SlamMappingWipeAlways(c) == c.delete_db_on_start

SlamMappingWipe(c) == ~c.localization /\ c.delete_db_on_start

SlamVariants(c) ==
    Only(SlamMappingKeep(c) /\ ~c.rtabmap_udebug, Rtabmap(c, "rtabmap"))
        \cup Only(SlamMappingKeep(c) /\ c.rtabmap_udebug, Rtabmap(c, "rtabmap_udebug"))
        \cup Only(SlamMappingWipe(c) /\ ~c.rtabmap_udebug, Rtabmap(c, "rtabmap_wipe"))
        \cup Only(SlamMappingWipe(c) /\ c.rtabmap_udebug, Rtabmap(c, "rtabmap_wipe_udebug"))

LocalizationNode(c) == Only(c.localization, Rtabmap(c, "rtabmap_localization"))

RgbdToPoints(c) == RosNode("slam", "point_cloud_xyz", DepthTopics(c), {<<"camera", "cloud">>})

\* Its input is not remapped to the cloud that RgbdToPoints publishes.
ObstacleDetection ==
    RosNode("slam", "obstacles_detection", {Global("cloud")},
            {<<"camera", "obstacles">>, <<"camera", "ground">>})

RtabmapViz(c) == RosNode("slam", "rtabmap_viz", SlamInputs(c), {})

SlamNodes(c) ==
    {RgbdSync(c), RgbdToPoints(c), ObstacleDetection}
        \cup Only(c.vision, DepthToScan(c))
        \cup SlamVariants(c)
        \cup LocalizationNode(c)
        \cup Only(c.rtabmap_viz, RtabmapViz(c))

-----------------------------------------------------------------------------
(* The nodes that are written down and not added: RTAB-Map's own odometry, the
   IMU filter it initializes from, the EKF, and a relay. *)

ImuTransform(c) == RosNode("slam", "imu_transformer", {c.imu_raw_topic}, {<<"imu", "raw_transformed">>})
ImuFilter == RosNode("slam", "imu_filter_madgwick", {<<"imu", "raw_transformed">>}, {<<"imu", "data">>})

\* wait_imu_to_init.
VisualOdom(c) ==
    RosNode("slam", "rgbd_odometry",
            SensorTopics(c) \cup (IF c.use_cuvslam_odom \/ c.use_vins_odom \/ c.use_t265_odom
                                  THEN {} ELSE {<<"imu", "data">>}),
            {Global("vo_odom")})

IcpOdom == RosNode("slam", "icp_odometry", {Scan}, {Global("icp_odom")})

\* It owns the transform unless an external source does.
EkfFilter(c) ==
    RosNode("slam", "ekf_filter_node", {SlamOdomTopic(c)},
            {<<"odometry", "filtered">>} \cup IF OdomFlags(c) = {} THEN {OdomTf} ELSE {})

SlamRelay(c) ==
    RosNode("slam", "odom_tf_relay", {<<"t265", "odom">>},
            {<<"t265", "odom_base">>} \cup IF c.use_t265_odom THEN {OdomTf} ELSE {})

NodesNotAdded(c) ==
    {ImuTransform(c), ImuFilter, EkfFilter(c)}
        \cup Only(c.vision, VisualOdom(c))
        \cup Only(~c.vision, IcpOdom)
        \cup Only(c.enable_odom_relay, SlamRelay(c))

=============================================================================
