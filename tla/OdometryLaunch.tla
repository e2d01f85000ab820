-------------------------- MODULE OdometryLaunch ----------------------------
(* The visual-inertial estimators and the relays that turn their odometry into
   the rover's: vins_fusion.launch.py, cuvslam.launch.py, cuvslam_rgbd.launch.py.
   The three files declare the same argument names, and robot_bringup passes them
   none but use_sim_time: the first file included fixes config_file and both
   topics for those that follow. *)
EXTENDS CameraLaunch

VinsDefaults == [config_file |-> "t265_stereo_fisheye_imu.yaml",
                 raw_odom_topic |-> <<"vins", "raw_odometry">>,
                 odom_topic |-> Global("vins_odom")]

CuvslamDefaults == [config_file |-> "t265_stereo_fisheye.yaml",
                    raw_odom_topic |-> <<"cuvslam", "raw_odometry">>,
                    odom_topic |-> Global("cuvslam_odom")]

\* Faulty variant: the relayed topic of the stereo tracker.
CuvslamRgbdDefaultsShared == [config_file |-> "d435i_rgbd.yaml",
                              raw_odom_topic |-> <<"cuvslam_rgbd", "raw_odometry">>,
                              odom_topic |-> Global("cuvslam_odom")]

CuvslamRgbdDefaults == [config_file |-> "d435i_rgbd.yaml",
                        raw_odom_topic |-> <<"cuvslam_rgbd", "raw_odometry">>,
                        odom_topic |-> Global("cuvslam_rgbd_odom")]

OdomRelay(c, name) == RosNode("odometry", name, {c.raw_odom_topic}, {c.odom_topic, OdomTf})

\* The configuration of VINS-Fusion is an OpenCV file, not a ROS parameter file:
\* a cuVSLAM node that is given it does not come up.
ParameterFile(c) == c.config_file # "t265_stereo_fisheye_imu.yaml"

VinsNode(c) ==
    RosNode("odometry", "vins_estimator", Streams("t265", FisheyeStreams \cup {"imu"}),
            {c.raw_odom_topic})
VinsRelay(c) == OdomRelay(c, "vins_odom_relay")

CuvslamNode(c) ==
    RosNode("odometry", "cuvslam_odom_node", Streams("t265", FisheyeStreams \cup FisheyeInfo \cup {"imu"}),
            IF ParameterFile(c) THEN {c.raw_odom_topic} ELSE {})
CuvslamRelay(c) == OdomRelay(c, "cuvslam_odom_relay")

\* It listens to the streams of a real D435i whatever camera runs.
CuvslamRgbdNode(c) ==
    RosNode("odometry", "cuvslam_rgbd_node",
            Streams("d435i", {"color/image_raw", "color/camera_info", "depth/image_rect_raw", "imu"}),
            IF ParameterFile(c) THEN {c.raw_odom_topic} ELSE {})
CuvslamRgbdRelay(c) == OdomRelay(c, "cuvslam_odom_relay")

=============================================================================
