--------------------------- MODULE CameraLaunch -----------------------------
(* Where the sensor topics come from: Gazebo and its bridges in simulation
   (gazebo_bringup, controller_bringup), the RealSense drivers on the rover
   (realsense_camera.launch.py). *)
EXTENDS LaunchArgs

DepthStreams == {"color/image_raw", "color/camera_info", "depth/image_rect_raw",
                 "aligned_depth_to_color/image_raw", "aligned_depth_to_color/camera_info"}
SimDepthStreams == {"image", "camera_info", "depth_image", "points", "imu/raw"}
FisheyeStreams == {"fisheye1/image_raw", "fisheye2/image_raw"}
FisheyeInfo == {"fisheye1/camera_info", "fisheye2/camera_info"}

-----------------------------------------------------------------------------
(* gazebo_bringup.launch.py and controller_bringup.launch.py. *)

GazeboArguments(c) == [enable_px4_sitl |-> c.enable_px4_sitl, depth_camera |-> c.depth_camera,
                       enable_t265 |-> EnableT265(c)]

GazeboDefaults == [depth_camera |-> "l515", enable_t265 |-> FALSE, enable_px4_sitl |-> FALSE]

GazeboStatePublisher == RosNode("gazebo", "robot_state_publisher", {Global("joint_states")}, {})

\* Gazebo has the sensors of the two cameras only.
DepthBridge(c) ==
    RosNode("gazebo", "parameter_bridge", {},
            Streams(c.depth_camera, IF c.depth_camera \in DepthCameras THEN SimDepthStreams ELSE {})
                \cup {Global("clock"), <<"rplidar", "scan">>})

T265Bridge ==
    RosNode("gazebo", "t265_parameter_bridge", {},
            Streams("t265", FisheyeStreams \cup FisheyeInfo \cup {"imu", "odom"}))

SpawnEntity == RosNode("gazebo", "spawn_entity", {}, {})

JointStateBridge == RosNode("gazebo", "joint_state_bridge", {}, {Global("joint_states")})

GazeboNodes(c) ==
    {DepthBridge(c), SpawnEntity, GazeboStatePublisher}
        \cup Only(c.enable_t265, T265Bridge)
        \cup Only(c.enable_px4_sitl, JointStateBridge)

\* Started when spawn_entity exits, unless PX4 drives the joints; the controller
\* when the spawner of the broadcaster has exited.
JointBroadcaster ==
    RosNode("controller", "joint_state_broadcaster", {}, {Global("joint_states")})
AckermannController ==
    RosNode("controller", "ackermann_steering_controller", {Global("cmd_vel")}, {})

-----------------------------------------------------------------------------
(* realsense_camera.launch.py, with the arguments robot_bringup gives it. *)

\* Faulty variant: the delay of the other depth camera is forgotten.
RealsenseArgumentsUndelayed(c) ==
    [enable_d435i |-> c.depth_camera = "d435i", enable_l515 |-> c.depth_camera = "l515",
     enable_t265 |-> EnableT265(c), t265_enable_fisheye |-> EnableFisheye(c),
     t265_relay_publish_tf |-> c.use_t265_odom,
     d435i_delayed |-> FALSE, l515_delayed |-> EnableT265(c)]

\* *_startup_delay_s is 20 s or 0 s.
RealsenseArguments(c) ==
    [enable_d435i |-> c.depth_camera = "d435i", enable_l515 |-> c.depth_camera = "l515",
     enable_t265 |-> EnableT265(c), t265_enable_fisheye |-> EnableFisheye(c),
     t265_relay_publish_tf |-> c.use_t265_odom,
     d435i_delayed |-> EnableT265(c), l515_delayed |-> EnableT265(c)]

CameraSwitches == [enable_d435i |-> TRUE, enable_l515 |-> FALSE, enable_t265 |-> FALSE]
D435iDefaults == [d435i_enable_imu |-> TRUE, d435i_delayed |-> FALSE]
L515Defaults == [l515_enable_imu |-> FALSE, l515_delayed |-> FALSE]
T265Defaults == [t265_enable_imu |-> TRUE, t265_enable_fisheye |-> FALSE,
                 t265_relay_publish_tf |-> TRUE]

RealsenseDefaults ==
    Declare(Declare(Declare(CameraSwitches, D435iDefaults), L515Defaults), T265Defaults)

DepthCamera(device, imu) ==
    RosNode("realsense", device, {}, Streams(device, DepthStreams \cup IF imu THEN {"imu"} ELSE {}))

T265Camera(c) ==
    RosNode("realsense", "t265", {},
            Streams("t265", {"odom"}
                \cup (IF c.t265_enable_imu THEN {"imu"} ELSE {})
                \cup IF c.t265_enable_fisheye THEN FisheyeStreams \cup FisheyeInfo ELSE {}))

\* Faulty variant: the relay publishes the transform whoever owns it.
T265RelayWithTf(c) ==
    RosNode("realsense", "t265_odom_relay", {<<"t265", "odom">>}, {<<"t265", "odom_base">>, OdomTf})

T265Relay(c) ==
    RosNode("realsense", "t265_odom_relay", {<<"t265", "odom">>},
            {<<"t265", "odom_base">>} \cup IF c.t265_relay_publish_tf THEN {OdomTf} ELSE {})

D435iNode(c) == Only(c.enable_d435i, DepthCamera("d435i", c.d435i_enable_imu))
L515Node(c) == Only(c.enable_l515, DepthCamera("l515", c.l515_enable_imu))
T265Node(c) == Only(c.enable_t265, T265Camera(c))

RealsenseNodes(c) ==
    D435iNode(c) \cup L515Node(c) \cup T265Node(c) \cup Only(c.enable_t265, T265Relay(c))

-----------------------------------------------------------------------------
(* The nodes robot_bringup itself adds for the cameras and the joints. *)

JointRelay == RosNode("robot", "cmd_vel_joint_relay", {}, {Global("joint_states")})
StatePublisher == RosNode("robot", "robot_state_publisher", {Global("joint_states")}, {})

SimCameraInfo(c) ==
    Only(c.use_gazebo /\ EnableT265(c),
         RosNode("robot", "t265_sim_camera_info", Streams("t265", FisheyeStreams),
                 Streams("t265", FisheyeInfo)))

SimT265Relay(c) ==
    Only(c.use_gazebo /\ c.use_t265_odom,
         RosNode("robot", "sim_t265_odom_relay", {<<"t265", "odom">>},
                 {<<"t265", "odom_base">>, OdomTf}))

=============================================================================
