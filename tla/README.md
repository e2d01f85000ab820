# A formal model of the Ackermann rover's software

This directory holds TLA+ models of the programs that start, tune and operate
the Ackermann rover: the control center on the operator's host
(`control_center/`, Python, one asyncio loop and a Paho thread), the monitor on
the rover (`src/rover_monitor/`, C++ ROS 2 components on one executor thread and
a Paho thread), which talk over an MQTT broker; the launch files
(`src/*_bringup/launch/`) that decide which node gets which odometry and when;
and the PX4 modes with the scripts that tune them (`src/px4_bringup/`,
`scripts/tuning/`). TLC checks the models on small instances; TLAPS proves the
most important properties for every value of the constants. Paths below are
relative to the repository root.

## 1. Inventory

| Part | State it keeps | Operations | Hard because |
|---|---|---|---|
| `cc/cmd_gateway.py`, `cc/ack_tracker.py` | pending commands, watcher tasks, a history of 50 records | `send_command`, `_on_cmd_sent`, `_on_cmd_ack`, `_watch_timeout`, `record_local_rejection` | acknowledgements, timeouts and evictions interleave; a command is published before it is tracked |
| `cc/mqtt_receiver.py` | connection; Paho's outgoing messages | publish, connect, disconnect, message | links fail; QoS 2 messages are transmitted again; the first connect may fail |
| `cc/telemetry_cache.py`, `cc/safety_gate.py` | last health per subsystem with its time | `_on_*`, `get*`, `check` | decisions on data that went through five hops |
| `cc/dashboard_server.py`, `ui/src/App.jsx` | sets of WebSockets; what a panel shows | bootstrap request, accept, broadcast, reconnect | a broadcast awaits slow peers while the set it iterates over changes |
| `cc/alert_notifier.py`, `cc/influxdb_writer.py` | last notification per alert; write API | `_on_alert`, `_dispatch` | only edges arrive; messages overlap while channels wait |
| `telemetry_publisher.cpp`: command path | dedup table, two queues | `on_mqtt_message`, drain timer, a handler per command | two threads, lost links, retransmissions, blocking handlers |
| `telemetry_publisher.cpp`: Nav2 bridge | goal handle, shadowed goal, status | handlers, action callbacks, shadow subscribers, timer | callbacks of overlapping goals, a non-recursive mutex |
| `telemetry_publisher.cpp`: modes; `mode_announce.hpp`, `rover_*_main.cpp` | processes by mode, cached nav_states | register, unregister, set mode, announcements | processes die, are adopted and swallow signals; the poll blocks the executor |
| `px4_probe`, `aggregator`, `on_health`, heartbeat | latest values and stamps, previous alerts | callbacks, 2 Hz merge, alert edges, heartbeat | staleness, an executor that stalls, edges lost offline |
| `px4_bringup` rover modes | last cmd_vel and its time | activate, deactivate, update | watchdog, commands of an earlier activation |
| `robot_bringup.launch.py` and the files it includes | the launch context; running nodes; timers | includes, declarations, conditions, exits, a readiness gate | arguments leak from one include to the next; devices and odometry come up in any order |
| `scripts/tuning/` | PX4's parameters, the results so far, publishers in the container | `param_get`, `param_set`, drives, sweeps, Ctrl-C | writes and answers are lost or late; a publisher outlives the client that started it |
| vision odometry bridge, cameras, cuVSLAM, joint relay, host metrics, recorder | origin, device handles | frame callbacks | floating point, device glue, shell processes: not modelled, see 12 |

What makes each correct, in one line: a command runs at most once and the panel
never claims more than the rover said; a goal's handle, acknowledgements and
panel agree however goals overlap; a gate decides on recent data; an alert is
notified of and every panel shows the present in the end; the monitor knows the
processes it started and the nav_states of those that stay; the odometry that is
waited for is the one that is consumed, and has one publisher; a result of
tuning was driven; a rover mode never drives on an old velocity.

`PROJECT.json` lists the components, the hazards with the line where each
bites, and for every definition the source lines it models. Definitions commented
as "faulty variant" are plausible bugs; each property is known to notice one.

## 2. The command path

    operator -> SafetyGate/CommandGateway -> Paho outbox ==link==> Paho thread
                      |                                              | queues
                 AckTracker <== rover/cmd/ack <==link== handlers <- drain timer
                      |                                     |
                  history/panel                      Nav2 action client

| Module | Models |
|---|---|
| `Commands` | command types, acknowledgement statuses, which of them close a command |
| `AckTracker` | `pending`, `watched`/`unwatched` (the watcher task, created only after the awaited broadcast), `sentAge`, `history`; one action per handler and one per way a watcher ends |
| `CommandReceiver` | `seen`/`seenAge` (dedup table), `ackQueue`/`cmdQueue`, the drain callback in progress (`drainAcks`, `drainCmds`), the action client's stage per command (`goalState`, `activeGoal`), `uplink`; histories `said`, `runs` |
| `CommandPath` | composes both with the two links: Paho's `outbox`, repeated transmission after a lost handshake, losses while either side is away |
| `CommandLifecycle` | the abstract promise to the operator: `panel`, `left`, `said` only |
| `SequenceFacts` | lemmas on the elements of queues |
| `CommandPathProofs` | theorems |

Atomicity. A coroutine runs to its first real suspension in one step; the lock
of the cache is never contended, so the gate's check, the publication and
`evt.cmd_sent` are one action. The drain callback is NOT one step: the Paho
thread, the links and the control center move while it works, and other
callbacks of the executor are excluded by `ExecutorIdle`. Handlers that answer
at once choose their answer freely from those the code can give (`Replies`).

Refinement. `CommandPath` implements `CommandLifecycle` with `panel` read off
the history (`PanelOf`): a record that fell off the history is "open" while the
command is pending and "closed" otherwise. The abstract specification forbids a
second take-up, an outcome before RECEIVED, a record going back a stage, and
any change of a closed record. TLC checks the refinement on two instances, and
`CommandPathImplementsLifecycle` proves it for all of them (section 10).

Fairness. `FairSpec` assumes that time passes, and that the asyncio loop runs a
created watcher and lets an expired one conclude. Nothing is assumed of the
links, the rover or Nav2: that is what makes `PendingResolved` worth stating.

Assumptions on constants. `ResendAssumption`: the time from a command's first
to its last transmission is at most `dedup_eviction_s`. Nothing in the code
enforces it; without it a command does run twice, as the specification of the
deduplication (`openspec/specs/command-system/spec.md`) accepts.

`MaxCommands` bounds the commands the operator issues in one behaviour.

Not modelled here: process restarts (all state is in memory), the payloads, the
Paho broker handshake below "transmitted" and "confirmed".

## 3. The Nav2 bridge

`Nav2Bridge` refines what `CommandReceiver` leaves open about goals: the action
server and other clients (external), the action client's callbacks, the two
shadow subscriptions with their bounded queues, `/monitor/nav2`. Every callback
is one step, since all run on one executor thread; any ready callback may run
next. A callback that locks `nav2_mutex_` twice sets `blocked`, after which no
callback runs: this is what `std::mutex` does in this build.

Fairness. Callbacks that are ready run; Nav2 answers requests and ends its
goals. Without the second nothing could be said of a goal's acknowledgement.

`MaxGoals` bounds the goals requested in one behaviour, whoever requests them.

## 4. The health pipeline

    Px4Probe -> px4Topic -> px4Cache -> healthTopic -> latest =wire=> loop -> entry -> gate
             publish_status  on_px4     on_timer     on_health heartbeat  _on_message _on_health/_on_px4

`HealthPipeline` follows one PX4 status through its five hops. Every hop keeps
the latest value and stamps it anew on reception, so no component sees how old
the data are; the ghost field `heard` records it. `now` is the clock and `Tick`
its only step. A ready callback of the monitor's executor waits at most
`ExecLag` (the longest time a handler such as `handle_set_mode`, which sleeps
4 s, keeps the thread), the merge is due every `MergePeriod`, and a heartbeat
and its coroutines are through within `NetDelay` or lost with the link: `Tick`
waits for these deadlines. The promise is `HealthGateFresh` and `Px4GateFresh`:
the gate opens only on a status not older than

    GateBound = 3 ExecLag + Px4Stale + MergePeriod + NetDelay + StaleThreshold

(with the shipped configuration about 16.5 s plus three executor stalls and the
network). It is the last PX4 message that is recent, not the arming state:
odometry publishes the last `armed_` again.

`CheckSetMode` stands for `_check_arm` too and `CheckNavGoal` for
`_check_drive`: each of the latter asks for more. The deadlines are an
assumption on the environment; nothing in the code enforces them.

## 5. Alerts, notifications and panels

    on_health --edge--> rover/alerts ==wire==> loop -> InfluxDBWriter, AlertNotifier -> channels
        |                                        |
     latest --heartbeat--> health/overall ==wire=+---> cache -> broadcast -> panels

| Module | Models |
|---|---|
| `AlertNotifier` | `_on_alert` as a coroutine: it reads the clock once, goes through its list until a dispatch waits for a channel, and goes on when the channel is done (`waiting`), while other messages start; `last` is `_last_notified` |
| `InfluxDBWriter` | the alert points of `influxdb_writer.py`: a write goes to a thread of the client library (`writing`), which stores the point or fails where nobody looks (ghost `failed`); an exception ends the list of a message with one line in the log (`logged`) |
| `Dashboard` | the sockets of `_health_ws_clients` (`members`), what each panel shows, its request for the state (`response`), and the broadcasts that wait at a stalled peer (`sends`), with the iteration that raises when the set changed meanwhile |
| `AlertDelivery` | composes the three with `on_health` and the heartbeat of the rover, the two links, and a control center that stops and starts again |

`NotificationsSpaced`: two notifications of an alert are `Cooldown -
NotifyTicks` apart, not `Cooldown`: the coroutine dates a notification with the
time its message was taken up, and channels may be slow. `AlertsCovered`: when
the notifier is through with a message, each of its alerts was notified of less
than a cooldown before. `NotifiedIsWritten`: what was notified of has been given
to the database's writer, which comes first on the bus. It does not say that the
database gets it: a request that fails is not noticed, see 11. The condition `m.now >= Cooldown` of
`AlertsCovered` is the code's: `_last_notified.get(alert_id, 0)` compares with the
time since the host booted, so that alerts of its first 60 s are suppressed.
`PanelsConverge`: whatever was lost with links, stalled or raised before, a panel
whose socket and links stay up shows the rover's last health in the end.

Fairness: the heartbeat timer fires, the event loop runs what is ready, and a
stalled socket drains or is closed by its ping. Nothing is assumed of links or
of the notifier's channels.

## 6. Bringup

| Module | Models |
|---|---|
| `LaunchArgs` | the launch context (a record of the arguments set so far), `Include` and `Declare`, the defaults of `robot_bringup.launch.py`, and its expressions for the odometry flags |
| `CameraLaunch`, `OdometryLaunch`, `SlamLaunch`, `NavLaunch`, `Px4Launch` | one per group of launch files: defaults, the arguments an include passes, and the nodes with the topics they need and publish, under each file's conditions. They are pure operators on a context |
| `Bringup` | the launch as a process: it visits its entities in order, each changing the context the next sees (`ContextAfter`) and starting nodes (`NodesOf`); then exits, timers, the T265's reset, the camera's delay and the readiness gate of Nav2 run against each other. Sessions follow one another on one RTAB-Map database |

A node is a record of the topics it needs and publishes, with the transform edge
from odom to base_link as one more topic; `Produced` closes a set of nodes under
"publishes once it gets what it needs". So the wiring properties (`OneOwner`,
`OdometryWired`, `NavWired`, `Px4Fed`) are about what flows, not about names of
arguments: they fail if any file on the way lets a default win that another
file's argument should have set, or the reverse. `DepthAfterReset`,
`NavAfterOdometry`, `MapKept` and `NavComes` are about time and order.

The monitor's `telemetry_publisher` publishes cmd_vel too, for e-stop and drive
commands, whatever else runs. `OneOwner` and `NavWired` are about the velocity of
the autonomous stack and leave this one node out by name
(`AutonomousPublishers`); counted in, both fail in a session with Nav2 and the
monitor: see 11.

Fairness: the launch service handles its events, the gate's shell goes on, a
device whose time has come goes on, and time passes. An estimator may never
start. `NavComes` says that Nav2 comes up all the same.

`SessionAssumption` says which sessions there are: arguments of
`robot_bringup.launch.py` and two of RTAB-Map's, boolean switches, one of the
cameras that bringup and its scripts name, and the arguments with which
`scripts/start_ros2_nodes.sh` starts PX4's nodes: its odometry topic follows the
odometry flags (an operator's own `--odom-topic` is left out), and
`enable_vehicle_odometry` is passed the value of `enable_vo_bridge`
(lines 430-432). The script also starts sessions with `depth_camera:=none`
(lines 314-320).

What the properties' conditions leave out is the operator's: several odometry
flags at once have several publishers; a simulated D435i has no RGB-D stream for
cuVSLAM; and what reads the depth camera gets nothing where there is none
(`HasDepthCamera`).

## 7. Modes and their processes

`ModeManager` follows a REGISTER_MODE, UNREGISTER_MODE or SET_MODE one system
call at a time. `table` is the process table: a wrapper (`ros2 run`, the child the
monitor forks and tracks) and the node it starts. Between any two calls of a
handler, processes start, register with PX4, announce, lose the FMU and retry,
end, swallow a SIGTERM, or become zombies; another callback cannot run
(`ExecutorFree`), because handlers and callbacks share one executor thread.
`kill(pid, 0)` is `Exists` (true of a zombie), `pgrep -f` is `Pgrep` (never a
zombie). A restart of the monitor leaves the modes alive, reaps zombies, and lets
it read the announcements again.

`SpawnedIsTracked`: no wrapper is lost that was not told to end. `WaitIsInVain`:
a SET_MODE that finds no nav_state at its first look is refused, for what would
fill the cache waits for the same thread; the comment at
`telemetry_publisher.cpp:713-715` expects the poll to help. `KnownInTheEnd`: a
mode that stays registered under one nav_state is known by it in the end, though
late announcements of processes that are gone arrive after an unregistration.
`RefusedOnlyIfRunning` does not hold: see 11.

Fairness: handlers run to their end, the executor reads what is published, the
announcement timer of a registered node fires. Nothing is assumed of PX4, of
`ros2 run` or of a SIGTERM.

`RoverMode` is the other end: a mode's last cmd_vel, its age, and the setpoint.

## 8. Tuning

| Module | Models |
|---|---|
| `RoverMode` | activation, `cmd_vel` and the watchdog of `RoverSpeedRateMode`, which the other rover modes repeat |
| `TuningLib` | `px4_tuning_lib.py`: `param_set` and `param_get` over a serial link that loses requests, answers and samples and delivers them late; `pub_cmd_vel` as a process in the container with a docker client that Ctrl-C ends; the abort flag |
| `TuningStages` | the five scripts as a program counter over a list of calls: the limits of stage 1, the binary search of 2A, the sweeps of 2B, 2C and 3, their verification drives and the writes at the end |

What a trial of a sweep measures is free; stage 2A drives a vehicle that needs
`ideal`, so that one can say what its search finds. `ReportedIsHeld` is the
library's promise, `GainsMeasured` and `SearchFinds` are what the scripts'
results mean while PX4 gets the writes (`misled` records that it did not: no
script looks at what `param_set` returns). `NothingBegunAfterAbort` says that
after Ctrl-C only what the test or verification under way still lists is driven.
That can be more than one drive, which is not what the tuning guide promises: see
11. `MotionEnds` says that the rover stops, whatever
becomes of script, cable and docker client.

`SearchFinds` asks for an ideal value in the range where the search starts
(`Unit` to eight times `Unit`), and for measurements that are the vehicle's own
(`sure`). `ReportedIsHeld` has one exception, `DefaultApplied`, see section 11.

Fairness: publishers run on by themselves, PX4 asks the mode for setpoints, time
passes. The script and the operator may stop anywhere.

## 9. Runs

| Run | Instance | Shows |
|---|---|---|
| `one_goal` | one NAV_GOAL, both links flaky | at most one dispatch despite retransmission, an honest panel, the lifecycle, every record closed |
| `two_commands` | any two of a goal, a cancellation, a command answered at once and a drive; a history of one record | types, no open record unwatched, the lifecycle with evicted records |
| `accepted_times_out` | one NAV_GOAL | VIOLATED: an accepted goal times out |
| `two_goals` | any two of two own goals and one external, one cancellation, depth 1 | a live handle, no ghost navigation, every request concluded |
| `external_goal_hangs` | one own, one external goal | VIOLATED: the end of an external goal blocks the executor |
| `cancel_misses` | two goals, one cancellation | VIOLATED: a running goal that cannot be cancelled |
| `gate_freshness` | all delays one tick or none, PX4 free to fall silent | the gate never opens on a status older than `GateBound` |
| `alerts` | three scenarios: healths over six ticks with a restart; two panels with three mishaps; alerts with a database | spaced notifications, every alert covered and given to the writer, panels converge |
| `bringup` | 256 sessions of odometry flags on every platform, 16 of RTAB-Map, 11 of Nav2, 36 of PX4 and the monitor, 12 without a depth camera | wiring, single owners, order of start, the map kept, Nav2 comes |
| `modes` | two modes (one without an executable), two nav_states, two processes, four commands, one restart | wrappers stay tracked, a waiting SET_MODE is refused, nav_states known in the end |
| `mode_refused` | the same with two commands | VIOLATED: a mode whose process died is refused as registered |
| `tuning` | every script undisturbed, on a bad link, and with Ctrl-C or a change of mode | results that mean what they say, nothing begun after Ctrl-C, rest in the end |

Bounds, and why they are enough.

* Times are in ticks: only their order matters (a timeout of 1 or 2, an eviction
  after 2, a resend span of 2 reach every order of the events they race).
* Two commands and two goals reach every pair of handlers that share state (the
  handle, the shadowed goal, the history), in every order and overlap; one flaky
  link at a time is enough for losses, both are flaky where retransmission meets
  lost acknowledgements. A subscription depth of 1 stands for 10: the
  shadow callbacks look at one message at a time and depth 1 makes overwriting
  most frequent.
* `gate_freshness` looks at 8 ticks, two more than `GateBound` (6 there), so that
  a status can outlive the bound; PX4 reports being armed, the state that opens
  the gate.
* `alerts`: an alert classified as an error and one that is not, a channel that
  waits and one that does not; a cooldown of 3 with channels of 1, over 6 ticks,
  so that a cooldown ends and another begins. Time, panels and the database are
  looked at in separate scenarios, because a message touches the three apart.
* `bringup`: stages of 3 ticks, a reset of 2 and a delay of 3: the reset must be
  shorter than the delay for `DepthAfterReset` to say anything, and odometry must
  be able to come in each stage and after the last.
* `modes`: two processes are one wrapper with its node, or two nodes started
  elsewhere: enough for adoption, a zombie next to a node that outlived it, and a
  second registration. Four commands are a registration, its end, another, and a
  switch. With three processes (12 million states) nothing else shows up.
* `tuning`: three values per gain in a sweep would be seven in the code; two are
  enough for a trial to be better than, as good as, or worse than the best one.
  Two mishaps per session reach a lost write followed by a late answer.
* `CHECK_DEADLOCK FALSE` where finitely many commands, trials or goals may come
  to an end.

The theorems cover every other choice of these constants.

## 10. Proofs

All for every set of commands, goals, modes, panels or sessions, every bound and
every duration, under the named assumptions on constants (`ResendAssumption`,
`BridgeAssumption`, `NotifierAssumption`, `ScenarioAssumption`,
`BringupAssumption`, `SessionAssumption`, `TimeoutAssumption`,
`ParamsAssumption`, `SweepAssumption`, `SearchAssumption`, `ModeAssumption`,
`PipelineAssumption`, `TrackerAssumption`, `ReceiverAssumption`,
`KindAssumption`). Three say more than that a number is a number and that an
age counter saturates above the bound it is compared with:
`ResendAssumption` (section 2), `SessionAssumption` (section 6), and
`SearchAssumption`: the search halves at most 8 times, as the code does, and
`Unit` can be halved that often without a remainder.

* `CommandPathProofs`: `TypeCorrect`; `DispatchedAtMostOnce` from an invariant
  that says where a command can be (never sent, in the outbox, in one queue or
  dispatched, with the dedup entry present as long as a transmission can still
  arrive: `txAge <= ResendSpan <= EvictAge` and `seenAge <= txAge`);
  `NoRecordHangs`; `HistoryIsHonest` from invariants on what is on the uplink
  (`RelayInv`) and on the order in which a command's statuses are said
  (`SaidInv`). `CommandPathImplementsLifecycle` is the refinement: `RefinementInv`
  adds that a command has at most one record and an open one is tracked
  (`RecordsTracked`), that a record is of a command that was sent or refused and
  shows nothing final while it is pending (`PanelInv`), and that what is under
  way has a higher stage than what the panel shows (`OrderInv`). Without the last
  an acknowledgement could take a record back. Every step then says something
  new for one command, or shows one command's next stage, or is a stutter.
* `Nav2BridgeProofs`: `TypeCorrect`; `HandleAlwaysLive`; `NeverGhostNavigation`
  from the strengthening that, until the executor blocks, the published status
  is the current one.
* `HealthPipelineProofs`: `TypeCorrect`; `HealthGateAlwaysFresh` and
  `Px4GateAlwaysFresh` from `AgeInv`, which gives the age a status can have at
  each hop. Its subtle part is `LatestAge`: the cached health message is either
  the last merge, or a newer one is unread and has been ready since the first
  merge after it, even if overwritten since.
* `AlertDeliveryProofs`: `TypeCorrect`, `NotificationsAreSpaced`,
  `AlertsAreCovered` and `NotifiedIsAlwaysWritten` from invariants on the messages
  under way (`QueueInv`), on the panels (`PanelInv`), on the notifier
  (`NotifierInv`: the date kept of an alert's last notification is at most
  `NotifyTicks` older than the notification, and what a waiting coroutine has
  passed is covered) and on both ends of the bus (`WrittenInv`: the writer was
  given what was notified of and all that waiting coroutines still list).
* `BringupProofs`: `TypeCorrect`; `DepthStartsAfterReset`, whose invariant
  says that the camera's countdown outlasts that of the T265;
  `NavStartsAfterOdometry`, whose invariant says at each stage of the gate what
  was waited so far; `MapIsKept`, because before RTAB-Map's entity is
  visited no node runs that wipes, and only its own arguments add one.
  `OwnersAreUnique`, `OdometryIsWired`, `NavIsWired` and `Px4IsFed` rest on
  `WiringInv`. The argument that files leak into one another is its part
  `ContextInv`: for each number of entities visited, what they have left in the
  shared context (`Arguments`). `OwnerInv` computes from the operator's
  arguments alone who owns a topic, and says that nobody else publishes it
  (`WellWired`); `PresentInv` says what has been started by then, `NavInv`,
  `JointInv`, `Px4Inv` and `MapInv` what belongs to Nav2, the joints, PX4 and the
  map. From what is present the topics follow link by link (`ChainProduces`,
  `OdometryChain`), with `Produced` unfolded into its stages
  (`ProducedStages`).
* `TuningProofs`: `GainsAreMeasured`: the best gain of a sweep that goes on is
  the least of the trials so far, and PX4 holds what was written unless a write
  was lost. `AbortEndsTheList` and `TuningTypeOK` from `BaseInv`, which says what
  the list of calls can hold at each place of a script, that a list with drives
  begins only while the flag is down or with a confirmation (`Begun`), and that at most the
  first call is waited for. `SearchFindsTheValue` from `WidthInv` (the interval
  is wide enough for the halvings left, so its ends never meet) and `SearchInv`
  (the interval holds the vehicle's value as long as every write arrived).
  `ReportsAreHeld` from `HeldInv`: an answer that is still on its way may be
  taken for that of a later write (`px4_tuning_lib.py:69-80` compares name and
  value only), so the invariant says for each place which late answers there
  are: none for what is written next, or only ones that agree with it.
* `ModeManagerProofs`: `TypeCorrect` (types are proved here and not a property of the
  run); `SpawnedStaysTracked`; `WaitingIsInVain`.
  The strengthening: a child of the monitor is a wrapper (`ChildrenWrap`), a
  handler that polls has found nothing so far (`WaitsForNothing`), and a
  REGISTER_MODE in progress has dropped the entry it replaces
  (`RegisterDropped`).

Only model-checked: liveness (`PendingResolved`, `RequestsConcluded`,
`PanelsConverge`, `NavComes`, `MotionEnds`, `KnownInTheEnd`), which needs
reasoning about fairness that is out of the prover's reach. Every other property
of a passing run is a theorem.

## 11. What the models show of the code

Violations (`findings` in `PROJECT.json`): an accepted goal times out; the status
callback of an external goal blocks on its own mutex; a cancellation misses the
goal that runs; and a registered mode that died cannot be registered again. The
last: the child that is forked at `telemetry_publisher.cpp:829` is waited for only
in `handle_unregister_mode`, so a `ros2 run` that ends by itself stays a zombie,
and `kill(pid, 0)` at line 782 takes it for "already registered" until an
UNREGISTER_MODE.

Met while modelling, kept in the models as the code has it, and not the subject
of a run. The first three contradict documents, and the properties next to them
are worded so that they do not cover it up:

* Alerts are written asynchronously (`influxdb_writer.py:45-46`), the result of a
  write is dropped (119), and an exception leaves out the rest of the list
  (120-121). `openspec/specs/control-center/spec.md:63` asks for synchronous writes
  that are not dropped, and line 78 for an error in the log. An alert whose request
  fails ends in `failed` only.
* `telemetry_publisher.cpp:134-135` publishes `/cmd_vel` itself, past the velocity
  smoother and the collision monitor, for e-stop (454) and drive commands (995).
  `docs/architecture/interfaces.md:62` and `node_graph.md:60` know no producer but
  the collision monitor and docking.
* After Ctrl-C stage 3 still drives both halves of a heading test
  (`tune_stage3_yaw_attitude.py:62, 68`), and stages 2C and 3 the whole
  verification under way, up to five drives: the handler sets a flag
  (`px4_tuning_lib.py:232-235`) that nothing looks at there.
  `docs/guides/px4-pid-tuning-plan.md:48` says that Ctrl-C stops the rover, and
  line 287 that it aborts at any time.
* SIGTERM goes to `ros2 run`, which may end without its node; a node that is
  between two attempts to register swallows it. UNREGISTER_MODE answers ACCEPTED
  in all cases.
* The nav_state of a mode that crashed stays cached, and a SET_MODE for it is
  accepted.
* Trial gains stay in PX4 after an abort and without `--apply`; in stage 2A a failed
  read of a limit is replaced by a default, and an abort at the prompt of stage 1
  is forgotten.
* If the first connect of `mqtt_receiver.py` fails, its client stays dead: the
  loop thread is never started.
* Alert identifiers that carry a camera's name are classified as WARN.
* `nav2_bringup.launch.py` takes odometry from the T265 whatever the odometry
  flags; `NavWired` therefore asks for velocities only where a T265 runs.
* `rtabmap_slam.launch.py` lets obstacle detection read `/cloud`, which nothing
  publishes under that name.
* `start_ros2_nodes.sh:314-320` takes `none` for the depth camera of sessions with
  odometry only; the monitor's depth probe then watches topics named `/none/...`
  (`monitor.launch.py:24-33`), which nothing publishes.
* `param_set` can report a value that PX4 does not hold, in one way: stage 2A's
  read of `RO_MAX_THR_SPEED` gets no answer in time and is replaced by 2.0
  (`tune_stage2a_speed_ff.py:95`), which is what the vehicle holds
  (`cube_black_ackermann.params:47`); the search writes another value; after
  Ctrl-C `--apply` writes 2.0 back (lines 156-157), this write is lost, and the
  late answer to the read confirms it.

## 12. Not modelled

* The vision odometry bridge and `odom_tf_relay`: frame transforms in floating
  point around one latched origin. `px4_mavlink_vpe.py` is the same conversion.
* Camera, cuVSLAM and joint nodes, the Ackermann controller, the log-only
  watchdog: device and GPU glue, or stateless conversions. What cameras and
  estimators publish, and when, is part of `Bringup`.
* Host metrics: reads of `/proc` and `/sys`. The alert rules computed from them
  are a free choice of the list of alerts in `AlertDelivery`.
* `px4_offboard_control.py`, `px4_vehicle_odometry.py`, captures, plots, Grafana
  set-up, shell scripts around tmux and bags: one pass from input to output, or
  earlier set-ups that bringup no longer starts.
* What arming, e-stop and drive make PX4 do; Nav2 and PX4 themselves.
* Answers to a command without its field (`handle_nav_goal`, `handle_drive`,
  `handle_record`): the gateway fills the field of every command it sends, and
  checks the action of a recording. Without the protobuf bindings no command is
  sent at all (`cmd_gateway.py:85-86`).
* The result UNKNOWN of a Nav2 goal (`telemetry_publisher.cpp:616`), which a Nav2
  that is restarted would give; it is handled as an aborted one but for its label and error code.
* The overlay of the `px4` entry on what the panels get
  (`telemetry_cache.py:82-84`): `Dashboard` shows the health message by its
  number. A panel reconnects once the server has discarded its old socket,
  although the browser does not wait for that.
* `ros2 topic pub -t` waits for a subscriber before its first message: the
  publishers of `TuningLib` begin at once, or any time later, for nothing forces
  `Published` between two calls of the script. A rover without a subscriber,
  where they would wait for ever, is left out.
* Restarts of the two ends of the command path: everything there is in memory,
  and no document promises more across a restart.

Left for later, in this order: a refinement of the free answers of
`CommandReceiver` by `ModeManager` and `Nav2Bridge`; restarts of the command
path; the origin and the watchdog of the vision odometry bridge with poses
abstracted to their age.
