-------------------------- MODULE CommandReceiver ---------------------------
(***************************************************************************)
(* The rover's half of the command path, in TelemetryPublisher: the Paho   *)
(* thread deduplicates and queues commands (on_mqtt_message); every 50 ms  *)
(* a timer on the executor thread swaps the two queues out, sends every    *)
(* ACK_RECEIVED, then dispatches every command; the NavigateToPose client  *)
(* answers later, in callbacks of the same executor.                       *)
(*                                                                         *)
(* The drain is not one step: the Paho thread and the connection run on    *)
(* while it works, and a handler may sleep for seconds (set_mode polls for *)
(* 4 s).  Only the callbacks of the executor exclude each other.           *)
(***************************************************************************)
EXTENDS Commands, Sequences

CONSTANTS
  EvictAge,     \* dedup_eviction_s (30 s), in ticks
  DedupAgeCap   \* where the model's age counters saturate

ASSUME ReceiverAssumption ==
  EvictAge \in Nat /\ DedupAgeCap \in Nat /\ EvictAge < DedupAgeCap

VARIABLES
  roverUp,      \* the rover's MQTT client is connected
  seen,         \* keys of seen_cmds_
  seenAge,      \* ticks since the entry of seen_cmds_ (0 for the others)
  ackQueue,     \* ack_queue_: every entry is an ACK_RECEIVED
  cmdQueue,     \* cmd_queue_
  drainAcks,    \* the drain callback's local queues
  drainCmds,
  goalState,    \* where the Nav2 action client stands with a command
  activeGoal,   \* {} or the command active_nav_goal_cmd_id_ names
  uplink,       \* acknowledgements on their way to the control center
  said,         \* history: the statuses the rover has decided for a command
  runs          \* history: how often a command was dispatched

receiverVars == <<roverUp, seen, seenAge, ackQueue, cmdQueue, drainAcks,
                  drainCmds, goalState, activeGoal, uplink, said, runs>>

GoalStates == {"none", "goal_requested", "goal_running", "cancel_requested"}

Ack == [id : Cmd, status : AckStatus]

\* The statuses a handler that answers at once can send.
Replies(type) ==
  CASE type \in {"arm", "disarm", "record"} -> {"ACK_ACCEPTED"}
    [] type = "estop" -> {"ACK_COMPLETED"}
    [] type \in {"set_mode", "unregister_mode"} ->
         {"ACK_ACCEPTED", "ACK_REJECTED"}
    [] type = "register_mode" ->
         {"ACK_ACCEPTED", "ACK_REJECTED", "ACK_FAILED"}
    [] OTHER -> {"ACK_REJECTED"}

ExecutorIdle == drainAcks = <<>> /\ drainCmds = <<>>

ReceiverInit ==
  /\ roverUp = FALSE
  /\ seen = {}
  /\ seenAge = [c \in Cmd |-> 0]
  /\ ackQueue = <<>> /\ cmdQueue = <<>>
  /\ drainAcks = <<>> /\ drainCmds = <<>>
  /\ goalState = [c \in Cmd |-> "none"]
  /\ activeGoal = {}
  /\ uplink = <<>>
  /\ said = [c \in Cmd |-> {}]
  /\ runs = [c \in Cmd |-> 0]

\* send_ack: silently drops the acknowledgement while disconnected.
SendAck(c, status) ==
  /\ said' = [said EXCEPT ![c] = @ \cup {status}]
  /\ uplink' = IF roverUp THEN Append(uplink, [id |-> c, status |-> status])
                          ELSE uplink

\* on_mqtt_message and is_duplicate, on the Paho thread.
OnMqttMessage(c) ==
  /\ IF c \in seen
       THEN UNCHANGED <<seen, seenAge, ackQueue, cmdQueue>>
       ELSE /\ seen' = seen \cup {c}
            /\ seenAge' = [seenAge EXCEPT ![c] = 0]
            /\ ackQueue' = Append(ackQueue, c)
            /\ cmdQueue' = Append(cmdQueue, c)
  /\ UNCHANGED <<roverUp, drainAcks, drainCmds, goalState, activeGoal, uplink,
                 said, runs>>

\* Faulty variant: evicts an entry one tick too soon.
EvictSeenEarly ==
  /\ ExecutorIdle
  /\ \E c \in seen : seenAge[c] >= EvictAge
  /\ seen' = {c \in seen : seenAge[c] < EvictAge}
  /\ seenAge' = [c \in Cmd |-> IF c \in seen' THEN seenAge[c] ELSE 0]
  /\ UNCHANGED <<roverUp, ackQueue, cmdQueue, drainAcks, drainCmds, goalState,
                 activeGoal, uplink, said, runs>>

\* The dedup timer.
EvictSeen ==
  /\ ExecutorIdle
  /\ \E c \in seen : seenAge[c] > EvictAge
  /\ seen' = {c \in seen : seenAge[c] <= EvictAge}
  /\ seenAge' = [c \in Cmd |-> IF c \in seen' THEN seenAge[c] ELSE 0]
  /\ UNCHANGED <<roverUp, ackQueue, cmdQueue, drainAcks, drainCmds, goalState,
                 activeGoal, uplink, said, runs>>

\* The drain timer: swap, acknowledge everything, dispatch everything.
DrainSwap ==
  /\ ExecutorIdle
  /\ cmdQueue # <<>>
  /\ drainAcks' = ackQueue /\ ackQueue' = <<>>
  /\ drainCmds' = cmdQueue /\ cmdQueue' = <<>>
  /\ UNCHANGED <<roverUp, seen, seenAge, goalState, activeGoal, uplink, said,
                 runs>>

SendReceived ==
  /\ drainAcks # <<>>
  /\ SendAck(Head(drainAcks), "ACK_RECEIVED")
  /\ drainAcks' = Tail(drainAcks)
  /\ UNCHANGED <<roverUp, seen, seenAge, ackQueue, cmdQueue, drainCmds,
                 goalState, activeGoal, runs>>

\* Faulty variant: does not wait for the acknowledgements.
TakeNextUnordered(c) ==
  /\ drainCmds # <<>>
  /\ c = Head(drainCmds)
  /\ drainCmds' = Tail(drainCmds)
  /\ runs' = [runs EXCEPT ![c] = @ + 1]
  /\ UNCHANGED <<roverUp, seen, seenAge, ackQueue, cmdQueue, drainAcks>>

\* dispatch_command takes the next command once the acknowledgements are out.
TakeNext(c) ==
  /\ drainAcks = <<>> /\ drainCmds # <<>>
  /\ c = Head(drainCmds)
  /\ drainCmds' = Tail(drainCmds)
  /\ runs' = [runs EXCEPT ![c] = @ + 1]
  /\ UNCHANGED <<roverUp, seen, seenAge, ackQueue, cmdQueue, drainAcks>>

HandleAtOnce(c) ==
  /\ Kind[c] \notin TwoStage \cup {"drive"}
  /\ TakeNext(c)
  /\ \E status \in Replies(Kind[c]) : SendAck(c, status)
  /\ UNCHANGED <<goalState, activeGoal>>

\* Drive commands are forwarded to /cmd_vel and never acknowledged.
HandleDrive(c) ==
  /\ Kind[c] = "drive"
  /\ TakeNext(c)
  /\ UNCHANGED <<goalState, activeGoal, uplink, said>>

\* Faulty variant: the early return after "goal already active" is missing.
HandleNavGoalNoReturn(c) ==
  /\ Kind[c] = "nav_goal"
  /\ TakeNext(c)
  /\ goalState' = [goalState EXCEPT ![c] = "goal_requested"]
  /\ \/ SendAck(c, "ACK_REJECTED")
     \/ activeGoal = {} /\ UNCHANGED <<uplink, said>>
  /\ UNCHANGED activeGoal

\* Rejected when the action server is away or a goal is active; otherwise the
\* goal is sent and the acknowledgement waits for Nav2's response.
HandleNavGoal(c) ==
  /\ Kind[c] = "nav_goal"
  /\ TakeNext(c)
  /\ \/ /\ SendAck(c, "ACK_REJECTED")
        /\ UNCHANGED goalState
     \/ /\ activeGoal = {}
        /\ goalState' = [goalState EXCEPT ![c] = "goal_requested"]
        /\ UNCHANGED <<uplink, said>>
  /\ UNCHANGED activeGoal

HandleCancelGoal(c) ==
  /\ Kind[c] = "cancel_goal"
  /\ TakeNext(c)
  /\ IF activeGoal = {}
       THEN /\ SendAck(c, "ACK_REJECTED")
            /\ UNCHANGED goalState
       ELSE /\ SendAck(c, "ACK_ACCEPTED")
            /\ goalState' = [goalState EXCEPT ![c] = "cancel_requested"]
  /\ UNCHANGED activeGoal

\* The callbacks of the NavigateToPose client.
CallbackFrame ==
  /\ ExecutorIdle
  /\ UNCHANGED <<roverUp, seen, seenAge, ackQueue, cmdQueue, drainAcks,
                 drainCmds, runs>>

GoalAccepted(c) ==
  /\ goalState[c] = "goal_requested"
  /\ CallbackFrame
  /\ goalState' = [goalState EXCEPT ![c] = "goal_running"]
  /\ activeGoal' = {c}
  /\ SendAck(c, "ACK_ACCEPTED")

GoalRejected(c) ==
  /\ goalState[c] = "goal_requested"
  /\ CallbackFrame
  /\ goalState' = [goalState EXCEPT ![c] = "none"]
  /\ SendAck(c, "ACK_REJECTED")
  /\ UNCHANGED activeGoal

\* Whichever goal ends, the handle is reset.
GoalResult(c) ==
  /\ goalState[c] = "goal_running"
  /\ CallbackFrame
  /\ goalState' = [goalState EXCEPT ![c] = "none"]
  /\ activeGoal' = {}
  /\ \E status \in {"ACK_COMPLETED", "ACK_FAILED"} : SendAck(c, status)

CancelResponse(c) ==
  /\ goalState[c] = "cancel_requested"
  /\ CallbackFrame
  /\ goalState' = [goalState EXCEPT ![c] = "none"]
  /\ \E status \in {"ACK_COMPLETED", "ACK_FAILED"} : SendAck(c, status)
  /\ UNCHANGED activeGoal

\* The connected handler subscribes; a lost connection loses what had not
\* reached the broker (the session is clean, nothing is sent again).
RoverConnects ==
  /\ ~roverUp
  /\ roverUp' = TRUE
  /\ UNCHANGED <<seen, seenAge, ackQueue, cmdQueue, drainAcks, drainCmds,
                 goalState, activeGoal, uplink, said, runs>>

RoverLosesLink ==
  /\ roverUp
  /\ roverUp' = FALSE
  /\ \E kept \in 0..Len(uplink) : uplink' = SubSeq(uplink, 1, kept)
  /\ UNCHANGED <<seen, seenAge, ackQueue, cmdQueue, drainAcks, drainCmds,
                 goalState, activeGoal, said, runs>>

ReceiverTick ==
  /\ seenAge' = [c \in Cmd |->
                   IF c \in seen /\ seenAge[c] < DedupAgeCap
                     THEN seenAge[c] + 1 ELSE seenAge[c]]
  /\ UNCHANGED <<roverUp, seen, ackQueue, cmdQueue, drainAcks, drainCmds,
                 goalState, activeGoal, uplink, said, runs>>

ReceiverTypeOK ==
  /\ roverUp \in BOOLEAN
  /\ seen \subseteq Cmd
  /\ seenAge \in [Cmd -> 0..DedupAgeCap]
  /\ ackQueue \in Seq(Cmd) /\ cmdQueue \in Seq(Cmd)
  /\ drainAcks \in Seq(Cmd) /\ drainCmds \in Seq(Cmd)
  /\ goalState \in [Cmd -> GoalStates]
  /\ activeGoal \subseteq Cmd
  /\ uplink \in Seq(Ack)
  /\ said \in [Cmd -> SUBSET AckStatus]
  /\ runs \in [Cmd -> Nat]

=============================================================================
