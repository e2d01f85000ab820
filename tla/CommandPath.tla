---------------------------- MODULE CommandPath -----------------------------
(***************************************************************************)
(* The command path end to end: the operator's request at the control      *)
(* center (CommandGateway.send_command, DashboardServer.post_command), the *)
(* AckTracker, two MQTT links that go up and down, and the rover's         *)
(* TelemetryPublisher.                                                     *)
(*                                                                         *)
(* The broker is folded into the links.  The Paho client of the control    *)
(* center (external) keeps QoS 2 publications in memory until they are     *)
(* confirmed, also across disconnections; its session is clean, so after a *)
(* reconnect it transmits an unconfirmed command AGAIN.  The rover's       *)
(* session is clean too: what is transmitted while it is away is lost.     *)
(***************************************************************************)
EXTENDS AckTracker, CommandReceiver, FiniteSets

CONSTANTS
  ResendSpan,  \* longest time from the first to the last transmission
  MaxCommands, \* bound: commands the operator issues in one behaviour
  FlakyLinks   \* bound: the links that may go down once they are up

(***************************************************************************)
(* dedup_eviction_s must outlive the retransmissions: nothing in the code  *)
(* enforces it, it is what the deduplication assumes of the control        *)
(* center's link.                                                          *)
(***************************************************************************)
ASSUME ResendAssumption ==
  /\ ResendSpan \in Nat /\ ResendSpan <= EvictAge
  /\ MaxCommands \in Nat
  /\ FlakyLinks \subseteq {"cc", "rover"}

VARIABLES
  ccUp,      \* the control center's MQTT client is connected
  issued,    \* commands send_command has published
  refused,   \* commands rejected locally (safety gate, ValueError)
  outbox,    \* publications Paho has not seen confirmed
  sentOnce,  \* members of outbox transmitted at least once
  txAge      \* ticks since their first transmission (0 for the others)

linkVars == <<ccUp, issued, refused, outbox, sentOnce, txAge>>
vars == <<trackerVars, receiverVars, linkVars>>

\* The commands that send_command takes whatever the telemetry and its arguments say
\* (a recording may have a wrong action), and those the gate knows nothing about.
NeverRefused == {"estop", "disarm", "cancel_goal"}
UnknownToGate == {"set_param"}

Init ==
  /\ TrackerInit
  /\ ReceiverInit
  /\ ccUp = FALSE
  /\ issued = {} /\ refused = {}
  /\ outbox = {} /\ sentOnce = {}
  /\ txAge = [c \in Cmd |-> 0]

Fresh(c) ==
  /\ c \notin issued \cup refused
  /\ Cardinality(issued \cup refused) < MaxCommands

\* send_command past the safety gate: publish, then (without suspending in
\* between) evt.cmd_sent.
Submit(c) ==
  /\ Fresh(c) /\ Kind[c] \notin UnknownToGate \cup {"drive"}
  /\ issued' = issued \cup {c}
  /\ outbox' = outbox \cup {c}
  /\ OnCmdSent(c)
  /\ UNCHANGED <<receiverVars, ccUp, refused, sentOnce, txAge>>

\* A drive command goes out with QoS 0 and no tracking: now or never.
SubmitDrive(c) ==
  /\ Fresh(c) /\ Kind[c] = "drive"
  /\ issued' = issued \cup {c}
  /\ IF ccUp /\ roverUp THEN OnMqttMessage(c) ELSE UNCHANGED receiverVars
  /\ UNCHANGED <<trackerVars, ccUp, refused, outbox, sentOnce, txAge>>

\* send_command raises ValueError; post_command records the rejection.
Refuse(c) ==
  /\ Fresh(c) /\ Kind[c] \notin NeverRefused
  /\ refused' = refused \cup {c}
  /\ RecordLocalRejection(c)
  /\ UNCHANGED <<receiverVars, ccUp, issued, outbox, sentOnce, txAge>>

(***************************************************************************)
(* One transmission of a publication, which reaches the rover if it is     *)
(* connected.  Either the handshake completes, or the control center's     *)
(* link drops first and the publication stays for the next connection.     *)
(***************************************************************************)
Transmit(c) ==
  /\ ccUp /\ c \in outbox
  /\ c \in sentOnce => txAge[c] <= ResendSpan
  /\ \/ /\ outbox' = outbox \ {c}
        /\ sentOnce' = sentOnce \ {c}
        /\ txAge' = [txAge EXCEPT ![c] = 0]
        /\ UNCHANGED ccUp
     \/ /\ "cc" \in FlakyLinks
        /\ sentOnce' = sentOnce \cup {c}
        /\ ccUp' = FALSE
        /\ UNCHANGED <<outbox, txAge>>
  /\ IF roverUp THEN OnMqttMessage(c) ELSE UNCHANGED receiverVars
  /\ UNCHANGED <<trackerVars, issued, refused>>

\* _on_message hands the acknowledgement to the asyncio loop, in order.
DeliverAck ==
  /\ ccUp /\ uplink # <<>>
  /\ OnCmdAck(Head(uplink).id, Head(uplink).status)
  /\ uplink' = Tail(uplink)
  /\ UNCHANGED <<roverUp, seen, seenAge, ackQueue, cmdQueue, drainAcks,
                 drainCmds, goalState, activeGoal, said, runs, linkVars>>

\* The broker drops acknowledgements while nobody is subscribed.
LoseAck ==
  /\ ~ccUp /\ uplink # <<>>
  /\ uplink' = Tail(uplink)
  /\ UNCHANGED <<roverUp, seen, seenAge, ackQueue, cmdQueue, drainAcks,
                 drainCmds, goalState, activeGoal, said, runs, trackerVars,
                 linkVars>>

CCLink ==
  /\ ccUp => "cc" \in FlakyLinks
  /\ ccUp' = ~ccUp
  /\ UNCHANGED <<trackerVars, receiverVars, issued, refused, outbox, sentOnce,
                 txAge>>

OlderTx(age) == IF age <= ResendSpan THEN age + 1 ELSE age

Tick ==
  /\ TrackerTick
  /\ ReceiverTick
  /\ txAge' = [c \in Cmd |-> IF c \in sentOnce THEN OlderTx(txAge[c]) ELSE 0]
  /\ UNCHANGED <<ccUp, issued, refused, outbox, sentOnce>>

TrackerStep(c) ==
  /\ StartWatch(c) \/ WatchExpires(c) \/ WatchReturns(c)
  /\ UNCHANGED <<receiverVars, linkVars>>

ReceiverStep ==
  /\ \/ EvictSeen \/ DrainSwap \/ SendReceived
     \/ RoverConnects
     \/ "rover" \in FlakyLinks /\ RoverLosesLink
     \/ \E c \in Cmd :
          \/ HandleAtOnce(c) \/ HandleDrive(c)
          \/ HandleNavGoal(c) \/ HandleCancelGoal(c)
          \/ GoalAccepted(c) \/ GoalRejected(c) \/ GoalResult(c)
          \/ CancelResponse(c)
  /\ UNCHANGED <<trackerVars, linkVars>>

Next ==
  \/ \E c \in Cmd :
       \/ Submit(c) \/ SubmitDrive(c) \/ Refuse(c) \/ Transmit(c)
       \/ TrackerStep(c)
  \/ DeliverAck \/ LoseAck \/ CCLink \/ Tick
  \/ ReceiverStep

(***************************************************************************)
(* Time passes and the asyncio loop runs its tasks, as long as the         *)
(* WebSocket clients _on_cmd_sent broadcasts to keep reading.  Nothing is  *)
(* assumed of the links, of the rover or of Nav2.                          *)
(***************************************************************************)
Fairness ==
  /\ WF_vars(Tick)
  /\ \A c \in Cmd :
       /\ WF_vars(StartWatch(c) /\ UNCHANGED <<receiverVars, linkVars>>)
       /\ WF_vars(WatchExpires(c) /\ UNCHANGED <<receiverVars, linkVars>>)

Spec == Init /\ [][Next]_vars
FairSpec == Spec /\ Fairness

-----------------------------------------------------------------------------
(* Properties *)

\* Every variable stays within its type.
TypeOK ==
  /\ TrackerTypeOK
  /\ ReceiverTypeOK
  /\ ccUp \in BOOLEAN
  /\ issued \subseteq Cmd /\ refused \subseteq Cmd
  /\ outbox \subseteq Cmd /\ sentOnce \subseteq Cmd
  /\ txAge \in [Cmd -> 0..(ResendSpan + 1)]

\* A command is dispatched at most once, although its publication may be
\* transmitted again after a lost handshake (is_duplicate, dedup timer).
AtMostOnce == \A c \in Cmd : runs[c] <= 1

Shows(c, status) == \E i \in DOMAIN history : history[i] = [id |-> c, status |-> status]

\* The history shows nothing the rover did not say, and shows a rejection only
\* of a command that the rover never carried out (_on_cmd_ack, post_command).
PanelHonest ==
  \A c \in Cmd :
    /\ \A status \in {"ACK_RECEIVED", "ACK_ACCEPTED", "ACK_COMPLETED"} :
         Shows(c, status) => status \in said[c]
    /\ Shows(c, "ACK_REJECTED") =>
         IF c \in refused
           THEN runs[c] = 0
           ELSE said[c] = {"ACK_RECEIVED", "ACK_REJECTED"}

\* No record hangs: one that is not final belongs to a pending command, and a
\* pending command has a watcher or is about to get one (_on_cmd_sent creates
\* it only after the broadcast).  No command has two records.
OpenRecordsTracked ==
  /\ \A i \in DOMAIN history :
       ~IsTerminalStatus(history[i].id, history[i].status) =>
         history[i].id \in pending
  /\ pending \subseteq watched \cup unwatched
  /\ \A i, j \in DOMAIN history : history[i].id = history[j].id => i = j

\* Whatever is lost, every tracked command is eventually closed.
PendingResolved == \A c \in Cmd : c \in pending ~> c \notin pending

\* openspec/specs/command-system/spec.md: a command is marked FAILED "If no
\* ACK_ACCEPTED or higher is received" in time, so one whose acceptance is on
\* record never times out (_watch_timeout).
AcceptedNotTimedOut ==
  [][\A c \in Cmd : Shows(c, "ACK_ACCEPTED") => ~WatchExpires(c)]_vars

-----------------------------------------------------------------------------
(* The promise to the operator *)

PanelOf(c) ==
  IF Shown(c) THEN history[CHOOSE i \in DOMAIN history : history[i].id = c].status
  ELSE IF c \in pending THEN "open"
  ELSE IF c \in refused \/ (c \in issued /\ Kind[c] # "drive") THEN "closed"
  ELSE "none"

Panel == [c \in Cmd |-> PanelOf(c)]

Lifecycle == INSTANCE CommandLifecycle WITH panel <- Panel, left <- issued

\* The command path implements CommandLifecycle.
ImplementsLifecycle == Lifecycle!Spec

=============================================================================
