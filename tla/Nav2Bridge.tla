----------------------------- MODULE Nav2Bridge -----------------------------
(***************************************************************************)
(* The NavigateToPose bridge of TelemetryPublisher.  It is the action      *)
(* client of the goals the operator sends (OwnGoal) and it shadows the     *)
(* goals other clients send (ExternalGoal) through the action's feedback   *)
(* and status topics, so that /monitor/nav2 shows both.                    *)
(*                                                                         *)
(* All callbacks run on one executor thread, each to its end: one step.    *)
(* Which ready callback runs next is open.  The Nav2 action server is      *)
(* external: it answers requests, moves goals along and publishes.         *)
(*                                                                         *)
(* nav2_mutex_ is a plain std::mutex.  A callback that locks it twice      *)
(* never returns, and with it the executor: `blocked'.                     *)
(***************************************************************************)
EXTENDS Naturals, Sequences, FiniteSets

CONSTANTS
  OwnGoal,       \* cmd_ids of NAV_GOAL commands, also naming their goals
  ExternalGoal,  \* goals of RViz or the command line
  Cancel,        \* cmd_ids of CANCEL_GOAL commands
  MaxGoals,      \* bound: goals requested in one behaviour
  Depth          \* depth of the two shadow subscriptions (10)

ASSUME BridgeAssumption ==
  /\ OwnGoal \cap ExternalGoal = {} /\ OwnGoal \cap Cancel = {}
  /\ Depth \in Nat \ {0} /\ MaxGoals \in Nat

VARIABLES
  goal,         \* goal[g]: what the server makes of goal g
  feedbackQ,    \* goals named by unread messages on _action/feedback
  statusQ,      \* unread snapshots on _action/status
  clientNews,   \* own goals with feedback the action client has not read
  client,       \* client[g]: how far the action client got with own goal g
  handle,       \* active_nav2_goal_handle_ and active_nav_goal_cmd_id_
  shadow,       \* external_goal_uuid_, {} while external_goal_active_ is false
  status,       \* nav2_status_
  published,    \* the last Nav2Status message
  cancelOf,     \* cancelOf[x]: {} or the goal whose cancellation x waits for
  cancelReply,  \* the server's unread answer to a cancellation
  said,         \* history: statuses of the acknowledgements sent
  blocked       \* the executor waits for a mutex it holds itself

serverVars == <<goal, feedbackQ, statusQ, clientNews, cancelReply>>
bridgeVars == <<client, handle, shadow, status, published, cancelOf, said, blocked>>
vars == <<serverVars, bridgeVars>>

Goal == OwnGoal \cup ExternalGoal

Ended == {"SUCCEEDED", "ABORTED", "CANCELED"}
Active == {"ACCEPTED", "EXECUTING", "CANCELING"}
Labels == Ended \cup Active \cup {"IDLE", "UNAVAILABLE", "PENDING", "REJECTED"}
Outcomes == {"ACK_REJECTED", "ACK_COMPLETED", "ACK_FAILED"}

Nav2Status == [label : Labels, navigating : BOOLEAN]

Init ==
  /\ goal = [g \in Goal |-> "none"]
  /\ feedbackQ = <<>> /\ statusQ = <<>>
  /\ clientNews = {}
  /\ client = [g \in OwnGoal |-> "idle"]
  /\ handle = {} /\ shadow = {}
  /\ status = [label |-> "IDLE", navigating |-> FALSE]
  /\ published = status
  /\ cancelOf = [x \in Cancel |-> {}]
  /\ cancelReply = [x \in Cancel |-> "none"]
  /\ said = [c \in OwnGoal \cup Cancel |-> {}]
  /\ blocked = FALSE

Requested ==
  {g \in OwnGoal : client[g] # "idle"} \cup {g \in ExternalGoal : goal[g] # "none"}

\* The bound on the goals of a behaviour.
RoomForGoal == Cardinality(Requested) < MaxGoals

-----------------------------------------------------------------------------
(* The action server and its other clients (external) *)

\* Faulty variant: nothing is ever lost.
PublishAll(queue, msg) == Append(queue, msg)

\* Keep-last: a full subscription queue loses its oldest message.
Publish(queue, msg) ==
  LET all == Append(queue, msg)
  IN  SubSeq(all, IF Len(all) > Depth THEN 2 ELSE 1, Len(all))

\* The status array: the goals the server ever accepted.
Listed(g) == IF goal[g] \in Active \cup Ended THEN goal[g] ELSE "none"

\* Every transition is published, with the state of all goals.
Move(g, state) ==
  /\ goal' = [goal EXCEPT ![g] = state]
  /\ statusQ' = Publish(statusQ, [h \in Goal |-> IF h = g THEN state ELSE Listed(h)])

ServerTakes(g) ==
  /\ \/ g \in ExternalGoal /\ goal[g] = "none" /\ RoomForGoal
     \/ goal[g] = "REQUESTED"
  /\ Move(g, "ACCEPTED")
  /\ UNCHANGED <<feedbackQ, clientNews, cancelReply, bridgeVars>>

ServerRefuses(g) ==
  /\ goal[g] = "REQUESTED"
  /\ goal' = [goal EXCEPT ![g] = "REFUSED"]
  /\ UNCHANGED <<feedbackQ, statusQ, clientNews, cancelReply, bridgeVars>>

ServerRuns(g) ==
  /\ goal[g] = "ACCEPTED"
  /\ Move(g, "EXECUTING")
  /\ UNCHANGED <<feedbackQ, clientNews, cancelReply, bridgeVars>>

ServerEnds(g) ==
  /\ \/ goal[g] = "EXECUTING" /\ \E end \in {"SUCCEEDED", "ABORTED"} : Move(g, end)
     \/ goal[g] = "CANCELING" /\ \E end \in Ended : Move(g, end)
  /\ UNCHANGED <<feedbackQ, clientNews, cancelReply, bridgeVars>>

ServerReports(g) ==
  /\ goal[g] \in {"EXECUTING", "CANCELING"}
  /\ feedbackQ' = Publish(feedbackQ, g)
  /\ clientNews' = clientNews \cup ({g} \cap OwnGoal)
  /\ UNCHANGED <<goal, statusQ, cancelReply, bridgeVars>>

\* The server answers the bridge's cancellation, or another client cancels.
ServerCancels(x) ==
  /\ cancelOf[x] # {} /\ cancelReply[x] = "none"
  /\ \/ /\ \E g \in cancelOf[x] :
             /\ goal[g] \in {"ACCEPTED", "EXECUTING"}
             /\ Move(g, "CANCELING")
        /\ cancelReply' = [cancelReply EXCEPT ![x] = "canceling"]
     \/ /\ cancelReply' = [cancelReply EXCEPT ![x] = "empty"]
        /\ UNCHANGED <<goal, statusQ>>
  /\ UNCHANGED <<feedbackQ, clientNews, bridgeVars>>

OtherCancels(g) ==
  /\ g \in ExternalGoal
  /\ goal[g] \in {"ACCEPTED", "EXECUTING"}
  /\ Move(g, "CANCELING")
  /\ UNCHANGED <<feedbackQ, clientNews, cancelReply, bridgeVars>>

-----------------------------------------------------------------------------
(* The bridge *)

SendAck(c, ack) == said' = [said EXCEPT ![c] = @ \cup {ack}]

\* Changes nav2_status_ and publishes it.
Render(label, navigating) ==
  /\ status' = [label |-> label, navigating |-> navigating]
  /\ published' = status'

\* handle_nav_goal.  wait_for_action_server may or may not find the server;
\* a goal that is sent but not yet accepted does not count as active.
HandleNavGoal(g) ==
  /\ ~blocked /\ client[g] = "idle" /\ RoomForGoal
  /\ \/ /\ Render("UNAVAILABLE", status.navigating)
        /\ SendAck(g, "ACK_REJECTED")
        /\ client' = [client EXCEPT ![g] = "over"]
        /\ UNCHANGED goal
     \/ /\ handle # {}
        /\ SendAck(g, "ACK_REJECTED")
        /\ client' = [client EXCEPT ![g] = "over"]
        /\ UNCHANGED <<goal, status, published>>
     \/ /\ handle = {}
        /\ Render("PENDING", FALSE)
        /\ client' = [client EXCEPT ![g] = "sent"]
        /\ goal' = [goal EXCEPT ![g] = "REQUESTED"]
        /\ UNCHANGED said
  /\ UNCHANGED <<feedbackQ, statusQ, clientNews, cancelReply, handle, shadow,
                 cancelOf, blocked>>

GoalResponse(g) ==
  /\ ~blocked /\ client[g] = "sent"
  /\ \/ /\ goal[g] = "REFUSED"
        /\ client' = [client EXCEPT ![g] = "over"]
        /\ Render("REJECTED", FALSE)
        /\ SendAck(g, "ACK_REJECTED")
        /\ UNCHANGED handle
     \/ /\ goal[g] \in Active \cup Ended
        /\ client' = [client EXCEPT ![g] = "known"]
        /\ handle' = {g}
        /\ Render("ACCEPTED", TRUE)
        /\ SendAck(g, "ACK_ACCEPTED")
  /\ UNCHANGED <<serverVars, shadow, cancelOf, blocked>>

\* The action client drops feedback of goals it does not (or no longer) know.
GoalFeedback(g) ==
  /\ ~blocked /\ g \in clientNews
  /\ clientNews' = clientNews \ {g}
  /\ IF client[g] = "known"
       THEN Render("EXECUTING", TRUE)
       ELSE UNCHANGED <<status, published>>
  /\ UNCHANGED <<goal, feedbackQ, statusQ, cancelReply, client, handle, shadow,
                 cancelOf, said, blocked>>

\* Faulty variant: only the goal the handle names is concluded.
GoalResultOwnerOnly(g) ==
  /\ ~blocked /\ client[g] = "known" /\ goal[g] \in Ended
  /\ client' = [client EXCEPT ![g] = "over"]
  /\ IF handle = {g}
       THEN /\ handle' = {}
            /\ Render(goal[g], FALSE)
            /\ SendAck(g, IF goal[g] = "ABORTED" THEN "ACK_FAILED" ELSE "ACK_COMPLETED")
       ELSE UNCHANGED <<handle, status, published, said>>
  /\ UNCHANGED <<serverVars, shadow, cancelOf, blocked>>

\* Faulty variant: the panel is left navigating.
GoalResultStillNavigating(g) ==
  /\ ~blocked /\ client[g] = "known" /\ goal[g] \in Ended
  /\ client' = [client EXCEPT ![g] = "over"]
  /\ handle' = {}
  /\ Render(goal[g], status.navigating)
  /\ SendAck(g, IF goal[g] = "ABORTED" THEN "ACK_FAILED" ELSE "ACK_COMPLETED")
  /\ UNCHANGED <<serverVars, shadow, cancelOf, blocked>>

\* Faulty variant: the handle outlives its goal.
GoalResultKeepsHandle(g) ==
  /\ ~blocked /\ client[g] = "known" /\ goal[g] \in Ended
  /\ client' = [client EXCEPT ![g] = "over"]
  /\ Render(goal[g], FALSE)
  /\ SendAck(g, IF goal[g] = "ABORTED" THEN "ACK_FAILED" ELSE "ACK_COMPLETED")
  /\ UNCHANGED <<serverVars, handle, shadow, cancelOf, blocked>>

\* The result callback resets the handle, whichever goal it names.
GoalResult(g) ==
  /\ ~blocked /\ client[g] = "known" /\ goal[g] \in Ended
  /\ client' = [client EXCEPT ![g] = "over"]
  /\ handle' = {}
  /\ Render(goal[g], FALSE)
  /\ SendAck(g, IF goal[g] = "ABORTED" THEN "ACK_FAILED" ELSE "ACK_COMPLETED")
  /\ UNCHANGED <<serverVars, shadow, cancelOf, blocked>>

HandleCancelGoal(x) ==
  /\ ~blocked /\ said[x] = {}
  /\ cancelOf' = [cancelOf EXCEPT ![x] = handle]
  /\ SendAck(x, IF handle = {} THEN "ACK_REJECTED" ELSE "ACK_ACCEPTED")
  /\ UNCHANGED <<serverVars, client, handle, shadow, status, published, blocked>>

\* Overwrites the label, even when the goal has ended in the meantime.
CancelResponse(x) ==
  /\ ~blocked /\ cancelOf[x] # {} /\ cancelReply[x] # "none"
  /\ cancelOf' = [cancelOf EXCEPT ![x] = {}]
  /\ IF cancelReply[x] = "empty"
       THEN SendAck(x, "ACK_FAILED") /\ UNCHANGED <<status, published>>
       ELSE SendAck(x, "ACK_COMPLETED") /\ Render("CANCELING", status.navigating)
  /\ UNCHANGED <<serverVars, client, handle, shadow, blocked>>

StatusTimer ==
  /\ ~blocked
  /\ \E available \in BOOLEAN :
       Render(CASE status.navigating -> status.label
                [] ~status.navigating /\ ~available -> "UNAVAILABLE"
                [] OTHER -> IF status.label = "UNAVAILABLE" THEN "IDLE" ELSE status.label,
              status.navigating)
  /\ UNCHANGED <<serverVars, client, handle, shadow, cancelOf, said, blocked>>

\* on_nav2_action_feedback: with no handle, any goal is taken for external.
ShadowFeedback ==
  /\ ~blocked /\ feedbackQ # <<>>
  /\ feedbackQ' = Tail(feedbackQ)
  /\ IF handle # {}
       THEN UNCHANGED <<shadow, status, published>>
       ELSE /\ shadow' = {Head(feedbackQ)}
            /\ Render("EXECUTING", TRUE)
  /\ UNCHANGED <<goal, statusQ, clientNews, cancelReply, client, handle,
                 cancelOf, said, blocked>>

(***************************************************************************)
(* on_nav2_action_status holds nav2_mutex_ to its end and calls            *)
(* publish_nav2_status, which locks it again: every path that publishes    *)
(* changes nav2_status_ and then blocks.                                   *)
(***************************************************************************)
ShadowStatus ==
  /\ ~blocked /\ statusQ # <<>>
  /\ statusQ' = Tail(statusQ)
  /\ LET tracked == {s \in Ended \cup Active : \E g \in shadow : Head(statusQ)[g] = s}
     IN  IF \/ handle # {} \/ shadow = {}
            \/ tracked \cap {"ACCEPTED", "EXECUTING"} # {}
           THEN UNCHANGED <<shadow, status, blocked>>
           ELSE /\ blocked' = TRUE
                /\ shadow' = IF tracked \subseteq Ended /\ tracked # {} THEN {} ELSE shadow
                /\ \/ tracked = {} /\ UNCHANGED status
                   \/ \E s \in tracked :
                        status' = [label |-> s,
                                   navigating |-> status.navigating /\ s = "CANCELING"]
  /\ UNCHANGED <<goal, feedbackQ, clientNews, cancelReply, client, handle,
                 published, cancelOf, said>>

-----------------------------------------------------------------------------
ServerStep(g) ==
  \/ ServerTakes(g) \/ ServerRefuses(g) \/ ServerRuns(g) \/ ServerEnds(g)
  \/ ServerReports(g) \/ OtherCancels(g)

Next ==
  \/ \E g \in Goal : ServerStep(g)
  \/ \E g \in OwnGoal :
       HandleNavGoal(g) \/ GoalResponse(g) \/ GoalFeedback(g) \/ GoalResult(g)
  \/ \E x \in Cancel :
       HandleCancelGoal(x) \/ ServerCancels(x) \/ CancelResponse(x)
  \/ StatusTimer \/ ShadowFeedback \/ ShadowStatus

(***************************************************************************)
(* The executor runs every ready callback and Nav2 answers and ends its    *)
(* goals.  Nothing obliges the operator or another client to send one.     *)
(***************************************************************************)
Fairness ==
  /\ WF_vars(ShadowFeedback) /\ WF_vars(ShadowStatus)
  /\ \A g \in OwnGoal : WF_vars(GoalResponse(g)) /\ WF_vars(GoalResult(g))
  /\ \A x \in Cancel : WF_vars(ServerCancels(x)) /\ WF_vars(CancelResponse(x))
  /\ \A g \in Goal : WF_vars(ServerRuns(g)) /\ WF_vars(ServerEnds(g))
  /\ \A g \in OwnGoal : WF_vars(ServerTakes(g) \/ ServerRefuses(g))

Spec == Init /\ [][Next]_vars
FairSpec == Spec /\ Fairness

-----------------------------------------------------------------------------
(* Properties *)

\* Every variable stays within its type; no queue outgrows its depth.
TypeOK ==
  /\ goal \in [Goal -> {"none", "REQUESTED", "REFUSED"} \cup Active \cup Ended]
  /\ feedbackQ \in Seq(Goal) /\ Len(feedbackQ) <= Depth
  /\ statusQ \in Seq([Goal -> {"none"} \cup Active \cup Ended])
  /\ Len(statusQ) <= Depth
  /\ clientNews \subseteq OwnGoal
  /\ client \in [OwnGoal -> {"idle", "sent", "known", "over"}]
  /\ handle \subseteq OwnGoal /\ shadow \subseteq Goal
  /\ status \in Nav2Status /\ published \in Nav2Status
  /\ cancelOf \in [Cancel -> SUBSET OwnGoal]
  /\ cancelReply \in [Cancel -> {"none", "canceling", "empty"}]
  /\ said \in [OwnGoal \cup Cancel ->
                 SUBSET (Outcomes \cup {"ACK_ACCEPTED"})]
  /\ blocked \in BOOLEAN

\* The handle never names a goal whose result the client has consumed, however
\* the goals overlap: async_cancel_goal would throw for it (handle_cancel_goal).
HandleIsLive ==
  /\ \A g \in handle : client[g] = "known"
  /\ \A g, h \in handle : g = h

\* The panel shows a navigation only while the bridge follows a goal, its own
\* or a shadowed one (the callbacks of handle_nav_goal, on_nav2_action_*).
NoGhostNavigation ==
  ~blocked /\ published.navigating =>
    shadow # {} \/ \E g \in OwnGoal : client[g] = "known"

Concluded(c) == said[c] \cap Outcomes # {}

\* Every goal sent to Nav2 and every cancellation is eventually concluded by an
\* acknowledgement, however they overlap, unless the executor has blocked.
RequestsConcluded ==
  /\ \A g \in OwnGoal : client[g] = "sent" ~> Concluded(g) \/ blocked
  /\ \A x \in Cancel : cancelOf[x] # {} ~> Concluded(x) \/ blocked

\* telemetry_publisher.cpp: the shadow subscribers are there "so the RCC panel
\* can still render distance_remaining / ETA / terminal state" of goals RViz or
\* the command line sent (on_nav2_action_status).
ExternalEndRendered ==
  \A g \in ExternalGoal :
    g \in shadow /\ goal[g] \in Ended ~> published.label = goal[g]

\* openspec/specs/command-system/spec.md: a CANCEL_GOAL "SHALL cancel the active
\* NavigateToPose goal", so it is never refused while a goal of the operator's
\* that the client knows is active (handle_cancel_goal).
CancelReachesGoal ==
  [][\A x \in Cancel :
       HandleCancelGoal(x) /\ (\E g \in OwnGoal : client[g] = "known" /\ goal[g] \in Active)
         => "ACK_ACCEPTED" \in said'[x]]_vars

=============================================================================
