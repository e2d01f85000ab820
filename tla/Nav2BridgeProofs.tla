-------------------------- MODULE Nav2BridgeProofs --------------------------
(* Theorems about Nav2Bridge, for every set of goals and every depth. *)
EXTENDS Nav2Bridge, SequenceTheorems, TLAPS

(***************************************************************************)
(* Keep-last: publishing on a topic keeps the type of its queue and never  *)
(* exceeds its depth.                                                      *)
(***************************************************************************)
LEMMA PublishFacts ==
  ASSUME NEW S, NEW q \in Seq(S), Len(q) <= Depth, NEW m \in S
  PROVE  Publish(q, m) \in Seq(S) /\ Len(Publish(q, m)) <= Depth
<1> DEFINE all == Append(q, m)
           first == IF Len(all) > Depth THEN 2 ELSE 1
<1>1. all \in Seq(S) /\ Len(all) = Len(q) + 1 /\ Len(q) \in Nat /\ Depth \in Nat \ {0}
  BY AppendProperties, LenProperties, BridgeAssumption
<1>2. \A i \in 1..Len(all) : all[i] \in S
  BY <1>1, ElementOfSeq
<1> HIDE DEF all
<1>3. first \in Int /\ Len(all) \in Int /\ \A i \in first..Len(all) : all[i] \in S
  BY <1>1, <1>2
<1> HIDE DEF first
<1>4. /\ SubSeq(all, first, Len(all)) \in Seq(S)
      /\ Len(SubSeq(all, first, Len(all))) =
           IF first <= Len(all) THEN Len(all) - first + 1 ELSE 0
  BY <1>3, SubSeqProperties
<1>5. Len(SubSeq(all, first, Len(all))) <= Depth
  BY <1>1, <1>4 DEF first
<1>6. Publish(q, m) = SubSeq(all, first, Len(all))
  BY DEF Publish, all, first
<1> QED BY <1>4, <1>5, <1>6

GoalState == {"none", "REQUESTED", "REFUSED"} \cup Active \cup Ended
Snapshot == [Goal -> {"none"} \cup Active \cup Ended]

\* A transition of the server keeps the goals and the status topic in type.
LEMMA MoveFacts ==
  ASSUME TypeOK, NEW g \in Goal, NEW state \in Active \cup Ended, Move(g, state)
  PROVE  /\ goal' \in [Goal -> GoalState]
         /\ statusQ' \in Seq(Snapshot) /\ Len(statusQ') <= Depth
<1> DEFINE snap == [h \in Goal |-> IF h = g THEN state ELSE Listed(h)]
<1>1. goal' \in [Goal -> GoalState]
  BY DEF TypeOK, Move, GoalState
<1>2. snap \in Snapshot
  BY DEF TypeOK, Snapshot, Listed
<1>3. statusQ \in Seq(Snapshot) /\ Len(statusQ) <= Depth
  BY DEF TypeOK, Snapshot
<1>4. statusQ' = Publish(statusQ, snap)
  BY DEF Move
<1> QED BY <1>1, <1>2, <1>3, <1>4, PublishFacts

\* What the action server and its other clients do keeps the types.
LEMMA ServerTypes ==
  ASSUME TypeOK,
         \/ \E g \in Goal : ServerStep(g)
         \/ \E x \in Cancel : ServerCancels(x)
  PROVE  TypeOK'
<1>1. ASSUME NEW g \in Goal, ServerTakes(g) \/ ServerRuns(g) \/ ServerEnds(g) \/ OtherCancels(g)
      PROVE  TypeOK'
  <2>1. PICK state \in Active \cup Ended : Move(g, state)
    BY <1>1 DEF ServerTakes, ServerRuns, ServerEnds, OtherCancels, Active, Ended
  <2>2. /\ goal' \in [Goal -> GoalState]
        /\ statusQ' \in Seq(Snapshot) /\ Len(statusQ') <= Depth
    BY <2>1, MoveFacts
  <2> QED BY <1>1, <2>2
     DEF TypeOK, ServerTakes, ServerRuns, ServerEnds, OtherCancels, bridgeVars,
         GoalState, Snapshot
<1>2. ASSUME NEW g \in Goal, ServerRefuses(g) PROVE TypeOK'
  BY <1>2 DEF TypeOK, ServerRefuses, bridgeVars
<1>3. ASSUME NEW g \in Goal, ServerReports(g) PROVE TypeOK'
  <2>1. feedbackQ' \in Seq(Goal) /\ Len(feedbackQ') <= Depth
    BY <1>3, PublishFacts DEF TypeOK, ServerReports
  <2> QED BY <1>3, <2>1 DEF TypeOK, ServerReports, bridgeVars
<1>4. ASSUME NEW x \in Cancel, ServerCancels(x) PROVE TypeOK'
  <2>1. CASE \E g \in cancelOf[x] : Move(g, "CANCELING")
    <3>1. PICK g \in cancelOf[x] : Move(g, "CANCELING")
      BY <2>1
    <3>2. g \in Goal
      BY DEF TypeOK, Goal
    <3>3. /\ goal' \in [Goal -> GoalState]
          /\ statusQ' \in Seq(Snapshot) /\ Len(statusQ') <= Depth
      BY <3>1, <3>2, MoveFacts DEF Active
    <3>4. cancelReply' \in [Cancel -> {"none", "canceling", "empty"}]
      BY <1>4 DEF TypeOK, ServerCancels
    <3> QED BY <1>4, <3>3, <3>4
         DEF TypeOK, ServerCancels, bridgeVars, GoalState, Snapshot
  <2>2. CASE UNCHANGED <<goal, statusQ>>
    BY <1>4, <2>2 DEF TypeOK, ServerCancels, bridgeVars
  <2> QED BY <1>4, <2>1, <2>2 DEF ServerCancels
<1> QED BY <1>1, <1>2, <1>3, <1>4 DEF ServerStep

\* Rendering a label keeps nav2_status_ and its message in type.
LEMMA RenderFacts ==
  ASSUME NEW label \in Labels, NEW navigating \in BOOLEAN, Render(label, navigating)
  PROVE  status' \in Nav2Status /\ published' \in Nav2Status
BY DEF Render, Nav2Status

\* Acknowledging keeps the record of what was said in type.
LEMMA AckFacts ==
  ASSUME TypeOK, NEW c \in OwnGoal \cup Cancel,
         NEW ack \in Outcomes \cup {"ACK_ACCEPTED"}, SendAck(c, ack)
  PROVE  said' \in [OwnGoal \cup Cancel -> SUBSET (Outcomes \cup {"ACK_ACCEPTED"})]
BY DEF TypeOK, SendAck

\* The callbacks of the operator's own goals and cancellations.
LEMMA ClientTypes ==
  ASSUME TypeOK,
         \/ \E g \in OwnGoal : \/ HandleNavGoal(g) \/ GoalResponse(g)
                               \/ GoalFeedback(g) \/ GoalResult(g)
         \/ \E x \in Cancel : HandleCancelGoal(x) \/ CancelResponse(x)
         \/ StatusTimer
  PROVE  TypeOK'
<1>0. /\ status.navigating \in BOOLEAN
      /\ {"UNAVAILABLE", "PENDING", "REJECTED", "ACCEPTED", "EXECUTING"} \subseteq Labels
  BY DEF TypeOK, Nav2Status, Labels, Active
<1>1. ASSUME NEW g \in OwnGoal, HandleNavGoal(g) PROVE TypeOK'
  <2>1. status' \in Nav2Status /\ published' \in Nav2Status
    <3>1. CASE Render("UNAVAILABLE", status.navigating)
      BY <1>0, <3>1, RenderFacts
    <3>2. CASE Render("PENDING", FALSE)
      BY <1>0, <3>2, RenderFacts
    <3>3. CASE UNCHANGED <<status, published>>
      BY <3>3 DEF TypeOK
    <3> QED BY <1>1, <3>1, <3>2, <3>3 DEF HandleNavGoal
  <2>2. goal' \in [Goal -> GoalState] /\ client' \in [OwnGoal -> {"idle", "sent", "known", "over"}]
    BY <1>1 DEF TypeOK, HandleNavGoal, GoalState
  <2>3. said' \in [OwnGoal \cup Cancel -> SUBSET (Outcomes \cup {"ACK_ACCEPTED"})]
    <3>1. CASE SendAck(g, "ACK_REJECTED")
      BY <3>1, AckFacts DEF Outcomes
    <3>2. CASE UNCHANGED said
      BY <3>2 DEF TypeOK
    <3> QED BY <1>1, <3>1, <3>2 DEF HandleNavGoal
  <2> QED BY <1>1, <2>1, <2>2, <2>3 DEF TypeOK, HandleNavGoal, GoalState
<1>2. ASSUME NEW g \in OwnGoal, GoalResponse(g) PROVE TypeOK'
  <2>1. status' \in Nav2Status /\ published' \in Nav2Status
    <3>1. CASE Render("REJECTED", FALSE)
      BY <1>0, <3>1, RenderFacts
    <3>2. CASE Render("ACCEPTED", TRUE)
      BY <1>0, <3>2, RenderFacts
    <3> QED BY <1>2, <3>1, <3>2 DEF GoalResponse
  <2>2. handle' \subseteq OwnGoal /\ client' \in [OwnGoal -> {"idle", "sent", "known", "over"}]
    BY <1>2 DEF TypeOK, GoalResponse
  <2>3. said' \in [OwnGoal \cup Cancel -> SUBSET (Outcomes \cup {"ACK_ACCEPTED"})]
    <3>1. PICK ack \in {"ACK_REJECTED", "ACK_ACCEPTED"} : SendAck(g, ack)
      BY <1>2 DEF GoalResponse
    <3> QED BY <3>1, AckFacts DEF Outcomes
  <2> QED BY <1>2, <2>1, <2>2, <2>3 DEF TypeOK, GoalResponse, serverVars
<1>3. ASSUME NEW g \in OwnGoal, GoalFeedback(g) PROVE TypeOK'
  <2>1. status' \in Nav2Status /\ published' \in Nav2Status
    <3>1. CASE Render("EXECUTING", TRUE)
      BY <1>0, <3>1, RenderFacts
    <3>2. CASE UNCHANGED <<status, published>>
      BY <3>2 DEF TypeOK
    <3> QED BY <1>3, <3>1, <3>2 DEF GoalFeedback
  <2> QED BY <1>3, <2>1 DEF TypeOK, GoalFeedback
<1>4. ASSUME NEW g \in OwnGoal, GoalResult(g) PROVE TypeOK'
  BY <1>4 DEF TypeOK, GoalResult, Render, SendAck, Nav2Status, Labels, Ended,
              Outcomes, serverVars
<1>5. ASSUME NEW x \in Cancel, HandleCancelGoal(x) PROVE TypeOK'
  BY <1>5 DEF TypeOK, HandleCancelGoal, SendAck, Outcomes, serverVars
<1>6. ASSUME NEW x \in Cancel, CancelResponse(x) PROVE TypeOK'
  BY <1>6 DEF TypeOK, CancelResponse, Render, SendAck, Nav2Status, Labels, Active,
              Outcomes, serverVars
<1>7. ASSUME StatusTimer PROVE TypeOK'
  BY <1>7 DEF TypeOK, StatusTimer, Render, Nav2Status, Labels, serverVars
<1> QED BY <1>1, <1>2, <1>3, <1>4, <1>5, <1>6, <1>7

\* The shadow subscribers.
LEMMA ShadowTypes ==
  ASSUME TypeOK, ShadowFeedback \/ ShadowStatus
  PROVE  TypeOK'
<1>1. ASSUME ShadowFeedback PROVE TypeOK'
  <2>1. /\ Head(feedbackQ) \in Goal /\ Tail(feedbackQ) \in Seq(Goal)
        /\ Len(Tail(feedbackQ)) = Len(feedbackQ) - 1
    BY <1>1, HeadTailProperties DEF TypeOK, ShadowFeedback
  <2>2. Len(feedbackQ') <= Depth
    BY <1>1, <2>1, LenProperties, BridgeAssumption DEF TypeOK, ShadowFeedback
  <2>3. status' \in Nav2Status /\ published' \in Nav2Status /\ shadow' \subseteq Goal
    <3>1. CASE Render("EXECUTING", TRUE) /\ shadow' = {Head(feedbackQ)}
      BY <2>1, <3>1, RenderFacts DEF Labels, Active
    <3>2. CASE UNCHANGED <<shadow, status, published>>
      BY <3>2 DEF TypeOK
    <3> QED BY <1>1, <3>1, <3>2 DEF ShadowFeedback
  <2>4. feedbackQ' = Tail(feedbackQ)
    BY <1>1 DEF ShadowFeedback
  <2> QED BY <1>1, <2>1, <2>2, <2>3, <2>4 DEF TypeOK, ShadowFeedback
<1>2. ASSUME ShadowStatus PROVE TypeOK'
  <2>1. /\ Tail(statusQ) \in Seq(Snapshot)
        /\ Len(Tail(statusQ)) = Len(statusQ) - 1
    BY <1>2, HeadTailProperties DEF TypeOK, ShadowStatus, Snapshot
  <2>2. Len(statusQ') <= Depth
    BY <1>2, <2>1, LenProperties, BridgeAssumption DEF TypeOK, ShadowStatus
  <2>3. status' \in Nav2Status /\ shadow' \subseteq Goal /\ blocked' \in BOOLEAN
    <3>1. CASE UNCHANGED <<shadow, status, blocked>>
      BY <3>1 DEF TypeOK
    <3>2. CASE /\ blocked' = TRUE
               /\ shadow' \in {{}, shadow}
               /\ \/ UNCHANGED status
                  \/ \E s \in Ended \cup Active :
                       status' = [label |-> s,
                                  navigating |-> status.navigating /\ s = "CANCELING"]
      <4>1. CASE UNCHANGED status
        BY <3>2, <4>1 DEF TypeOK
      <4>2. ASSUME NEW s \in Ended \cup Active, NEW n \in BOOLEAN,
                   status' = [label |-> s, navigating |-> n]
            PROVE  status' \in Nav2Status
        BY <4>2 DEF Nav2Status, Labels
      <4>3. \A s : (status.navigating /\ s = "CANCELING") \in BOOLEAN
        OBVIOUS
      <4>4. status' \in Nav2Status
        BY <3>2, <4>1, <4>2, <4>3 DEF TypeOK
      <4> QED BY <3>2, <4>4 DEF TypeOK
    <3> QED BY <1>2, <3>1, <3>2 DEF ShadowStatus
  <2> QED BY <1>2, <2>1, <2>2, <2>3 DEF TypeOK, ShadowStatus, Snapshot
<1> QED BY <1>1, <1>2

\* Every step keeps the types.
LEMMA StepTypes ==
  ASSUME TypeOK, [Next]_vars
  PROVE  TypeOK'
<1>1. CASE Next
  BY <1>1, ServerTypes, ClientTypes, ShadowTypes DEF Next
<1>2. CASE UNCHANGED vars
  BY <1>2 DEF TypeOK, vars, serverVars, bridgeVars
<1> QED BY <1>1, <1>2

\* Every variable keeps its type and no subscription outgrows its depth, for
\* every set of goals (the constructor's queues, all callbacks).
THEOREM TypeCorrect == Spec => []TypeOK
<1>1. Init => TypeOK
  <2> SUFFICES ASSUME Init PROVE TypeOK
    OBVIOUS
  <2>1. /\ feedbackQ \in Seq(Goal) /\ statusQ \in Seq(Snapshot)
        /\ Len(feedbackQ) <= Depth /\ Len(statusQ) <= Depth
    BY EmptySeq, BridgeAssumption DEF Init
  <2>2. status \in Nav2Status /\ published \in Nav2Status
    BY DEF Init, Nav2Status, Labels
  <2> QED BY <2>1, <2>2 DEF Init, TypeOK, Snapshot
<1> QED BY <1>1, StepTypes, PTL DEF Spec

-----------------------------------------------------------------------------
(* The handle *)

\* However goals overlap, the handle names at most one goal, and one whose
\* result has not been consumed: a cancellation never names a forgotten goal
\* (handle_cancel_goal, the result callback of handle_nav_goal).
THEOREM HandleAlwaysLive == Spec => []HandleIsLive
<1>1. Init => HandleIsLive
  BY DEF Init, HandleIsLive
<1>2. TypeOK /\ HandleIsLive /\ [Next]_vars => HandleIsLive'
  <2> SUFFICES ASSUME TypeOK, HandleIsLive, [Next]_vars
               PROVE  HandleIsLive'
    OBVIOUS
  <2>1. ASSUME UNCHANGED <<client, handle>> PROVE HandleIsLive'
    BY <2>1 DEF HandleIsLive
  <2>2. ASSUME NEW g \in OwnGoal, HandleNavGoal(g) PROVE HandleIsLive'
    BY <2>2 DEF HandleNavGoal, HandleIsLive, TypeOK
  <2>3. ASSUME NEW g \in OwnGoal, GoalResponse(g) PROVE HandleIsLive'
    BY <2>3 DEF GoalResponse, HandleIsLive, TypeOK
  <2>4. ASSUME NEW g \in OwnGoal, GoalResult(g) PROVE HandleIsLive'
    BY <2>4 DEF GoalResult, HandleIsLive, TypeOK
  <2>5. CASE \/ \E g \in Goal : ServerStep(g)
             \/ \E g \in OwnGoal : GoalFeedback(g)
             \/ \E x \in Cancel : \/ HandleCancelGoal(x) \/ ServerCancels(x)
                                  \/ CancelResponse(x)
             \/ StatusTimer \/ ShadowFeedback \/ ShadowStatus
             \/ UNCHANGED vars
    BY <2>1, <2>5
    DEF ServerStep, ServerTakes, ServerRefuses, ServerRuns, ServerEnds,
        ServerReports, OtherCancels, GoalFeedback, HandleCancelGoal,
        ServerCancels, CancelResponse, StatusTimer, ShadowFeedback,
        ShadowStatus, vars, bridgeVars
  <2> QED BY <2>2, <2>3, <2>4, <2>5 DEF Next
<1> QED BY <1>1, <1>2, TypeCorrect, PTL DEF Spec

-----------------------------------------------------------------------------
(* What the panel shows *)

(***************************************************************************)
(* The strengthening: until the executor blocks, what was published is     *)
(* what nav2_status_ holds, so the callbacks that keep the navigating flag *)
(* (the timer, a cancellation, an absent server) keep the explanation too. *)
(***************************************************************************)
Followed == shadow # {} \/ \E g \in OwnGoal : client[g] = "known"

ShownInv == ~blocked => published = status /\ (status.navigating => Followed)

\* The panel never shows a navigation the bridge does not follow, for every
\* set of goals and however they overlap (on_nav2_status_timer, callbacks).
THEOREM NeverGhostNavigation == Spec => []NoGhostNavigation
<1>1. Init => ShownInv
  BY DEF Init, ShownInv
<1>2. TypeOK /\ ShownInv /\ [Next]_vars => ShownInv'
  <2> SUFFICES ASSUME TypeOK, ShownInv, [Next]_vars
               PROVE  ShownInv'
    OBVIOUS
  <2>1. ASSUME UNCHANGED bridgeVars PROVE ShownInv'
    BY <2>1 DEF ShownInv, Followed, bridgeVars
  <2>2. ASSUME NEW g \in OwnGoal, HandleNavGoal(g) PROVE ShownInv'
    BY <2>2 DEF HandleNavGoal, Render, ShownInv, Followed, TypeOK
  <2>3. ASSUME NEW g \in OwnGoal, GoalResponse(g) PROVE ShownInv'
    BY <2>3 DEF GoalResponse, Render, ShownInv, Followed, TypeOK
  <2>4. ASSUME NEW g \in OwnGoal, GoalFeedback(g) PROVE ShownInv'
    BY <2>4 DEF GoalFeedback, Render, ShownInv, Followed, TypeOK
  <2>5. ASSUME NEW g \in OwnGoal, GoalResult(g) PROVE ShownInv'
    BY <2>5 DEF GoalResult, Render, ShownInv, Followed, TypeOK
  <2>6. ASSUME NEW x \in Cancel, HandleCancelGoal(x) \/ CancelResponse(x)
        PROVE  ShownInv'
    BY <2>6 DEF HandleCancelGoal, CancelResponse, Render, ShownInv, Followed, TypeOK
  <2>7. ASSUME StatusTimer PROVE ShownInv'
    BY <2>7 DEF StatusTimer, Render, ShownInv, Followed
  <2>8. ASSUME ShadowFeedback PROVE ShownInv'
    BY <2>8 DEF ShadowFeedback, Render, ShownInv, Followed
  <2>9. ASSUME ShadowStatus PROVE ShownInv'
    BY <2>9 DEF ShadowStatus, ShownInv, Followed
  <2>10. CASE \/ \E g \in Goal : ServerStep(g)
              \/ \E x \in Cancel : ServerCancels(x)
              \/ UNCHANGED vars
    BY <2>1, <2>10
    DEF ServerStep, ServerTakes, ServerRefuses, ServerRuns, ServerEnds,
        ServerReports, OtherCancels, ServerCancels, vars
  <2> QED BY <2>2, <2>3, <2>4, <2>5, <2>6, <2>7, <2>8, <2>9, <2>10 DEF Next
<1>3. ShownInv => NoGhostNavigation
  BY DEF ShownInv, NoGhostNavigation, Followed
<1> QED BY <1>1, <1>2, <1>3, TypeCorrect, PTL DEF Spec

=============================================================================
