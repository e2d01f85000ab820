------------------------- MODULE CommandPathProofs --------------------------
(* Theorems about CommandPath, for every set of commands and every bound. *)
EXTENDS CommandPath, SequenceFacts

(***************************************************************************)
(* _upsert_history: the written record is there, every other record was    *)
(* there before and belongs to another command, and the history neither    *)
(* outgrows its limit nor holds two records of one command.                *)
(***************************************************************************)
OneRecordEach(hist) ==
  \A i, j \in DOMAIN hist : hist[i].id = hist[j].id => i = j

\* Writing a record: it is in the history, which keeps its limit, and the older one of
\* its command is not.
LEMMA UpsertFacts ==
  ASSUME NEW hist \in Seq(Record), Len(hist) <= HistoryMax, NEW rec \in Record
  PROVE  /\ Upsert(hist, rec) \in Seq(Record)
         /\ Len(Upsert(hist, rec)) <= HistoryMax
         /\ \A r \in Elems(Upsert(hist, rec)) :
              r = rec \/ (r \in Elems(hist) /\ r.id # rec.id)
         /\ rec \in Elems(Upsert(hist, rec))
         /\ OneRecordEach(hist) => OneRecordEach(Upsert(hist, rec))
<1> DEFINE u == Upsert(hist, rec)
           n == Len(hist)
<1>0. /\ n \in Nat /\ DOMAIN hist = 1..n
      /\ \A i \in 1..n : hist[i] \in Record
      /\ HistoryMax \in Nat \ {0}
  BY LenProperties, ElementOfSeq, TrackerAssumption
<1>1. CASE \E i \in DOMAIN hist : hist[i].id = rec.id
  <2>1. u = [i \in 1..n |-> IF hist[i].id = rec.id THEN rec ELSE hist[i]]
    BY <1>0, <1>1 DEF Upsert
  <2> HIDE DEF u, n
  <2>2. u \in [1..n -> Record] /\ DOMAIN u = 1..n
    BY <1>0, <2>1
  <2>3. u \in Seq(Record) /\ Len(u) = n
    BY <1>0, <2>2, SeqDef
  <2>4. \A i \in 1..n : u[i] = IF hist[i].id = rec.id THEN rec ELSE hist[i]
    BY <2>1
  <2>5. \A r \in Elems(u) : r = rec \/ (r \in Elems(hist) /\ r.id # rec.id)
    BY <1>0, <2>2, <2>4 DEF Elems
  <2>6. \A i \in 1..n : u[i].id = hist[i].id
    BY <2>4
  <2>7. OneRecordEach(hist) => OneRecordEach(u)
    BY <1>0, <2>2, <2>6 DEF OneRecordEach
  <2>8. rec \in Elems(u)
    BY <1>0, <1>1, <2>2, <2>4 DEF Elems
  <2> QED BY <2>3, <2>5, <2>7, <2>8 DEF u, n
<1>2. CASE \A i \in DOMAIN hist : hist[i].id # rec.id
  <2> DEFINE m == IF n < HistoryMax THEN n + 1 ELSE HistoryMax
  <2>1. u = [i \in 1..m |-> IF i = 1 THEN rec ELSE hist[i - 1]]
    BY <1>2 DEF Upsert
  <2>2. m \in Nat \ {0} /\ m <= n + 1 /\ m <= HistoryMax
    BY <1>0
  <2> HIDE DEF u, n, m
  <2>3. \A i \in 1..m : i # 1 => i - 1 \in 1..n
    BY <1>0, <2>2
  <2>4. u \in [1..m -> Record] /\ DOMAIN u = 1..m
    BY <1>0, <2>1, <2>3
  <2>5. u \in Seq(Record) /\ Len(u) = m
    BY <2>2, <2>4, SeqDef
  <2>6. \A i \in 1..m : u[i] = IF i = 1 THEN rec ELSE hist[i - 1]
    BY <2>1
  <2>7. \A r \in Elems(u) : r = rec \/ (r \in Elems(hist) /\ r.id # rec.id)
    BY <1>0, <1>2, <2>3, <2>4, <2>6 DEF Elems
  <2>8. ASSUME OneRecordEach(hist),
               NEW i \in 1..m, NEW j \in 1..m, u[i].id = u[j].id
        PROVE  i = j
    <3>1. CASE i = 1 \/ j = 1
      BY <1>0, <1>2, <2>3, <2>6, <2>8, <3>1
    <3>2. CASE i # 1 /\ j # 1
      <4>1. hist[i - 1].id = hist[j - 1].id
        BY <2>6, <2>8, <3>2
      <4>2. i - 1 = j - 1
        BY <1>0, <2>3, <2>8, <3>2, <4>1 DEF OneRecordEach
      <4> QED BY <2>2, <4>2
    <3> QED BY <3>1, <3>2
  <2>9. OneRecordEach(hist) => OneRecordEach(u)
    BY <2>4, <2>8 DEF OneRecordEach
  <2>10. 1 \in 1..m /\ u[1] = rec
    BY <2>2, <2>6
  <2>11. rec \in Elems(u)
    BY <2>4, <2>10 DEF Elems
  <2> QED BY <2>2, <2>5, <2>7, <2>9, <2>11 DEF u
<1> QED BY <1>1, <1>2

-----------------------------------------------------------------------------
(* Types *)

ReceiverOnly ==
  \/ EvictSeen \/ DrainSwap \/ SendReceived \/ RoverConnects \/ RoverLosesLink
  \/ \E c \in Cmd :
       \/ HandleAtOnce(c) \/ HandleDrive(c)
       \/ HandleNavGoal(c) \/ HandleCancelGoal(c)
       \/ GoalAccepted(c) \/ GoalRejected(c) \/ GoalResult(c)
       \/ CancelResponse(c)

\* send_ack keeps the types.
LEMMA SendAckType ==
  ASSUME ReceiverTypeOK, NEW c \in Cmd, NEW status \in AckStatus,
         SendAck(c, status)
  PROVE  uplink' \in Seq(Ack) /\ said' \in [Cmd -> SUBSET AckStatus]
<1>1. [id |-> c, status |-> status] \in Ack
  BY DEF Ack
<1>2. Append(uplink, [id |-> c, status |-> status]) \in Seq(Ack)
  BY <1>1, AppendFacts DEF ReceiverTypeOK
<1> QED BY <1>2 DEF SendAck, ReceiverTypeOK

\* on_mqtt_message keeps the types.
LEMMA OnMqttMessageType ==
  ASSUME ReceiverTypeOK, NEW c \in Cmd, OnMqttMessage(c)
  PROVE  ReceiverTypeOK'
<1>1. Append(ackQueue, c) \in Seq(Cmd) /\ Append(cmdQueue, c) \in Seq(Cmd)
  BY AppendFacts DEF ReceiverTypeOK
<1>2. 0 \in 0..DedupAgeCap
  BY ReceiverAssumption
<1> QED BY <1>1, <1>2 DEF OnMqttMessage, ReceiverTypeOK

\* dispatch_command keeps the types of what it takes.
LEMMA TakeNextType ==
  ASSUME ReceiverTypeOK, NEW c \in Cmd, TakeNext(c)
  PROVE  /\ drainCmds' \in Seq(Cmd)
         /\ runs' \in [Cmd -> Nat]
         /\ UNCHANGED <<roverUp, seen, seenAge, ackQueue, cmdQueue, drainAcks>>
BY TailFacts DEF TakeNext, ReceiverTypeOK

\* The steps of the receiver alone keep its types.
LEMMA ReceiverOnlyType ==
  ASSUME ReceiverTypeOK, ReceiverOnly
  PROVE  ReceiverTypeOK'
<1> USE DEF ReceiverTypeOK
<1>0. /\ 0 \in 0..DedupAgeCap
      /\ {"none", "goal_requested", "goal_running", "cancel_requested"} \subseteq GoalStates
      /\ AckStatus = {"ACK_RECEIVED", "ACK_ACCEPTED", "ACK_REJECTED",
                      "ACK_COMPLETED", "ACK_FAILED"}
  BY ReceiverAssumption DEF GoalStates, AckStatus
<1>1. CASE EvictSeen
  BY <1>0, <1>1 DEF EvictSeen
<1>2. CASE DrainSwap
  BY <1>2, EmptyFacts DEF DrainSwap
<1>3. CASE SendReceived
  <2>1. Head(drainAcks) \in Cmd /\ Tail(drainAcks) \in Seq(Cmd)
    BY <1>3, TailFacts DEF SendReceived
  <2>2. uplink' \in Seq(Ack) /\ said' \in [Cmd -> SUBSET AckStatus]
    BY <1>0, <1>3, <2>1, SendAckType DEF SendReceived
  <2> QED BY <1>3, <2>1, <2>2 DEF SendReceived
<1>4. CASE RoverConnects
  BY <1>4 DEF RoverConnects
<1>5. CASE RoverLosesLink
  <2>1. uplink' \in Seq(Ack)
    BY <1>5, PrefixFacts DEF RoverLosesLink
  <2> QED BY <1>5, <2>1 DEF RoverLosesLink
<1>6. ASSUME NEW c \in Cmd, HandleAtOnce(c)
      PROVE  ReceiverTypeOK'
  <2>1. PICK status \in Replies(Kind[c]) : SendAck(c, status)
    BY <1>6 DEF HandleAtOnce
  <2>2. status \in AckStatus
    BY <1>0, <2>1 DEF Replies
  <2>3. uplink' \in Seq(Ack) /\ said' \in [Cmd -> SUBSET AckStatus]
    BY <2>1, <2>2, SendAckType
  <2> QED BY <1>6, <2>3, TakeNextType DEF HandleAtOnce
<1>7. ASSUME NEW c \in Cmd, HandleDrive(c)
      PROVE  ReceiverTypeOK'
  BY <1>7, TakeNextType DEF HandleDrive
<1>8. ASSUME NEW c \in Cmd, HandleNavGoal(c)
      PROVE  ReceiverTypeOK'
  <2>1. uplink' \in Seq(Ack) /\ said' \in [Cmd -> SUBSET AckStatus]
    BY <1>0, <1>8, SendAckType DEF HandleNavGoal
  <2>2. goalState' \in [Cmd -> GoalStates]
    BY <1>0, <1>8 DEF HandleNavGoal
  <2> QED BY <1>8, <2>1, <2>2, TakeNextType DEF HandleNavGoal
<1>9. ASSUME NEW c \in Cmd, HandleCancelGoal(c)
      PROVE  ReceiverTypeOK'
  <2>1. uplink' \in Seq(Ack) /\ said' \in [Cmd -> SUBSET AckStatus]
    BY <1>0, <1>9, SendAckType DEF HandleCancelGoal
  <2>2. goalState' \in [Cmd -> GoalStates]
    BY <1>0, <1>9 DEF HandleCancelGoal
  <2> QED BY <1>9, <2>1, <2>2, TakeNextType DEF HandleCancelGoal
<1>10. ASSUME NEW c \in Cmd,
              GoalAccepted(c) \/ GoalRejected(c) \/ GoalResult(c) \/ CancelResponse(c)
       PROVE  ReceiverTypeOK'
  <2>1. uplink' \in Seq(Ack) /\ said' \in [Cmd -> SUBSET AckStatus]
    BY <1>0, <1>10, SendAckType DEF GoalAccepted, GoalRejected, GoalResult, CancelResponse
  <2>2. goalState' \in [Cmd -> GoalStates] /\ activeGoal' \subseteq Cmd
    BY <1>0, <1>10 DEF GoalAccepted, GoalRejected, GoalResult, CancelResponse
  <2>3. CallbackFrame
    BY <1>10 DEF GoalAccepted, GoalRejected, GoalResult, CancelResponse
  <2> QED BY <2>1, <2>2, <2>3 DEF CallbackFrame
<1> QED BY <1>1, <1>2, <1>3, <1>4, <1>5, <1>6, <1>7, <1>8, <1>9, <1>10 DEF ReceiverOnly

\* Every way the tracker writes a record keeps its types.
LEMMA TrackerTypes ==
  ASSUME TrackerTypeOK, NEW c \in Cmd
  PROVE  /\ OnCmdSent(c) => TrackerTypeOK'
         /\ StartWatch(c) => TrackerTypeOK'
         /\ WatchExpires(c) => TrackerTypeOK'
         /\ WatchReturns(c) => TrackerTypeOK'
         /\ RecordLocalRejection(c) => TrackerTypeOK'
         /\ \A status \in AckStatus : OnCmdAck(c, status) => TrackerTypeOK'
<1> USE DEF TrackerTypeOK
<1>0. 0 \in 0..MaxAge
  BY TrackerAssumption
<1>1. \A status \in ShownStatus :
        /\ Upsert(history, [id |-> c, status |-> status]) \in Seq(Record)
        /\ Len(Upsert(history, [id |-> c, status |-> status])) <= HistoryMax
  BY UpsertFacts DEF Record
<1>2. /\ AckStatus \subseteq ShownStatus
      /\ {"SENT", "ACK_FAILED", "ACK_REJECTED"} \subseteq ShownStatus
  BY DEF ShownStatus, AckStatus
<1>3. OnCmdSent(c) => TrackerTypeOK'
  BY <1>0, <1>1, <1>2 DEF OnCmdSent
<1>4. StartWatch(c) => TrackerTypeOK'
  BY DEF StartWatch
<1>5. WatchExpires(c) => TrackerTypeOK'
  BY <1>0, <1>1, <1>2 DEF WatchExpires, Resolve
<1>6. WatchReturns(c) => TrackerTypeOK'
  BY DEF WatchReturns
<1>7. RecordLocalRejection(c) => TrackerTypeOK'
  BY <1>1, <1>2 DEF RecordLocalRejection
<1>8. \A status \in AckStatus : OnCmdAck(c, status) => TrackerTypeOK'
  BY <1>0, <1>1, <1>2 DEF OnCmdAck, Resolve
<1> QED BY <1>3, <1>4, <1>5, <1>6, <1>7, <1>8

\* The head of the uplink is an acknowledgement.
LEMMA UplinkHead ==
  ASSUME ReceiverTypeOK, uplink # <<>>
  PROVE  /\ Head(uplink).id \in Cmd /\ Head(uplink).status \in AckStatus
         /\ Tail(uplink) \in Seq(Ack)
         /\ Elems(uplink) = Elems(Tail(uplink)) \cup {Head(uplink)}
<1>1. /\ Tail(uplink) \in Seq(Ack) /\ Head(uplink) \in Ack
      /\ Elems(uplink) = Elems(Tail(uplink)) \cup {Head(uplink)}
  BY TailFacts DEF ReceiverTypeOK
<1> QED BY <1>1 DEF Ack

\* Every step keeps the types.
LEMMA TypeStep == TypeOK /\ [Next]_vars => TypeOK'
<1> SUFFICES ASSUME TypeOK, [Next]_vars PROVE TypeOK'
  OBVIOUS
<1>0. TrackerTypeOK /\ ReceiverTypeOK
  BY DEF TypeOK
<1>a. UNCHANGED trackerVars => TrackerTypeOK'
  BY <1>0 DEF trackerVars, TrackerTypeOK
<1>b. UNCHANGED receiverVars => ReceiverTypeOK'
  BY <1>0 DEF receiverVars, ReceiverTypeOK
<1>c. ASSUME UNCHANGED linkVars, TrackerTypeOK', ReceiverTypeOK'
      PROVE  TypeOK'
  BY <1>c DEF linkVars, TypeOK
<1>d. 0 \in 0..(ResendSpan + 1) /\ ResendSpan \in Nat
  BY ResendAssumption
<1>1. ASSUME NEW c \in Cmd, Submit(c) PROVE TypeOK'
  BY <1>0, <1>1, <1>b, TrackerTypes DEF Submit, TypeOK
<1>2. ASSUME NEW c \in Cmd, SubmitDrive(c) PROVE TypeOK'
  BY <1>0, <1>2, <1>a, <1>b, OnMqttMessageType DEF SubmitDrive, TypeOK
<1>3. ASSUME NEW c \in Cmd, Refuse(c) PROVE TypeOK'
  BY <1>0, <1>3, <1>b, TrackerTypes DEF Refuse, TypeOK
<1>4. ASSUME NEW c \in Cmd, Transmit(c) PROVE TypeOK'
  <2>1. ReceiverTypeOK' /\ TrackerTypeOK'
    BY <1>0, <1>4, <1>a, <1>b, OnMqttMessageType DEF Transmit
  <2> QED BY <1>4, <1>d, <2>1 DEF Transmit, TypeOK
<1>5. ASSUME NEW c \in Cmd, TrackerStep(c) PROVE TypeOK'
  BY <1>0, <1>5, <1>b, <1>c, TrackerTypes DEF TrackerStep
<1>6. CASE DeliverAck
  <2>1. TrackerTypeOK'
    BY <1>0, <1>6, UplinkHead, TrackerTypes DEF DeliverAck
  <2>2. ReceiverTypeOK'
    BY <1>0, <1>6, UplinkHead DEF DeliverAck, ReceiverTypeOK
  <2> QED BY <1>6, <1>c, <2>1, <2>2 DEF DeliverAck
<1>7. CASE LoseAck
  <2>1. ReceiverTypeOK'
    BY <1>0, <1>7, UplinkHead DEF LoseAck, ReceiverTypeOK
  <2> QED BY <1>7, <1>a, <1>c, <2>1 DEF LoseAck
<1>8. CASE CCLink
  <2>1. ReceiverTypeOK' /\ TrackerTypeOK'
    BY <1>8, <1>a, <1>b DEF CCLink
  <2> QED BY <1>8, <2>1 DEF CCLink, TypeOK
<1>9. CASE Tick
  <2>1. TrackerTypeOK'
    BY <1>0, <1>9, TrackerAssumption DEF Tick, TrackerTick, TrackerTypeOK, Older
  <2>2. ReceiverTypeOK'
    BY <1>0, <1>9, ReceiverAssumption DEF Tick, ReceiverTick, ReceiverTypeOK
  <2>3. txAge' \in [Cmd -> 0..(ResendSpan + 1)]
    BY <1>9, <1>d DEF Tick, OlderTx, TypeOK
  <2> QED BY <1>9, <2>1, <2>2, <2>3 DEF Tick, TypeOK
<1>10. CASE ReceiverStep
  BY <1>0, <1>10, <1>a, <1>c, ReceiverOnlyType DEF ReceiverStep, ReceiverOnly
<1>11. CASE UNCHANGED vars
  BY <1>11, <1>a, <1>b, <1>c DEF vars
<1> QED BY <1>1, <1>2, <1>3, <1>4, <1>5, <1>6, <1>7, <1>8, <1>9, <1>10, <1>11 DEF Next

\* Every variable of the command path keeps its type.
THEOREM TypeCorrect == Spec => []TypeOK
<1>1. Init => TypeOK
  <2>1. 0 \in 0..MaxAge /\ 0 \in 0..DedupAgeCap /\ 0 \in 0..(ResendSpan + 1)
    BY TrackerAssumption, ReceiverAssumption, ResendAssumption
  <2>2. Len(<<>>) <= HistoryMax
    BY TrackerAssumption, EmptySeq
  <2>3. ASSUME Init PROVE TrackerTypeOK
    BY <2>1, <2>2, <2>3, EmptyFacts DEF Init, TrackerInit, TrackerTypeOK
  <2>4. ASSUME Init PROVE ReceiverTypeOK
    BY <2>1, <2>4, EmptyFacts DEF Init, ReceiverInit, ReceiverTypeOK, GoalStates
  <2> QED BY <2>1, <2>3, <2>4 DEF Init, TypeOK
<1> QED BY <1>1, TypeStep, PTL DEF Spec

-----------------------------------------------------------------------------
(* Nothing is dispatched twice *)

(***************************************************************************)
(* The queues: both hold the same commands in the same order, the drain    *)
(* acknowledges what it dispatches, and no command is queued twice or      *)
(* after it has run.                                                       *)
(***************************************************************************)
Queued == Elems(cmdQueue) \cup Elems(drainCmds)

QueuesInv ==
  /\ ackQueue = cmdQueue
  /\ Distinct(cmdQueue) /\ Distinct(drainCmds) /\ Distinct(drainAcks)
  /\ Elems(cmdQueue) \cap Elems(drainCmds) = {}
  /\ Elems(drainAcks) \subseteq Elems(drainCmds)
  /\ \A c \in Queued : runs[c] = 0
  /\ AtMostOnce

(***************************************************************************)
(* A command the rover has taken up cannot be taken up again: it is in     *)
(* seen_cmds_, or nothing more of it will be transmitted.  An entry is     *)
(* never older than the first transmission, so it outlives the resends.    *)
(***************************************************************************)
TakenUp(c) == c \in seen \/ c \in Queued \/ runs[c] > 0

DedupInv ==
  /\ sentOnce \subseteq outbox /\ outbox \subseteq issued
  /\ issued \cap refused = {}
  /\ \A c \in Cmd :
       /\ TakenUp(c) => c \in issued
       /\ TakenUp(c) /\ c \in outbox =>
            /\ c \in sentOnce
            /\ c \in seen => txAge[c] >= seenAge[c] \/ txAge[c] > ResendSpan
            /\ c \notin seen => txAge[c] > ResendSpan

DispatchInv == QueuesInv /\ DedupInv

dispatchVars == <<seen, seenAge, ackQueue, cmdQueue, drainAcks, drainCmds, runs,
                  issued, refused, outbox, sentOnce, txAge>>

\* What leaves commands, queues and deduplication alone keeps the invariant.
LEMMA DispatchFrame == DispatchInv /\ UNCHANGED dispatchVars => DispatchInv'
BY DEF DispatchInv, QueuesInv, DedupInv, TakenUp, Queued, AtMostOnce, dispatchVars

\* on_mqtt_message queues a command that is neither queued nor run.
LEMMA QueuesOnMessage ==
  ASSUME ReceiverTypeOK, QueuesInv, NEW c \in Cmd, OnMqttMessage(c),
         c \notin seen => c \notin Queued /\ runs[c] = 0
  PROVE  /\ QueuesInv'
         /\ Queued' = IF c \in seen THEN Queued ELSE Queued \cup {c}
<1>1. CASE c \in seen
  BY <1>1 DEF OnMqttMessage, QueuesInv, Queued, AtMostOnce
<1>2. CASE c \notin seen
  <2>1. /\ Elems(cmdQueue') = Elems(cmdQueue) \cup {c}
        /\ c \notin Elems(cmdQueue) => Distinct(cmdQueue')
    <3>1. cmdQueue' = Append(cmdQueue, c) /\ cmdQueue \in Seq(Cmd)
      BY <1>2 DEF OnMqttMessage, ReceiverTypeOK
    <3> QED BY <3>1, AppendFacts DEF QueuesInv
  <2> QED BY <1>2, <2>1 DEF OnMqttMessage, QueuesInv, Queued, AtMostOnce
<1> QED BY <1>1, <1>2

\* The drain only moves commands from queue to queue.
LEMMA QueuesOnDrain ==
  ASSUME ReceiverTypeOK, QueuesInv
  PROVE  /\ DrainSwap => QueuesInv' /\ Queued' = Queued
         /\ SendReceived => QueuesInv' /\ Queued' = Queued
<1>1. ASSUME DrainSwap PROVE QueuesInv' /\ Queued' = Queued
  BY <1>1, EmptyFacts DEF DrainSwap, ExecutorIdle, QueuesInv, Queued, AtMostOnce
<1>2. ASSUME SendReceived PROVE QueuesInv' /\ Queued' = Queued
  <2>1. /\ Elems(drainAcks') \subseteq Elems(drainAcks)
        /\ Distinct(drainAcks')
    BY <1>2, TailFacts DEF SendReceived, QueuesInv, ReceiverTypeOK
  <2> QED BY <1>2, <2>1 DEF SendReceived, QueuesInv, Queued, AtMostOnce
<1> QED BY <1>1, <1>2

\* The command dispatch_command takes has not run and is not queued again.
LEMMA QueuesOnTake ==
  ASSUME ReceiverTypeOK, QueuesInv, NEW c \in Cmd, TakeNext(c)
  PROVE  /\ QueuesInv'
         /\ c \in Queued /\ runs[c] = 0 /\ c \notin Queued'
         /\ Queued' = Queued \ {c}
         /\ runs' = [runs EXCEPT ![c] = 1]
<1>1. /\ Elems(drainCmds) = Elems(drainCmds') \cup {c}
      /\ Distinct(drainCmds') /\ c \notin Elems(drainCmds')
  BY TailFacts DEF TakeNext, QueuesInv, ReceiverTypeOK
<1>2. c \in Queued /\ c \notin Elems(cmdQueue) /\ runs[c] = 0
  BY <1>1 DEF QueuesInv, Queued
<1>3. runs' = [runs EXCEPT ![c] = 1]
  BY <1>2 DEF TakeNext, ReceiverTypeOK
<1>4. Queued' = Queued \ {c}
  BY <1>1, <1>2 DEF Queued, TakeNext
<1>5. Elems(drainAcks') = {}
  BY EmptyFacts DEF TakeNext
<1>6. AtMostOnce'
  BY <1>3 DEF QueuesInv, AtMostOnce, ReceiverTypeOK
<1>7. \A d \in Queued' : runs'[d] = 0
  BY <1>2, <1>3, <1>4 DEF QueuesInv, ReceiverTypeOK
<1> QED BY <1>1, <1>2, <1>3, <1>4, <1>5, <1>6, <1>7 DEF QueuesInv, TakeNext, Queued

\* A transmission hands over a new command or repeats a known one.
LEMMA DispatchOnTransmit ==
  ASSUME TypeOK, DispatchInv, NEW c \in Cmd, Transmit(c)
  PROVE  DispatchInv'
<1>1. CASE roverUp
  <2>1. OnMqttMessage(c)
    BY <1>1 DEF Transmit
  <2>a. c \in outbox /\ (c \in sentOnce => txAge[c] <= ResendSpan)
    BY DEF Transmit
  <2>b. txAge[c] \in Nat /\ ResendSpan \in Nat /\ runs[c] \in Nat
    BY ResendAssumption DEF TypeOK, ReceiverTypeOK
  <2>c. TakenUp(c) => c \in sentOnce /\ (c \notin seen => txAge[c] > ResendSpan)
    BY <2>a DEF DispatchInv, DedupInv
  <2>2. c \notin seen => c \notin Queued /\ runs[c] = 0
    BY <2>a, <2>b, <2>c DEF TakenUp
  <2>3. QueuesInv' /\ Queued' = IF c \in seen THEN Queued ELSE Queued \cup {c}
    BY <2>1, <2>2, QueuesOnMessage DEF DispatchInv, TypeOK
  <2>4. /\ c \in issued /\ UNCHANGED <<issued, refused, runs>>
        /\ c \in seen' /\ seen' = seen \cup {c}
        /\ c \notin seen => seenAge'[c] = 0
        /\ c \in seen => seenAge'[c] = seenAge[c]
        /\ \A d \in Cmd \ {c} : seenAge'[d] = seenAge[d]
    BY <2>1, <2>a
       DEF DispatchInv, DedupInv, Transmit, OnMqttMessage, TypeOK, ReceiverTypeOK
  <2>5. /\ outbox' \subseteq outbox /\ sentOnce' \subseteq outbox'
        /\ c \in outbox' => c \in sentOnce' /\ txAge' = txAge
        /\ \A d \in Cmd \ {c} : d \in outbox' <=> d \in outbox
        /\ \A d \in Cmd \ {c} : d \in sentOnce' <=> d \in sentOnce
        /\ \A d \in Cmd \ {c} : txAge'[d] = txAge[d]
    BY <2>a DEF DispatchInv, DedupInv, Transmit, TypeOK
  <2>6. ASSUME NEW d \in Cmd \ {c}
        PROVE  /\ TakenUp(d)' => d \in issued'
               /\ TakenUp(d)' /\ d \in outbox' =>
                    /\ d \in sentOnce'
                    /\ d \in seen' => txAge'[d] >= seenAge'[d] \/ txAge'[d] > ResendSpan
                    /\ d \notin seen' => txAge'[d] > ResendSpan
    <3>1. /\ TakenUp(d) => d \in issued
          /\ TakenUp(d) /\ d \in outbox =>
               /\ d \in sentOnce
               /\ d \in seen => txAge[d] >= seenAge[d] \/ txAge[d] > ResendSpan
               /\ d \notin seen => txAge[d] > ResendSpan
      BY DEF DispatchInv, DedupInv
    <3>2. TakenUp(d)' <=> TakenUp(d)
      BY <2>3, <2>4, <2>6 DEF TakenUp
    <3>3. (d \in seen' <=> d \in seen) /\ (d \in issued' <=> d \in issued)
      BY <2>4, <2>6
    <3>4. seenAge'[d] = seenAge[d]
      BY <2>4, <2>6
    <3>5. d \in outbox' <=> d \in outbox
      BY <2>5, <2>6
    <3>6. d \in sentOnce' <=> d \in sentOnce
      BY <2>5, <2>6
    <3>7. txAge'[d] = txAge[d]
      BY <2>5, <2>6
    <3> QED BY <3>1, <3>2, <3>3, <3>4, <3>5, <3>6, <3>7
  <2>7. c \in outbox' /\ c \in seen => txAge[c] >= seenAge[c] \/ txAge[c] > ResendSpan
    BY <2>a DEF DispatchInv, DedupInv, TakenUp
  <2>8. c \in outbox' => txAge'[c] >= seenAge'[c] \/ txAge'[c] > ResendSpan
    BY <2>b, <2>4, <2>5, <2>7
  <2>9. issued' \cap refused' = {} /\ outbox' \subseteq issued'
    BY <2>4, <2>5 DEF DispatchInv, DedupInv
  <2>10. DedupInv'
    BY <2>4, <2>5, <2>6, <2>8, <2>9 DEF DedupInv
  <2> QED BY <2>3, <2>10 DEF DispatchInv
<1>2. CASE ~roverUp
  <2>1. UNCHANGED receiverVars
    BY <1>2 DEF Transmit
  <2>2. QueuesInv' /\ Queued' = Queued
    BY <2>1 DEF DispatchInv, QueuesInv, Queued, AtMostOnce, receiverVars
  <2>3. DedupInv'
    BY <2>1, <2>2
       DEF DispatchInv, DedupInv, TakenUp, Transmit, receiverVars, TypeOK
  <2> QED BY <2>2, <2>3 DEF DispatchInv
<1> QED BY <1>1, <1>2 DEF TypeOK, ReceiverTypeOK

\* A drive command is new, and leaves without a trace in the outbox.
LEMMA DispatchOnDrive ==
  ASSUME TypeOK, DispatchInv, NEW c \in Cmd, SubmitDrive(c)
  PROVE  DispatchInv'
<1>1. c \notin issued /\ c \notin refused /\ ~TakenUp(c) /\ c \notin outbox
  BY DEF SubmitDrive, Fresh, DispatchInv, DedupInv
<1>2. CASE ccUp /\ roverUp
  <2>1. OnMqttMessage(c)
    BY <1>2 DEF SubmitDrive
  <2>2. QueuesInv' /\ Queued' = Queued \cup {c}
    BY <1>1, <2>1, QueuesOnMessage DEF DispatchInv, TakenUp, TypeOK, ReceiverTypeOK
  <2>3. DedupInv'
    BY <1>1, <2>1, <2>2
       DEF DispatchInv, DedupInv, TakenUp, SubmitDrive, OnMqttMessage, TypeOK, ReceiverTypeOK
  <2> QED BY <2>2, <2>3 DEF DispatchInv
<1>3. CASE ~(ccUp /\ roverUp)
  <2>1. UNCHANGED receiverVars
    BY <1>3 DEF SubmitDrive
  <2>2. QueuesInv' /\ Queued' = Queued
    BY <2>1 DEF DispatchInv, QueuesInv, Queued, AtMostOnce, receiverVars
  <2>3. DedupInv'
    BY <1>1, <2>1, <2>2
       DEF DispatchInv, DedupInv, TakenUp, SubmitDrive, receiverVars, TypeOK
  <2> QED BY <2>2, <2>3 DEF DispatchInv
<1> QED BY <1>2, <1>3

\* The dedup timer drops entries only when no resend can come any more.
LEMMA DispatchOnEvict ==
  ASSUME TypeOK, DispatchInv, EvictSeen, UNCHANGED linkVars
  PROVE  DispatchInv'
<1>1. QueuesInv' /\ Queued' = Queued
  BY DEF DispatchInv, QueuesInv, Queued, AtMostOnce, EvictSeen
<1>2. ASSUME NEW d \in Cmd
      PROVE  /\ TakenUp(d)' => TakenUp(d)
             /\ d \in seen' => d \in seen /\ seenAge'[d] = seenAge[d]
             /\ d \in seen /\ d \notin seen' => seenAge[d] > EvictAge
             /\ seenAge[d] \in Nat /\ txAge[d] \in Nat
  <2>1. /\ seen' = {c \in seen : seenAge[c] <= EvictAge}
        /\ seenAge' = [c \in Cmd |-> IF c \in seen' THEN seenAge[c] ELSE 0]
        /\ runs' = runs
    BY DEF EvictSeen
  <2>2. seenAge[d] \in Nat /\ txAge[d] \in Nat /\ EvictAge \in Nat
    BY ReceiverAssumption DEF TypeOK, ReceiverTypeOK
  <2>3. TakenUp(d)' => TakenUp(d)
    BY <1>1, <2>1 DEF TakenUp
  <2> QED BY <2>1, <2>2, <2>3
<1>3. DedupInv'
  BY <1>1, <1>2, ResendAssumption, ReceiverAssumption
     DEF DispatchInv, DedupInv, linkVars
<1> QED BY <1>1, <1>3 DEF DispatchInv

\* Entries and transmissions age together.
LEMMA DispatchOnTick ==
  ASSUME TypeOK, DispatchInv, Tick
  PROVE  DispatchInv'
<1>1. QueuesInv' /\ Queued' = Queued
  BY DEF DispatchInv, QueuesInv, Queued, AtMostOnce, Tick, ReceiverTick
<1>2. ASSUME NEW d \in Cmd
      PROVE  /\ TakenUp(d)' <=> TakenUp(d)
             /\ d \in seen' <=> d \in seen
             /\ seenAge'[d] <= seenAge[d] + 1
             /\ d \in sentOnce => txAge'[d] = OlderTx(txAge[d])
             /\ seenAge[d] \in Nat /\ txAge[d] \in Nat /\ seenAge'[d] \in Nat
  BY <1>1, ReceiverAssumption DEF TakenUp, Tick, ReceiverTick, TypeOK, ReceiverTypeOK
<1>3. DedupInv'
  BY <1>1, <1>2, ResendAssumption DEF DispatchInv, DedupInv, Tick, OlderTx
<1> QED BY <1>1, <1>3 DEF DispatchInv

\* The executor drains the queues and counts each dispatch once.
LEMMA DispatchOnExecutor ==
  ASSUME TypeOK, DispatchInv, UNCHANGED linkVars
  PROVE  /\ DrainSwap => DispatchInv'
         /\ SendReceived => DispatchInv'
         /\ \A c \in Cmd : TakeNext(c) => DispatchInv'
<1>1. DrainSwap \/ SendReceived => DispatchInv'
  BY QueuesOnDrain
     DEF DispatchInv, DedupInv, TakenUp, DrainSwap, SendReceived, linkVars, TypeOK
<1>2. ASSUME NEW c \in Cmd, TakeNext(c) PROVE DispatchInv'
  <2>1. /\ QueuesInv'
        /\ c \in Queued /\ Queued' = Queued \ {c}
        /\ runs' = [runs EXCEPT ![c] = 1]
    BY <1>2, QueuesOnTake DEF DispatchInv, TypeOK
  <2>2. ASSUME NEW d \in Cmd PROVE TakenUp(d)' => TakenUp(d)
    BY <1>2, <2>1 DEF TakenUp, TakeNext, TypeOK, ReceiverTypeOK
  <2>3. DedupInv'
    BY <1>2, <2>1, <2>2 DEF DispatchInv, DedupInv, TakeNext, linkVars
  <2> QED BY <2>1, <2>3 DEF DispatchInv
<1> QED BY <1>1, <1>2

\* Every step keeps a command in at most one place.
LEMMA DispatchStep == TypeOK /\ DispatchInv /\ [Next]_vars => DispatchInv'
<1> SUFFICES ASSUME TypeOK, DispatchInv, [Next]_vars PROVE DispatchInv'
  OBVIOUS
<1>1. ASSUME NEW c \in Cmd, Submit(c) PROVE DispatchInv'
  <2>1. c \notin issued /\ c \notin refused /\ ~TakenUp(c)
    BY <1>1 DEF Submit, Fresh, DispatchInv, DedupInv
  <2>2. QueuesInv' /\ Queued' = Queued
    BY <1>1 DEF Submit, DispatchInv, QueuesInv, Queued, AtMostOnce, receiverVars
  <2>3. DedupInv'
    BY <1>1, <2>1, <2>2 DEF DispatchInv, DedupInv, TakenUp, Submit, receiverVars
  <2> QED BY <2>2, <2>3 DEF DispatchInv
<1>2. ASSUME NEW c \in Cmd, SubmitDrive(c) PROVE DispatchInv'
  BY <1>2, DispatchOnDrive
<1>3. ASSUME NEW c \in Cmd, Refuse(c) PROVE DispatchInv'
  <2>1. QueuesInv' /\ Queued' = Queued
    BY <1>3 DEF Refuse, DispatchInv, QueuesInv, Queued, AtMostOnce, receiverVars
  <2>2. DedupInv'
    BY <1>3, <2>1 DEF Refuse, Fresh, DispatchInv, DedupInv, TakenUp, receiverVars
  <2> QED BY <2>1, <2>2 DEF DispatchInv
<1>4. ASSUME NEW c \in Cmd, Transmit(c) PROVE DispatchInv'
  BY <1>4, DispatchOnTransmit
<1>5. ASSUME NEW c \in Cmd, TrackerStep(c) PROVE DispatchInv'
  BY <1>5, DispatchFrame DEF TrackerStep, receiverVars, linkVars, dispatchVars
<1>6. CASE DeliverAck \/ LoseAck \/ CCLink
  BY <1>6, DispatchFrame DEF DeliverAck, LoseAck, CCLink, receiverVars, linkVars, dispatchVars
<1>7. CASE Tick
  BY <1>7, DispatchOnTick
<1>8. CASE ReceiverStep
  <2>1. UNCHANGED linkVars
    BY <1>8 DEF ReceiverStep
  <2>2. CASE EvictSeen
    BY <2>1, <2>2, DispatchOnEvict
  <2>3. CASE DrainSwap \/ SendReceived
    BY <2>1, <2>3, DispatchOnExecutor
  <2>4. CASE RoverConnects \/ RoverLosesLink
    BY <2>1, <2>4, DispatchFrame DEF RoverConnects, RoverLosesLink, linkVars, dispatchVars
  <2>5. ASSUME NEW c \in Cmd,
               HandleAtOnce(c) \/ HandleDrive(c) \/ HandleNavGoal(c) \/ HandleCancelGoal(c)
        PROVE  DispatchInv'
    BY <2>1, <2>5, DispatchOnExecutor
       DEF HandleAtOnce, HandleDrive, HandleNavGoal, HandleCancelGoal
  <2>6. ASSUME NEW c \in Cmd,
               GoalAccepted(c) \/ GoalRejected(c) \/ GoalResult(c) \/ CancelResponse(c)
        PROVE  DispatchInv'
    BY <2>1, <2>6, DispatchFrame
       DEF GoalAccepted, GoalRejected, GoalResult, CancelResponse, CallbackFrame,
           linkVars, dispatchVars
  <2> QED BY <1>8, <2>2, <2>3, <2>4, <2>5, <2>6 DEF ReceiverStep
<1>9. CASE UNCHANGED vars
  BY <1>9, DispatchFrame DEF vars, receiverVars, linkVars, dispatchVars
<1> QED BY <1>1, <1>2, <1>3, <1>4, <1>5, <1>6, <1>7, <1>8, <1>9 DEF Next

\* In every reachable state a command is in at most one place.
LEMMA DispatchInvariant == Spec => [](TypeOK /\ DispatchInv)
<1>1. Init => DispatchInv
  BY EmptyFacts
     DEF Init, ReceiverInit, DispatchInv, QueuesInv, DedupInv, TakenUp, Queued, AtMostOnce
<1> QED BY <1>1, TypeCorrect, DispatchStep, PTL DEF Spec

\* However often links drop and publications are transmitted again, the rover
\* dispatches a command at most once.
THEOREM DispatchedAtMostOnce == Spec => []AtMostOnce
<1>1. DispatchInv => AtMostOnce
  BY DEF DispatchInv, QueuesInv
<1> QED BY <1>1, DispatchInvariant, PTL

-----------------------------------------------------------------------------
(* No record hangs *)

\* OpenRecordsTracked, said of the records instead of their positions.
RecordsTracked ==
  /\ \A r \in Elems(history) : ~IsTerminalStatus(r.id, r.status) => r.id \in pending
  /\ pending \subseteq watched \cup unwatched
  /\ OneRecordEach(history)

\* Said of positions or of elements, it is the same property.
LEMMA RecordsTrackedIsOpenRecordsTracked == RecordsTracked <=> OpenRecordsTracked
BY DEF RecordsTracked, OpenRecordsTracked, OneRecordEach, Elems

\* Writing the record of c, tracked if it is not final, leaves none hanging.
LEMMA RecordsAfterUpsert ==
  ASSUME TrackerTypeOK, RecordsTracked, NEW c \in Cmd, NEW status \in ShownStatus,
         history' = Upsert(history, [id |-> c, status |-> status]),
         pending \ {c} \subseteq pending',
         IsTerminalStatus(c, status) \/ c \in pending',
         pending' \subseteq watched' \cup unwatched'
  PROVE  RecordsTracked'
<1> DEFINE rec == [id |-> c, status |-> status]
<1>1. rec \in Record /\ rec.id = c /\ rec.status = status
  BY DEF Record
<1>2. /\ \A r \in Elems(history') : r = rec \/ (r \in Elems(history) /\ r.id # c)
      /\ OneRecordEach(history')
  BY <1>1, UpsertFacts DEF TrackerTypeOK, RecordsTracked
<1> HIDE DEF rec
<1>3. \A r \in Elems(history') : ~IsTerminalStatus(r.id, r.status) => r.id \in pending'
  BY <1>1, <1>2 DEF RecordsTracked
<1> QED BY <1>2, <1>3 DEF RecordsTracked

\* Every step keeps each open record pending.
LEMMA TrackedStep == TypeOK /\ RecordsTracked /\ [Next]_vars => RecordsTracked'
<1> SUFFICES ASSUME TypeOK, RecordsTracked, [Next]_vars PROVE RecordsTracked'
  OBVIOUS
<1>a. TrackerTypeOK /\ ReceiverTypeOK
  BY DEF TypeOK
<1>b. /\ AckStatus \subseteq ShownStatus
      /\ {"SENT", "ACK_FAILED", "ACK_REJECTED"} \subseteq ShownStatus
      /\ \A c \in Cmd : /\ IsTerminalStatus(c, "ACK_FAILED")
                       /\ IsTerminalStatus(c, "ACK_REJECTED")
  BY DEF ShownStatus, AckStatus, IsTerminalStatus, Outcomes
<1>c. ASSUME UNCHANGED trackerVars PROVE RecordsTracked'
  BY <1>c DEF trackerVars, RecordsTracked
<1>1. ASSUME NEW c \in Cmd, Submit(c) PROVE RecordsTracked'
  BY <1>1, <1>a, <1>b, RecordsAfterUpsert DEF Submit, OnCmdSent, RecordsTracked
<1>2. ASSUME NEW c \in Cmd, Refuse(c) PROVE RecordsTracked'
  BY <1>2, <1>a, <1>b, RecordsAfterUpsert DEF Refuse, RecordLocalRejection, RecordsTracked
<1>3. ASSUME NEW c \in Cmd, TrackerStep(c) PROVE RecordsTracked'
  <2>1. CASE StartWatch(c)
    BY <2>1 DEF StartWatch, RecordsTracked
  <2>2. CASE WatchExpires(c)
    BY <2>2, <1>a, <1>b, RecordsAfterUpsert DEF WatchExpires, Resolve, RecordsTracked
  <2>3. CASE WatchReturns(c)
    BY <2>3 DEF WatchReturns, RecordsTracked
  <2> QED BY <1>3, <2>1, <2>2, <2>3 DEF TrackerStep
<1>4. CASE DeliverAck
  <2> DEFINE c == Head(uplink).id
             status == Head(uplink).status
  <2>1. c \in Cmd /\ status \in ShownStatus /\ OnCmdAck(c, status)
    BY <1>4, <1>a, <1>b, UplinkHead DEF DeliverAck
  <2> HIDE DEF c, status
  <2>2. CASE c \notin pending
    BY <2>1, <2>2 DEF OnCmdAck, RecordsTracked
  <2>3. CASE c \in pending
    BY <2>1, <2>3, <1>a, RecordsAfterUpsert DEF OnCmdAck, Resolve, RecordsTracked
  <2> QED BY <2>2, <2>3
<1>5. CASE Tick
  BY <1>5 DEF Tick, TrackerTick, RecordsTracked
<1>6. ASSUME NEW c \in Cmd, SubmitDrive(c) \/ Transmit(c) PROVE RecordsTracked'
  BY <1>6, <1>c DEF SubmitDrive, Transmit
<1>7. CASE LoseAck \/ CCLink \/ ReceiverStep \/ UNCHANGED vars
  BY <1>7, <1>c DEF LoseAck, CCLink, ReceiverStep, vars, trackerVars
<1> QED BY <1>1, <1>2, <1>3, <1>4, <1>5, <1>6, <1>7 DEF Next

\* Every record that is not final belongs to a pending command, every pending
\* command has a watcher or is about to get one, and no command has two records.
THEOREM NoRecordHangs == Spec => []OpenRecordsTracked
<1>1. Init => RecordsTracked
  BY EmptyFacts DEF Init, TrackerInit, RecordsTracked, OneRecordEach
<1> QED
  BY <1>1, TypeCorrect, TrackedStep, RecordsTrackedIsOpenRecordsTracked, PTL DEF Spec

-----------------------------------------------------------------------------
(* The history is honest *)

\* ACK_RECEIVED has been sent for c.
Received(c) == runs[c] > 0 \/ c \in Elems(drainCmds) \ Elems(drainAcks)

(***************************************************************************)
(* What the rover has said of a command tells where it stands: nothing     *)
(* before ACK_RECEIVED, that alone until it is dispatched, and then what   *)
(* the state of its Nav2 goal allows.                                      *)
(***************************************************************************)
SaidInv ==
  \A c \in Cmd :
    /\ ~Received(c) => said[c] = {}
    /\ Received(c) /\ runs[c] = 0 => said[c] = {"ACK_RECEIVED"}
    /\ goalState[c] # "none" => runs[c] > 0
    /\ goalState[c] = "goal_requested" => said[c] = {"ACK_RECEIVED"}
    /\ goalState[c] \in {"goal_running", "cancel_requested"} =>
         said[c] = {"ACK_RECEIVED", "ACK_ACCEPTED"}
    /\ "ACK_REJECTED" \in said[c] => said[c] = {"ACK_RECEIVED", "ACK_REJECTED"}

\* What is on its way or on record comes from the rover, or is a refusal.
RelayInv ==
  /\ \A a \in Elems(uplink) : a.status \in said[a.id]
  /\ \A r \in Elems(history) :
       /\ r.status \in {"ACK_RECEIVED", "ACK_ACCEPTED", "ACK_COMPLETED"} =>
            r.status \in said[r.id]
       /\ r.status = "ACK_REJECTED" =>
            r.id \in refused \/ "ACK_REJECTED" \in said[r.id]

saidVars == <<drainAcks, drainCmds, runs, goalState, said>>

\* What leaves goals and statuses alone keeps the invariant.
LEMMA SaidFrame == SaidInv /\ UNCHANGED saidVars => SaidInv'
BY DEF SaidInv, Received, saidVars

\* Acknowledging with ACK_RECEIVED.
LEMMA SaidOnReceived ==
  ASSUME TypeOK, DispatchInv, SaidInv, SendReceived
  PROVE  SaidInv'
<1> PICK h \in Cmd : h = Head(drainAcks)
  BY TailFacts DEF SendReceived, TypeOK, ReceiverTypeOK
<1>1. /\ h \in Cmd
      /\ Elems(drainAcks) = Elems(drainAcks') \cup {h}
      /\ h \notin Elems(drainAcks')
  BY TailFacts DEF SendReceived, DispatchInv, QueuesInv, TypeOK, ReceiverTypeOK
<1>2. h \in Elems(drainCmds) /\ runs[h] = 0
  BY <1>1 DEF DispatchInv, QueuesInv, Queued
<1>3. said' = [said EXCEPT ![h] = @ \cup {"ACK_RECEIVED"}]
  BY DEF SendReceived, SendAck
<1>4. UNCHANGED <<drainCmds, goalState, runs>>
  BY DEF SendReceived
<1>5. said[h] = {} /\ goalState[h] = "none"
  BY <1>1, <1>2 DEF SaidInv, Received
<1>6. said'[h] = {"ACK_RECEIVED"} /\ \A d \in Cmd \ {h} : said'[d] = said[d]
  BY <1>1, <1>3, <1>5 DEF TypeOK, ReceiverTypeOK
<1>7. ASSUME NEW d \in Cmd \ {h}
      PROVE  Received(d)' <=> Received(d)
  BY <1>1, <1>4 DEF Received
<1>8. Received(h)'
  BY <1>1, <1>2, <1>4 DEF Received
<1> QED BY <1>1, <1>2, <1>4, <1>5, <1>6, <1>7, <1>8 DEF SaidInv

(***************************************************************************)
(* A dispatched command is answered, or its goal is requested.             *)
(***************************************************************************)
LEMMA SaidOnDispatch ==
  ASSUME TypeOK, DispatchInv, SaidInv, NEW c \in Cmd, TakeNext(c),
         NEW words \in SUBSET AckStatus, NEW next,
         said' = [said EXCEPT ![c] = @ \cup words],
         goalState' = [goalState EXCEPT ![c] = next],
         \/ next = "none" /\ (words = {} \/ \E status \in AckStatus : words = {status})
         \/ next = "goal_requested" /\ words = {}
         \/ next = "cancel_requested" /\ words = {"ACK_ACCEPTED"}
  PROVE  SaidInv'
<1>1. /\ runs[c] = 0 /\ runs' = [runs EXCEPT ![c] = 1]
      /\ Elems(drainCmds) = Elems(drainCmds') \cup {c}
      /\ Elems(drainAcks) = {} /\ drainAcks' = drainAcks
  <2>1. runs[c] = 0 /\ runs' = [runs EXCEPT ![c] = 1]
    BY QueuesOnTake DEF DispatchInv, TypeOK
  <2>2. Elems(drainCmds) = Elems(drainCmds') \cup {c}
    BY TailFacts DEF TakeNext, TypeOK, ReceiverTypeOK
  <2> QED BY <2>1, <2>2, EmptyFacts DEF TakeNext
<1>2. said[c] = {"ACK_RECEIVED"}
  BY <1>1 DEF SaidInv, Received
<1>3. runs'[c] = 1 /\ \A d \in Cmd \ {c} : runs'[d] = runs[d]
  BY <1>1 DEF TypeOK, ReceiverTypeOK
<1>4. /\ said'[c] = {"ACK_RECEIVED"} \cup words
      /\ goalState'[c] = next
  BY <1>2 DEF TypeOK, ReceiverTypeOK
<1>5. \A d \in Cmd \ {c} : said'[d] = said[d] /\ goalState'[d] = goalState[d]
  BY DEF TypeOK, ReceiverTypeOK
<1>6. ASSUME NEW d \in Cmd \ {c}
      PROVE  Received(d)' <=> Received(d)
  BY <1>1, <1>3 DEF Received
<1>7. Received(c)'
  BY <1>3 DEF Received
<1>8. "ACK_REJECTED" \in said'[c] => said'[c] = {"ACK_RECEIVED", "ACK_REJECTED"}
  BY <1>4
<1> QED BY <1>3, <1>4, <1>5, <1>6, <1>7, <1>8 DEF SaidInv

\* Nav2 answers for a goal, or for a cancellation, that it was asked about.
LEMMA SaidOnCallback ==
  ASSUME TypeOK, SaidInv, NEW c \in Cmd, NEW status \in AckStatus, CallbackFrame,
         SendAck(c, status), NEW next \in {"none", "goal_running"},
         goalState' = [goalState EXCEPT ![c] = next],
         \/ goalState[c] = "goal_requested" /\ status = "ACK_REJECTED" /\ next = "none"
         \/ goalState[c] = "goal_requested" /\ status = "ACK_ACCEPTED" /\ next = "goal_running"
         \/ /\ goalState[c] \in {"goal_running", "cancel_requested"}
            /\ status \in {"ACK_COMPLETED", "ACK_FAILED"} /\ next = "none"
  PROVE  SaidInv'
<1>1. UNCHANGED <<drainAcks, drainCmds, runs>>
  BY DEF CallbackFrame
<1>2. \A d \in Cmd : Received(d)' <=> Received(d)
  BY <1>1 DEF Received
<1>3. /\ said'[c] = said[c] \cup {status} /\ goalState'[c] = next
      /\ \A d \in Cmd \ {c} : said'[d] = said[d] /\ goalState'[d] = goalState[d]
  BY DEF SendAck, TypeOK, ReceiverTypeOK
<1>4. runs[c] > 0 /\ Received(c)
  BY DEF SaidInv, Received
<1>5. runs[c] \in Nat
  BY DEF TypeOK, ReceiverTypeOK
<1>6. /\ next = "goal_running" => said'[c] = {"ACK_RECEIVED", "ACK_ACCEPTED"}
      /\ "ACK_REJECTED" \in said'[c] => said'[c] = {"ACK_RECEIVED", "ACK_REJECTED"}
  BY <1>3 DEF SaidInv
<1> QED BY <1>1, <1>2, <1>3, <1>4, <1>5, <1>6 DEF SaidInv

\* Every step keeps what was said in line with what was done.
LEMMA SaidStep == TypeOK /\ DispatchInv /\ SaidInv /\ [Next]_vars => SaidInv'
<1> SUFFICES ASSUME TypeOK, DispatchInv, SaidInv, [Next]_vars PROVE SaidInv'
  OBVIOUS
<1>1. ASSUME NEW c \in Cmd, OnMqttMessage(c) PROVE SaidInv'
  BY <1>1, SaidFrame DEF OnMqttMessage, saidVars
<1>2. ASSUME UNCHANGED receiverVars PROVE SaidInv'
  BY <1>2, SaidFrame DEF receiverVars, saidVars
<1>3. ASSUME NEW c \in Cmd, Submit(c) \/ SubmitDrive(c) \/ Refuse(c) \/ Transmit(c)
                               \/ TrackerStep(c)
      PROVE  SaidInv'
  BY <1>1, <1>2, <1>3 DEF Submit, SubmitDrive, Refuse, Transmit, TrackerStep
<1>4. CASE DeliverAck \/ LoseAck \/ CCLink \/ Tick
  BY <1>2, <1>4, SaidFrame
     DEF DeliverAck, LoseAck, CCLink, Tick, ReceiverTick, saidVars
<1>5. CASE ReceiverStep
  <2>1. CASE EvictSeen \/ RoverConnects \/ RoverLosesLink
    BY <2>1, SaidFrame DEF EvictSeen, RoverConnects, RoverLosesLink, saidVars
  <2>2. CASE DrainSwap
    <3>1. /\ Elems(drainCmds) = {} /\ Elems(drainAcks) = {}
          /\ Elems(drainCmds') = Elems(drainAcks')
          /\ UNCHANGED <<runs, goalState, said>>
      BY <2>2, EmptyFacts DEF DrainSwap, ExecutorIdle, DispatchInv, QueuesInv
    <3>2. \A d \in Cmd : Received(d)' <=> Received(d)
      BY <3>1 DEF Received
    <3> QED BY <3>1, <3>2 DEF SaidInv
  <2>3. CASE SendReceived
    BY <2>3, SaidOnReceived
  <2>4. ASSUME NEW c \in Cmd, TakeNext(c)
        PROVE  /\ goalState = [goalState EXCEPT ![c] = "none"]
               /\ said = [said EXCEPT ![c] = @ \cup {}]
    <3>1. goalState[c] = "none"
      BY <2>4, QueuesOnTake DEF DispatchInv, SaidInv, TypeOK
    <3> QED BY <3>1 DEF TypeOK, ReceiverTypeOK
  <2>5. ASSUME NEW c \in Cmd, HandleAtOnce(c) PROVE SaidInv'
    <3>1. PICK status \in AckStatus : said' = [said EXCEPT ![c] = @ \cup {status}]
      BY <2>5 DEF HandleAtOnce, SendAck, Replies, AckStatus
    <3>2. goalState' = [goalState EXCEPT ![c] = "none"] /\ TakeNext(c)
      BY <2>4, <2>5 DEF HandleAtOnce
    <3> QED BY <3>1, <3>2, SaidOnDispatch
  <2>6. ASSUME NEW c \in Cmd, HandleDrive(c) PROVE SaidInv'
    <3>1. /\ TakeNext(c)
          /\ goalState' = [goalState EXCEPT ![c] = "none"]
          /\ said' = [said EXCEPT ![c] = @ \cup {}]
      BY <2>4, <2>6 DEF HandleDrive
    <3> QED BY <3>1, SaidOnDispatch
  <2>7. ASSUME NEW c \in Cmd, HandleNavGoal(c) \/ HandleCancelGoal(c) PROVE SaidInv'
    <3>1. TakeNext(c)
      BY <2>7 DEF HandleNavGoal, HandleCancelGoal
    <3>2. \/ /\ said' = [said EXCEPT ![c] = @ \cup {"ACK_REJECTED"}]
             /\ goalState' = [goalState EXCEPT ![c] = "none"]
          \/ /\ said' = [said EXCEPT ![c] = @ \cup {}]
             /\ goalState' = [goalState EXCEPT ![c] = "goal_requested"]
          \/ /\ said' = [said EXCEPT ![c] = @ \cup {"ACK_ACCEPTED"}]
             /\ goalState' = [goalState EXCEPT ![c] = "cancel_requested"]
      BY <2>4, <2>7, <3>1 DEF HandleNavGoal, HandleCancelGoal, SendAck
    <3>3. {"ACK_REJECTED", "ACK_ACCEPTED"} \subseteq AckStatus
      BY DEF AckStatus
    <3> QED BY <3>1, <3>2, <3>3, SaidOnDispatch
  <2>8. ASSUME NEW c \in Cmd,
               GoalAccepted(c) \/ GoalRejected(c) \/ GoalResult(c) \/ CancelResponse(c)
        PROVE  SaidInv'
    <3>1. CASE GoalAccepted(c)
      BY <3>1, SaidOnCallback DEF GoalAccepted, AckStatus
    <3>2. CASE GoalRejected(c)
      BY <3>2, SaidOnCallback DEF GoalRejected, AckStatus
    <3>3. CASE GoalResult(c)
      BY <3>3, SaidOnCallback DEF GoalResult, AckStatus
    <3>4. CASE CancelResponse(c)
      BY <3>4, SaidOnCallback DEF CancelResponse, AckStatus
    <3> QED BY <2>8, <3>1, <3>2, <3>3, <3>4
  <2> QED BY <1>5, <2>1, <2>2, <2>3, <2>4, <2>5, <2>6, <2>7, <2>8 DEF ReceiverStep
<1>6. CASE UNCHANGED vars
  BY <1>2, <1>6 DEF vars
<1> QED BY <1>3, <1>4, <1>5, <1>6 DEF Next

\* Nothing the rover has said is unsaid, and only send_ack adds to the uplink.
LEMMA SaidGrows ==
  ASSUME TypeOK, [Next]_vars
  PROVE  /\ \A c \in Cmd : said[c] \subseteq said'[c]
         /\ \A a \in Elems(uplink') : a \in Elems(uplink) \/ a.status \in said'[a.id]
<1> DEFINE Goal == /\ \A c \in Cmd : said[c] \subseteq said'[c]
                   /\ \A a \in Elems(uplink') :
                        a \in Elems(uplink) \/ a.status \in said'[a.id]
<1>0. ReceiverTypeOK
  BY DEF TypeOK
<1>1. ASSUME NEW c \in Cmd, NEW status \in AckStatus, SendAck(c, status)
      PROVE  Goal
  <2>1. said'[c] = said[c] \cup {status} /\ \A d \in Cmd \ {c} : said'[d] = said[d]
    BY <1>0, <1>1 DEF SendAck, ReceiverTypeOK
  <2>2. [id |-> c, status |-> status] \in Ack
    BY DEF Ack
  <2>3. Elems(uplink') \subseteq Elems(uplink) \cup {[id |-> c, status |-> status]}
    BY <1>0, <1>1, <2>2, AppendFacts DEF SendAck, ReceiverTypeOK
  <2> QED BY <2>1, <2>3
<1>2. ASSUME said' = said, uplink' = uplink PROVE Goal
  BY <1>2
<1>3. ASSUME said' = said, uplink # <<>>, uplink' = Tail(uplink) PROVE Goal
  BY <1>0, <1>3, UplinkHead
<1>4. ASSUME RoverLosesLink PROVE Goal
  BY <1>0, <1>4, PrefixFacts DEF RoverLosesLink, ReceiverTypeOK
<1>5. ASSUME NEW c \in Cmd, OnMqttMessage(c) PROVE Goal
  BY <1>2, <1>5 DEF OnMqttMessage
<1>6. ASSUME UNCHANGED receiverVars PROVE Goal
  BY <1>2, <1>6 DEF receiverVars
<1>7. ASSUME NEW c \in Cmd, HandleAtOnce(c) PROVE Goal
  <2>1. PICK status \in AckStatus : SendAck(c, status)
    BY <1>7 DEF HandleAtOnce, Replies, AckStatus
  <2> QED BY <1>1, <2>1
<1>8. ASSUME NEW c \in Cmd,
             HandleDrive(c) \/ HandleNavGoal(c) \/ HandleCancelGoal(c)
      PROVE  Goal
  BY <1>1, <1>2, <1>8 DEF HandleDrive, HandleNavGoal, HandleCancelGoal, AckStatus
<1>9. ASSUME NEW c \in Cmd,
             GoalAccepted(c) \/ GoalRejected(c) \/ GoalResult(c) \/ CancelResponse(c)
      PROVE  Goal
  BY <1>1, <1>9 DEF GoalAccepted, GoalRejected, GoalResult, CancelResponse, AckStatus
<1>10. ASSUME SendReceived PROVE Goal
  <2>1. Head(drainAcks) \in Cmd
    BY <1>0, <1>10, TailFacts DEF SendReceived, ReceiverTypeOK
  <2> QED BY <1>1, <1>10, <2>1 DEF SendReceived, AckStatus
<1>11. ASSUME ReceiverStep PROVE Goal
  <2>1. CASE EvictSeen \/ DrainSwap \/ RoverConnects
    BY <1>2, <2>1 DEF EvictSeen, DrainSwap, RoverConnects
  <2> QED BY <1>4, <1>7, <1>8, <1>9, <1>10, <1>11, <2>1 DEF ReceiverStep
<1>12. ASSUME NEW c \in Cmd, Submit(c) \/ SubmitDrive(c) \/ Refuse(c) \/ Transmit(c)
                                \/ TrackerStep(c)
       PROVE  Goal
  BY <1>5, <1>6, <1>12 DEF Submit, SubmitDrive, Refuse, Transmit, TrackerStep
<1>13. ASSUME DeliverAck \/ LoseAck \/ CCLink \/ Tick PROVE Goal
  BY <1>2, <1>3, <1>6, <1>13 DEF DeliverAck, LoseAck, CCLink, Tick, ReceiverTick
<1>14. ASSUME UNCHANGED vars PROVE Goal
  BY <1>6, <1>14 DEF vars
<1> QED BY <1>11, <1>12, <1>13, <1>14 DEF Next

\* A record is added by the operator's side or copies an acknowledgement.
LEMMA HistoryGrows ==
  ASSUME TypeOK, [Next]_vars
  PROVE  /\ refused \subseteq refused'
         /\ \A r \in Elems(history') :
              \/ r \in Elems(history)
              \/ r.status \in {"SENT", "ACK_FAILED"}
              \/ r.status = "ACK_REJECTED" /\ r.id \in refused'
              \/ \E a \in Elems(uplink) : r.id = a.id /\ r.status = a.status
<1> DEFINE Copied(r) == \E a \in Elems(uplink) : r.id = a.id /\ r.status = a.status
<1>0. TrackerTypeOK /\ ReceiverTypeOK /\ refused \subseteq Cmd
  BY DEF TypeOK
<1>1. ASSUME NEW c \in Cmd, NEW status \in ShownStatus,
             history' = Upsert(history, [id |-> c, status |-> status])
      PROVE  \A r \in Elems(history') : r \in Elems(history) \/ (r.id = c /\ r.status = status)
  <2>1. [id |-> c, status |-> status] \in Record
    BY DEF Record
  <2> QED BY <1>0, <1>1, <2>1, UpsertFacts DEF TrackerTypeOK
<1>2. {"SENT", "ACK_FAILED", "ACK_REJECTED"} \subseteq ShownStatus /\ AckStatus \subseteq ShownStatus
  BY DEF ShownStatus, AckStatus
<1>3. ASSUME NEW c \in Cmd, Submit(c)
      PROVE  refused' = refused /\ \A r \in Elems(history') :
               r \in Elems(history) \/ r.status = "SENT"
  BY <1>1, <1>2, <1>3 DEF Submit, OnCmdSent
<1>4. ASSUME NEW c \in Cmd, Refuse(c)
      PROVE  refused' = refused \cup {c} /\ \A r \in Elems(history') :
               r \in Elems(history) \/ (r.status = "ACK_REJECTED" /\ r.id \in refused')
  BY <1>1, <1>2, <1>4 DEF Refuse, RecordLocalRejection
<1>5. ASSUME NEW c \in Cmd, TrackerStep(c)
      PROVE  refused' = refused /\ \A r \in Elems(history') :
               r \in Elems(history) \/ r.status = "ACK_FAILED"
  <2>1. CASE StartWatch(c) \/ WatchReturns(c)
    BY <1>5, <2>1 DEF TrackerStep, StartWatch, WatchReturns, linkVars
  <2>2. CASE WatchExpires(c)
    BY <1>1, <1>2, <1>5, <2>2 DEF TrackerStep, WatchExpires, linkVars
  <2> QED BY <1>5, <2>1, <2>2 DEF TrackerStep
<1>6. ASSUME DeliverAck
      PROVE  refused' = refused /\ \A r \in Elems(history') :
               r \in Elems(history) \/ Copied(r)
  <2>1. PICK a \in Elems(uplink) : a = Head(uplink) /\ a.id \in Cmd /\ a.status \in ShownStatus
    BY <1>0, <1>2, <1>6, UplinkHead DEF DeliverAck
  <2>2. OnCmdAck(a.id, a.status) /\ refused' = refused
    BY <1>6, <2>1 DEF DeliverAck, linkVars
  <2>3. \/ history' = history
        \/ history' = Upsert(history, [id |-> a.id, status |-> a.status])
    BY <2>2 DEF OnCmdAck
  <2> QED BY <1>1, <2>1, <2>2, <2>3
<1>7. ASSUME NEW c \in Cmd, SubmitDrive(c) \/ Transmit(c)
      PROVE  refused' = refused /\ history' = history
  BY <1>7 DEF SubmitDrive, Transmit, trackerVars
<1>8. ASSUME LoseAck \/ CCLink \/ Tick \/ ReceiverStep \/ UNCHANGED vars
      PROVE  refused' = refused /\ history' = history
  BY <1>8 DEF LoseAck, CCLink, Tick, TrackerTick, ReceiverStep, vars, trackerVars, linkVars
<1> QED BY <1>3, <1>4, <1>5, <1>6, <1>7, <1>8 DEF Next

\* Every step keeps uplink and history to what was said.
LEMMA RelayStep == TypeOK /\ RelayInv /\ [Next]_vars => RelayInv'
<1> SUFFICES ASSUME TypeOK, RelayInv, [Next]_vars PROVE RelayInv'
  OBVIOUS
<1>1. /\ \A a \in Elems(uplink) : a.id \in Cmd
      /\ \A r \in Elems(history) : r.id \in Cmd
  <2>1. Elems(uplink) \subseteq Ack /\ Elems(history) \subseteq Record
    BY ElemsFacts DEF TypeOK, TrackerTypeOK, ReceiverTypeOK
  <2> QED BY <2>1 DEF Ack, Record
<1>2. \A a \in Elems(uplink') : a.status \in said'[a.id]
  BY <1>1, SaidGrows DEF RelayInv
<1>3. ASSUME NEW r \in Elems(history')
      PROVE  /\ r.status \in {"ACK_RECEIVED", "ACK_ACCEPTED", "ACK_COMPLETED"} =>
                  r.status \in said'[r.id]
             /\ r.status = "ACK_REJECTED" =>
                  r.id \in refused' \/ "ACK_REJECTED" \in said'[r.id]
  <2>1. CASE r \in Elems(history)
    BY <1>1, <2>1, SaidGrows, HistoryGrows DEF RelayInv
  <2>2. CASE \E a \in Elems(uplink) : r.id = a.id /\ r.status = a.status
    BY <1>1, <2>2, SaidGrows DEF RelayInv
  <2>3. CASE r.status \in {"SENT", "ACK_FAILED"} \/ (r.status = "ACK_REJECTED" /\ r.id \in refused')
    BY <2>3
  <2> QED BY <2>1, <2>2, <2>3, HistoryGrows
<1> QED BY <1>2, <1>3 DEF RelayInv

\* The four parts together say what the history may show.
LEMMA PanelHonestFromInvariant ==
  ASSUME TypeOK, DispatchInv, SaidInv, RelayInv
  PROVE  PanelHonest
<1> SUFFICES ASSUME NEW c \in Cmd
             PROVE  /\ \A status \in {"ACK_RECEIVED", "ACK_ACCEPTED", "ACK_COMPLETED"} :
                         Shows(c, status) => status \in said[c]
                    /\ Shows(c, "ACK_REJECTED") =>
                         IF c \in refused
                           THEN runs[c] = 0
                           ELSE said[c] = {"ACK_RECEIVED", "ACK_REJECTED"}
  BY DEF PanelHonest
<1>1. \A status : Shows(c, status) =>
        \E r \in Elems(history) : r.id = c /\ r.status = status
  BY DEF Shows, Elems
<1>2. c \in refused => runs[c] = 0
  BY DEF DispatchInv, DedupInv, TakenUp, TypeOK, ReceiverTypeOK
<1> QED BY <1>1, <1>2 DEF RelayInv, SaidInv

\* The history shows an acceptance, a completion or a receipt only if the rover
\* said it, and a rejection only of a command the rover never carried out.
THEOREM HistoryIsHonest == Spec => []PanelHonest
<1>1. Init => SaidInv /\ RelayInv
  BY EmptyFacts DEF Init, TrackerInit, ReceiverInit, SaidInv, RelayInv, Received
<1>2. Spec => []SaidInv
  BY <1>1, DispatchInvariant, SaidStep, PTL DEF Spec
<1>3. Spec => []RelayInv
  BY <1>1, TypeCorrect, RelayStep, PTL DEF Spec
<1> QED BY <1>2, <1>3, DispatchInvariant, PanelHonestFromInvariant, PTL

-----------------------------------------------------------------------------
(* The command path implements CommandLifecycle *)

(***************************************************************************)
(* What the operator sees of a command, without the CHOOSE of PanelOf: the *)
(* status of its record or, when it has none, what is left of it.          *)
(***************************************************************************)
Unrecorded(c) == \A r \in Elems(history) : r.id # c

Remains(c) ==
  IF c \in pending THEN "open"
  ELSE IF c \in refused \/ (c \in issued /\ Kind[c] # "drive") THEN "closed"
  ELSE "none"

PanelShape ==
  /\ Panel \in [Cmd -> Lifecycle!PanelState]
  /\ \A r \in Elems(history) : Panel[r.id] = r.status
  /\ \A c \in Cmd : Unrecorded(c) => Panel[c] = Remains(c)

\* The vocabulary of the abstract specification is that of the command path.
LEMMA LifecycleWords ==
  /\ \A c, status : Lifecycle!IsTerminalStatus(c, status) <=> IsTerminalStatus(c, status)
  /\ Lifecycle!ShownStatus = ShownStatus
  /\ Lifecycle!AckStatus = AckStatus
  /\ Lifecycle!Outcomes = Outcomes
BY DEF Lifecycle!IsTerminalStatus, IsTerminalStatus, Lifecycle!Outcomes, Outcomes,
       Lifecycle!TwoStage, TwoStage, Lifecycle!ShownStatus, ShownStatus,
       Lifecycle!AckStatus, AckStatus

\* With one record for each command, the panel shows the records.
LEMMA PanelShown == TypeOK /\ RecordsTracked => PanelShape
<1> SUFFICES ASSUME TypeOK, RecordsTracked PROVE PanelShape
  OBVIOUS
<1>1. /\ Elems(history) \subseteq Record
      /\ \A i \in DOMAIN history : history[i] \in Elems(history)
  BY ElemsFacts DEF TypeOK, TrackerTypeOK
<1>2. ASSUME NEW i \in DOMAIN history
      PROVE  PanelOf(history[i].id) = history[i].status
  <2>1. i = CHOOSE j \in DOMAIN history : history[j].id = history[i].id
    BY DEF RecordsTracked, OneRecordEach
  <2> QED BY <2>1 DEF PanelOf, Shown
<1>3. \A r \in Elems(history) : r.id \in Cmd /\ PanelOf(r.id) = r.status
  BY <1>1, <1>2 DEF Elems, Record
<1>4. ASSUME NEW c \in Cmd, Unrecorded(c) PROVE PanelOf(c) = Remains(c)
  BY <1>1, <1>4 DEF PanelOf, Shown, Unrecorded, Remains
<1>5. ASSUME NEW c \in Cmd PROVE PanelOf(c) \in Lifecycle!PanelState
  <2>1. CASE Unrecorded(c)
    BY <1>4, <2>1 DEF Remains, Lifecycle!PanelState
  <2>2. CASE ~Unrecorded(c)
    <3>1. PICK r \in Elems(history) : r.id = c
      BY <2>2 DEF Unrecorded
    <3>2. r.status \in ShownStatus
      BY <1>1 DEF Record
    <3> QED BY <1>3, <3>1, <3>2, LifecycleWords DEF Lifecycle!PanelState
  <2> QED BY <2>1, <2>2
<1> QED BY <1>3, <1>4, <1>5 DEF PanelShape, Panel

\* The same of the state after a step.
LEMMA PanelShownNext == (TypeOK /\ RecordsTracked)' => PanelShape'
BY PanelShown, PTL

(***************************************************************************)
(* A command has a record only if it left the control center or was        *)
(* refused there, and one that is still pending shows nothing final.       *)
(***************************************************************************)
Tracked(c) == c \in refused \/ (c \in issued /\ Kind[c] # "drive")

PanelInv ==
  /\ \A r \in Elems(history) :
       /\ Tracked(r.id)
       /\ r.id \in pending => ~IsTerminalStatus(r.id, r.status)
  /\ \A c \in pending : c \in issued /\ Kind[c] # "drive"

\* Writing the record of c, pending only if it is not final, keeps that.
LEMMA PanelInvAfterUpsert ==
  ASSUME TrackerTypeOK, PanelInv, NEW c \in Cmd, NEW status \in ShownStatus,
         history' = Upsert(history, [id |-> c, status |-> status]),
         pending' \ {c} = pending \ {c},
         c \in pending' => ~IsTerminalStatus(c, status),
         c \in pending' => c \in issued' /\ Kind[c] # "drive",
         Tracked(c)', issued \subseteq issued', refused \subseteq refused'
  PROVE  PanelInv'
<1> DEFINE rec == [id |-> c, status |-> status]
<1>1. rec \in Record /\ rec.id = c /\ rec.status = status
  BY DEF Record
<1>2. \A r \in Elems(history') : r = rec \/ (r \in Elems(history) /\ r.id # c)
  BY <1>1, UpsertFacts DEF TrackerTypeOK
<1> HIDE DEF rec
<1>3. \A d \in pending' : d \in issued' /\ Kind[d] # "drive"
  BY DEF PanelInv
<1>4. ASSUME NEW r \in Elems(history')
      PROVE  Tracked(r.id)' /\ (r.id \in pending' => ~IsTerminalStatus(r.id, r.status))
  <2>1. CASE r = rec
    BY <1>1, <2>1 DEF Tracked
  <2>2. CASE r \in Elems(history) /\ r.id # c
    BY <2>2 DEF PanelInv, Tracked
  <2> QED BY <1>2, <2>1, <2>2
<1> QED BY <1>3, <1>4 DEF PanelInv, Tracked

\* Every step keeps records to commands that were issued or refused.
LEMMA PanelInvStep == TypeOK /\ DispatchInv /\ PanelInv /\ [Next]_vars => PanelInv'
<1> SUFFICES ASSUME TypeOK, DispatchInv, PanelInv, [Next]_vars PROVE PanelInv'
  OBVIOUS
<1>a. TrackerTypeOK /\ ReceiverTypeOK
  BY DEF TypeOK
<1>b. /\ AckStatus \subseteq ShownStatus
      /\ {"SENT", "ACK_FAILED", "ACK_REJECTED"} \subseteq ShownStatus
      /\ \A c \in Cmd : ~IsTerminalStatus(c, "SENT")
  BY DEF ShownStatus, AckStatus, IsTerminalStatus, Outcomes
<1>c. ASSUME UNCHANGED <<history, pending>>,
             issued \subseteq issued', refused \subseteq refused'
      PROVE  PanelInv'
  BY <1>c DEF PanelInv, Tracked
<1>1. ASSUME NEW c \in Cmd, Submit(c) PROVE PanelInv'
  <2>1. /\ history' = Upsert(history, [id |-> c, status |-> "SENT"])
        /\ pending' = pending \cup {c} /\ Kind[c] # "drive"
        /\ issued' = issued \cup {c} /\ refused' = refused
    BY <1>1 DEF Submit, OnCmdSent
  <2> QED BY <1>a, <1>b, <2>1, PanelInvAfterUpsert DEF Tracked
<1>2. ASSUME NEW c \in Cmd, Refuse(c) PROVE PanelInv'
  <2>1. /\ history' = Upsert(history, [id |-> c, status |-> "ACK_REJECTED"])
        /\ pending' = pending /\ c \notin issued
        /\ issued' = issued /\ refused' = refused \cup {c}
    BY <1>2 DEF Refuse, Fresh, RecordLocalRejection
  <2>2. c \notin pending'
    BY <2>1 DEF PanelInv
  <2> QED BY <1>a, <1>b, <2>1, <2>2, PanelInvAfterUpsert DEF Tracked
<1>3. ASSUME NEW c \in Cmd, TrackerStep(c) PROVE PanelInv'
  <2>0. issued' = issued /\ refused' = refused
    BY <1>3 DEF TrackerStep, linkVars
  <2>1. CASE StartWatch(c) \/ WatchReturns(c)
    BY <1>c, <2>0, <2>1 DEF StartWatch, WatchReturns
  <2>2. CASE WatchExpires(c)
    <3>1. /\ history' = Upsert(history, [id |-> c, status |-> "ACK_FAILED"])
          /\ pending' = pending \ {c} /\ c \in pending
      BY <2>2 DEF WatchExpires, Resolve
    <3>2. Tracked(c)'
      BY <2>0, <3>1 DEF PanelInv, Tracked
    <3> QED BY <1>a, <1>b, <2>0, <3>1, <3>2, PanelInvAfterUpsert
  <2> QED BY <1>3, <2>1, <2>2 DEF TrackerStep
<1>4. CASE DeliverAck
  <2> DEFINE c == Head(uplink).id
             status == Head(uplink).status
  <2>1. c \in Cmd /\ status \in ShownStatus /\ OnCmdAck(c, status)
    BY <1>4, <1>a, <1>b, UplinkHead DEF DeliverAck
  <2>2. issued' = issued /\ refused' = refused
    BY <1>4 DEF DeliverAck, linkVars
  <2> HIDE DEF c, status
  <2>3. CASE c \notin pending
    BY <1>c, <2>1, <2>2, <2>3 DEF OnCmdAck
  <2>4. CASE c \in pending
    <3>1. /\ history' = Upsert(history, [id |-> c, status |-> status])
          /\ pending' = IF IsTerminalStatus(c, status) THEN pending \ {c} ELSE pending
      BY <2>1, <2>4 DEF OnCmdAck, Resolve
    <3>2. c \in issued /\ Kind[c] # "drive"
      BY <2>4 DEF PanelInv
    <3> QED BY <1>a, <2>1, <2>2, <3>1, <3>2, PanelInvAfterUpsert DEF Tracked
  <2> QED BY <2>3, <2>4
<1>5. ASSUME NEW c \in Cmd, SubmitDrive(c) \/ Transmit(c) PROVE PanelInv'
  BY <1>5, <1>c DEF SubmitDrive, Transmit, trackerVars
<1>6. CASE LoseAck \/ CCLink \/ Tick \/ ReceiverStep \/ UNCHANGED vars
  BY <1>6, <1>c DEF LoseAck, CCLink, Tick, TrackerTick, ReceiverStep, vars, trackerVars, linkVars
<1> QED BY <1>1, <1>2, <1>3, <1>4, <1>5, <1>6 DEF Next

(***************************************************************************)
(* Writing the record of c is a Show of the abstract specification: the    *)
(* other commands keep what the operator sees, or their record falls off.  *)
(***************************************************************************)
LEMMA UpsertShows ==
  ASSUME TypeOK, RecordsTracked, PanelInv, PanelShape, PanelShape',
         NEW c \in Cmd, NEW status \in ShownStatus,
         history' = Upsert(history, [id |-> c, status |-> status]),
         pending' \ {c} = pending \ {c}, issued' \ {c} = issued \ {c},
         refused' \ {c} = refused \ {c}
  PROVE  Lifecycle!Show(c, status)
<1> DEFINE rec == [id |-> c, status |-> status]
<1>1. rec \in Record /\ rec.id = c /\ rec.status = status
  BY DEF Record
<1>2. /\ \A r \in Elems(history') : r = rec \/ (r \in Elems(history) /\ r.id # c)
      /\ rec \in Elems(history')
  BY <1>1, UpsertFacts DEF TypeOK, TrackerTypeOK
<1> HIDE DEF rec
<1>3. Panel'[c] = status
  BY <1>1, <1>2 DEF PanelShape
<1>4. ASSUME NEW d \in Cmd \ {c}
      PROVE  Panel'[d] \in {Panel[d], Lifecycle!Dropped(d)}
  <2>1. CASE ~Unrecorded(d)'
    <3>1. PICK r \in Elems(history') : r.id = d
      BY <2>1 DEF Unrecorded
    <3>2. r \in Elems(history)
      BY <1>1, <1>2, <3>1
    <3> QED BY <3>1, <3>2 DEF PanelShape
  <2>2. CASE Unrecorded(d)' /\ Unrecorded(d)
    BY <2>2 DEF PanelShape, Remains
  <2>3. CASE Unrecorded(d)' /\ ~Unrecorded(d)
    <3>1. PICK r \in Elems(history) : r.id = d
      BY <2>3 DEF Unrecorded
    <3>2. Panel[d] = r.status /\ r.status \in ShownStatus /\ r.status # "none"
      <4>1. r \in Record
        BY ElemsFacts DEF TypeOK, TrackerTypeOK
      <4> QED BY <3>1, <4>1 DEF PanelShape, Record, ShownStatus, AckStatus
    <3>3. Lifecycle!IsOpen(d) <=> d \in pending
      BY <3>1, <3>2, LifecycleWords DEF Lifecycle!IsOpen, RecordsTracked, PanelInv
    <3>4. Lifecycle!Dropped(d) = IF d \in pending THEN "open" ELSE "closed"
      BY <3>2, <3>3 DEF Lifecycle!Dropped
    <3>5. Panel'[d] = IF d \in pending THEN "open" ELSE "closed"
      <4>1. Tracked(d)
        BY <3>1 DEF PanelInv
      <4> QED BY <2>3, <4>1 DEF PanelShape, Remains, Tracked
    <3> QED BY <3>4, <3>5
  <2> QED BY <2>1, <2>2, <2>3
<1> QED BY <1>3, <1>4 DEF Lifecycle!Show, PanelShape

(***************************************************************************)
(* The guard of the abstract Say: ACK_RECEIVED comes first, and nothing    *)
(* comes twice or after an outcome.                                        *)
(***************************************************************************)
MaySay(c, status) ==
  /\ c \in issued
  /\ IF status = "ACK_RECEIVED"
       THEN said[c] = {}
       ELSE /\ "ACK_RECEIVED" \in said[c]
            /\ said[c] \cap (Outcomes \cup {status}) = {}

Says == \E c \in Cmd, status \in AckStatus : MaySay(c, status) /\ SendAck(c, status)

SaysNothing ==
  /\ said' = said
  /\ \/ uplink' = uplink
     \/ uplink # <<>> /\ uplink' = Tail(uplink)
     \/ \E kept \in 0..Len(uplink) : uplink' = SubSeq(uplink, 1, kept)

\* Of a command that has just been taken from the queue only ACK_RECEIVED was said.
LEMMA TakenMaySay ==
  ASSUME TypeOK, DispatchInv, SaidInv, NEW c \in Cmd, TakeNext(c)
  PROVE  c \in issued /\ said[c] = {"ACK_RECEIVED"}
<1>1. c \in Queued /\ runs[c] = 0
  BY QueuesOnTake DEF DispatchInv, TypeOK
<1>2. c \in issued
  BY <1>1 DEF DispatchInv, DedupInv, TakenUp
<1>3. c \in Elems(drainCmds) /\ Elems(drainAcks) = {}
  BY TailFacts, EmptyFacts DEF TakeNext, TypeOK, ReceiverTypeOK
<1> QED BY <1>1, <1>2, <1>3 DEF SaidInv, Received

\* A goal that Nav2 answers for belongs to a command that was dispatched.
LEMMA CallbackMaySay ==
  ASSUME TypeOK, DispatchInv, SaidInv, NEW c \in Cmd, goalState[c] # "none"
  PROVE  c \in issued
BY DEF SaidInv, DispatchInv, DedupInv, TakenUp

\* Every acknowledgement the rover sends is one the lifecycle allows.
LEMMA StepSays ==
  ASSUME TypeOK, DispatchInv, SaidInv, [Next]_vars
  PROVE  (Says /\ UNCHANGED <<trackerVars, linkVars>>) \/ SaysNothing
<1>a. /\ AckStatus = {"ACK_RECEIVED", "ACK_ACCEPTED", "ACK_REJECTED",
                      "ACK_COMPLETED", "ACK_FAILED"}
      /\ Outcomes = {"ACK_REJECTED", "ACK_COMPLETED", "ACK_FAILED"}
  BY DEF AckStatus, Outcomes
<1>b. UNCHANGED receiverVars => SaysNothing
  BY DEF receiverVars, SaysNothing
<1>c. ASSUME NEW c \in Cmd, TakeNext(c), NEW status \in AckStatus \ {"ACK_RECEIVED"},
             SendAck(c, status)
      PROVE  Says
  <2>1. MaySay(c, status)
    BY <1>a, <1>c, TakenMaySay DEF MaySay
  <2> QED BY <1>c, <2>1 DEF Says
<1>1. ASSUME NEW c \in Cmd, Submit(c) \/ SubmitDrive(c) \/ Refuse(c) \/ Transmit(c)
                               \/ TrackerStep(c)
      PROVE  SaysNothing
  <2>1. OnMqttMessage(c) => SaysNothing
    BY DEF OnMqttMessage, SaysNothing
  <2> QED BY <1>1, <1>b, <2>1 DEF Submit, SubmitDrive, Refuse, Transmit, TrackerStep
<1>2. CASE DeliverAck \/ LoseAck \/ CCLink \/ Tick
  BY <1>2, <1>b DEF DeliverAck, LoseAck, CCLink, Tick, ReceiverTick, SaysNothing
<1>3. CASE EvictSeen \/ DrainSwap \/ RoverConnects \/ RoverLosesLink
  BY <1>3 DEF EvictSeen, DrainSwap, RoverConnects, RoverLosesLink, SaysNothing
<1>4. ASSUME SendReceived PROVE Says
  <2> PICK h \in Cmd : h = Head(drainAcks)
    BY <1>4, TailFacts DEF SendReceived, TypeOK, ReceiverTypeOK
  <2>1. h \in Elems(drainAcks)
    BY <1>4, TailFacts DEF SendReceived, TypeOK, ReceiverTypeOK
  <2>2. h \in Queued /\ runs[h] = 0 /\ ~Received(h)
    BY <2>1 DEF DispatchInv, QueuesInv, Queued, Received
  <2>3. MaySay(h, "ACK_RECEIVED")
    BY <2>2 DEF MaySay, SaidInv, DispatchInv, DedupInv, TakenUp
  <2> QED BY <1>4, <1>a, <2>3 DEF SendReceived, Says
<1>5. ASSUME NEW c \in Cmd, HandleAtOnce(c) PROVE Says
  <2>1. PICK status \in Replies(Kind[c]) : SendAck(c, status)
    BY <1>5 DEF HandleAtOnce
  <2>2. status \in AckStatus \ {"ACK_RECEIVED"}
    BY <1>a, <2>1 DEF Replies
  <2> QED BY <1>5, <1>c, <2>1, <2>2 DEF HandleAtOnce
<1>6. ASSUME NEW c \in Cmd, HandleDrive(c) PROVE SaysNothing
  BY <1>6 DEF HandleDrive, SaysNothing
<1>7. ASSUME NEW c \in Cmd, HandleNavGoal(c) \/ HandleCancelGoal(c)
      PROVE  Says \/ SaysNothing
  <2>1. TakeNext(c)
    BY <1>7 DEF HandleNavGoal, HandleCancelGoal
  <2>2. \/ SendAck(c, "ACK_REJECTED") \/ SendAck(c, "ACK_ACCEPTED")
        \/ UNCHANGED <<uplink, said>>
    BY <1>7 DEF HandleNavGoal, HandleCancelGoal
  <2> QED BY <1>a, <1>c, <2>1, <2>2 DEF SaysNothing
<1>8. ASSUME NEW c \in Cmd, GoalAccepted(c) \/ GoalRejected(c) PROVE Says
  <2>1. said[c] = {"ACK_RECEIVED"} /\ c \in issued
    BY <1>8, CallbackMaySay DEF GoalAccepted, GoalRejected, SaidInv
  <2>2. PICK status \in {"ACK_ACCEPTED", "ACK_REJECTED"} : SendAck(c, status)
    BY <1>8 DEF GoalAccepted, GoalRejected
  <2>3. MaySay(c, status)
    BY <1>a, <2>1, <2>2 DEF MaySay
  <2> QED BY <1>a, <2>2, <2>3 DEF Says
<1>9. ASSUME NEW c \in Cmd, GoalResult(c) \/ CancelResponse(c) PROVE Says
  <2>1. said[c] = {"ACK_RECEIVED", "ACK_ACCEPTED"} /\ c \in issued
    BY <1>9, CallbackMaySay DEF GoalResult, CancelResponse, SaidInv
  <2>2. PICK status \in {"ACK_COMPLETED", "ACK_FAILED"} : SendAck(c, status)
    BY <1>9 DEF GoalResult, CancelResponse
  <2>3. MaySay(c, status)
    BY <1>a, <2>1, <2>2 DEF MaySay
  <2> QED BY <1>a, <2>2, <2>3 DEF Says
<1>10. CASE ReceiverStep
  <2>1. Says \/ SaysNothing
    BY <1>10, <1>3, <1>4, <1>5, <1>6, <1>7, <1>8, <1>9 DEF ReceiverStep
  <2> QED BY <1>10, <2>1 DEF ReceiverStep
<1>11. CASE UNCHANGED vars
  BY <1>11, <1>b DEF vars
<1> QED BY <1>1, <1>2, <1>10, <1>11 DEF Next

-----------------------------------------------------------------------------
(* Acknowledgements arrive in the order of the lifecycle *)

\* Of two acknowledgements of one command the earlier has the lower stage.
Ordered(acks) ==
  \A i, j \in DOMAIN acks :
    i < j /\ acks[i].id = acks[j].id =>
      Lifecycle!Stage(acks[i].status) < Lifecycle!Stage(acks[j].status)

(***************************************************************************)
(* What is on its way has a higher stage than what a pending command       *)
(* shows, so that an acknowledgement never takes the history back.         *)
(***************************************************************************)
OrderInv ==
  /\ Ordered(uplink)
  /\ \A r \in Elems(history), a \in Elems(uplink) :
       r.id \in pending /\ a.id = r.id =>
         Lifecycle!Stage(r.status) < Lifecycle!Stage(a.status)

\* Appending the acknowledgement of the highest stage keeps the order.
LEMMA OrderedAppend ==
  ASSUME NEW acks \in Seq(Ack), NEW a \in Ack, Ordered(acks),
         \A b \in Elems(acks) :
           b.id = a.id => Lifecycle!Stage(b.status) < Lifecycle!Stage(a.status)
  PROVE  Ordered(Append(acks, a))
<1> DEFINE t == Append(acks, a)
           n == Len(acks)
<1>1. /\ t \in Seq(Ack) /\ Len(t) = n + 1 /\ n \in Nat
      /\ DOMAIN t = 1..(n + 1) /\ DOMAIN acks = 1..n
      /\ \A i \in 1..n : t[i] = acks[i]
      /\ t[n + 1] = a
  BY AppendProperties, LenProperties
<1>2. \A i \in 1..n : acks[i] \in Elems(acks)
  BY <1>1 DEF Elems
<1> HIDE DEF t, n
<1>3. ASSUME NEW i \in 1..(n + 1), NEW j \in 1..(n + 1), i < j, t[i].id = t[j].id
      PROVE  Lifecycle!Stage(t[i].status) < Lifecycle!Stage(t[j].status)
  <2>1. i \in 1..n /\ (j \in 1..n \/ j = n + 1)
    BY <1>1, <1>3
  <2>2. CASE j \in 1..n
    BY <1>1, <1>3, <2>1, <2>2 DEF Ordered
  <2>3. CASE j = n + 1
    BY <1>1, <1>2, <1>3, <2>1, <2>3
  <2> QED BY <2>1, <2>2, <2>3
<1>4. Ordered(t)
  BY <1>1, <1>3 DEF Ordered
<1> QED BY <1>4 DEF t

\* Without its head the rest is in order, and of higher stages than the head.
LEMMA OrderedTail ==
  ASSUME NEW acks \in Seq(Ack), acks # <<>>, Ordered(acks)
  PROVE  /\ Ordered(Tail(acks))
         /\ \A a \in Elems(Tail(acks)) : a.id = Head(acks).id =>
              Lifecycle!Stage(Head(acks).status) < Lifecycle!Stage(a.status)
<1> DEFINE t == Tail(acks)
           n == Len(acks)
<1>1. /\ t \in Seq(Ack) /\ Len(t) = n - 1 /\ n \in Nat \ {0}
      /\ DOMAIN t = 1..(n - 1) /\ DOMAIN acks = 1..n
      /\ \A i \in 1..(n - 1) : t[i] = acks[i + 1]
      /\ Head(acks) = acks[1]
  BY HeadTailProperties, LenProperties, EmptySeq
<1> HIDE DEF t, n
<1>2. \A i \in 1..(n - 1) : i + 1 \in 1..n /\ 1 \in 1..n /\ 1 < i + 1
  BY <1>1
<1>3. ASSUME NEW i \in 1..(n - 1), NEW j \in 1..(n - 1), i < j, t[i].id = t[j].id
      PROVE  Lifecycle!Stage(t[i].status) < Lifecycle!Stage(t[j].status)
  <2>1. i + 1 < j + 1 /\ t[i] = acks[i + 1] /\ t[j] = acks[j + 1]
    BY <1>1, <1>3
  <2> QED BY <1>1, <1>2, <1>3, <2>1 DEF Ordered
<1>4. Ordered(t)
  BY <1>1, <1>3 DEF Ordered
<1>5. ASSUME NEW i \in 1..(n - 1), t[i].id = acks[1].id
      PROVE  Lifecycle!Stage(acks[1].status) < Lifecycle!Stage(t[i].status)
  BY <1>1, <1>2, <1>5 DEF Ordered
<1>6. \A a \in Elems(t) : a.id = acks[1].id =>
        Lifecycle!Stage(acks[1].status) < Lifecycle!Stage(a.status)
  BY <1>1, <1>5 DEF Elems
<1> QED BY <1>1, <1>4, <1>6 DEF t

\* A prefix is in order.
LEMMA OrderedPrefix ==
  ASSUME NEW acks \in Seq(Ack), Ordered(acks), NEW k \in 0..Len(acks)
  PROVE  Ordered(SubSeq(acks, 1, k))
<1> DEFINE t == SubSeq(acks, 1, k)
<1>1. /\ Len(acks) \in Nat /\ DOMAIN acks = 1..Len(acks)
      /\ \A i \in 1..k : acks[i] \in Ack
  BY LenProperties, ElementOfSeq
<1>2. /\ t \in Seq(Ack)
      /\ Len(t) = IF 1 <= k THEN k - 1 + 1 ELSE 0
      /\ \A i \in 1..(k - 1 + 1) : t[i] = acks[1 + i - 1]
  BY <1>1, SubSeqProperties
<1>3. DOMAIN t = 1..k /\ \A i \in 1..k : t[i] = acks[i] /\ i \in 1..Len(acks)
  BY <1>1, <1>2, LenProperties
<1> HIDE DEF t
<1>4. Ordered(t)
  BY <1>1, <1>3 DEF Ordered
<1> QED BY <1>4 DEF t

\* What the lifecycle allows the rover to say tops what it has said.
LEMMA SaidBelow ==
  ASSUME TypeOK, NEW c \in Cmd, NEW status \in AckStatus, MaySay(c, status),
         NEW shown \in said[c] \cup {"SENT"}
  PROVE  Lifecycle!Stage(shown) < Lifecycle!Stage(status)
<1>1. said[c] \subseteq AckStatus
  BY DEF TypeOK, ReceiverTypeOK
<1>2. /\ status = "ACK_RECEIVED" => shown = "SENT"
      /\ status = "ACK_ACCEPTED" => shown \in {"SENT", "ACK_RECEIVED"}
      /\ shown \in {"SENT", "ACK_RECEIVED", "ACK_ACCEPTED"}
  BY <1>1 DEF MaySay, AckStatus, Outcomes
<1> QED BY <1>2 DEF Lifecycle!Stage, AckStatus

\* What a pending command shows is what was said of it, unless it is SENT.
LEMMA PendingShows ==
  ASSUME TypeOK, PanelInv, RelayInv, NEW r \in Elems(history), r.id \in pending
  PROVE  r.id \in Cmd /\ r.status \in said[r.id] \cup {"SENT"}
<1>1. r \in Record
  BY ElemsFacts DEF TypeOK, TrackerTypeOK
<1>2. ~IsTerminalStatus(r.id, r.status)
  BY DEF PanelInv
<1>3. r.status \in {"SENT", "ACK_RECEIVED", "ACK_ACCEPTED"}
  BY <1>1, <1>2 DEF Record, ShownStatus, AckStatus, IsTerminalStatus, Outcomes
<1> QED BY <1>1, <1>3 DEF RelayInv, Record

\* Sending an acknowledgement the lifecycle allows keeps the order.
LEMMA OrderOnSay ==
  ASSUME TypeOK, PanelInv, RelayInv, OrderInv, Says, UNCHANGED trackerVars
  PROVE  OrderInv'
<1> PICK c \in Cmd, status \in AckStatus : MaySay(c, status) /\ SendAck(c, status)
  BY DEF Says
<1> DEFINE ack == [id |-> c, status |-> status]
<1>1. ack \in Ack /\ ack.id = c /\ ack.status = status
  BY DEF Ack
<1>2. uplink \in Seq(Ack) /\ UNCHANGED <<history, pending>>
  BY DEF TypeOK, ReceiverTypeOK, trackerVars
<1>3. uplink' = uplink \/ uplink' = Append(uplink, ack)
  BY DEF SendAck
<1> HIDE DEF ack
<1>4. \A b \in Elems(uplink) :
        b.id = ack.id => Lifecycle!Stage(b.status) < Lifecycle!Stage(ack.status)
  <2>1. \A b \in Elems(uplink) : b.id = c => b.status \in said[c]
    BY DEF RelayInv
  <2> QED BY <1>1, <2>1, SaidBelow
<1>5. \A r \in Elems(history) : r.id \in pending /\ r.id = c =>
        Lifecycle!Stage(r.status) < Lifecycle!Stage(status)
  BY PendingShows, SaidBelow
<1>6. Ordered(uplink') /\ Elems(uplink') \subseteq Elems(uplink) \cup {ack}
  <2>1. Ordered(uplink)
    BY DEF OrderInv
  <2>2. Ordered(Append(uplink, ack))
    BY <1>1, <1>2, <1>4, <2>1, OrderedAppend
  <2>3. Elems(Append(uplink, ack)) = Elems(uplink) \cup {ack}
    BY <1>1, <1>2, AppendFacts
  <2> QED BY <1>3, <2>1, <2>2, <2>3
<1>7. ASSUME NEW r \in Elems(history), NEW a \in Elems(uplink'), r.id \in pending, a.id = r.id
      PROVE  Lifecycle!Stage(r.status) < Lifecycle!Stage(a.status)
  <2>1. CASE a \in Elems(uplink)
    BY <1>7, <2>1 DEF OrderInv
  <2>2. CASE a = ack
    BY <1>1, <1>5, <1>7, <2>2
  <2> QED BY <1>6, <2>1, <2>2
<1> QED BY <1>2, <1>6, <1>7 DEF OrderInv

\* So does losing or delivering acknowledgements from the front or the back.
LEMMA UplinkShrinks ==
  ASSUME TypeOK, OrderInv, SaysNothing
  PROVE  Ordered(uplink') /\ Elems(uplink') \subseteq Elems(uplink)
<1>1. uplink \in Seq(Ack) /\ Ordered(uplink)
  BY DEF TypeOK, ReceiverTypeOK, OrderInv
<1>2. CASE uplink' = uplink
  BY <1>1, <1>2
<1>3. CASE uplink # <<>> /\ uplink' = Tail(uplink)
  BY <1>1, <1>3, OrderedTail, TailFacts
<1>4. CASE \E kept \in 0..Len(uplink) : uplink' = SubSeq(uplink, 1, kept)
  BY <1>1, <1>4, OrderedPrefix, PrefixFacts
<1> QED BY <1>2, <1>3, <1>4 DEF SaysNothing

\* Every step keeps a command's acknowledgements on the uplink in order, and behind its
\* record.
LEMMA OrderStep ==
  /\ TypeOK /\ DispatchInv /\ SaidInv /\ RelayInv /\ PanelInv /\ OrderInv
  /\ [Next]_vars
  => OrderInv'
<1> SUFFICES ASSUME TypeOK, DispatchInv, SaidInv, RelayInv, PanelInv, OrderInv,
                    [Next]_vars
             PROVE  OrderInv'
  OBVIOUS
<1>a. TrackerTypeOK /\ ReceiverTypeOK
  BY DEF TypeOK
<1>b. ShownStatus = AckStatus \cup {"SENT"} /\ "ACK_FAILED" \in AckStatus
      /\ "ACK_REJECTED" \in AckStatus
  BY DEF ShownStatus, AckStatus
<1>1. CASE Says /\ UNCHANGED <<trackerVars, linkVars>>
  BY <1>1, OrderOnSay
<1>2. CASE SaysNothing
  <2>1. Ordered(uplink') /\ Elems(uplink') \subseteq Elems(uplink)
    BY <1>2, UplinkShrinks
  <2>2. ASSUME UNCHANGED <<history, pending>> PROVE OrderInv'
    BY <2>1, <2>2 DEF OrderInv
  <2>3. ASSUME NEW c \in Cmd, NEW status \in ShownStatus,
               history' = Upsert(history, [id |-> c, status |-> status]),
               pending' \ {c} = pending \ {c},
               c \in pending' => \A a \in Elems(uplink') : a.id = c =>
                 Lifecycle!Stage(status) < Lifecycle!Stage(a.status)
        PROVE  OrderInv'
    <3> DEFINE rec == [id |-> c, status |-> status]
    <3>1. rec \in Record /\ rec.id = c /\ rec.status = status
      BY DEF Record
    <3>2. \A r \in Elems(history') : r = rec \/ (r \in Elems(history) /\ r.id # c)
      BY <1>a, <2>3, <3>1, UpsertFacts DEF TrackerTypeOK
    <3> HIDE DEF rec
    <3>3. ASSUME NEW r \in Elems(history'), NEW a \in Elems(uplink'),
                 r.id \in pending', a.id = r.id
          PROVE  Lifecycle!Stage(r.status) < Lifecycle!Stage(a.status)
      <4>1. CASE r = rec
        BY <2>3, <3>1, <3>3, <4>1
      <4>2. CASE r \in Elems(history) /\ r.id # c
        <5>1. r.id \in pending /\ a \in Elems(uplink)
          BY <2>1, <2>3, <3>3, <4>2
        <5> QED BY <3>3, <4>2, <5>1 DEF OrderInv
      <4> QED BY <3>2, <4>1, <4>2
    <3> QED BY <2>1, <3>3 DEF OrderInv
  <2>4. ASSUME NEW c \in Cmd, Submit(c) PROVE OrderInv'
    <3>1. /\ history' = Upsert(history, [id |-> c, status |-> "SENT"])
          /\ pending' = pending \cup {c}
      BY <2>4 DEF Submit, OnCmdSent
    <3>2. \A a \in Elems(uplink) : a.status \in AckStatus
      <4>1. Elems(uplink) \subseteq Ack
        BY <1>a, ElemsFacts DEF ReceiverTypeOK
      <4> QED BY <4>1 DEF Ack
    <3>3. \A status \in AckStatus : Lifecycle!Stage("SENT") < Lifecycle!Stage(status)
      BY DEF Lifecycle!Stage, AckStatus
    <3> QED BY <1>b, <2>1, <2>3, <3>1, <3>2, <3>3
  <2>5. ASSUME NEW c \in Cmd, Refuse(c) PROVE OrderInv'
    <3>1. /\ history' = Upsert(history, [id |-> c, status |-> "ACK_REJECTED"])
          /\ pending' = pending /\ c \notin pending
      BY <2>5 DEF Refuse, Fresh, RecordLocalRejection, PanelInv
    <3> QED BY <1>b, <2>3, <3>1
  <2>6. ASSUME NEW c \in Cmd, TrackerStep(c) PROVE OrderInv'
    <3>1. CASE StartWatch(c) \/ WatchReturns(c)
      BY <2>2, <3>1 DEF StartWatch, WatchReturns
    <3>2. CASE WatchExpires(c)
      <4>1. /\ history' = Upsert(history, [id |-> c, status |-> "ACK_FAILED"])
            /\ pending' = pending \ {c}
        BY <3>2 DEF WatchExpires, Resolve
      <4> QED BY <1>b, <2>3, <4>1
    <3> QED BY <2>6, <3>1, <3>2 DEF TrackerStep
  <2>7. CASE DeliverAck
    <3> DEFINE c == Head(uplink).id
               status == Head(uplink).status
    <3>1. c \in Cmd /\ status \in ShownStatus /\ OnCmdAck(c, status)
      BY <1>a, <1>b, <2>7, UplinkHead DEF DeliverAck
    <3>2. \A a \in Elems(uplink') : a.id = c =>
            Lifecycle!Stage(status) < Lifecycle!Stage(a.status)
      BY <1>a, <2>7, OrderedTail DEF DeliverAck, ReceiverTypeOK, OrderInv
    <3> HIDE DEF c, status
    <3>3. CASE c \notin pending
      BY <2>2, <3>1, <3>3 DEF OnCmdAck
    <3>4. CASE c \in pending
      <4>1. /\ history' = Upsert(history, [id |-> c, status |-> status])
            /\ pending' \ {c} = pending \ {c}
        BY <3>1, <3>4 DEF OnCmdAck, Resolve
      <4> QED BY <2>3, <3>1, <3>2, <4>1
    <3> QED BY <3>3, <3>4
  <2>8. ASSUME NEW c \in Cmd, SubmitDrive(c) \/ Transmit(c) PROVE OrderInv'
    BY <2>2, <2>8 DEF SubmitDrive, Transmit, trackerVars
  <2>9. CASE LoseAck \/ CCLink \/ Tick \/ ReceiverStep \/ UNCHANGED vars
    BY <2>2, <2>9 DEF LoseAck, CCLink, Tick, TrackerTick, ReceiverStep, vars, trackerVars
  <2> QED BY <2>4, <2>5, <2>6, <2>7, <2>8, <2>9 DEF Next
<1> QED BY <1>1, <1>2, StepSays

-----------------------------------------------------------------------------
(* Every step of the command path is a step of the lifecycle *)

RefinementInv ==
  /\ TypeOK /\ DispatchInv /\ SaidInv /\ RelayInv /\ RecordsTracked
  /\ PanelInv /\ OrderInv

\* What the refinement rests on holds in every reachable state.
LEMMA RefinementInvariant == Spec => []RefinementInv
<1>1. Init => SaidInv /\ RelayInv /\ RecordsTracked /\ PanelInv /\ OrderInv
  BY EmptyFacts
     DEF Init, TrackerInit, ReceiverInit, SaidInv, RelayInv, Received, RecordsTracked,
         OneRecordEach, PanelInv, OrderInv, Ordered
<1>2. Spec => [](TypeOK /\ DispatchInv)
  BY DispatchInvariant
<1>3. RefinementInv /\ [Next]_vars /\ (TypeOK /\ DispatchInv)' => RefinementInv'
  BY SaidStep, RelayStep, TrackedStep, PanelInvStep, OrderStep DEF RefinementInv
<1>4. Init /\ TypeOK /\ DispatchInv => RefinementInv
  BY <1>1 DEF RefinementInv
<1> QED BY <1>2, <1>3, <1>4, PTL DEF Spec

\* Where the panel is not written and no command is added, it stays.
LEMMA PanelFrame ==
  ASSUME UNCHANGED <<history, pending>>,
         \A c \in Cmd : (c \in refused' \/ (c \in issued' /\ Kind[c] # "drive"))
                          <=> (c \in refused \/ (c \in issued /\ Kind[c] # "drive"))
  PROVE  Panel' = Panel
BY DEF Panel, PanelOf, Shown

\* A step of the command path is one of the lifecycle or changes nothing it shows.
LEMMA LifecycleStep ==
  RefinementInv /\ RefinementInv' /\ [Next]_vars
    => [Lifecycle!Next]_(Lifecycle!lifecycleVars)
<1> SUFFICES ASSUME RefinementInv, RefinementInv', [Next]_vars
             PROVE  Lifecycle!Next \/ UNCHANGED <<Panel, issued, said>>
  BY DEF Lifecycle!lifecycleVars
<1>a. TypeOK /\ DispatchInv /\ SaidInv /\ RelayInv /\ RecordsTracked /\ PanelInv /\ OrderInv
  BY DEF RefinementInv
<1>b. PanelShape /\ PanelShape'
  BY PanelShown, PanelShownNext DEF RefinementInv
<1>c. /\ AckStatus \subseteq ShownStatus
      /\ {"SENT", "ACK_FAILED", "ACK_REJECTED"} \subseteq ShownStatus
  BY DEF ShownStatus, AckStatus
<1>d. ASSUME NEW c \in Cmd, Fresh(c)
      PROVE  Panel[c] = "none" /\ c \notin issued
  <2>1. c \notin issued /\ c \notin refused /\ c \notin pending
    BY <1>a, <1>d DEF Fresh, PanelInv
  <2>2. Unrecorded(c)
    BY <1>a, <2>1 DEF Unrecorded, PanelInv, Tracked
  <2> QED BY <1>b, <2>1, <2>2 DEF PanelShape, Remains
<1>e. ASSUME NEW c \in pending
      PROVE  c \in Cmd /\ Lifecycle!IsOpen(c)
  <2>1. c \in Cmd
    BY <1>a, <1>e DEF TypeOK, TrackerTypeOK
  <2>2. CASE Unrecorded(c)
    <3>1. Panel[c] = "open"
      BY <1>b, <1>e, <2>1, <2>2 DEF PanelShape, Remains
    <3>2. ~IsTerminalStatus(c, "open")
      BY DEF IsTerminalStatus, Outcomes
    <3> QED BY <2>1, <3>1, <3>2, LifecycleWords DEF Lifecycle!IsOpen
  <2>3. CASE ~Unrecorded(c)
    <3>1. PICK r \in Elems(history) : r.id = c
      BY <2>3 DEF Unrecorded
    <3>2. Panel[c] = r.status /\ ~IsTerminalStatus(c, r.status)
      BY <1>a, <1>b, <1>e, <3>1 DEF PanelShape, PanelInv
    <3>3. r.status \in ShownStatus
      <4>1. r \in Record
        BY <1>a, ElemsFacts DEF TypeOK, TrackerTypeOK
      <4> QED BY <4>1 DEF Record
    <3> QED BY <2>1, <3>2, <3>3, LifecycleWords DEF Lifecycle!IsOpen
  <2> QED BY <2>2, <2>3
<1>1. ASSUME NEW c \in Cmd, Submit(c) PROVE Lifecycle!Submit(c)
  <2>1. /\ history' = Upsert(history, [id |-> c, status |-> "SENT"])
        /\ pending' = pending \cup {c} /\ issued' = issued \cup {c}
        /\ refused' = refused /\ said' = said /\ Kind[c] # "drive" /\ Fresh(c)
    BY <1>1 DEF Submit, OnCmdSent, receiverVars
  <2>2. Lifecycle!Show(c, "SENT")
    BY <1>a, <1>b, <1>c, <2>1, UpsertShows
  <2> QED BY <1>d, <2>1, <2>2 DEF Lifecycle!Submit
<1>2. ASSUME NEW c \in Cmd, SubmitDrive(c) PROVE Lifecycle!Submit(c)
  <2>1. /\ UNCHANGED <<history, pending, refused, said>> /\ Kind[c] = "drive"
        /\ issued' = issued \cup {c} /\ Fresh(c)
    BY <1>2 DEF SubmitDrive, trackerVars, receiverVars, OnMqttMessage
  <2>2. Panel' = Panel
    BY <2>1, PanelFrame
  <2> QED BY <1>d, <2>1, <2>2 DEF Lifecycle!Submit
<1>3. ASSUME NEW c \in Cmd, Refuse(c) PROVE Lifecycle!Refuse(c)
  <2>1. /\ history' = Upsert(history, [id |-> c, status |-> "ACK_REJECTED"])
        /\ UNCHANGED <<pending, issued, said>>
        /\ refused' = refused \cup {c} /\ Fresh(c)
    BY <1>3 DEF Refuse, RecordLocalRejection, receiverVars
  <2>2. Lifecycle!Show(c, "ACK_REJECTED")
    BY <1>a, <1>b, <1>c, <2>1, UpsertShows
  <2> QED BY <1>d, <2>1, <2>2 DEF Lifecycle!Refuse
<1>4. ASSUME NEW c \in Cmd, TrackerStep(c)
      PROVE  Lifecycle!GiveUp(c) \/ UNCHANGED <<Panel, issued, said>>
  <2>0. UNCHANGED <<issued, refused, said>>
    BY <1>4 DEF TrackerStep, receiverVars, linkVars
  <2>1. CASE StartWatch(c) \/ WatchReturns(c)
    BY <2>0, <2>1, PanelFrame DEF StartWatch, WatchReturns
  <2>2. CASE WatchExpires(c)
    <3>1. /\ history' = Upsert(history, [id |-> c, status |-> "ACK_FAILED"])
          /\ pending' = pending \ {c} /\ c \in pending
      BY <2>2 DEF WatchExpires, Resolve
    <3>2. Lifecycle!Show(c, "ACK_FAILED")
      BY <1>a, <1>b, <1>c, <2>0, <3>1, UpsertShows
    <3> QED BY <1>e, <2>0, <3>1, <3>2 DEF Lifecycle!GiveUp
  <2> QED BY <1>4, <2>1, <2>2 DEF TrackerStep
<1>5. ASSUME DeliverAck
      PROVE  \/ \E c \in Cmd, status \in AckStatus : Lifecycle!Learn(c, status)
             \/ UNCHANGED <<Panel, issued, said>>
  <2>1. PICK a \in Elems(uplink) : a = Head(uplink) /\ a.id \in Cmd /\ a.status \in AckStatus
    BY <1>5, <1>a, UplinkHead DEF DeliverAck, TypeOK
  <2>2. OnCmdAck(a.id, a.status) /\ UNCHANGED <<issued, refused, said>>
    BY <1>5, <2>1 DEF DeliverAck, linkVars
  <2>3. CASE a.id \notin pending
    BY <2>2, <2>3, PanelFrame DEF OnCmdAck
  <2>4. CASE a.id \in pending
    <3>1. /\ history' = Upsert(history, [id |-> a.id, status |-> a.status])
          /\ pending' \ {a.id} = pending \ {a.id}
      BY <2>2, <2>4 DEF OnCmdAck, Resolve
    <3>2. Lifecycle!Show(a.id, a.status)
      BY <1>a, <1>b, <1>c, <2>1, <2>2, <3>1, UpsertShows
    <3>3. a.status \in said[a.id]
      BY <1>a DEF RelayInv
    <3>4. Panel[a.id] # "open" => Lifecycle!Stage(a.status) > Lifecycle!Stage(Panel[a.id])
      <4>1. CASE Unrecorded(a.id)
        BY <1>b, <2>1, <2>4, <4>1 DEF PanelShape, Remains
      <4>2. CASE ~Unrecorded(a.id)
        <5>1. PICK r \in Elems(history) : r.id = a.id
          BY <4>2 DEF Unrecorded
        <5>2. Lifecycle!Stage(r.status) < Lifecycle!Stage(a.status)
          BY <1>a, <2>4, <5>1 DEF OrderInv
        <5>3. Panel[a.id] = r.status
          BY <1>b, <5>1 DEF PanelShape
        <5>4. Lifecycle!Stage(r.status) \in Nat /\ Lifecycle!Stage(a.status) \in Nat
          BY DEF Lifecycle!Stage
        <5> QED BY <5>2, <5>3, <5>4
      <4> QED BY <4>1, <4>2
    <3>5. Lifecycle!Learn(a.id, a.status)
      BY <1>e, <2>2, <2>4, <3>2, <3>3, <3>4 DEF Lifecycle!Learn
    <3> QED BY <2>1, <3>5
  <2> QED BY <2>3, <2>4
<1>6. ASSUME NEW c \in Cmd, Transmit(c) PROVE UNCHANGED <<Panel, issued, said>>
  <2>1. UNCHANGED <<history, pending, issued, refused, said>>
    BY <1>6 DEF Transmit, OnMqttMessage, trackerVars, receiverVars
  <2> QED BY <2>1, PanelFrame
<1>7. ASSUME LoseAck \/ CCLink \/ Tick \/ UNCHANGED vars
      PROVE  UNCHANGED <<Panel, issued, said>>
  <2>1. UNCHANGED <<history, pending, issued, refused, said>>
    BY <1>7 DEF LoseAck, CCLink, Tick, TrackerTick, ReceiverTick, vars, trackerVars,
                receiverVars, linkVars
  <2> QED BY <2>1, PanelFrame
<1>8. ASSUME ReceiverStep
      PROVE  \/ \E c \in Cmd, status \in AckStatus : Lifecycle!Say(c, status)
             \/ UNCHANGED <<Panel, issued, said>>
  <2>1. UNCHANGED <<history, pending, issued, refused>> /\ Panel' = Panel
    <3>1. UNCHANGED <<history, pending, issued, refused>>
      BY <1>8 DEF ReceiverStep, trackerVars, linkVars
    <3> QED BY <3>1, PanelFrame
  <2>2. CASE SaysNothing
    BY <2>1, <2>2 DEF SaysNothing
  <2>3. CASE Says
    <3>1. PICK c \in Cmd, status \in AckStatus : MaySay(c, status) /\ SendAck(c, status)
      BY <2>3 DEF Says
    <3>2. Lifecycle!Say(c, status)
      BY <2>1, <3>1, LifecycleWords DEF MaySay, SendAck, Lifecycle!Say
    <3> QED BY <3>2
  <2> QED BY <1>a, <2>2, <2>3, StepSays
<1>9. \/ \E c \in Cmd : \/ Lifecycle!Submit(c) \/ Lifecycle!Refuse(c) \/ Lifecycle!GiveUp(c)
                        \/ \E status \in AckStatus :
                             Lifecycle!Say(c, status) \/ Lifecycle!Learn(c, status)
      \/ UNCHANGED <<Panel, issued, said>>
  BY <1>1, <1>2, <1>3, <1>4, <1>5, <1>6, <1>7, <1>8 DEF Next
<1> QED BY <1>9, LifecycleWords DEF Lifecycle!Next

\* The command path, with its links, queues, retransmissions and timers, does
\* for the operator only what CommandLifecycle promises.
THEOREM CommandPathImplementsLifecycle == Spec => ImplementsLifecycle
<1>1. Init => Lifecycle!Init
  <2>1. ASSUME Init PROVE Panel = [c \in Cmd |-> "none"]
    BY <2>1 DEF Init, TrackerInit, Panel, PanelOf, Shown
  <2> QED BY <2>1 DEF Init, ReceiverInit, Lifecycle!Init
<1> QED
  BY <1>1, RefinementInvariant, LifecycleStep, PTL DEF Spec, ImplementsLifecycle, Lifecycle!Spec

=============================================================================
