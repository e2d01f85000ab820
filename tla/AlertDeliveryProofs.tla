------------------------- MODULE AlertDeliveryProofs -------------------------
(***************************************************************************)
(* Notifications are spaced and alerts are covered, for every cooldown,    *)
(* every duration of the channels and every way messages overlap.  The     *)
(* invariant behind both: no alert is dated more than NotifyTicks before   *)
(* it was dispatched, and the dates of an alert only grow.                 *)
(***************************************************************************)
EXTENDS AlertDelivery, SequenceFacts

Messages == [topic : {"rover/alerts", "rover/health/overall"}, alerts : Seq(Alerts), health : Nat]

NotifierTypes ==
  /\ clock \in Nat
  /\ last \in [Alerts -> Nat] /\ notified \in [Alerts -> Nat] /\ gap \in [Alerts -> Int]
  /\ waiting \in SUBSET [alerts : Seq(Alerts), at : Nat, now : Nat]
  /\ handed \in SUBSET [alerts : Seq(Alerts), now : Nat]

Spaced ==
  \A a \in Alerts :
    /\ last[a] <= notified[a] /\ notified[a] <= last[a] + NotifyTicks
    /\ notified[a] <= clock
    /\ 0 <= gap[a] /\ Cooldown <= gap[a] + NotifyTicks /\ gap[a] <= Cooldown

Pending ==
  \A t \in waiting :
    /\ t.at \in DOMAIN t.alerts
    /\ t.now <= clock /\ clock <= t.now + NotifyTicks
    /\ \A j \in 1..t.at : t.now - last[t.alerts[j]] < Cooldown

Covered ==
  \A m \in handed : \A j \in DOMAIN m.alerts : m.now - last[m.alerts[j]] < Cooldown

NotifierInv == NotifierTypes /\ Spaced /\ Pending /\ Covered

Given == writing \cup stored \cup logged \cup failed

WriterInv == Given \subseteq Alerts

\* The writer has all that was notified of, and what waiting messages still list.
WrittenInv ==
  influx /\ Serving =>
    /\ \A a \in Alerts : notified[a] # 0 => a \in Given
    /\ \A t \in waiting : \A i \in DOMAIN t.alerts : t.alerts[i] \in Given

\* A mark is never set back: an alert that is due has an older one.
LEMMA MarksGrow ==
  ASSUME NotifierTypes, NEW alerts \in Seq(Alerts), NEW i \in Nat \ {0}, NEW now \in Nat, now <= clock,
         Notify(alerts, i, now)
  PROVE  /\ last' \in [Alerts -> Nat] /\ notified' \in [Alerts -> Nat] /\ gap' \in [Alerts -> Int]
         /\ \A a \in Alerts :
              \/ /\ now - last[a] >= Cooldown /\ last'[a] = now /\ notified'[a] = clock
                 /\ gap'[a] = gap[a] \/ (gap'[a] = clock - notified[a] /\ notified[a] # 0 /\ gap'[a] < gap[a])
              \/ last'[a] = last[a] /\ notified'[a] = notified[a] /\ gap'[a] = gap[a]
<1>1. \A a \in Dispatched(alerts, i, now) : a \in Alerts /\ now - last[a] >= Cooldown
  BY ElementOfSeq DEF Dispatched, Reached, Due
<1>2. Cooldown \in Nat \ {0}
  BY NotifierAssumption
<1>3. /\ last \in [Alerts -> Nat] /\ notified \in [Alerts -> Nat] /\ gap \in [Alerts -> Int]
      /\ clock \in Nat
  BY DEF NotifierTypes
<1>4. last' \in [Alerts -> Nat]
  BY <1>3 DEF Notify
<1>5. notified' \in [Alerts -> Nat]
  BY <1>3 DEF Notify
<1>6. gap' \in [Alerts -> Int]
  <2>1. \A a \in Alerts : clock - notified[a] \in Int /\ gap[a] \in Int
    BY <1>3
  <2> QED BY <2>1 DEF Notify
<1>7. ASSUME NEW a \in Alerts
      PROVE  \/ /\ now - last[a] >= Cooldown /\ last'[a] = now /\ notified'[a] = clock
                /\ gap'[a] = gap[a] \/ (gap'[a] = clock - notified[a] /\ notified[a] # 0 /\ gap'[a] < gap[a])
             \/ last'[a] = last[a] /\ notified'[a] = notified[a] /\ gap'[a] = gap[a]
  <2>1. CASE a \in Dispatched(alerts, i, now)
    <3>1. now - last[a] >= Cooldown
      BY <1>1, <2>1
    <3>2. last'[a] = now /\ notified'[a] = clock
      BY <2>1 DEF Notify, Marked
    <3>3. gap'[a] = IF notified[a] # 0 /\ clock - notified[a] < gap[a] THEN clock - notified[a] ELSE gap[a]
      BY <2>1 DEF Notify
    <3> QED BY <3>1, <3>2, <3>3
  <2>2. CASE a \notin Dispatched(alerts, i, now)
    BY <2>2 DEF Notify, Marked
  <2> QED BY <2>1, <2>2
<1> QED BY <1>4, <1>5, <1>6, <1>7

\* What is reached is covered afterwards.
LEMMA ReachedIsCovered ==
  ASSUME NotifierTypes, NEW alerts \in Seq(Alerts), NEW i \in Nat \ {0}, NEW now \in Nat, now <= clock,
         Notify(alerts, i, now), NEW j \in Reached(alerts, i, now)
  PROVE  now - last'[alerts[j]] < Cooldown
<1>1. j \in 1..Len(alerts) /\ alerts[j] \in Alerts
  BY ElementOfSeq, LenProperties DEF Reached
<1>2. Cooldown \in Nat \ {0}
  BY NotifierAssumption
<1>3. CASE Due(alerts[j], now)
  <2>1. alerts[j] \in Dispatched(alerts, i, now)
    BY <1>3 DEF Dispatched
  <2>2. last'[alerts[j]] = now
    BY <2>1, <1>1 DEF Notify, Marked
  <2> QED BY <2>2, <1>2
<1>4. CASE ~Due(alerts[j], now)
  <2>1. now - last[alerts[j]] < Cooldown /\ last[alerts[j]] \in Nat
    BY <1>4, <1>1, <1>2 DEF Due, NotifierTypes
  <2>2. \/ last'[alerts[j]] = last[alerts[j]]
        \/ last'[alerts[j]] = now
    BY <1>1, MarksGrow
  <2> QED BY <2>1, <2>2, <1>2
<1> QED BY <1>3, <1>4

\* The loop of _on_alert keeps the invariant, wherever it goes on.
LEMMA NotifyKeeps ==
  ASSUME NotifierInv, NEW alerts \in Seq(Alerts), NEW i \in Nat \ {0}, NEW now \in Nat,
         now <= clock, clock <= now + NotifyTicks,
         \A j \in DOMAIN alerts : j < i => now - last[alerts[j]] < Cooldown,
         Notify(alerts, i, now),
         NEW rest \in SUBSET waiting, waiting' = rest \cup Suspended(alerts, i, now),
         clock' = clock
  PROVE  NotifierInv'
<1> USE NotifierAssumption
<1>0. Cooldown \in Nat \ {0} /\ NotifyTicks \in Nat
  BY NotifierAssumption
<1>1. NotifierTypes /\ Spaced /\ Pending /\ Covered
  BY DEF NotifierInv
<1>2. DOMAIN alerts = 1..Len(alerts) /\ Len(alerts) \in Nat /\ \A j \in DOMAIN alerts : alerts[j] \in Alerts
  BY ElementOfSeq, LenProperties
<1>3. /\ last' \in [Alerts -> Nat] /\ notified' \in [Alerts -> Nat] /\ gap' \in [Alerts -> Int]
      /\ \A a \in Alerts :
           \/ /\ now - last[a] >= Cooldown /\ last'[a] = now /\ notified'[a] = clock
              /\ gap'[a] = gap[a] \/ (gap'[a] = clock - notified[a] /\ notified[a] # 0 /\ gap'[a] < gap[a])
           \/ last'[a] = last[a] /\ notified'[a] = notified[a] /\ gap'[a] = gap[a]
  BY <1>1, MarksGrow
<1>4. \A a \in Alerts : last[a] \in Nat /\ last'[a] \in Nat /\ last[a] <= last'[a]
  <2> SUFFICES ASSUME NEW a \in Alerts PROVE last[a] \in Nat /\ last'[a] \in Nat /\ last[a] <= last'[a]
    OBVIOUS
  <2>1. last[a] \in Nat /\ last'[a] \in Nat
    BY <1>1, <1>3 DEF NotifierTypes
  <2>2. (now - last[a] >= Cooldown /\ last'[a] = now) \/ last'[a] = last[a]
    BY <1>3
  <2> QED BY <2>1, <2>2, <1>0
<1>5a. ASSUME NEW a \in Alerts, NEW d \in Nat, d - last[a] < Cooldown
       PROVE  d - last'[a] < Cooldown
  BY <1>5a, <1>4, <1>0
<1>5. \A j \in DOMAIN alerts : j < i => now - last'[alerts[j]] < Cooldown
  BY <1>2, <1>5a
<1>6. \A j \in Reached(alerts, i, now) : now - last'[alerts[j]] < Cooldown
  BY <1>1, ReachedIsCovered
<1>7. \A t \in Suspended(alerts, i, now) :
        /\ t \in [alerts : Seq(Alerts), at : Nat, now : Nat]
        /\ t.alerts = alerts /\ t.now = now /\ t.at \in DOMAIN alerts
        /\ \A j \in 1..t.at : j < i \/ j \in Reached(alerts, i, now)
  <2> TAKE t \in Suspended(alerts, i, now)
  <2>1. PICK j \in WaitsAt(alerts, i, now) :
          /\ t = [alerts |-> alerts, at |-> j, now |-> now]
          /\ \A k \in WaitsAt(alerts, i, now) : j <= k
    BY DEF Suspended, Earliest
  <2>2. j \in i..Len(alerts) /\ WaitsAt(alerts, i, now) \subseteq i..Len(alerts)
    BY DEF WaitsAt
  <2> QED BY <2>1, <2>2, <1>2 DEF Reached
<1>8. NotifierTypes'
  <2>1. waiting' \in SUBSET [alerts : Seq(Alerts), at : Nat, now : Nat]
    BY <1>1, <1>7 DEF NotifierTypes
  <2>2. handed' \in SUBSET [alerts : Seq(Alerts), now : Nat]
    BY <1>1 DEF NotifierTypes, Notify
  <2> QED BY <1>1, <1>3, <2>1, <2>2 DEF NotifierTypes
<1>9. Spaced'
  <2> SUFFICES ASSUME NEW a \in Alerts
               PROVE  /\ last'[a] <= notified'[a] /\ notified'[a] <= last'[a] + NotifyTicks
                      /\ notified'[a] <= clock'
                      /\ 0 <= gap'[a] /\ Cooldown <= gap'[a] + NotifyTicks /\ gap'[a] <= Cooldown
    BY DEF Spaced
  <2>0. clock' = clock
    OBVIOUS
  <2>1. /\ last[a] <= notified[a] /\ notified[a] <= last[a] + NotifyTicks
        /\ notified[a] <= clock
        /\ 0 <= gap[a] /\ Cooldown <= gap[a] + NotifyTicks /\ gap[a] <= Cooldown
        /\ last[a] \in Nat /\ notified[a] \in Nat /\ gap[a] \in Int /\ clock \in Nat
    BY <1>1 DEF Spaced, NotifierTypes
  <2>2. CASE last'[a] = last[a] /\ notified'[a] = notified[a] /\ gap'[a] = gap[a]
    BY <2>0, <2>1, <2>2, <1>0
  <2>3. CASE /\ now - last[a] >= Cooldown /\ last'[a] = now /\ notified'[a] = clock
             /\ gap'[a] = gap[a] \/ (gap'[a] = clock - notified[a] /\ notified[a] # 0 /\ gap'[a] < gap[a])
    BY <2>0, <2>1, <2>3, <1>0
  <2> QED BY <2>2, <2>3, <1>3
<1>10. Pending'
  <2> SUFFICES ASSUME NEW t \in waiting'
               PROVE  /\ t.at \in DOMAIN t.alerts
                      /\ t.now <= clock' /\ clock' <= t.now + NotifyTicks
                      /\ \A j \in 1..t.at : t.now - last'[t.alerts[j]] < Cooldown
    BY DEF Pending
  <2>1. CASE t \in rest
    <3>1. /\ t.alerts \in Seq(Alerts) /\ t.now \in Nat /\ t.at \in DOMAIN t.alerts
          /\ t.now <= clock /\ clock <= t.now + NotifyTicks
          /\ \A j \in 1..t.at : t.now - last[t.alerts[j]] < Cooldown
      BY <1>1, <2>1 DEF NotifierTypes, Pending
    <3>2. \A j \in 1..t.at : t.alerts[j] \in Alerts
      BY <3>1, ElementOfSeq, LenProperties
    <3>3. \A j \in 1..t.at : t.now - last'[t.alerts[j]] < Cooldown
      BY <3>1, <3>2, <1>5a
    <3> QED BY <3>1, <3>3
  <2>2. CASE t \in Suspended(alerts, i, now)
    <3>1. \A j \in 1..t.at : j \in DOMAIN alerts
      BY <1>7, <1>2, <2>2
    <3>2. \A j \in 1..t.at : now - last'[alerts[j]] < Cooldown
      BY <3>1, <1>5, <1>6, <1>7, <2>2
    <3> QED BY <1>7, <3>2, <2>2
  <2> QED BY <2>1, <2>2
<1>11. Covered'
  <2> SUFFICES ASSUME NEW m \in handed'
               PROVE  \A j \in DOMAIN m.alerts : m.now - last'[m.alerts[j]] < Cooldown
    BY DEF Covered
  <2>1. CASE m \in handed
    <3>1. /\ m.alerts \in Seq(Alerts) /\ m.now \in Nat
          /\ \A j \in DOMAIN m.alerts : m.now - last[m.alerts[j]] < Cooldown
      BY <1>1, <2>1 DEF NotifierTypes, Covered
    <3>2. \A j \in DOMAIN m.alerts : m.alerts[j] \in Alerts
      BY <3>1, ElementOfSeq, LenProperties
    <3>3. \A j \in DOMAIN m.alerts : m.now - last'[m.alerts[j]] < Cooldown
      BY <3>1, <3>2, <1>5a
    <3> QED BY <3>1, <3>3
  <2>2. CASE m = [alerts |-> alerts, now |-> now] /\ WaitsAt(alerts, i, now) = {}
    <3>1. \A j \in DOMAIN alerts : j < i \/ j \in Reached(alerts, i, now)
      BY <2>2, <1>2 DEF Reached
    <3> QED BY <3>1, <2>2, <1>5, <1>6
  <2> QED BY <2>1, <2>2 DEF Notify
<1> QED BY <1>8, <1>9, <1>10, <1>11 DEF NotifierInv

-----------------------------------------------------------------------------
(* The queues between the rover and the event bus. *)

QueueInv ==
  /\ scenario \in Scenarios
  /\ health \in Nat /\ latest \in Nat /\ latest <= health
  /\ centerLink \in {"off", "up", "down", "dead"}
  /\ wire \in Seq(Messages) /\ loop \in Seq(Messages)
  /\ Len(wire) + Len(loop) <= scenario.messages
  /\ \A m \in Elems(wire) \cup Elems(loop) : m.health <= latest

\* Lengths of the queue operations.
LEMMA QueueLengths ==
  ASSUME NEW q \in Seq(Messages)
  PROVE  /\ Len(q) \in Nat
         /\ \A m \in Messages : Len(Append(q, m)) = Len(q) + 1
         /\ q # <<>> => Len(Tail(q)) = Len(q) - 1
         /\ \A n \in 0..Len(q) : Len(SubSeq(q, 1, n)) = n
         /\ Len(<<>>) = 0 /\ <<>> \in Seq(Messages) /\ Elems(<<>>) = {}
<1>1. Len(q) \in Nat
  BY LenProperties
<1>2. \A m \in Messages : Len(Append(q, m)) = Len(q) + 1
  BY AppendProperties
<1>3. q # <<>> => Len(Tail(q)) = Len(q) - 1
  BY HeadTailProperties
<1>4. ASSUME NEW n \in 0..Len(q)
      PROVE  Len(SubSeq(q, 1, n)) = n
  <2>1. \A k \in 1..n : q[k] \in Messages
    BY <1>1, <1>4, ElementOfSeq
  <2>2. Len(SubSeq(q, 1, n)) = IF 1 <= n THEN n - 1 + 1 ELSE 0
    BY <1>1, <2>1, SubSeqProperties
  <2> QED BY <1>1, <2>2
<1>5. Len(<<>>) = 0 /\ <<>> \in Seq(Messages) /\ Elems(<<>>) = {}
  BY EmptySeq, EmptyFacts
<1> QED BY <1>1, <1>2, <1>3, <1>4, <1>5

\* What the rover sends is a message with a health it has.
LEMMA SendingKeeps ==
  ASSUME QueueInv, NEW m \in Messages, m.health <= latest', latest <= latest',
         latest' \in Nat, health' \in Nat, latest' <= health', Room,
         wire' = wire \/ wire' = Sent(m),
         loop' = loop, scenario' = scenario, centerLink' = centerLink
  PROVE  QueueInv'
<1>1. Len(wire) \in Nat /\ Len(loop) \in Nat /\ scenario.messages \in Nat
  BY QueueLengths, ScenarioAssumption DEF QueueInv
<1>4. \A e \in Elems(wire) \cup Elems(loop) : e.health <= latest'
  <2>1. wire \in Seq(Messages) /\ loop \in Seq(Messages) /\ latest \in Nat
    BY DEF QueueInv
  <2>2. Elems(wire) \subseteq Messages /\ Elems(loop) \subseteq Messages
    BY <2>1, ElemsFacts
  <2>3. \A e \in Messages : e.health \in Nat
    BY DEF Messages
  <2>4. \A e \in Elems(wire) \cup Elems(loop) : e.health \in Nat /\ e.health <= latest
    BY <2>2, <2>3 DEF QueueInv
  <2> QED BY <2>1, <2>4
<1>2. CASE wire' = wire
  BY <1>2, <1>4 DEF QueueInv
<1>3. CASE wire' = Append(wire, m)
  <2>1. wire' \in Seq(Messages) /\ Elems(wire') = Elems(wire) \cup {m} /\ Len(wire') = Len(wire) + 1
    BY <1>3, AppendFacts, QueueLengths DEF QueueInv
  <2>3. \A e \in Elems(wire') \cup Elems(loop') : e.health <= latest'
    BY <1>4, <2>1
  <2>4. Len(wire') + Len(loop') <= scenario'.messages
    BY <1>1, <2>1 DEF Room
  <2> QED BY <2>1, <2>3, <2>4 DEF QueueInv
<1> QED BY <1>2, <1>3 DEF Sent

\* Every step keeps the queues.
LEMMA QueueStep == QueueInv /\ [Next]_vars => QueueInv'
<1> SUFFICES ASSUME QueueInv, [Next]_vars
             PROVE  QueueInv'
  OBVIOUS
<1>0. /\ scenario \in Scenarios /\ scenario.lists \subseteq Seq(Alerts) /\ scenario.messages \in Nat
      /\ Len(wire) \in Nat /\ Len(loop) \in Nat
      /\ wire \in Seq(Messages) /\ loop \in Seq(Messages)
      /\ health \in Nat /\ latest \in Nat /\ latest <= health
      /\ centerLink \in {"off", "up", "down", "dead"}
      /\ Len(wire) + Len(loop) <= scenario.messages
      /\ \A m \in Elems(wire) \cup Elems(loop) : m.health <= latest
  BY QueueLengths, ScenarioAssumption DEF QueueInv
<1>1. ASSUME NEW alerts \in scenario.lists, OnHealth(alerts)
      PROVE  QueueInv'
  <2>1. /\ Alert(alerts) \in Messages /\ Alert(alerts).health = 0
    BY <1>0 DEF Alert, Messages
  <2>2. /\ health' = health + 1 /\ latest' = health' /\ Room
        /\ wire' = wire \/ wire' = Sent(Alert(alerts))
        /\ loop' = loop /\ scenario' = scenario /\ centerLink' = centerLink
    BY <1>1 DEF OnHealth, links
  <2>3. /\ latest <= latest' /\ latest' \in Nat /\ health' \in Nat /\ latest' <= health'
        /\ Alert(alerts).health <= latest'
    BY <1>0, <2>1, <2>2
  <2> QED BY <2>1, <2>2, <2>3, SendingKeeps
<1>2. CASE OnHeartbeatTimer
  <2>1. Heartbeat(latest) \in Messages /\ Heartbeat(latest).health = latest
    BY <1>0, EmptySeq DEF Heartbeat, Messages
  <2>2. /\ latest' = latest /\ health' = health /\ Room /\ wire' = Sent(Heartbeat(latest))
        /\ loop' = loop /\ scenario' = scenario /\ centerLink' = centerLink
    BY <1>2 DEF OnHeartbeatTimer, links, roverVars
  <2> QED BY <1>0, <2>1, <2>2, SendingKeeps
<1>3. CASE RoverLinkLost
  <2>1. PICK n \in 0..Len(wire) : wire' = SubSeq(wire, 1, n)
    BY <1>3 DEF RoverLinkLost
  <2>2. wire' \in Seq(Messages) /\ Elems(wire') \subseteq Elems(wire) /\ Len(wire') = n
    BY <1>0, <2>1, PrefixFacts, QueueLengths
  <2>3. /\ scenario' = scenario /\ health' = health /\ latest' = latest
        /\ loop' = loop /\ centerLink' = centerLink
    BY <1>3 DEF RoverLinkLost, roverVars
  <2>4. Len(wire') + Len(loop') <= scenario'.messages
    BY <1>0, <2>2, <2>3
  <2> QED BY <1>0, <2>2, <2>3, <2>4 DEF QueueInv
<1>4. CASE CenterLinkLost \/ CenterStops
  <2>1. /\ scenario' = scenario /\ health' = health /\ latest' = latest /\ wire' = <<>>
        /\ loop' = loop \/ loop' = <<>>
        /\ centerLink' \in {"off", "down"}
    BY <1>4 DEF CenterLinkLost, CenterStops, roverVars
  <2>4. /\ <<>> \in Seq(Messages) /\ Elems(<<>>) = {} /\ Len(<<>>) = 0
    BY <1>0, QueueLengths
  <2>2. /\ wire' \in Seq(Messages) /\ Elems(wire') = {} /\ Len(wire') = 0
        /\ loop' \in Seq(Messages) /\ Elems(loop') \subseteq Elems(loop) /\ Len(loop') <= Len(loop)
        /\ Len(loop') \in Nat
    <3>1. CASE loop' = <<>>
      BY <1>0, <2>1, <2>4, <3>1
    <3>2. CASE loop' = loop
      BY <1>0, <2>1, <2>4, <3>2
    <3> QED BY <2>1, <3>1, <3>2
  <2>3. Len(wire') + Len(loop') <= scenario'.messages
    BY <1>0, <2>1, <2>2
  <2> QED BY <1>0, <2>1, <2>2, <2>3 DEF QueueInv
<1>5. CASE OnMessage
  <2>1. /\ wire # <<>> /\ loop' = Append(loop, Head(wire)) /\ wire' = Tail(wire)
        /\ scenario' = scenario /\ health' = health /\ latest' = latest /\ centerLink' = centerLink
    BY <1>5 DEF OnMessage, roverVars, links
  <2>2. /\ Head(wire) \in Messages /\ wire' \in Seq(Messages)
        /\ Elems(wire) = Elems(wire') \cup {Head(wire)} /\ Len(wire') = Len(wire) - 1
    BY <1>0, <2>1, TailFacts, QueueLengths
  <2>3. /\ loop' \in Seq(Messages) /\ Elems(loop') = Elems(loop) \cup {Head(wire)}
        /\ Len(loop') = Len(loop) + 1
    BY <1>0, <2>1, <2>2, AppendFacts, QueueLengths
  <2>4. Len(wire') + Len(loop') <= scenario'.messages
    BY <1>0, <2>1, <2>2, <2>3
  <2> QED BY <1>0, <2>1, <2>2, <2>3, <2>4 DEF QueueInv
<1>6. CASE EmitAlert \/ EmitHealth
  <2>1. /\ loop # <<>> /\ loop' = Tail(loop) /\ wire' = wire
        /\ scenario' = scenario /\ health' = health /\ latest' = latest /\ centerLink' = centerLink
    BY <1>6 DEF EmitAlert, EmitHealth, roverVars, links
  <2>2. loop' \in Seq(Messages) /\ Elems(loop') \subseteq Elems(loop) /\ Len(loop') = Len(loop) - 1
    BY <1>0, <2>1, TailFacts, QueueLengths
  <2>3. Len(wire') + Len(loop') <= scenario'.messages
    BY <1>0, <2>1, <2>2
  <2> QED BY <1>0, <2>1, <2>2, <2>3 DEF QueueInv
<1>7. CASE /\ UNCHANGED <<scenario, health, latest, wire, loop>>
           /\ centerLink' \in {centerLink, "up", "dead"}
  BY <1>0, <1>7 DEF QueueInv
<1>8. RoverLinkRestored \/ CenterLinkRestored \/ CenterStarts \/ WriterStep \/ NotifierStep \/ Broadcasting
        \/ PanelUpset \/ Tick \/ UNCHANGED vars \/ (\E p \in PanelSet : PanelStep(p))
      => /\ UNCHANGED <<scenario, health, latest, wire, loop>>
         /\ centerLink' \in {centerLink, "up", "dead"}
  BY DEF RoverLinkRestored, CenterLinkRestored, CenterStarts, ReceiverStarts, WriterStep, NotifierStep,
         Broadcasting, PanelUpset, Tick, PanelStep, Unaffected, vars, roverVars, links
<1> QED BY <1>1, <1>2, <1>3, <1>4, <1>5, <1>6, <1>7, <1>8 DEF Next, CenterStep

-----------------------------------------------------------------------------
(* The panels. *)

Sends ==
  [health : Nat, at : Int, size : {Cardinality(S) : S \in SUBSET PanelSet}, dead : SUBSET PanelSet]

PanelInv ==
  /\ cached \in Nat /\ cached <= latest
  /\ members \subseteq PanelSet
  /\ socket \in [PanelSet -> {"none", "connecting", "open", "stalled", "closed"}]
  /\ \A p \in members : socket[p] \in {"open", "stalled", "closed"}
  /\ shown \in [PanelSet -> Nat] /\ \A p \in PanelSet : shown[p] <= latest
  /\ response \in [PanelSet -> SUBSET Nat] /\ \A p \in PanelSet : \A h \in response[p] : h <= latest
  /\ sends \subseteq Sends /\ \A t \in sends : t.health <= latest

\* A broadcast shows a health the rover has sent, and only ever takes sockets out.
LEMMA SendFromKeeps ==
  ASSUME PanelInv, latest \in Nat, NEW t \in Sends, t.health <= latest, NEW others \in SUBSET sends,
         SendFrom(t, others), cached' \in {cached, t.health},
         socket' = socket, response' = response, latest' = latest
  PROVE  PanelInv'
<1> USE DEF PanelInv
<1>1. t.health \in Nat /\ t.dead \subseteq PanelSet
  BY DEF Sends
<1>2. members' \subseteq members
  BY DEF SendFrom
<1>3. shown' \in [PanelSet -> Nat] /\ \A p \in PanelSet : shown'[p] <= latest
  BY <1>1 DEF SendFrom
<1>4. ASSUME NEW u \in sends'
      PROVE  u \in Sends /\ u.health <= latest
  <2>1. CASE u \in others
    BY <2>1
  <2>2. CASE u \notin others
    <3> DEFINE dead == t.dead \cup {Panels[l] : l \in {k \in Visited(t.at) : socket[Panels[k]] = "closed"}}
    <3>1. PICK j \in Stalled(t.at) : u = [t EXCEPT !.at = j, !.dead = dead]
      BY <2>2 DEF SendFrom
    <3>2. dead \subseteq PanelSet
      BY <1>1 DEF Visited, Ahead
    <3> HIDE DEF dead
    <3>3. j \in Int
      BY <3>1 DEF Stalled, Ahead
    <3>4. u \in Sends /\ u.health = t.health
      BY <3>1, <3>2, <3>3 DEF Sends
    <3> QED BY <3>4
  <2> QED BY <2>1, <2>2
<1> QED BY <1>1, <1>2, <1>3, <1>4

\* The panels of a scenario are panels.
LEMMA PanelsAreKnown == ASSUME NEW s \in Scenarios PROVE s.panels \subseteq PanelSet
BY ScenarioAssumption

\* Every step keeps the panels, if the messages carry a health that was sent.
LEMMA PanelsStep == QueueInv /\ PanelInv /\ [Next]_vars => PanelInv'
<1> SUFFICES ASSUME QueueInv, PanelInv, [Next]_vars
             PROVE  PanelInv'
  OBVIOUS
<1>0. latest \in Nat /\ health \in Nat /\ latest <= health
  BY DEF QueueInv
<1>1. CASE EmitHealth
  <2>1. loop # <<>> /\ OnHealthEvent(Head(loop).health) /\ latest' = latest
    BY <1>1 DEF EmitHealth, roverVars
  <2>2. Head(loop) \in Elems(loop) /\ Head(loop) \in Messages
    BY <2>1, TailFacts DEF QueueInv
  <2>3. Head(loop).health \in Nat /\ Head(loop).health <= latest
    BY <2>2 DEF QueueInv, Messages
  <2> DEFINE t == [health |-> Head(loop).health, at |-> 1, size |-> Cardinality(members), dead |-> {}]
  <2>4. t \in Sends /\ t.health = Head(loop).health
    BY <2>3 DEF Sends, PanelInv
  <2>5. /\ SendFrom(t, sends) /\ cached' = t.health /\ socket' = socket /\ response' = response
    BY <2>1 DEF OnHealthEvent
  <2> HIDE DEF t
  <2> QED BY <1>0, <2>1, <2>3, <2>4, <2>5, SendFromKeeps
<1>2. CASE Broadcasting
  <2>1. latest' = latest
    BY <1>2 DEF Broadcasting, Unaffected, roverVars
  <2>2. CASE SendEnds
    <3>1. PICK t \in sends : SendFrom(t, sends \ {t}) /\ UNCHANGED <<cached, socket, response>>
      BY <2>2 DEF SendEnds
    <3>2. t \in Sends /\ t.health <= latest
      BY <3>1 DEF PanelInv
    <3> QED BY <1>0, <2>1, <3>1, <3>2, SendFromKeeps
  <2>3. CASE IterationFails
    <3>1. PICK t \in sends :
            /\ shown' = [p \in PanelSet |->
                           IF p = Panels[t.at] /\ socket[p] = "open" THEN t.health ELSE shown[p]]
            /\ sends' = sends \ {t}
            /\ UNCHANGED <<cached, socket, members, response>>
      BY <2>3 DEF IterationFails
    <3>2. t.health \in Nat /\ t.health <= latest
      BY <3>1 DEF PanelInv, Sends
    <3>3. shown' \in [PanelSet -> Nat] /\ \A p \in PanelSet : shown'[p] <= latest
      BY <3>1, <3>2 DEF PanelInv
    <3> QED BY <2>1, <3>1, <3>3 DEF PanelInv
  <2> QED BY <1>2, <2>2, <2>3 DEF Broadcasting
<1>3. CASE PanelUpset \/ \E p \in PanelSet : PanelStep(p)
  <2>1. latest' = latest
    BY <1>3 DEF PanelUpset, PanelStep, Unaffected, roverVars
  <2>2. PICK p \in PanelSet :
                 \/ Load(p, Serving) \/ Stall(p) \/ Close(p)
                 \/ BootstrapShown(p) \/ Accept(p)
                 \/ Drain(p) \/ PingTimesOut(p) \/ Discard(p) \/ Reconnect(p)
    <3>1. ASSUME PanelUpset
          PROVE  \E p \in PanelSet : Load(p, Serving) \/ Stall(p) \/ Close(p)
      BY <3>1, PanelsAreKnown DEF PanelUpset, QueueInv
    <3> QED BY <1>3, <3>1 DEF PanelStep
  <2>3. CASE Load(p, Serving)
    BY <2>1, <2>3 DEF Load, PanelInv
  <2>4. CASE Stall(p)
    BY <2>1, <2>4 DEF Stall, PanelInv
  <2>5. CASE Close(p)
    BY <2>1, <2>5 DEF Close, PanelInv
  <2>6. CASE BootstrapShown(p)
    BY <2>1, <2>6 DEF BootstrapShown, PanelInv
  <2>7. CASE Accept(p)
    <3>1. /\ socket[p] = "connecting" /\ p \notin members
          /\ socket' = [socket EXCEPT ![p] = "open"] /\ members' = members \cup {p}
          /\ shown' = [shown EXCEPT ![p] = IF cached # 0 THEN cached ELSE @]
          /\ UNCHANGED <<cached, response, sends>>
      BY <2>7 DEF Accept
    <3>2. shown' \in [PanelSet -> Nat] /\ \A q \in PanelSet : shown'[q] <= latest
      BY <3>1 DEF PanelInv
    <3>3. socket' \in [PanelSet -> {"none", "connecting", "open", "stalled", "closed"}]
      BY <3>1 DEF PanelInv
    <3>4. members' \subseteq PanelSet /\ \A q \in members' : socket'[q] \in {"open", "stalled", "closed"}
      BY <3>1 DEF PanelInv
    <3> QED BY <2>1, <3>1, <3>2, <3>3, <3>4 DEF PanelInv
  <2>8. CASE Drain(p)
    BY <2>1, <2>8 DEF Drain, PanelInv
  <2>9. CASE PingTimesOut(p)
    BY <2>1, <2>9 DEF PingTimesOut, PanelInv
  <2>10. CASE Discard(p)
    BY <2>1, <2>10 DEF Discard, PanelInv
  <2>11. CASE Reconnect(p)
    BY <2>1, <2>11 DEF Reconnect, PanelInv
  <2> QED BY <2>2, <2>3, <2>4, <2>5, <2>6, <2>7, <2>8, <2>9, <2>10, <2>11
<1>4. CASE CenterStops
  BY <1>0, <1>4 DEF CenterStops, DashboardEnds, PanelInv, roverVars
<1>5. CASE UNCHANGED dashboardVars /\ latest' \in Nat /\ latest <= latest'
  <2>1. \A h \in Nat : h <= latest => h <= latest'
    BY <1>0, <1>5
  <2>2. \A t \in sends : t.health \in Nat
    BY DEF PanelInv, Sends
  <2> QED BY <1>0, <1>5, <2>1, <2>2 DEF PanelInv, dashboardVars
<1>6. (\E alerts \in scenario.lists : OnHealth(alerts))
      => UNCHANGED dashboardVars /\ latest' \in Nat /\ latest <= latest'
  BY <1>0 DEF OnHealth
<1>7. OnHeartbeatTimer \/ RoverLinkLost \/ RoverLinkRestored \/ CenterLinkLost \/ CenterLinkRestored
      \/ CenterStarts \/ OnMessage \/ EmitAlert \/ WriterStep \/ NotifierStep \/ Tick \/ UNCHANGED vars
      => UNCHANGED dashboardVars /\ latest' \in Nat /\ latest <= latest'
  BY <1>0 DEF OnHeartbeatTimer, RoverLinkLost, RoverLinkRestored, CenterLinkLost, CenterLinkRestored,
              CenterStarts, OnMessage, EmitAlert, WriterStep, NotifierStep, Tick, vars, roverVars
<1> QED BY <1>1, <1>2, <1>3, <1>4, <1>5, <1>6, <1>7 DEF Next, CenterStep

-----------------------------------------------------------------------------
(* The whole. *)

IInv == QueueInv /\ PanelInv /\ NotifierInv /\ WriterInv /\ WrittenInv

\* It holds at the start.
LEMMA InitInv == Init => IInv
<1> SUFFICES ASSUME Init PROVE IInv
  OBVIOUS
<1>0. Cooldown \in Nat \ {0} /\ NotifyTicks \in Nat
  BY NotifierAssumption
<1>1. QueueInv
  <2>1. scenario.messages \in Nat
    BY ScenarioAssumption DEF Init
  <2>2. <<>> \in Seq(Messages) /\ Elems(<<>>) = {} /\ Len(<<>>) = 0
    BY EmptyFacts, EmptySeq
  <2> QED BY <2>1, <2>2 DEF Init, QueueInv
<1>2. PanelInv
  BY DEF Init, DashboardInit, PanelInv
<1>3. NotifierTypes
  <2>1. /\ clock = 0 /\ waiting = {} /\ handed = {}
        /\ last = [a \in Alerts |-> 0] /\ notified = [a \in Alerts |-> 0]
        /\ gap = [a \in Alerts |-> Cooldown]
    BY DEF Init
  <2>2. clock \in Nat
    BY <2>1
  <2>3. /\ last \in [Alerts -> Nat] /\ notified \in [Alerts -> Nat] /\ gap \in [Alerts -> Int]
    BY <1>0, <2>1
  <2>4. /\ waiting \in SUBSET [alerts : Seq(Alerts), at : Nat, now : Nat]
        /\ handed \in SUBSET [alerts : Seq(Alerts), now : Nat]
    BY <2>1
  <2> QED BY <2>2, <2>3, <2>4 DEF NotifierTypes
<1>4. Spaced
  BY <1>0 DEF Init, Spaced
<1>5. Pending /\ Covered
  BY DEF Init, Pending, Covered
<1>6. WriterInv
  BY DEF Init, WriterInit, WriterInv, Given
<1>7. WrittenInv
  BY DEF Init, Serving, WrittenInv
<1> QED BY <1>1, <1>2, <1>3, <1>4, <1>5, <1>6, <1>7 DEF IInv, NotifierInv

\* A new notifier satisfies it.
LEMMA StartKeeps == NotifierInv /\ NotifierStarts => NotifierInv'
<1> SUFFICES ASSUME NotifierInv, NotifierStarts PROVE NotifierInv'
  OBVIOUS
<1>0. Cooldown \in Nat \ {0} /\ NotifyTicks \in Nat
  BY NotifierAssumption
<1>1. NotifierTypes'
  BY <1>0 DEF NotifierStarts, NotifierInv, NotifierTypes
<1>2. Spaced'
  BY <1>0 DEF NotifierStarts, NotifierInv, NotifierTypes, Spaced
<1>3. Pending' /\ Covered'
  BY DEF NotifierStarts, Pending, Covered
<1> QED BY <1>1, <1>2, <1>3 DEF NotifierInv

\* Time passes only what its channels leave room for.
LEMMA TickKeeps == NotifierInv /\ NotifierTick => NotifierInv'
<1> SUFFICES ASSUME NotifierInv, NotifierTick PROVE NotifierInv'
  OBVIOUS
<1>0. NotifyTicks \in Nat /\ clock \in Nat /\ clock' = clock + 1
  BY NotifierAssumption DEF NotifierInv, NotifierTypes, NotifierTick
<1>1. NotifierTypes'
  BY <1>0 DEF NotifierTick, NotifierInv, NotifierTypes
<1>2. Spaced'
  <2> SUFFICES ASSUME NEW a \in Alerts
               PROVE  /\ last'[a] <= notified'[a] /\ notified'[a] <= last'[a] + NotifyTicks
                      /\ notified'[a] <= clock'
                      /\ 0 <= gap'[a] /\ Cooldown <= gap'[a] + NotifyTicks /\ gap'[a] <= Cooldown
    BY DEF Spaced
  <2>1. /\ last[a] <= notified[a] /\ notified[a] <= last[a] + NotifyTicks
        /\ notified[a] <= clock
        /\ 0 <= gap[a] /\ Cooldown <= gap[a] + NotifyTicks /\ gap[a] <= Cooldown
        /\ notified[a] \in Nat
    BY DEF NotifierInv, Spaced, NotifierTypes
  <2>2. last' = last /\ notified' = notified /\ gap' = gap
    BY DEF NotifierTick
  <2> QED BY <1>0, <2>1, <2>2
<1>3. Pending'
  <2> SUFFICES ASSUME NEW t \in waiting'
               PROVE  /\ t.at \in DOMAIN t.alerts
                      /\ t.now <= clock' /\ clock' <= t.now + NotifyTicks
                      /\ \A j \in 1..t.at : t.now - last'[t.alerts[j]] < Cooldown
    BY DEF Pending
  <2>1. t \in waiting /\ t.now \in Nat /\ t.now <= clock /\ clock - t.now < NotifyTicks
    BY DEF NotifierTick, NotifierInv, NotifierTypes, Pending
  <2>2. t.now <= clock' /\ clock' <= t.now + NotifyTicks
    BY <1>0, <2>1
  <2> QED BY <2>1, <2>2 DEF NotifierTick, NotifierInv, Pending
<1>4. Covered'
  BY DEF NotifierTick, NotifierInv, Covered
<1> QED BY <1>1, <1>2, <1>3, <1>4 DEF NotifierInv

\* Every step keeps the notifier, whatever the interleaving of its coroutines.
LEMMA NotifierSteps == QueueInv /\ NotifierInv /\ [Next]_vars => NotifierInv'
<1> SUFFICES ASSUME QueueInv, NotifierInv, [Next]_vars
             PROVE  NotifierInv'
  OBVIOUS
<1>0. clock \in Nat /\ NotifyTicks \in Nat
  BY NotifierAssumption DEF NotifierInv, NotifierTypes
<1>1. CASE EmitAlert
  <2>1. loop # <<>> /\ OnAlert(Head(loop).alerts)
    BY <1>1 DEF EmitAlert
  <2>2. Head(loop) \in Messages
    BY <2>1, TailFacts DEF QueueInv
  <2>3. PICK alerts \in Seq(Alerts) : OnAlert(alerts)
    BY <2>1, <2>2 DEF Messages
  <2>4. /\ Notify(alerts, 1, clock)
        /\ waiting' = waiting \cup Suspended(alerts, 1, clock)
        /\ clock' = clock
    BY <2>3 DEF OnAlert
  <2>5. DOMAIN alerts = 1..Len(alerts) /\ Len(alerts) \in Nat
    BY LenProperties
  <2>7. \A j \in DOMAIN alerts : j < 1 => clock - last[alerts[j]] < Cooldown
    BY <2>5
  <2> DEFINE i == 1  now == clock  rest == waiting
  <2>8. /\ i \in Nat \ {0} /\ now \in Nat /\ rest \in SUBSET waiting
        /\ now <= clock /\ clock <= now + NotifyTicks
        /\ \A j \in DOMAIN alerts : j < i => now - last[alerts[j]] < Cooldown
        /\ Notify(alerts, i, now) /\ waiting' = rest \cup Suspended(alerts, i, now)
    BY <1>0, <2>4, <2>7
  <2> HIDE DEF i, now, rest
  <2> QED BY <2>4, <2>8, NotifyKeeps
<1>2. CASE NotifierStep
  <2>1. PICK t \in waiting :
          /\ Notify(t.alerts, t.at + 1, t.now)
          /\ waiting' = (waiting \ {t}) \cup Suspended(t.alerts, t.at + 1, t.now)
          /\ clock' = clock
    BY <1>2 DEF NotifierStep, DispatchEnds
  <2>2. /\ t.alerts \in Seq(Alerts) /\ t.now \in Nat /\ t.at \in DOMAIN t.alerts
        /\ t.now <= clock /\ clock <= t.now + NotifyTicks
        /\ \A j \in 1..t.at : t.now - last[t.alerts[j]] < Cooldown
    BY <2>1 DEF NotifierInv, NotifierTypes, Pending
  <2>3. t.at \in Nat \ {0} /\ t.at + 1 \in Nat \ {0} /\ DOMAIN t.alerts = 1..Len(t.alerts)
    BY <2>2, LenProperties
  <2>4. \A j \in DOMAIN t.alerts : j < t.at + 1 => t.now - last[t.alerts[j]] < Cooldown
    BY <2>2, <2>3, LenProperties
  <2> DEFINE alerts == t.alerts  i == t.at + 1  now == t.now  rest == waiting \ {t}
  <2>6. /\ alerts \in Seq(Alerts) /\ i \in Nat \ {0} /\ now \in Nat /\ rest \in SUBSET waiting
        /\ now <= clock /\ clock <= now + NotifyTicks
        /\ \A j \in DOMAIN alerts : j < i => now - last[alerts[j]] < Cooldown
        /\ Notify(alerts, i, now) /\ waiting' = rest \cup Suspended(alerts, i, now)
        /\ clock' = clock
    BY <2>1, <2>2, <2>3, <2>4
  <2> HIDE DEF alerts, i, now, rest
  <2> QED BY <2>6, NotifyKeeps
<1>3. CASE CenterStarts
  BY <1>3, StartKeeps DEF CenterStarts
<1>4. CASE CenterStops
  BY <1>4 DEF CenterStops, NotifierInv, NotifierTypes, Spaced, Pending, Covered
<1>5. CASE Tick
  BY <1>5, TickKeeps DEF Tick
<1>6. CASE UNCHANGED notifierVars
  BY <1>6 DEF notifierVars, NotifierInv, NotifierTypes, Spaced, Pending, Covered
<1>7. (\E alerts \in scenario.lists : OnHealth(alerts)) \/ OnHeartbeatTimer \/ RoverLinkLost
      \/ RoverLinkRestored \/ CenterLinkLost \/ CenterLinkRestored \/ OnMessage \/ EmitHealth
      \/ WriterStep \/ Broadcasting \/ PanelUpset \/ (\E p \in PanelSet : PanelStep(p)) \/ UNCHANGED vars
      => UNCHANGED notifierVars
  BY DEF OnHealth, OnHeartbeatTimer, RoverLinkLost, RoverLinkRestored, CenterLinkLost, CenterLinkRestored,
         OnMessage, EmitHealth, WriterStep, Broadcasting, PanelUpset, PanelStep, Unaffected, vars
<1> QED BY <1>1, <1>2, <1>3, <1>4, <1>5, <1>6, <1>7 DEF Next, CenterStep

\* Whatever becomes of a write, it is one of an alert.
LEMMA WriterSteps == QueueInv /\ WriterInv /\ [Next]_vars => WriterInv'
<1> SUFFICES ASSUME QueueInv, WriterInv, [Next]_vars
             PROVE  WriterInv'
  OBVIOUS
<1>1. CASE EmitAlert
  <2>1. loop # <<>> /\ WriteAlerts(Head(loop).alerts)
    BY <1>1 DEF EmitAlert
  <2>2. Head(loop) \in Messages
    BY <2>1, TailFacts DEF QueueInv
  <2>3. PICK alerts \in Seq(Alerts) : WriteAlerts(alerts)
    BY <2>1, <2>2 DEF Messages
  <2>4. Len(alerts) \in Nat /\ \A j \in 1..Len(alerts) : alerts[j] \in Alerts
    BY ElementOfSeq, LenProperties
  <2> QED BY <2>3, <2>4 DEF WriteAlerts, WriterInv, Given
<1>2. CASE WriterStep
  BY <1>2 DEF WriterStep, WriteEnds, WriterInv, Given
<1>3. CASE CenterStarts
  BY <1>3 DEF CenterStarts, WriterStarts, WriterInv, Given
<1>4. CASE CenterStops
  BY <1>4 DEF CenterStops, WriterEnds, WriterInv, Given
<1>5. CASE UNCHANGED writerVars
  BY <1>5 DEF writerVars, WriterInv, Given
<1>6. (\E alerts \in scenario.lists : OnHealth(alerts)) \/ OnHeartbeatTimer \/ RoverLinkLost
      \/ RoverLinkRestored \/ CenterLinkLost \/ CenterLinkRestored \/ OnMessage \/ EmitHealth
      \/ NotifierStep \/ Broadcasting \/ PanelUpset \/ (\E p \in PanelSet : PanelStep(p)) \/ Tick
      \/ UNCHANGED vars
      => UNCHANGED writerVars
  BY DEF OnHealth, OnHeartbeatTimer, RoverLinkLost, RoverLinkRestored, CenterLinkLost, CenterLinkRestored,
         OnMessage, EmitHealth, NotifierStep, Broadcasting, PanelUpset, PanelStep, Tick, Unaffected, vars
<1> QED BY <1>1, <1>2, <1>3, <1>4, <1>5, <1>6 DEF Next, CenterStep

\* A coroutine dispatches only what its message lists, and waits with that list.
LEMMA NotifiedIsListed ==
  ASSUME NotifierInv, NEW alerts \in Seq(Alerts), NEW i \in Nat \ {0}, NEW now, Notify(alerts, i, now)
  PROVE  /\ \A a \in Alerts : notified'[a] # 0 =>
              notified[a] # 0 \/ \E j \in DOMAIN alerts : a = alerts[j]
         /\ \A t \in Suspended(alerts, i, now) : t.alerts = alerts
<1>1. notified' = [a \in Alerts |-> IF a \in Dispatched(alerts, i, now) THEN clock ELSE notified[a]]
  BY DEF Notify
<1>2. \A a \in Dispatched(alerts, i, now) : \E j \in DOMAIN alerts : a = alerts[j]
  BY LenProperties DEF Dispatched, Reached
<1>3. \A t \in Suspended(alerts, i, now) : t.alerts = alerts
  BY DEF Suspended
<1> QED BY <1>1, <1>2, <1>3

\* The writer comes first on the bus, and what it was given stays given.
LEMMA WrittenSteps == QueueInv /\ NotifierInv /\ WrittenInv /\ [Next]_vars => WrittenInv'
<1> SUFFICES ASSUME QueueInv, NotifierInv, WrittenInv, [Next]_vars
             PROVE  WrittenInv'
  OBVIOUS
<1>1. CASE EmitAlert
  <2>1. /\ loop # <<>> /\ WriteAlerts(Head(loop).alerts) /\ OnAlert(Head(loop).alerts)
        /\ UNCHANGED <<influx, links>>
    BY <1>1 DEF EmitAlert, WriteAlerts
  <2>2. Head(loop) \in Messages
    BY <2>1, TailFacts DEF QueueInv
  <2>3. PICK alerts \in Seq(Alerts) : WriteAlerts(alerts) /\ OnAlert(alerts)
    BY <2>1, <2>2 DEF Messages
  <2>4. ASSUME influx
        PROVE  Given \subseteq Given' /\ \A j \in DOMAIN alerts : alerts[j] \in Given'
    <3>1. PICK n \in 0..Len(alerts) :
            /\ writing' = writing \cup {alerts[i] : i \in 1..n}
            /\ logged' = logged \cup {alerts[i] : i \in (n + 1)..Len(alerts)}
            /\ UNCHANGED <<stored, failed>>
      BY <2>3, <2>4 DEF WriteAlerts
    <3>2. Len(alerts) \in Nat /\ DOMAIN alerts = 1..Len(alerts)
      BY LenProperties
    <3>3. \A j \in DOMAIN alerts : j \in 1..n \/ j \in (n + 1)..Len(alerts)
      BY <3>2
    <3> QED BY <3>1, <3>3 DEF Given
  <2>5. /\ \A a \in Alerts : notified'[a] # 0 => notified[a] # 0 \/ \E j \in DOMAIN alerts : a = alerts[j]
        /\ \A t \in waiting' : t \in waiting \/ t.alerts = alerts
    BY <2>3, NotifiedIsListed DEF OnAlert
  <2> QED BY <2>1, <2>4, <2>5 DEF WrittenInv, Serving, links
<1>2. CASE NotifierStep
  <2>1. DispatchEnds /\ UNCHANGED <<writerVars, links>>
    BY <1>2 DEF NotifierStep
  <2>2. PICK t \in waiting :
          /\ Notify(t.alerts, t.at + 1, t.now)
          /\ waiting' = (waiting \ {t}) \cup Suspended(t.alerts, t.at + 1, t.now)
    BY <2>1 DEF DispatchEnds
  <2>3. t.alerts \in Seq(Alerts) /\ t.at + 1 \in Nat \ {0}
    BY DEF NotifierInv, NotifierTypes
  <2>4. /\ \A a \in Alerts : notified'[a] # 0 => notified[a] # 0 \/ \E j \in DOMAIN t.alerts : a = t.alerts[j]
        /\ \A u \in waiting' : u \in waiting \/ u.alerts = t.alerts
    BY <2>2, <2>3, NotifiedIsListed
  <2>5. Given' = Given /\ influx' = influx /\ (Serving' <=> Serving)
    BY <2>1 DEF Given, writerVars, links, Serving
  <2> QED BY <2>4, <2>5 DEF WrittenInv
<1>3. CASE WriterStep
  <2>1. Given' = Given /\ influx' = influx /\ UNCHANGED <<notified, waiting, centerLink>>
    BY <1>3 DEF WriterStep, WriteEnds, Given, notifierVars, links
  <2> QED BY <2>1 DEF WrittenInv, Serving
<1>4. CASE CenterStarts
  BY <1>4 DEF CenterStarts, NotifierStarts, WrittenInv
<1>5. CASE CenterStops
  BY <1>5 DEF CenterStops, Serving, WrittenInv
<1>6. ASSUME UNCHANGED <<writerVars, notified, waiting>>, Serving' => Serving
      PROVE  WrittenInv'
  BY <1>6 DEF WrittenInv, Given, writerVars
<1>7. (\E alerts \in scenario.lists : OnHealth(alerts)) \/ OnHeartbeatTimer \/ RoverLinkLost
      \/ RoverLinkRestored \/ CenterLinkLost \/ CenterLinkRestored \/ OnMessage \/ EmitHealth
      \/ Broadcasting \/ PanelUpset \/ (\E p \in PanelSet : PanelStep(p)) \/ Tick
      \/ UNCHANGED vars
      => UNCHANGED <<writerVars, notified, waiting>> /\ (Serving' => Serving)
  BY DEF OnHealth, OnHeartbeatTimer, RoverLinkLost, RoverLinkRestored, CenterLinkLost, CenterLinkRestored,
         OnMessage, EmitHealth, Broadcasting, PanelUpset, PanelStep, Tick, NotifierTick, Unaffected, vars,
         notifierVars, links, Serving
<1> QED BY <1>1, <1>2, <1>3, <1>4, <1>5, <1>6, <1>7 DEF Next, CenterStep

\* The invariant of the whole delivery: messages in flight carry what the rover sent,
\* panels show nothing newer, and the notifier's marks date its notifications.
THEOREM Invariance == Spec => []IInv
<1>1. IInv /\ [Next]_vars => IInv'
  BY QueueStep, PanelsStep, NotifierSteps, WriterSteps, WrittenSteps DEF IInv
<1> QED BY InitInv, <1>1, PTL DEF Spec

\* Marks, coroutines, queues and sockets keep their types, and no panel shows a health
\* the rover does not have yet.
THEOREM TypeCorrect == Spec => []TypeOK
<1>1. ASSUME IInv PROVE TypeOK
  <2>1. /\ last \in [Alerts -> 0..clock] /\ notified \in [Alerts -> 0..clock]
        /\ gap \in [Alerts -> 0..Cooldown]
    <3>1. clock \in Nat /\ Cooldown \in Nat
      BY <1>1, NotifierAssumption DEF IInv, NotifierInv, NotifierTypes
    <3>2. /\ last \in [Alerts -> Nat] /\ notified \in [Alerts -> Nat] /\ gap \in [Alerts -> Int]
      BY <1>1 DEF IInv, NotifierInv, NotifierTypes
    <3>3. \A a \in Alerts : last[a] \in 0..clock /\ notified[a] \in 0..clock /\ gap[a] \in 0..Cooldown
      BY <1>1, <3>1, <3>2 DEF IInv, NotifierInv, Spaced
    <3> QED BY <3>2, <3>3
  <2>2. writing \cup stored \cup logged \cup failed \subseteq Alerts /\ \A t \in waiting : t.at \in DOMAIN t.alerts /\ t.now <= clock
    BY <1>1 DEF IInv, NotifierInv, NotifierTypes, Pending, WriterInv, Given
  <2>3. /\ centerLink \in {"off", "up", "down", "dead"}
        /\ Len(wire) + Len(loop) <= scenario.messages
    BY <1>1 DEF IInv, QueueInv
  <2>4. members \subseteq PanelSet /\ \A p \in members : socket[p] \in {"open", "stalled", "closed"}
    BY <1>1 DEF IInv, PanelInv
  <2>5. /\ \A p \in PanelSet : shown[p] <= health /\ response[p] \subseteq 0..health
        /\ cached <= latest /\ latest <= health
    BY <1>1 DEF IInv, PanelInv, QueueInv
  <2> QED BY <2>1, <2>2, <2>3, <2>4, <2>5 DEF TypeOK
<1> QED BY <1>1, Invariance, PTL

\* For every cooldown and every set of channels, two notifications of an alert are a
\* cooldown apart, less what the channels may take over one message.
THEOREM NotificationsAreSpaced == Spec => []NotificationsSpaced
<1>1. ASSUME IInv PROVE NotificationsSpaced
  <2>1. Cooldown \in Nat /\ NotifyTicks \in Nat
    BY NotifierAssumption
  <2>2. \A a \in Alerts : gap[a] \in Int /\ Cooldown <= gap[a] + NotifyTicks
    BY <1>1 DEF IInv, NotifierInv, NotifierTypes, Spaced
  <2> QED BY <2>1, <2>2 DEF NotificationsSpaced
<1> QED BY <1>1, Invariance, PTL

\* For every list of alerts, every overlap of messages and whatever becomes of their
\* writing, an alert the notifier is through with was notified of within the cooldown.
THEOREM AlertsAreCovered == Spec => []AlertsCovered
<1>1. ASSUME IInv PROVE AlertsCovered
  <2> SUFFICES ASSUME NEW m \in handed
               PROVE  m.now >= Cooldown =>
                        \A i \in DOMAIN m.alerts :
                          notified[m.alerts[i]] # 0 /\ m.now - last[m.alerts[i]] < Cooldown
    BY DEF AlertsCovered
  <2>1. /\ m.alerts \in Seq(Alerts) /\ m.now \in Nat /\ Cooldown \in Nat
        /\ \A i \in DOMAIN m.alerts : m.now - last[m.alerts[i]] < Cooldown
    BY <1>1, NotifierAssumption DEF IInv, NotifierInv, NotifierTypes, Covered
  <2>2. ASSUME m.now >= Cooldown, NEW i \in DOMAIN m.alerts
        PROVE  notified[m.alerts[i]] # 0
    <3>1. m.alerts[i] \in Alerts
      BY <2>1, ElementOfSeq, LenProperties
    <3>2. /\ last[m.alerts[i]] \in Nat /\ notified[m.alerts[i]] \in Nat
          /\ last[m.alerts[i]] <= notified[m.alerts[i]]
      BY <1>1, <3>1 DEF IInv, NotifierInv, NotifierTypes, Spaced
    <3>3. m.now - last[m.alerts[i]] < Cooldown
      BY <2>1
    <3> QED BY <2>1, <2>2, <3>2, <3>3
  <2> QED BY <2>1, <2>2
<1> QED BY <1>1, Invariance, PTL

\* For every list of alerts and every delay of channels, whoever is notified of an
\* alert while there is a writer finds that the writer was given it.
THEOREM NotifiedIsAlwaysWritten == Spec => []NotifiedIsWritten
<1>1. IInv => NotifiedIsWritten
  BY DEF IInv, WrittenInv, Given, NotifiedIsWritten
<1> QED BY <1>1, Invariance, PTL

=============================================================================
