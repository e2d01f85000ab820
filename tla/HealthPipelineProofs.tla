------------------------ MODULE HealthPipelineProofs ------------------------
(***************************************************************************)
(* The gate decides on recent data, for every choice of the delays: each   *)
(* hop adds a bounded age to the status it hands on (AgeInv).              *)
(***************************************************************************)
EXTENDS HealthPipeline, SequenceFacts

\* A status that opens a gate; the stale default does not.
Live(p) == p.connected \/ p.armed

\* `at' is at most `age' after the probe took the message behind p.
Recent(p, at, age) == Live(p) => at <= p.heard + age

Unique(S) == \A a, b \in S : a = b

\* An unread message was published, and its callback has been ready, no
\* longer ago than the executor may take.
TopicAge ==
  /\ \A u \in px4Topic :
       /\ u.since <= now /\ now <= u.since + ExecLag
       /\ u.since <= u.msg.heard
  /\ \A u \in healthTopic :
       /\ u.since <= mergedAt /\ now <= u.since + ExecLag
       /\ Recent(u.msg, mergedAt, ExecLag + Px4Stale)

AggregatorAge ==
  /\ \A c \in px4Cache : Recent(c.px4, c.stamp, ExecLag)
  /\ now <= mergedAt + MergePeriod + ExecLag

\* latest_health_ is the last merge, or a newer one is already waiting, and
\* has been since the first merge after it.
LatestAge ==
  \A p \in latest :
    /\ healthTopic = {} => Recent(p, mergedAt, ExecLag + Px4Stale)
    /\ \A u \in healthTopic :
         Recent(p, u.since, 2 * ExecLag + Px4Stale + MergePeriod)

FlightAge ==
  \A m \in Elems(wire) \cup Elems(loop) :
    /\ now <= m.sent + NetDelay
    /\ Recent(m.px4, m.sent, LatestBound)

EntryAge ==
  \A k \in Keys : \A e \in entry[k] : Recent(e.px4, e.stamp, LatestBound + NetDelay)

AgeInv == TopicAge /\ AggregatorAge /\ LatestAge /\ FlightAge /\ EntryAge

-----------------------------------------------------------------------------
(* Types.                                                                  *)

\* Publishing leaves exactly one message, ready since the topic was empty.
LEMMA PublishFacts ==
  ASSUME NEW topic \in SUBSET Unread, Unique(topic), now \in Nat, NEW m \in Px4Status
  PROVE  /\ Publish(topic, m) \in SUBSET Unread /\ Unique(Publish(topic, m))
         /\ \A u \in Publish(topic, m) :
              /\ u.msg = m
              /\ topic = {} => u.since = now
              /\ topic # {} => \E v \in topic : u.since = v.since
<1> DEFINE T == IF topic = {} THEN {now} ELSE {u.since : u \in topic}
<1>1. T \in SUBSET Nat /\ \A s, t \in T : s = t
  BY DEF Unread, Unique
<1>2. Publish(topic, m) = {[msg |-> m, since |-> t] : t \in T}
  BY DEF Publish
<1>3. \A u \in Publish(topic, m) : u.msg = m /\ u.since \in T
  BY <1>2
<1>4. Publish(topic, m) \in SUBSET Unread
  BY <1>1, <1>2 DEF Unread
<1>5. Unique(Publish(topic, m))
  BY <1>1, <1>2 DEF Unique
<1> QED BY <1>3, <1>4, <1>5

\* The status that stands for a lost PX4 is one, and not live.
LEMMA StalePx4Type == StalePx4 \in Px4Status /\ ~Live(StalePx4)
BY DEF StalePx4, Px4Status, Live

\* What the merge publishes: a cached status younger than its timeout, or the
\* default.
LEMMA MergeFacts ==
  ASSUME TypeOK, OnMergeTimer
  PROVE  \E p \in Px4Status :
           /\ healthTopic' = Publish(healthTopic, p)
           /\ \/ p = StalePx4
              \/ \E c \in px4Cache : p = c.px4 /\ now - c.stamp < Px4Stale
<1>1. PICK p \in IF Fresh # {} THEN {c.px4 : c \in Fresh} ELSE {StalePx4} :
        healthTopic' = Publish(healthTopic, p)
  BY DEF OnMergeTimer
<1>2. \A c \in px4Cache : c.px4 \in Px4Status
  BY DEF TypeOK, Stamped
<1>3. CASE Fresh # {}
  <2>1. PICK c \in Fresh : p = c.px4
    BY <1>1, <1>3
  <2> QED BY <1>1, <1>2, <2>1 DEF Fresh
<1>4. CASE Fresh = {}
  <2>1. p = StalePx4
    BY <1>1, <1>4
  <2> QED BY <1>1, <2>1, StalePx4Type
<1> QED BY <1>3, <1>4

UniqueInv ==
  /\ Unique(px4Topic) /\ Unique(px4Cache) /\ Unique(healthTopic) /\ Unique(latest)
  /\ Unique(entry["health"]) /\ Unique(entry["px4"])

\* TypeOK without the quantifier over the six places.
PlainType ==
  /\ now \in Nat
  /\ armed \in BOOLEAN
  /\ px4Topic \in SUBSET Unread
  /\ px4Cache \in SUBSET Stamped
  /\ mergedAt \in 0..now
  /\ healthTopic \in SUBSET Unread
  /\ latest \in SUBSET Px4Status
  /\ linked \in BOOLEAN
  /\ wire \in Seq(Heartbeat) /\ loop \in Seq(Coroutine)
  /\ entry \in [Keys -> SUBSET Stamped]

\* The types without and with the uniqueness of ticks.
LEMMA TypeParts == TypeOK <=> PlainType /\ UniqueInv
BY DEF TypeOK, PlainType, UniqueInv, Unique

\* The same of the state after a step.
LEMMA TypePartsNext == TypeOK' <=> PlainType' /\ UniqueInv'
BY DEF TypeOK, PlainType, UniqueInv, Unique

\* A PX4 callback only publishes a status.
LEMMA ProbeFacts ==
  ASSUME TypeOK, OnVehicleStatus \/ OnOtherMessage
  PROVE  /\ armed' \in BOOLEAN
         /\ px4Topic' = Publish(px4Topic,
              [connected |-> TRUE, armed |-> armed', heard |-> now])
         /\ [connected |-> TRUE, armed |-> armed', heard |-> now] \in Px4Status
         /\ UNCHANGED <<now, px4Cache, mergedAt, healthTopic, latest, linked,
                        wire, loop, entry>>
<1>1. armed' \in BOOLEAN
  BY PipelineAssumption DEF OnVehicleStatus, OnOtherMessage, TypeOK
<1>2. now \in Nat
  BY DEF TypeOK
<1> QED BY <1>1, <1>2 DEF OnVehicleStatus, OnOtherMessage, PublishStatus,
             Px4Status, hostVars

\* Every step keeps every variable in its type and one message per topic.
LEMMA TypeStep ==
  ASSUME TypeOK, [Next]_vars
  PROVE  TypeOK'
<1> USE DEF roverVars, hostVars
<1>0. PlainType /\ UniqueInv
  BY TypeParts
<1>t. ASSUME NEW topic \in SUBSET Unread
      PROVE  /\ \A u \in topic : u.msg \in Px4Status /\ u.since \in Nat
  BY DEF Unread
<1>1. CASE OnVehicleStatus \/ OnOtherMessage
  <2>1. px4Topic' \in SUBSET Unread /\ Unique(px4Topic')
    BY <1>0, <1>1, ProbeFacts, PublishFacts DEF PlainType, UniqueInv
  <2>2. PlainType'
    BY <1>0, <1>1, <2>1, ProbeFacts DEF PlainType
  <2>3. UniqueInv'
    BY <1>0, <1>1, <2>1, ProbeFacts DEF UniqueInv, Unique
  <2> QED BY <2>2, <2>3, TypePartsNext
<1>2. CASE OnPx4
  <2>1. PICK u \in px4Topic :
          /\ px4Cache' = {[px4 |-> u.msg, stamp |-> now]}
          /\ px4Topic' = {}
          /\ UNCHANGED <<now, armed, mergedAt, healthTopic, latest, linked, wire,
                         hostVars>>
    BY <1>2 DEF OnPx4
  <2>2. px4Cache' \in SUBSET Stamped
    BY <1>0, <2>1 DEF PlainType, Unread, Stamped
  <2>3. PlainType'
    BY <1>0, <2>1, <2>2 DEF PlainType
  <2>4. UniqueInv'
    BY <1>0, <2>1 DEF UniqueInv, Unique
  <2> QED BY <2>3, <2>4, TypePartsNext
<1>3. CASE OnMergeTimer
  <2>1. PICK p \in Px4Status : healthTopic' = Publish(healthTopic, p)
    BY <1>3, MergeFacts
  <2>2. healthTopic' \in SUBSET Unread /\ Unique(healthTopic')
    BY <1>0, <2>1, PublishFacts DEF PlainType, UniqueInv
  <2>3. mergedAt' \in 0..now'
    BY <1>0, <1>3 DEF OnMergeTimer, PlainType
  <2>4. PlainType'
    BY <1>0, <1>3, <2>2, <2>3 DEF PlainType, OnMergeTimer
  <2>5. UniqueInv'
    BY <1>0, <1>3, <2>2 DEF UniqueInv, Unique, OnMergeTimer
  <2> QED BY <2>4, <2>5, TypePartsNext
<1>4. CASE OnHealth
  <2>1. PICK u \in healthTopic :
          /\ latest' = {u.msg}
          /\ healthTopic' = {}
          /\ UNCHANGED <<now, armed, px4Topic, px4Cache, mergedAt, linked, wire,
                         hostVars>>
    BY <1>4 DEF OnHealth
  <2>2. latest' \in SUBSET Px4Status
    BY <1>0, <2>1 DEF PlainType, Unread
  <2>3. PlainType'
    BY <1>0, <2>1, <2>2 DEF PlainType
  <2>4. UniqueInv'
    BY <1>0, <2>1 DEF UniqueInv, Unique
  <2> QED BY <2>3, <2>4, TypePartsNext
<1>5. CASE OnHeartbeatTimer
  <2>1. PICK px4 \in latest : wire' = Append(wire, [px4 |-> px4, sent |-> now])
    BY <1>5 DEF OnHeartbeatTimer
  <2>2. [px4 |-> px4, sent |-> now] \in Heartbeat
    BY <1>0 DEF PlainType, Heartbeat
  <2>3. wire' \in Seq(Heartbeat)
    BY <1>0, <2>1, <2>2, AppendFacts DEF PlainType
  <2>4. PlainType'
    BY <1>0, <1>5, <2>3 DEF PlainType, OnHeartbeatTimer
  <2>5. UniqueInv'
    BY <1>0, <1>5 DEF UniqueInv, Unique, OnHeartbeatTimer
  <2> QED BY <2>4, <2>5, TypePartsNext
<1>6. CASE LinkLost \/ LinkRestored
  <2>1. wire' \in Seq(Heartbeat)
    BY <1>0, <1>6, EmptyFacts DEF LinkLost, LinkRestored, PlainType
  <2>2. PlainType'
    BY <1>0, <1>6, <2>1 DEF PlainType, LinkLost, LinkRestored
  <2>3. UniqueInv'
    BY <1>0, <1>6 DEF UniqueInv, Unique, LinkLost, LinkRestored
  <2> QED BY <2>2, <2>3, TypePartsNext
<1>7. CASE OnMessage
  <2> DEFINE m == Head(wire)
             co(k) == [key |-> k, px4 |-> m.px4, sent |-> m.sent]
  <2>1. m \in Heartbeat /\ wire' \in Seq(Heartbeat)
    BY <1>0, <1>7, TailFacts DEF OnMessage, PlainType
  <2>2. co("health") \in Coroutine /\ co("px4") \in Coroutine
    BY <2>1 DEF Heartbeat, Coroutine, Keys
  <2>3. loop' = Append(Append(loop, co("health")), co("px4"))
    BY <1>7 DEF OnMessage
  <2>4. loop' \in Seq(Coroutine)
    <3> HIDE DEF co
    <3>1. Append(loop, co("health")) \in Seq(Coroutine)
      BY <1>0, <2>2, AppendFacts DEF PlainType
    <3> QED BY <2>2, <2>3, <3>1, AppendFacts
  <2>5. PlainType'
    BY <1>0, <1>7, <2>1, <2>4 DEF PlainType, OnMessage
  <2>6. UniqueInv'
    BY <1>0, <1>7 DEF UniqueInv, Unique, OnMessage
  <2> QED BY <2>5, <2>6, TypePartsNext
<1>8. CASE StoreEntry
  <2> DEFINE c == Head(loop)
  <2>1. c \in Coroutine /\ loop' \in Seq(Coroutine)
    BY <1>0, <1>8, TailFacts DEF StoreEntry, PlainType
  <2>2. [px4 |-> c.px4, stamp |-> now] \in Stamped
    BY <1>0, <2>1 DEF PlainType, Coroutine, Stamped
  <2>3. entry' = [entry EXCEPT ![c.key] = {[px4 |-> c.px4, stamp |-> now]}]
    BY <1>8 DEF StoreEntry
  <2>4. entry' \in [Keys -> SUBSET Stamped]
    BY <1>0, <2>2, <2>3 DEF PlainType
  <2>5. PlainType'
    BY <1>0, <1>8, <2>1, <2>4 DEF PlainType, StoreEntry
  <2>6. \A k \in Keys : Unique(entry'[k])
    BY <1>0, <2>3 DEF PlainType, UniqueInv, Unique, Keys
  <2>7. UniqueInv'
    BY <1>0, <1>8, <2>6 DEF UniqueInv, Unique, StoreEntry, Keys
  <2> QED BY <2>5, <2>7, TypePartsNext
<1>9. CASE Tick
  <2>1. PlainType'
    BY <1>0, <1>9 DEF PlainType, Tick
  <2>2. UniqueInv'
    BY <1>0, <1>9 DEF UniqueInv, Unique, Tick
  <2> QED BY <2>1, <2>2, TypePartsNext
<1>10. CASE UNCHANGED vars
  BY <1>0, <1>10, TypePartsNext DEF PlainType, UniqueInv, Unique, vars
<1> QED BY <1>1, <1>2, <1>3, <1>4, <1>5, <1>6, <1>7, <1>8, <1>9, <1>10 DEF Next

\* Every variable of the pipeline keeps its type, and no topic or cache holds
\* two messages, whatever the delays.
THEOREM TypeCorrect == Spec => []TypeOK
<1>1. Init => TypeOK
  <2> SUFFICES ASSUME Init PROVE TypeOK
    OBVIOUS
  <2>1. PlainType
    <3>1. wire \in Seq(Heartbeat) /\ loop \in Seq(Coroutine)
      BY EmptyFacts DEF Init
    <3>2. now \in Nat /\ mergedAt \in 0..now
      BY DEF Init
    <3> QED BY <3>1, <3>2 DEF Init, PlainType
  <2>2. UniqueInv
    BY DEF Init, UniqueInv, Unique, Keys
  <2> QED BY <2>1, <2>2, TypeParts
<1>2. TypeOK /\ [Next]_vars => TypeOK'
  BY TypeStep
<1> QED BY <1>1, <1>2, PTL DEF Spec

-----------------------------------------------------------------------------
(* Ages.                                                                   *)

\* Everything stamped was stamped with natural numbers.
LEMMA StampTypes ==
  ASSUME TypeOK
  PROVE  /\ now \in Nat /\ mergedAt \in Nat /\ mergedAt <= now
         /\ \A u \in px4Topic \cup healthTopic :
              u.msg \in Px4Status /\ u.msg.heard \in Nat /\ u.since \in Nat
         /\ \A c \in px4Cache :
              c.px4 \in Px4Status /\ c.px4.heard \in Nat /\ c.stamp \in Nat
         /\ \A p \in latest : p \in Px4Status /\ p.heard \in Nat
         /\ \A m \in Elems(wire) \cup Elems(loop) :
              m.px4 \in Px4Status /\ m.px4.heard \in Nat /\ m.sent \in Nat
         /\ \A k \in Keys : \A e \in entry[k] :
              e.px4 \in Px4Status /\ e.px4.heard \in Nat /\ e.stamp \in Nat
<1> USE DEF PlainType
<1>0. PlainType
  BY TypeParts
<1>1. \A p \in Px4Status : p.heard \in Nat
  BY DEF Px4Status
<1>2. now \in Nat /\ mergedAt \in Nat /\ mergedAt <= now
  BY <1>0
<1>3. \A u \in px4Topic \cup healthTopic : u.msg \in Px4Status /\ u.since \in Nat
  BY <1>0 DEF Unread
<1>4. \A c \in px4Cache : c.px4 \in Px4Status /\ c.stamp \in Nat
  BY <1>0 DEF Stamped
<1>5. \A p \in latest : p \in Px4Status
  BY <1>0
<1>6. \A m \in Elems(wire) \cup Elems(loop) : m.px4 \in Px4Status /\ m.sent \in Nat
  <2>1. Elems(wire) \subseteq Heartbeat /\ Elems(loop) \subseteq Coroutine
    BY <1>0, ElemsFacts
  <2> QED BY <2>1 DEF Heartbeat, Coroutine
<1>7. \A k \in Keys : \A e \in entry[k] : e.px4 \in Px4Status /\ e.stamp \in Nat
  BY <1>0 DEF Stamped
<1> QED BY <1>1, <1>2, <1>3, <1>4, <1>5, <1>6, <1>7

\* A callback of PX4's topics publishes what was heard just now.
LEMMA ProbeAge ==
  ASSUME TypeOK, AgeInv, OnVehicleStatus \/ OnOtherMessage
  PROVE  AgeInv'
<1> DEFINE m == [connected |-> TRUE, armed |-> armed', heard |-> now]
<1>1. /\ px4Topic' = Publish(px4Topic, m) /\ m \in Px4Status /\ m.heard = now
      /\ UNCHANGED <<now, px4Cache, mergedAt, healthTopic, latest, linked,
                     wire, loop, entry>>
  BY ProbeFacts
<1>2. px4Topic \in SUBSET Unread /\ Unique(px4Topic) /\ now \in Nat
  BY TypeParts DEF PlainType, UniqueInv
<1> HIDE DEF m
<1>3. \A u \in px4Topic' :
        /\ u.msg = m
        /\ px4Topic = {} => u.since = now
        /\ px4Topic # {} => \E v \in px4Topic : u.since = v.since
  BY <1>1, <1>2, PublishFacts
<1>4. \A u \in px4Topic' :
        u.since <= now /\ now <= u.since + ExecLag /\ u.since <= u.msg.heard
  BY <1>1, <1>2, <1>3, StampTypes, PipelineAssumption DEF AgeInv, TopicAge
<1>5. TopicAge'
  BY <1>1, <1>4 DEF AgeInv, TopicAge, Recent, Live
<1> QED BY <1>1, <1>5 DEF AgeInv, AggregatorAge, LatestAge, FlightAge, EntryAge, Recent, Live

\* The aggregator stamps a status at most ExecLag after it was published.
LEMMA Px4Age ==
  ASSUME TypeOK, AgeInv, OnPx4
  PROVE  AgeInv'
<1>1. PICK u \in px4Topic :
        /\ px4Cache' = {[px4 |-> u.msg, stamp |-> now]}
        /\ px4Topic' = {}
        /\ UNCHANGED <<now, mergedAt, healthTopic, latest, wire, loop, entry>>
  BY DEF OnPx4, hostVars
<1>2. now <= u.msg.heard + ExecLag
  BY StampTypes, PipelineAssumption DEF AgeInv, TopicAge
<1>3. AggregatorAge'
  BY <1>1, <1>2 DEF AgeInv, AggregatorAge, Recent
<1>4. TopicAge'
  BY <1>1 DEF AgeInv, TopicAge, Recent, Live
<1> QED BY <1>1, <1>3, <1>4 DEF AgeInv, LatestAge, FlightAge, EntryAge, Recent, Live

\* What is merged is at most ExecLag + Px4Stale old.
LEMMA MergeAge ==
  ASSUME TypeOK, AgeInv, OnMergeTimer
  PROVE  AgeInv'
<1>1. PICK p \in Px4Status :
        /\ healthTopic' = Publish(healthTopic, p)
        /\ \/ p = StalePx4
           \/ \E c \in px4Cache : p = c.px4 /\ now - c.stamp < Px4Stale
  BY MergeFacts
<1>2. /\ mergedAt' = now
      /\ UNCHANGED <<now, px4Topic, px4Cache, latest, wire, loop, entry>>
  BY DEF OnMergeTimer, hostVars
<1>3. Recent(p, now, ExecLag + Px4Stale)
  <2>1. CASE p = StalePx4
    BY <2>1, StalePx4Type DEF Recent
  <2>2. ASSUME NEW c \in px4Cache, p = c.px4, now - c.stamp < Px4Stale
        PROVE  Recent(p, now, ExecLag + Px4Stale)
    BY <2>2, StampTypes, PipelineAssumption DEF AgeInv, AggregatorAge, Recent
  <2> QED BY <1>1, <2>1, <2>2
<1>4. healthTopic \in SUBSET Unread /\ Unique(healthTopic) /\ now \in Nat
  BY TypeParts DEF PlainType, UniqueInv
<1>5. \A u \in healthTopic' :
        /\ u.msg = p
        /\ healthTopic = {} => u.since = now
        /\ healthTopic # {} => \E v \in healthTopic : u.since = v.since
  BY <1>1, <1>4, PublishFacts
<1>6. TopicAge'
  <2>1. \A u \in healthTopic' :
          /\ u.since <= now /\ now <= u.since + ExecLag
          /\ Recent(u.msg, now, ExecLag + Px4Stale)
    BY <1>3, <1>5, StampTypes, PipelineAssumption DEF AgeInv, TopicAge
  <2> QED BY <1>2, <2>1 DEF AgeInv, TopicAge, Recent, Live
<1>7. AggregatorAge'
  BY <1>2, StampTypes, PipelineAssumption DEF AgeInv, AggregatorAge, Recent, Live
<1>8. LatestAge'
  <2>1. healthTopic' # {}
    <3>1. healthTopic = {} => [msg |-> p, since |-> now] \in Publish(healthTopic, p)
      BY DEF Publish
    <3>2. \A v \in healthTopic : [msg |-> p, since |-> v.since] \in Publish(healthTopic, p)
      BY DEF Publish
    <3> QED BY <1>1, <3>1, <3>2
  <2>2. ASSUME NEW q \in latest, NEW u \in healthTopic'
        PROVE  Recent(q, u.since, 2 * ExecLag + Px4Stale + MergePeriod)
    <3>1. CASE healthTopic = {}
      <4>1. u.since = now /\ now <= mergedAt + MergePeriod + ExecLag
        BY <1>5, <2>2, <3>1 DEF AgeInv, AggregatorAge
      <4>2. Recent(q, mergedAt, ExecLag + Px4Stale)
        BY <2>2, <3>1 DEF AgeInv, LatestAge
      <4> QED BY <2>2, <4>1, <4>2, StampTypes, PipelineAssumption DEF Recent
    <3>2. CASE healthTopic # {}
      BY <1>5, <2>2, <3>2 DEF AgeInv, LatestAge
    <3> QED BY <3>1, <3>2
  <2> QED BY <1>2, <2>1, <2>2 DEF LatestAge, Recent, Live
<1> QED BY <1>2, <1>6, <1>7, <1>8 DEF AgeInv, FlightAge, EntryAge, Recent, Live

\* latest_health_ becomes the last merge.
LEMMA HealthAge ==
  ASSUME TypeOK, AgeInv, OnHealth
  PROVE  AgeInv'
<1>1. PICK u \in healthTopic :
        /\ latest' = {u.msg}
        /\ healthTopic' = {}
        /\ UNCHANGED <<now, px4Topic, px4Cache, mergedAt, wire, loop, entry>>
  BY DEF OnHealth, hostVars
<1>2. Recent(u.msg, mergedAt, ExecLag + Px4Stale)
  BY DEF AgeInv, TopicAge
<1>3. LatestAge'
  BY <1>1, <1>2 DEF LatestAge, Recent, Live
<1>4. TopicAge'
  BY <1>1 DEF AgeInv, TopicAge
<1> QED BY <1>1, <1>3, <1>4 DEF AgeInv, AggregatorAge, FlightAge, EntryAge, Recent, Live

\* At any time latest_health_ is at most LatestBound old.
LEMMA LatestFresh ==
  ASSUME TypeOK, AgeInv, NEW p \in latest
  PROVE  Recent(p, now, LatestBound)
<1>1. CASE healthTopic = {}
  <2>1. Recent(p, mergedAt, ExecLag + Px4Stale) /\ now <= mergedAt + MergePeriod + ExecLag
    BY <1>1 DEF AgeInv, LatestAge, AggregatorAge
  <2> QED BY <2>1, StampTypes, PipelineAssumption DEF Recent, LatestBound
<1>2. ASSUME NEW u \in healthTopic PROVE Recent(p, now, LatestBound)
  <2>1. /\ Recent(p, u.since, 2 * ExecLag + Px4Stale + MergePeriod)
        /\ now <= u.since + ExecLag
    BY <1>2 DEF AgeInv, LatestAge, TopicAge
  <2> QED BY <1>2, <2>1, StampTypes, PipelineAssumption DEF Recent, LatestBound
<1> QED BY <1>1, <1>2

\* A heartbeat leaves with a status at most LatestBound old.
LEMMA SendAge ==
  ASSUME TypeOK, AgeInv, OnHeartbeatTimer
  PROVE  AgeInv'
<1>1. PICK px4 \in latest :
        /\ wire' = Append(wire, [px4 |-> px4, sent |-> now])
        /\ UNCHANGED <<now, px4Topic, px4Cache, mergedAt, healthTopic, latest,
                       loop, entry>>
  BY DEF OnHeartbeatTimer, roverVars, hostVars
<1>2. [px4 |-> px4, sent |-> now] \in Heartbeat /\ wire \in Seq(Heartbeat)
  BY TypeParts, StampTypes DEF PlainType, Heartbeat
<1>3. Elems(wire') = Elems(wire) \cup {[px4 |-> px4, sent |-> now]}
  BY <1>1, <1>2, AppendFacts
<1>4. Recent(px4, now, LatestBound)
  BY LatestFresh
<1>5. FlightAge'
  BY <1>1, <1>3, <1>4, StampTypes, PipelineAssumption
     DEF AgeInv, FlightAge, Recent, Live, LatestBound
<1> QED BY <1>1, <1>5 DEF AgeInv, TopicAge, AggregatorAge, LatestAge, EntryAge, Recent, Live

\* The broker's delivery hands the heartbeat on with its time of sending.
LEMMA DeliverAge ==
  ASSUME TypeOK, AgeInv, OnMessage
  PROVE  AgeInv'
<1> DEFINE m == Head(wire)
           co(k) == [key |-> k, px4 |-> m.px4, sent |-> m.sent]
<1>1. /\ wire # <<>> /\ wire' = Tail(wire)
      /\ loop' = Append(Append(loop, co("health")), co("px4"))
      /\ UNCHANGED <<now, px4Topic, px4Cache, mergedAt, healthTopic, latest, entry>>
  BY DEF OnMessage, roverVars
<1>2. wire \in Seq(Heartbeat) /\ loop \in Seq(Coroutine)
  BY TypeParts DEF PlainType
<1>3. Elems(wire) = Elems(wire') \cup {m} /\ m \in Heartbeat
  BY <1>1, <1>2, TailFacts
<1>4. co("health") \in Coroutine /\ co("px4") \in Coroutine
  BY <1>3 DEF Heartbeat, Coroutine, Keys
<1>5. \A k : co(k).px4 = m.px4 /\ co(k).sent = m.sent
  OBVIOUS
<1>6. Elems(loop') = Elems(loop) \cup {co("health"), co("px4")}
  <2> DEFINE a == co("health")
             b == co("px4")
             first == Append(loop, a)
  <2> HIDE DEF a, b
  <2>1. a \in Coroutine /\ b \in Coroutine
    BY <1>4 DEF a, b
  <2>2. first \in Seq(Coroutine) /\ Elems(first) = Elems(loop) \cup {a}
    BY <1>2, <2>1, AppendFacts
  <2> HIDE DEF first
  <2>3. Elems(Append(first, b)) = Elems(first) \cup {b}
    BY <2>1, <2>2, AppendFacts
  <2>4. loop' = Append(first, b)
    BY <1>1 DEF first, a, b
  <2>5. Elems(loop') = Elems(loop) \cup {a, b}
    BY <2>2, <2>3, <2>4
  <2> QED BY <2>5 DEF a, b
<1> HIDE DEF co, m
<1>7. FlightAge'
  BY <1>1, <1>3, <1>5, <1>6 DEF AgeInv, FlightAge, Recent, Live
<1> QED BY <1>1, <1>7 DEF AgeInv, TopicAge, AggregatorAge, LatestAge, EntryAge, Recent, Live

\* A coroutine stores the status at most NetDelay after it was sent.
LEMMA StoreAge ==
  ASSUME TypeOK, AgeInv, StoreEntry
  PROVE  AgeInv'
<1> DEFINE c == Head(loop)
<1>1. /\ loop # <<>> /\ loop' = Tail(loop)
      /\ entry' = [entry EXCEPT ![c.key] = {[px4 |-> c.px4, stamp |-> now]}]
      /\ UNCHANGED <<now, px4Topic, px4Cache, mergedAt, healthTopic, latest, wire>>
  BY DEF StoreEntry, roverVars
<1>2. loop \in Seq(Coroutine) /\ entry \in [Keys -> SUBSET Stamped]
  BY TypeParts DEF PlainType
<1>3. Elems(loop) = Elems(loop') \cup {c} /\ c \in Coroutine
  BY <1>1, <1>2, TailFacts
<1>4. Recent(c.px4, now, LatestBound + NetDelay)
  <2>1. now <= c.sent + NetDelay /\ Recent(c.px4, c.sent, LatestBound)
    BY <1>3 DEF AgeInv, FlightAge
  <2> QED BY <1>3, <2>1, StampTypes, PipelineAssumption DEF Recent, LatestBound
<1>5. EntryAge'
  <2> SUFFICES ASSUME NEW k \in Keys, NEW e \in entry'[k]
               PROVE  Recent(e.px4, e.stamp, LatestBound + NetDelay)
    BY DEF EntryAge, Recent, Live
  <2>1. CASE k = c.key
    <3>1. e = [px4 |-> c.px4, stamp |-> now]
      BY <1>1, <1>2, <2>1
    <3> QED BY <1>4, <3>1
  <2>2. CASE k # c.key
    <3>1. e \in entry[k]
      BY <1>1, <1>2, <2>2
    <3> QED BY <3>1 DEF AgeInv, EntryAge
  <2> QED BY <2>1, <2>2
<1>6. FlightAge'
  BY <1>1, <1>3 DEF AgeInv, FlightAge, Recent, Live
<1> QED BY <1>1, <1>5, <1>6 DEF AgeInv, TopicAge, AggregatorAge, LatestAge, Recent, Live

\* A broken link only loses heartbeats.
LEMMA LinkAge ==
  ASSUME TypeOK, AgeInv, LinkLost \/ LinkRestored
  PROVE  AgeInv'
<1>1. Elems(wire') \subseteq Elems(wire)
  BY EmptyFacts DEF LinkLost, LinkRestored
<1>2. UNCHANGED <<now, px4Topic, px4Cache, mergedAt, healthTopic, latest, loop, entry>>
  BY DEF LinkLost, LinkRestored, roverVars, hostVars
<1>3. FlightAge'
  BY <1>1, <1>2 DEF AgeInv, FlightAge, Recent, Live
<1> QED BY <1>2, <1>3 DEF AgeInv, TopicAge, AggregatorAge, LatestAge, EntryAge, Recent, Live

\* Time passes no deadline.
LEMMA TickAge ==
  ASSUME TypeOK, AgeInv, Tick
  PROVE  AgeInv'
<1>1. /\ now' = now + 1
      /\ UNCHANGED <<px4Topic, px4Cache, mergedAt, healthTopic, latest, wire, loop, entry>>
  BY DEF Tick, roverVars, hostVars
<1>2. TopicAge'
  <2>1. \A u \in px4Topic \cup healthTopic : now + 1 <= u.since + ExecLag
    BY StampTypes, PipelineAssumption DEF Tick
  <2> QED BY <1>1, <2>1, StampTypes DEF AgeInv, TopicAge, Recent, Live
<1>3. AggregatorAge'
  BY <1>1, StampTypes, PipelineAssumption DEF Tick, AgeInv, AggregatorAge, Recent, Live
<1>4. FlightAge'
  <2>1. \A m \in Elems(wire) \cup Elems(loop) : now - m.sent < NetDelay
    BY DEF Tick, Elems
  <2>2. \A m \in Elems(wire) \cup Elems(loop) : now + 1 <= m.sent + NetDelay
    BY <2>1, StampTypes, PipelineAssumption
  <2> QED BY <1>1, <2>2 DEF AgeInv, FlightAge, Recent, Live
<1> QED BY <1>1, <1>2, <1>3, <1>4 DEF AgeInv, LatestAge, EntryAge, Recent, Live

\* The ages hold from the start and through every step.
LEMMA AgeInvHolds == Spec => [](TypeOK /\ AgeInv)
<1>1. Init => AgeInv
  <2> SUFFICES ASSUME Init PROVE AgeInv
    OBVIOUS
  <2>1. Elems(wire) \cup Elems(loop) = {}
    BY EmptyFacts DEF Init
  <2>2. AggregatorAge
    BY PipelineAssumption DEF Init, AggregatorAge
  <2> QED BY <2>1, <2>2 DEF Init, AgeInv, TopicAge, LatestAge, FlightAge, EntryAge
<1>2. TypeOK /\ AgeInv /\ [Next]_vars => AgeInv'
  <2> SUFFICES ASSUME TypeOK, AgeInv, [Next]_vars PROVE AgeInv'
    OBVIOUS
  <2>1. CASE UNCHANGED vars
    BY <2>1 DEF vars, roverVars, hostVars, AgeInv, TopicAge, AggregatorAge,
                LatestAge, FlightAge, EntryAge, Recent, Live
  <2> QED BY <2>1, ProbeAge, Px4Age, MergeAge, HealthAge, SendAge, DeliverAge,
             StoreAge, LinkAge, TickAge DEF Next
<1> QED BY <1>1, <1>2, TypeCorrect, PTL DEF Spec

\* What the cache still calls fresh is at most GateBound old.
LEMMA GetFresh ==
  ASSUME TypeOK, AgeInv, NEW k \in Keys, NEW p \in Get(k), Live(p)
  PROVE  now - p.heard <= GateBound
<1>1. PICK e \in entry[k] : p = e.px4 /\ now - e.stamp <= StaleThreshold
  BY DEF Get
<1>2. e.stamp <= p.heard + (LatestBound + NetDelay)
  BY <1>1 DEF AgeInv, EntryAge, Recent
<1> QED BY <1>1, <1>2, StampTypes, PipelineAssumption DEF GateBound, LatestBound

\* There is at most one status under a key.
LEMMA GetUnique ==
  ASSUME TypeOK, NEW k \in Keys
  PROVE  Unique(Get(k))
BY TypeParts DEF UniqueInv, Unique, Get, Keys

\* Arming and mode changes are let through only if PX4 was heard from within
\* GateBound, for every executor lag, timeout and network delay.
THEOREM HealthGateAlwaysFresh == Spec => []HealthGateFresh
<1>1. TypeOK /\ AgeInv => HealthGateFresh
  <2> SUFFICES ASSUME TypeOK, AgeInv, CheckSetMode, NEW p \in Get("health")
               PROVE  now - p.heard <= GateBound
    BY DEF HealthGateFresh
  <2>1. p.connected
    BY GetUnique DEF CheckSetMode, Unique, Keys
  <2> QED BY <2>1, GetFresh DEF Live, Keys
<1> QED BY <1>1, AgeInvHolds, PTL

\* The same for navigation and driving, which decide on the px4 entry.
THEOREM Px4GateAlwaysFresh == Spec => []Px4GateFresh
<1>1. TypeOK /\ AgeInv => Px4GateFresh
  <2> SUFFICES ASSUME TypeOK, AgeInv, CheckNavGoal, NEW p \in GetEffectivePx4
               PROVE  now - p.heard <= GateBound
    BY DEF Px4GateFresh
  <2>1. PICK k \in Keys : GetEffectivePx4 = Get(k)
    BY DEF GetEffectivePx4, Keys
  <2>2. p.armed
    BY <2>1, GetUnique DEF CheckNavGoal, Unique
  <2> QED BY <2>1, <2>2, GetFresh DEF Live
<1> QED BY <1>1, AgeInvHolds, PTL
=============================================================================
