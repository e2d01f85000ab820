---------------------------- MODULE AlertNotifier ----------------------------
(***************************************************************************)
(* alert_notifier.py.  A message on rover/alerts is a coroutine that goes  *)
(* through its alerts in order: it runs until a dispatch waits for a       *)
(* channel (a sound that plays, a post to Slack, a mail), and meanwhile    *)
(* other messages are handled.  It looks at the clock once, when it        *)
(* starts.                                                                 *)
(***************************************************************************)
EXTENDS Integers, Sequences, FiniteSets

CONSTANTS
  Alerts,       \* alert identifiers
  ErrorAlerts,  \* those listed in _classify_severity
  Channels,     \* the enabled ones: min_severity, and whether they wait
  Cooldown,     \* default_cooldown_s
  NotifyTicks   \* what the channels take over one message, at the longest

ASSUME NotifierAssumption ==
  /\ Cooldown \in Nat \ {0}
  /\ NotifyTicks \in Nat

VARIABLES
  clock,        \* time.monotonic(), from the boot of the host on
  last,         \* _last_notified; get(alert_id, 0)
  waiting,      \* the messages whose coroutine waits for a channel
  handed,       \* the messages the notifier was the last to be through with
  notified,     \* ghost: when a dispatch of the alert last began, 0 if never
  gap           \* ghost: the shortest time between two of them, at most Cooldown

notifierVars == <<clock, last, waiting, handed, notified, gap>>

-----------------------------------------------------------------------------
Rank == [WARN |-> 0, ERROR |-> 1, CRITICAL |-> 2]

Severity(a) == IF a \in ErrorAlerts THEN "ERROR" ELSE "WARN"

\* _dispatch waits for some channel.
Waits(a) == \E ch \in Channels : ch.waits /\ Rank[Severity(a)] >= Rank[ch.min_severity]

Due(a, now) == now - last[a] >= Cooldown

\* Where a coroutine that goes on at position i of its list has to wait.
WaitsAt(alerts, i, now) == {j \in i..Len(alerts) : Due(alerts[j], now) /\ Waits(alerts[j])}

Earliest(J) == {j \in J : \A k \in J : j <= k}

\* Faulty variant: the loop ends at an alert that is suppressed.
ReachedUntilSuppressed(alerts, i, now) ==
  {j \in i..Len(alerts) : /\ \A k \in WaitsAt(alerts, i, now) : j <= k
                          /\ \A k \in i..j : Due(alerts[k], now)}

\* The positions it gets to before it waits or ends.
Reached(alerts, i, now) == {j \in i..Len(alerts) : \A k \in WaitsAt(alerts, i, now) : j <= k}

\* What is dispatched on the way.
Dispatched(alerts, i, now) == {alerts[j] : j \in {k \in Reached(alerts, i, now) : Due(alerts[k], now)}}

\* Faulty variant: an alert is marked only if all its channels took it at once.
MarkedIfDelivered(alerts, i, now) == {a \in Dispatched(alerts, i, now) : ~Waits(a)}

Marked(alerts, i, now) == Dispatched(alerts, i, now)

\* The loop of _on_alert from position i on.
Notify(alerts, i, now) ==
  /\ last' = [a \in Alerts |-> IF a \in Marked(alerts, i, now) THEN now ELSE last[a]]
  /\ notified' = [a \in Alerts |-> IF a \in Dispatched(alerts, i, now) THEN clock ELSE notified[a]]
  /\ gap' = [a \in Alerts |->
               IF a \in Dispatched(alerts, i, now) /\ notified[a] # 0 /\ clock - notified[a] < gap[a]
               THEN clock - notified[a] ELSE gap[a]]
  /\ handed' = IF WaitsAt(alerts, i, now) = {} THEN {[alerts |-> alerts, now |-> now]} ELSE handed

\* Faulty variant: the coroutine goes on at the next alert.
SuspendedNext(alerts, i, now) ==
  {[alerts |-> alerts, at |-> j + 1, now |-> now] : j \in Earliest(WaitsAt(alerts, i, now))}

\* The coroutine when it waits.
Suspended(alerts, i, now) ==
  {[alerts |-> alerts, at |-> j, now |-> now] : j \in Earliest(WaitsAt(alerts, i, now))}

\* _on_alert
OnAlert(alerts) ==
  /\ Notify(alerts, 1, clock)
  /\ waiting' = waiting \cup Suspended(alerts, 1, clock)
  /\ UNCHANGED clock

\* The channels return, or raise, which _dispatch catches.
DispatchEnds ==
  \E t \in waiting :
    /\ Notify(t.alerts, t.at + 1, t.now)
    /\ waiting' = (waiting \ {t}) \cup Suspended(t.alerts, t.at + 1, t.now)
    /\ UNCHANGED clock

\* A new process: only the clock of the host goes on.
NotifierStarts ==
  /\ waiting' = {} /\ handed' = {}
  /\ last' = [a \in Alerts |-> 0]
  /\ notified' = [a \in Alerts |-> 0]
  /\ gap' = [a \in Alerts |-> Cooldown]
  /\ UNCHANGED clock

\* Time does not pass a message whose channels have had their time.
NotifierTick ==
  /\ \A t \in waiting : clock - t.now < NotifyTicks
  /\ clock' = clock + 1
  /\ UNCHANGED <<last, waiting, handed, notified, gap>>

=============================================================================
