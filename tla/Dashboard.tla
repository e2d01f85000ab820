------------------------------ MODULE Dashboard ------------------------------
(***************************************************************************)
(* dashboard_server.py and the panels that watch it: the pages of          *)
(* App.jsx, each with a request for the state when it loads and a          *)
(* WebSocket on /ws/health that it opens again two seconds after it closes.*)
(*                                                                         *)
(* A RoverHealth is its number: later ones have higher numbers, 0 is none. *)
(* A broadcast iterates over the set of sockets and waits at one whose     *)
(* peer does not read.                                                     *)
(***************************************************************************)
EXTENDS Naturals, Sequences, FiniteSets

CONSTANT Panels  \* in the order in which the set of their sockets is iterated

VARIABLES
  cached,        \* TelemetryCache: the health entry
  socket,        \* none, connecting, open, stalled or closed
  members,       \* _health_ws_clients
  shown,         \* useWebSocket: data
  response,      \* the answer to fetchInitial that is under way, if any
  sends          \* the broadcasts that wait

dashboardVars == <<cached, socket, members, shown, response, sends>>

PanelSet == {Panels[i] : i \in DOMAIN Panels}

DashboardInit ==
  /\ cached = 0
  /\ socket = [p \in PanelSet |-> "none"]
  /\ members = {} /\ sends = {}
  /\ shown = [p \in PanelSet |-> 0]
  /\ response = [p \in PanelSet |-> {}]

-----------------------------------------------------------------------------
(* Broadcasts. *)

Ahead(i) == {j \in i..Len(Panels) : Panels[j] \in members}
Stalled(i) == {j \in Ahead(i) : socket[Panels[j]] = "stalled"}
Visited(i) == {j \in Ahead(i) : \A k \in Stalled(i) : j < k}

\* A broadcast t goes on at its position: to all open sockets as far as the
\* first stalled one.  When it is through, the sockets that raised are removed.
SendFrom(t, others) ==
  LET failed == t.dead \cup {Panels[j] : j \in {k \in Visited(t.at) : socket[Panels[k]] = "closed"}} IN
  /\ shown' = [p \in PanelSet |->
                 IF \E j \in Visited(t.at) : Panels[j] = p /\ socket[p] = "open" THEN t.health ELSE shown[p]]
  /\ members' = IF Stalled(t.at) = {} THEN members \ {p \in failed : socket[p] = "closed"} ELSE members
  /\ sends' = others \cup {[t EXCEPT !.at = j, !.dead = failed] :
                             j \in {k \in Stalled(t.at) : \A l \in Stalled(t.at) : k <= l}}

\* evt.health: TelemetryCache._on_health, then _broadcast_health, which sends
\* what the cache holds.
OnHealthEvent(health) ==
  /\ cached' = health
  /\ SendFrom([health |-> health, at |-> 1, size |-> Cardinality(members), dead |-> {}], sends)
  /\ UNCHANGED <<socket, response>>

\* A send returns or raises.
SendEnds ==
  \E t \in sends :
    /\ socket[Panels[t.at]] # "stalled"
    /\ Cardinality(members) = t.size
    /\ SendFrom(t, sends \ {t})
    /\ UNCHANGED <<cached, socket, response>>

\* The set has changed its size meanwhile: the iteration ends with a RuntimeError,
\* and the sockets that come later in it get nothing.
IterationFails ==
  \E t \in sends :
    /\ socket[Panels[t.at]] # "stalled"
    /\ Cardinality(members) # t.size
    /\ shown' = [p \in PanelSet |->
                   IF p = Panels[t.at] /\ socket[p] = "open" THEN t.health ELSE shown[p]]
    /\ sends' = sends \ {t}
    /\ UNCHANGED <<cached, socket, members, response>>

-----------------------------------------------------------------------------
(* Panels and their sockets. *)

\* The page is opened: fetchInitial is answered with the cached state.
Load(p, serving) ==
  /\ socket[p] = "none"
  /\ socket' = [socket EXCEPT ![p] = "connecting"]
  /\ response' = [response EXCEPT ![p] = IF serving THEN {cached} ELSE {}]
  /\ UNCHANGED <<cached, members, shown, sends>>

\* The answer comes, and replaces whatever is shown by then.
BootstrapShown(p) ==
  /\ response[p] # {}
  /\ \E health \in response[p] : shown' = [shown EXCEPT ![p] = health]
  /\ response' = [response EXCEPT ![p] = {}]
  /\ UNCHANGED <<cached, socket, members, sends>>

\* ws_health: it joins, and is sent the cached state first, if there is one.
Accept(p) ==
  /\ socket[p] = "connecting" /\ p \notin members
  /\ socket' = [socket EXCEPT ![p] = "open"]
  /\ members' = members \cup {p}
  /\ shown' = [shown EXCEPT ![p] = IF cached # 0 THEN cached ELSE @]
  /\ UNCHANGED <<cached, response, sends>>

\* The peer stops to read, and reads again.
Stall(p) ==
  /\ socket[p] = "open"
  /\ socket' = [socket EXCEPT ![p] = "stalled"]
  /\ UNCHANGED <<cached, members, shown, response, sends>>

Drain(p) ==
  /\ socket[p] = "stalled"
  /\ socket' = [socket EXCEPT ![p] = "open"]
  /\ UNCHANGED <<cached, members, shown, response, sends>>

\* The page is left, or its connection breaks.
Close(p) ==
  /\ socket[p] = "open"
  /\ socket' = [socket EXCEPT ![p] = "closed"]
  /\ UNCHANGED <<cached, members, shown, response, sends>>

\* uvicorn pings its peers and closes the connection to one that does not answer.
PingTimesOut(p) ==
  /\ socket[p] = "stalled"
  /\ socket' = [socket EXCEPT ![p] = "closed"]
  /\ UNCHANGED <<cached, members, shown, response, sends>>

\* WebSocketDisconnect.
Discard(p) ==
  /\ socket[p] = "closed" /\ p \in members
  /\ members' = members \ {p}
  /\ UNCHANGED <<cached, socket, shown, response, sends>>

\* ws.onclose: setTimeout(connect, 2000).
Reconnect(p) ==
  /\ socket[p] = "closed" /\ p \notin members
  /\ socket' = [socket EXCEPT ![p] = "connecting"]
  /\ UNCHANGED <<cached, members, shown, response, sends>>

\* The server process ends: its sockets close, and answers under way are lost.
DashboardEnds ==
  /\ cached' = 0 /\ members' = {} /\ sends' = {}
  /\ socket' = [p \in PanelSet |-> IF socket[p] \in {"open", "stalled"} THEN "closed" ELSE socket[p]]
  /\ response' = [p \in PanelSet |-> {}]
  /\ UNCHANGED shown

=============================================================================
