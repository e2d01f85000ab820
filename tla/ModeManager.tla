---------------------------- MODULE ModeManager -----------------------------
(***************************************************************************)
(* How TelemetryPublisher starts, finds, switches to and ends the          *)
(* processes of the rover's PX4 modes, and what they do meanwhile.         *)
(*                                                                         *)
(* REGISTER_MODE forks `ros2 run', a wrapper that starts the mode's node   *)
(* and waits for it.  The node registers with PX4, which gives it a        *)
(* nav_state, and announces it at once and every 5 s.  Handlers and        *)
(* callbacks share the one executor thread; processes change between any   *)
(* two system calls of a handler.                                          *)
(***************************************************************************)
EXTENDS Naturals, Sequences

CONSTANTS
  Mode,         \* external modes PX4 may hear of
  Spawnable,    \* kModeExecutableMap: those with an executable
  Slot,         \* nav_states PX4 gives to external modes
  Unknown,      \* no nav_state
  Polls,        \* looks at the cache before SET_MODE gives up (8)
  MaxProcs,     \* bound: processes ever started
  MaxCommands,  \* bound: commands handled
  MaxRestarts   \* bound: restarts of the monitor

ASSUME ModeAssumption ==
  /\ Spawnable \subseteq Mode /\ Unknown \notin Slot
  /\ Polls \in Nat \ {0}
  /\ MaxProcs \in Nat /\ MaxCommands \in Nat /\ MaxRestarts \in Nat

VARIABLES
  table,     \* the processes, in the order they were started
  news,      \* announcements and registration replies not read yet
  tracked,   \* mode_procs_: the process of a mode, 0 for none
  ids,       \* mode_id_by_name_
  handler,   \* the handler in progress, between two of its system calls
  answer,    \* the last command's acknowledgement
  handled, restarts

monitorVars == <<tracked, ids, handler, answer, handled, restarts>>
vars == <<table, news, monitorVars>>

Process ==
  [mode : Mode, role : {"wrapper", "node"},
   parent : Nat,     \* the wrapper of a node, 0 for none
   child : BOOLEAN,  \* of the monitor that runs now
   state : {"alive", "told", "zombie", "gone"}, \* told: to act on a SIGTERM
   slot : Slot \cup {Unknown}]

News == [mode : Mode, slot : Slot]

Idle == [op |-> "none"]
Handlers ==
  {Idle} \cup [op : {"set_mode", "register", "unregister"}, mode : Mode,
               pid : Nat, looks : Nat]

Pid == DOMAIN table
Running(p) == table[p].state \in {"alive", "told"}
NodesOf(w) == {p \in Pid : table[p].role = "node" /\ table[p].parent = w /\ Running(p)}

Init ==
  /\ table = <<>> /\ news = {}
  /\ tracked = [m \in Mode |-> 0]
  /\ ids = [m \in Mode |-> Unknown]
  /\ handler = Idle /\ answer = "none"
  /\ handled = 0 /\ restarts = 0

-----------------------------------------------------------------------------
(* The processes *)

Start(m, role, parent) ==
  /\ Len(table) < MaxProcs
  /\ table' = Append(table,
       [mode |-> m, role |-> role, parent |-> parent, child |-> role = "wrapper",
        state |-> "alive", slot |-> Unknown])

\* px4_bringup starts mode nodes too, and so does an operator in a terminal.
LaunchedElsewhere(m) ==
  /\ Start(m, "node", 0)
  /\ UNCHANGED <<news, monitorVars>>

\* `ros2 run' (external) starts the node, unless it fails to.
WrapperStartsNode(w) ==
  /\ table[w].role = "wrapper" /\ table[w].state = "alive"
  /\ \A p \in Pid : table[p].parent # w
  /\ Start(table[w].mode, "node", w)
  /\ UNCHANGED <<news, monitorVars>>

\* PX4 (external) gives a node a free nav_state; its reply may not reach the
\* monitor.
Registers(p) ==
  /\ table[p].role = "node" /\ table[p].state = "alive" /\ table[p].slot = Unknown
  /\ \E s \in Slot :
       /\ \A q \in Pid : table[q].slot # s
       /\ table' = [table EXCEPT ![p].slot = s]
       /\ \/ news' = news \cup {[mode |-> table[p].mode, slot |-> s]}
          \/ UNCHANGED news
  /\ UNCHANGED monitorVars

\* announce_mode: at once and every 5 s, by the nodes that have an executable
\* in the table of the monitor.
Announce(p) ==
  /\ table[p].slot # Unknown /\ table[p].mode \in Spawnable
  /\ news' = news \cup {[mode |-> table[p].mode, slot |-> table[p].slot]}
  /\ UNCHANGED <<table, monitorVars>>

\* The watchdog of px4_ros2 shuts the node down; its main function waits 5 s
\* and tries again.
LosesFmu(p) ==
  /\ table[p].slot # Unknown /\ table[p].state = "alive"
  /\ table[p].mode \in Spawnable
  /\ table' = [table EXCEPT ![p].slot = Unknown]
  /\ UNCHANGED <<news, monitorVars>>

\* A SIGTERM that meets the node before it spins ends the attempt, not the loop.
RetriesAfterSigterm(p) ==
  /\ table[p].role = "node" /\ table[p].state = "told" /\ table[p].slot = Unknown
  /\ table[p].mode \in Spawnable
  /\ table' = [table EXCEPT ![p].state = "alive"]
  /\ UNCHANGED <<news, monitorVars>>

\* A node ends: it was told to, or it crashes.
NodeEnds(p) ==
  /\ table[p].role = "node" /\ Running(p)
  /\ table' = [table EXCEPT ![p].state = "gone", ![p].slot = Unknown]
  /\ UNCHANGED <<news, monitorVars>>

\* A dead child of the monitor stays in the process table.
Dead(w) == IF table[w].child THEN "zombie" ELSE "gone"

\* A wrapper ends with its node, or on a SIGTERM, which it may pass on.
WrapperEnds(w) ==
  /\ table[w].role = "wrapper" /\ Running(w)
  /\ NodesOf(w) = {} \/ table[w].state = "told"
  /\ \E heirs \in {{}, NodesOf(w)} :
       table' = [p \in Pid |->
                   IF p = w THEN [table[p] EXCEPT !.state = Dead(w)]
                   ELSE IF p \in heirs THEN [table[p] EXCEPT !.state = "told"]
                   ELSE table[p]]
  /\ UNCHANGED <<news, monitorVars>>

-----------------------------------------------------------------------------
(* The monitor *)

ExecutorFree == handler = Idle

\* Faulty variant: the callbacks run beside a handler that waits.
LearnWhileBusy(n) ==
  /\ n \in news /\ news' = news \ {n}
  /\ ids' = [ids EXCEPT ![n.mode] = n.slot]
  /\ UNCHANGED <<table, tracked, handler, answer, handled, restarts>>

\* Faulty variant: a nav_state that is known already is kept.
LearnOnce(n) ==
  /\ ExecutorFree
  /\ n \in news /\ news' = news \ {n}
  /\ ids' = IF ids[n.mode] = Unknown THEN [ids EXCEPT ![n.mode] = n.slot] ELSE ids
  /\ UNCHANGED <<table, tracked, handler, answer, handled, restarts>>

\* What a callback does with a mode's nav_state.
Learn(n) ==
  /\ ExecutorFree
  /\ n \in news /\ news' = news \ {n}
  /\ ids' = [ids EXCEPT ![n.mode] = n.slot]
  /\ UNCHANGED <<table, tracked, handler, answer, handled, restarts>>

OnModeAnnounce(n) == n.mode \in Spawnable /\ Learn(n)
OnRegisterReply(n) == Learn(n)

Command ==
  /\ ExecutorFree /\ handled < MaxCommands
  /\ handled' = handled + 1
  /\ UNCHANGED restarts

Busy(op, m, pid) ==
  /\ handler' = [op |-> op, mode |-> m, pid |-> pid, looks |-> 0]
  /\ answer' = "none"

Reply(ack) == handler' = Idle /\ answer' = ack

HandleSetMode(m) ==
  /\ Command
  /\ Busy("set_mode", m, 0)
  /\ UNCHANGED <<table, news, tracked, ids>>

\* One look at the cache, and half a second of sleep when it has nothing;
\* SET_NAV_STATE goes to PX4 when it has.
LookUp ==
  /\ handler.op = "set_mode" /\ handler.looks < Polls
  /\ \/ /\ ids[handler.mode] # Unknown
        /\ Reply("ACCEPTED")
     \/ /\ ids[handler.mode] = Unknown
        /\ handler' = [handler EXCEPT !.looks = @ + 1]
        /\ UNCHANGED answer
  /\ UNCHANGED <<table, news, tracked, ids, handled, restarts>>

\* Nothing for Polls looks: "not registered with PX4".
GiveUp ==
  /\ handler.op = "set_mode" /\ handler.looks = Polls
  /\ Reply("REJECTED")
  /\ UNCHANGED <<table, news, tracked, ids, handled, restarts>>

\* kill(p, 0): a zombie exists.
Exists(p) == p \in Pid /\ table[p].state # "gone"

\* pgrep -f: the processes whose command line names the executable; a zombie
\* has no command line.  The first one listed is taken.
Matches(m) == {p \in Pid : m \in Spawnable /\ table[p].mode = m /\ Running(p)}
Pgrep(m) ==
  IF Matches(m) = {} THEN {0}
  ELSE {p \in Matches(m) : \A q \in Matches(m) : p <= q}

\* No executable, or the process that is tracked exists ("already registered").
RefuseRegister(m) ==
  /\ Command
  /\ m \notin Spawnable \/ Exists(tracked[m])
  /\ Reply("REJECTED")
  /\ UNCHANGED <<table, news, tracked, ids>>

\* A stale entry is dropped; what pgrep finds is looked at next.
HandleRegister(m) ==
  /\ Command
  /\ m \in Spawnable /\ ~Exists(tracked[m])
  /\ tracked' = [tracked EXCEPT ![m] = 0]
  /\ \E p \in Pgrep(m) : Busy("register", m, p)
  /\ UNCHANGED <<table, news, ids>>

\* It still exists: it is taken over.
Adopt ==
  /\ handler.op = "register" /\ Exists(handler.pid)
  /\ tracked' = [tracked EXCEPT ![handler.mode] = handler.pid]
  /\ Reply("ACCEPTED")
  /\ UNCHANGED <<table, news, ids, handled, restarts>>

\* Otherwise the monitor forks, and tracks the child; fork may fail.
Spawn ==
  /\ handler.op = "register" /\ ~Exists(handler.pid)
  /\ \/ /\ Start(handler.mode, "wrapper", 0)
        /\ tracked' = [tracked EXCEPT ![handler.mode] = Len(table) + 1]
        /\ Reply("ACCEPTED")
     \/ /\ Reply("FAILED")
        /\ UNCHANGED <<table, tracked>>
  /\ UNCHANGED <<news, ids, handled, restarts>>

\* Faulty variant: the tracked process only when pgrep finds none.
TargetByName(m) == IF Matches(m) # {} THEN Pgrep(m) ELSE {tracked[m]}

\* The tracked process, or the one pgrep finds.
Target(m) == IF tracked[m] # 0 THEN {tracked[m]} ELSE Pgrep(m)

RefuseUnregister(m) ==
  /\ Command
  /\ 0 \in Target(m)
  /\ Reply("REJECTED")
  /\ UNCHANGED <<table, news, tracked, ids>>

\* The entry and the nav_state are dropped before the process is signalled.
HandleUnregister(m) ==
  /\ Command
  /\ tracked' = [tracked EXCEPT ![m] = 0]
  /\ ids' = [ids EXCEPT ![m] = Unknown]
  /\ \E p \in Target(m) \ {0} : Busy("unregister", m, p)
  /\ UNCHANGED <<table, news>>

\* SIGTERM, then one waitpid that does not wait: it reaps what is dead already.
Signalled(p) ==
  IF table[p].state = "zombie" THEN {"gone"}
  ELSE IF table[p].child THEN {"told", "gone"} ELSE {"told"}

Terminate ==
  /\ handler.op = "unregister"
  /\ IF Exists(handler.pid)
       THEN \E state \in Signalled(handler.pid) :
              table' = [table EXCEPT ![handler.pid].state = state]
       ELSE UNCHANGED table
  /\ Reply("ACCEPTED")
  /\ UNCHANGED <<news, tracked, ids, handled, restarts>>

\* The container ends and is started again: the modes live on in sessions of
\* their own, and the zombies are reaped.  Announcements are kept by their
\* writers and read again.
Restart ==
  /\ restarts < MaxRestarts
  /\ restarts' = restarts + 1
  /\ table' = [p \in Pid |->
                 [table[p] EXCEPT !.child = FALSE,
                                  !.state = IF @ = "zombie" THEN "gone" ELSE @]]
  /\ tracked' = [m \in Mode |-> 0]
  /\ ids' = [m \in Mode |-> Unknown]
  /\ handler' = Idle /\ answer' = "none"
  /\ UNCHANGED <<news, handled>>

-----------------------------------------------------------------------------
ProcessStep(p) ==
  \/ WrapperStartsNode(p) \/ Registers(p) \/ Announce(p) \/ LosesFmu(p)
  \/ RetriesAfterSigterm(p) \/ NodeEnds(p) \/ WrapperEnds(p)

CommandStep(m) ==
  \/ HandleSetMode(m) \/ RefuseRegister(m) \/ HandleRegister(m)
  \/ RefuseUnregister(m) \/ HandleUnregister(m)

HandlerStep == LookUp \/ GiveUp \/ Adopt \/ Spawn \/ Terminate

Next ==
  \/ \E p \in Pid : ProcessStep(p)
  \/ \E m \in Mode : LaunchedElsewhere(m) \/ CommandStep(m)
  \/ \E n \in news : OnModeAnnounce(n) \/ OnRegisterReply(n)
  \/ HandlerStep
  \/ Restart

(***************************************************************************)
(* Handlers run to their end, the executor reads what is published, and    *)
(* the timer of a node that runs fires.  Nothing is assumed of PX4, of     *)
(* `ros2 run' or of a SIGTERM.                                             *)
(***************************************************************************)
Fairness ==
  /\ WF_vars(HandlerStep)
  /\ \A n \in News : WF_vars(OnRegisterReply(n))
  /\ \A p \in 1..MaxProcs : WF_vars(p \in Pid /\ Announce(p))

Spec == Init /\ [][Next]_vars
FairSpec == Spec /\ Fairness

-----------------------------------------------------------------------------
(* Properties *)

\* Every variable stays within its type.
TypeOK ==
  /\ table \in Seq(Process) /\ news \subseteq News
  /\ tracked \in [Mode -> 0..Len(table)]
  /\ ids \in [Mode -> Slot \cup {Unknown}]
  /\ handler \in Handlers
  /\ answer \in {"none", "ACCEPTED", "REJECTED", "FAILED"}
  /\ handled \in 0..MaxCommands /\ restarts \in 0..MaxRestarts

\* The monitor never loses a wrapper it started and has not told to end:
\* mode_procs_ names it, or the handler is about to signal it.
SpawnedIsTracked ==
  \A p \in Pid :
    table[p].child /\ table[p].state = "alive" =>
      \/ tracked[table[p].mode] = p
      \/ handler # Idle /\ handler.op = "unregister" /\ handler.pid = p

\* SET_MODE polls the cache "up to 4 s", but the callbacks that fill it wait
\* for the same thread: a command that has to wait is refused.
WaitIsInVain ==
  [][handler # Idle /\ handler.op = "set_mode" /\ handler.looks > 0 /\ handler' = Idle
       => answer' # "ACCEPTED"]_vars

Up(m, s) ==
  LET nodes == {p \in Pid : table[p].mode = m /\ table[p].slot # Unknown}
  IN  nodes # {} /\ \A p \in nodes : table[p].slot = s

\* However its announcements, unregistrations and restarts of the monitor
\* interleave: a mode that stays registered with PX4 under one nav_state is in
\* the end known by that nav_state.
KnownInTheEnd ==
  \A m \in Spawnable, s \in Slot : <>[]Up(m, s) => <>[](ids[m] = s)

\* telemetry_publisher.cpp:777: REGISTER_MODE checks "if already running", so it
\* is refused as already registered only while the process runs.
RefusedOnlyIfRunning ==
  [][\A m \in Spawnable : RefuseRegister(m) => Running(tracked[m])]_vars
=============================================================================
