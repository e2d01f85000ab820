-------------------------- MODULE CommandLifecycle --------------------------
(***************************************************************************)
(* What the command system promises the operator, without links, queues or *)
(* timers: the rover takes up a command at most once and follows the       *)
(* lifecycle RECEIVED -> ACCEPTED or an outcome; the command history shows *)
(* only what the rover said, in order and possibly late, or gives up; and  *)
(* a closed record never changes again.                                    *)
(***************************************************************************)
EXTENDS Commands

VARIABLES
  panel,   \* panel[c]: what the operator sees of c
  left,    \* commands that left the control center
  said     \* said[c]: the statuses the rover has decided for c

(***************************************************************************)
(* A record can fall off the end of the history: it is then "open" while   *)
(* its command still is, and "closed" once the command has been closed.    *)
(***************************************************************************)
PanelState == ShownStatus \cup {"none", "open", "closed"}

lifecycleVars == <<panel, left, said>>

Init ==
  /\ panel = [c \in Cmd |-> "none"]
  /\ left = {}
  /\ said = [c \in Cmd |-> {}]

Stage(shown) ==
  CASE shown = "SENT" -> 0
    [] shown = "ACK_RECEIVED" -> 1
    [] shown = "ACK_ACCEPTED" -> 2
    [] OTHER -> 3

IsOpen(c) ==
  /\ panel[c] \in ShownStatus \cup {"open"}
  /\ ~IsTerminalStatus(c, panel[c])

Dropped(c) ==
  IF panel[c] = "none" THEN "none" ELSE IF IsOpen(c) THEN "open" ELSE "closed"

\* Writing one record may push others off the end of the history.
Show(c, status) ==
  /\ panel' \in [Cmd -> PanelState]
  /\ panel'[c] = status
  /\ \A d \in Cmd \ {c} : panel'[d] \in {panel[d], Dropped(d)}

\* The operator's command leaves the control center (with a record, unless it
\* is a drive command), or is refused there and never leaves.
Submit(c) ==
  /\ panel[c] = "none" /\ c \notin left
  /\ left' = left \cup {c}
  /\ IF Kind[c] = "drive" THEN UNCHANGED panel ELSE Show(c, "SENT")
  /\ UNCHANGED said

Refuse(c) ==
  /\ panel[c] = "none" /\ c \notin left
  /\ Show(c, "ACK_REJECTED")
  /\ UNCHANGED <<left, said>>

\* The rover takes up the command once, then decides, then concludes.
Say(c, status) ==
  /\ c \in left
  /\ IF status = "ACK_RECEIVED"
       THEN said[c] = {}
       ELSE /\ "ACK_RECEIVED" \in said[c]
            /\ said[c] \cap (Outcomes \cup {status}) = {}
  /\ said' = [said EXCEPT ![c] = @ \cup {status}]
  /\ UNCHANGED <<panel, left>>

Learn(c, status) ==
  /\ IsOpen(c)
  /\ status \in said[c]
  /\ panel[c] # "open" => Stage(status) > Stage(panel[c])
  /\ Show(c, status)
  /\ UNCHANGED <<left, said>>

GiveUp(c) ==
  /\ IsOpen(c)
  /\ Show(c, "ACK_FAILED")
  /\ UNCHANGED <<left, said>>

Next ==
  \E c \in Cmd :
    \/ Submit(c)
    \/ Refuse(c)
    \/ GiveUp(c)
    \/ \E status \in AckStatus : Say(c, status) \/ Learn(c, status)

Spec == Init /\ [][Next]_lifecycleVars

=============================================================================
