------------------------------ MODULE Commands ------------------------------
(***************************************************************************)
(* The vocabulary the control center and the rover share: the commands an  *)
(* operator can issue, the statuses of the acknowledgements the rover      *)
(* publishes on rover/cmd/ack, and which of them close a command.          *)
(*                                                                         *)
(* A command is one RoverCommand, named by its uuid4 cmd_id.  Its type is  *)
(* fixed when it is built, so Kind is a constant function.                 *)
(***************************************************************************)
EXTENDS Naturals

CONSTANTS
  Cmd,     \* the cmd_ids
  Kind     \* Kind[c] is the command type of c

CmdTypes == {"nav_goal", "arm", "disarm", "set_mode", "estop", "cancel_goal",
             "set_param", "drive", "record", "register_mode",
             "unregister_mode"}

ASSUME KindAssumption == Kind \in [Cmd -> CmdTypes]

AckStatus == {"ACK_RECEIVED", "ACK_ACCEPTED", "ACK_REJECTED",
              "ACK_COMPLETED", "ACK_FAILED"}

\* Statuses after which the rover says nothing more about a command.
Outcomes == {"ACK_REJECTED", "ACK_COMPLETED", "ACK_FAILED"}

\* What a record of the command history can show.
ShownStatus == AckStatus \cup {"SENT"}

\* Goals and their cancellation run on the rover after they are accepted, so
\* ACK_ACCEPTED does not close them.
TwoStage == {"nav_goal", "cancel_goal"}

IsTerminalStatus(c, status) ==
  \/ status \in Outcomes
  \/ status = "ACK_ACCEPTED" /\ Kind[c] \notin TwoStage

=============================================================================
