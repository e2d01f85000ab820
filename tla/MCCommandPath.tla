--------------------------- MODULE MCCommandPath ----------------------------
(* Small instances of CommandPath. *)
EXTENDS CommandPath

CONSTANTS g1, x1, s1, d1

OneGoal == [c \in {g1} |-> "nav_goal"]
OneOfEach ==
  [c \in Cmd |-> CASE c = g1 -> "nav_goal" [] c = x1 -> "cancel_goal"
                   [] c = s1 -> "set_mode" [] c = d1 -> "drive"]

=============================================================================
