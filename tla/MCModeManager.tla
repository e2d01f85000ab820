--------------------------- MODULE MCModeManager ----------------------------
(* Small instances of ModeManager. *)
EXTENDS ModeManager

CONSTANTS rate, trajectory, s1, s2

=============================================================================
