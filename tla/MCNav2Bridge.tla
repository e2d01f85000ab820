---------------------------- MODULE MCNav2Bridge ----------------------------
(* Small instances of Nav2Bridge. *)
EXTENDS Nav2Bridge

CONSTANTS a, b, e, x

=============================================================================
