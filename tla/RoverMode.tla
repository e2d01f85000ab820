------------------------------ MODULE RoverMode ------------------------------
(***************************************************************************)
(* RoverSpeedRateMode, which the other rover modes repeat: the last        *)
(* cmd_vel becomes the setpoint of PX4 as long as it is young enough.      *)
(***************************************************************************)
EXTENDS Naturals

CONSTANT Timeout  \* cmd_vel_timeout

ASSUME TimeoutAssumption == Timeout \in Nat \ {0}

VARIABLES
  active,     \* PX4 flies this mode
  received,   \* cmd_vel_received_
  driving,    \* last_cmd_vel_ is not zero
  age,        \* of last_cmd_vel_, as far as one beyond the timeout
  moving      \* the setpoint is not zero

modeVars == <<active, received, driving, age, moving>>

ModeInit == active = TRUE /\ received = FALSE /\ driving = FALSE /\ age = 0 /\ moving = FALSE

OnActivate ==
  /\ ~active
  /\ active' = TRUE /\ received' = FALSE /\ driving' = FALSE
  /\ UNCHANGED <<age, moving>>

OnDeactivate ==
  /\ active
  /\ active' = FALSE /\ moving' = FALSE
  /\ UNCHANGED <<received, driving, age>>

\* Also while another mode is flown.
HandleTwist(drives) ==
  /\ received' = TRUE /\ driving' = drives /\ age' = 0
  /\ UNCHANGED <<active, moving>>

\* Faulty variant: without the watchdog.
UpdateSetpointUnwatched ==
  /\ active
  /\ moving' = (received /\ driving)
  /\ UNCHANGED <<active, received, driving, age>>

UpdateSetpoint ==
  /\ active
  /\ moving' = (received /\ age <= Timeout /\ driving)
  /\ UNCHANGED <<active, received, driving, age>>

ModeTick ==
  /\ age <= Timeout
  /\ age' = age + 1
  /\ UNCHANGED <<active, received, driving, moving>>

=============================================================================
