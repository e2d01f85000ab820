------------------------------ MODULE MCTuning -------------------------------
(* The sessions that are checked: every stage with a good link and with a bad
   one, without and with Ctrl-C. *)
EXTENDS TuningStages

MCParams == {"RO_MAX_THR_SPEED", "RO_ACCEL_LIM", "RO_DECEL_LIM", "RO_YAW_RATE_LIM",
             "RO_SPEED_P", "RO_SPEED_I", "RO_YAW_RATE_P", "RO_YAW_RATE_I", "RO_YAW_P"}

Before(gain, limit) ==
  [p \in MCParams |-> IF p \in {"RO_SPEED_P", "RO_SPEED_I", "RO_YAW_RATE_P", "RO_YAW_RATE_I", "RO_YAW_P"}
                      THEN gain ELSE limit]

Session(stages, faults, n, errors) ==
  {[stage |-> s, apply |-> TRUE, skip |-> {1, 4}, tolerance |-> 10, faults |-> faults, upsets |-> n,
    errors |-> errors, ideal |-> 700, before |-> {Before(1, 512)}] : s \in stages}

\* Every result a trial may have, and every vehicle.
Undisturbed ==
  Session({"stage2b", "stage2c", "stage3"}, {}, 0, 0..2)
    \cup {[s EXCEPT !.ideal = i, !.tolerance = t, !.before = {Before(0, c)}] :
            s \in Session({"stage2a"}, {}, 0, {}), i \in {270, 700, 1100, 2000}, t \in {0, 10}, c \in {512, 1536}}

BadLink == Session({"stage1", "stage2a", "stage2b", "stage3"}, {"link"}, 2, {0, 2})

Aborted ==
  Session({"stage2a", "stage2c", "stage3"}, {"operator", "pilot"}, 2, {1})
    \cup {[s EXCEPT !.apply = FALSE] : s \in Session({"stage1"}, {"operator", "pilot"}, 2, {})}

MCSessions == Undisturbed \cup BadLink \cup Aborted
=============================================================================
