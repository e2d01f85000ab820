--------------------------- MODULE MCAlertDelivery ---------------------------
(* Three environments: one in which time passes and alerts come and go, one in
   which panels come and go, and one in which alerts are written. *)
EXTENDS AlertDelivery

MCAlerts == {"d435i_STUTTER", "JETSON_CPU_HOT"}
MCErrorAlerts == {"JETSON_CPU_HOT"}
MCChannels == {[min_severity |-> "WARN", waits |-> FALSE], [min_severity |-> "ERROR", waits |-> TRUE]}
MCPanels == <<"first", "second">>

Overlapping ==
  [panels |-> {}, healths |-> 4, messages |-> 1, upsets |-> 1, horizon |-> 6, influx |-> {FALSE},
   lists |-> {<<>>, <<"JETSON_CPU_HOT">>, <<"d435i_STUTTER">>, <<"JETSON_CPU_HOT", "d435i_STUTTER">>}]

Watched ==
  [panels |-> {"first", "second"}, healths |-> 2, messages |-> 1, upsets |-> 3, horizon |-> 0,
   influx |-> {FALSE}, lists |-> {<<>>, <<"d435i_STUTTER">>}]

Written ==
  [panels |-> {}, healths |-> 3, messages |-> 1, upsets |-> 1, horizon |-> 4, influx |-> {TRUE},
   lists |-> {<<>>, <<"JETSON_CPU_HOT", "d435i_STUTTER">>}]

MCScenarios == {Overlapping, Watched, Written}
=============================================================================
