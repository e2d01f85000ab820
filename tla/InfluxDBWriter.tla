--------------------------- MODULE InfluxDBWriter ----------------------------
(***************************************************************************)
(* influxdb_writer.py, its alert points.  The write API is asked for in    *)
(* its asynchronous mode: a write hands its point to a thread of the       *)
(* library's pool and returns a result that nobody looks at.  The points   *)
(* of health and of command acknowledgements are output only.              *)
(***************************************************************************)
EXTENDS Integers, Sequences

VARIABLES
  influx,   \* there is a _write_api
  writing,  \* alerts whose point a thread of the pool has not written yet
  stored,   \* the alerts written to rover_alerts since the start
  logged,   \* the alerts whose point was not written, and an error logged
  failed    \* ghost: the alerts whose request failed, which nobody notices

writerVars == <<influx, writing, stored, logged, failed>>

WriterInit == influx = FALSE /\ writing = {} /\ stored = {} /\ logged = {} /\ failed = {}

\* start: without the library, or if it raises, there is no writing.
WriterStarts(enabled) ==
  /\ influx' \in enabled
  /\ writing' = {} /\ stored' = {} /\ logged' = {} /\ failed' = {}

\* _on_alert: an exception logs once and leaves out the rest of the list.
WriteAlerts(alerts) ==
  /\ \E n \in 0..Len(alerts) :
       /\ writing' = IF influx THEN writing \cup {alerts[i] : i \in 1..n} ELSE writing
       /\ logged' = IF influx THEN logged \cup {alerts[i] : i \in (n + 1)..Len(alerts)} ELSE logged
  /\ UNCHANGED <<influx, stored, failed>>

\* A thread of the pool ends its request.  Its error would be raised by the result.
WriteEnds ==
  \E a \in writing :
    /\ writing' = writing \ {a}
    /\ \/ stored' = stored \cup {a} /\ UNCHANGED failed
       \/ failed' = failed \cup {a} /\ UNCHANGED stored
    /\ UNCHANGED <<influx, logged>>

\* The process ends with what its pool was doing.
WriterEnds == writing' = {} /\ UNCHANGED <<influx, stored, logged, failed>>

=============================================================================
