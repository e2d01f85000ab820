------------------------------ MODULE TuningLib ------------------------------
(***************************************************************************)
(* px4_tuning_lib.py: the calls of the tuning scripts.  Parameters are read*)
(* and written over a serial link that loses and delays messages; cmd_vel  *)
(* is published by processes in the container, each for a number of        *)
(* messages, which the script waits for through a docker client.           *)
(*                                                                         *)
(* The script makes the calls of "calls" one after the other, and decides  *)
(* with its program counter what comes when there is none left.            *)
(***************************************************************************)
EXTENDS Integers, Sequences, SequencesExt, RoverMode

CONSTANTS
  Params,      \* the parameters of PX4 that are tuned
  DriveCount,  \* how many messages a drive has
  Sessions     \* bounds: what is looked at, one session per behaviour

VARIABLES
  session,     \* the script, its arguments, and what may go wrong
  param,       \* their values in PX4
  replies,     \* PARAM_VALUE messages on their way to the script
  told,        \* what the last param_set of a parameter reported to be written, if anything
  read,        \* what the last param_get of a parameter returned, if anything
  calls,       \* the calls that come next
  pc,          \* where the script is then
  abort,       \* _abort
  handler,     \* install_abort_handler was called
  publishers,  \* ros2 topic pub processes
  upsets,      \* bound: what went wrong so far
  misled,      \* ghost: PX4 did not get a write
  late         \* ghost: drives begun since Ctrl-C

linkVars == <<param, replies, told, read, misled>>
libVars == <<session, upsets, linkVars, calls, pc, abort, handler, publishers, late>>

Drive == [op |-> "drive"]
Zeros == [op |-> "zeros"]
Wait == [op |-> "wait"]
Collect == [op |-> "collect"]
Get(name) == [op |-> "get", name |-> name]
Set(name, value) == [op |-> "set", name |-> name, value |-> value]

\* stop_cmd_vel
Stop == <<Zeros, Wait>>

LibInit ==
  /\ session \in Sessions /\ param \in session.before
  /\ replies = <<>> /\ calls = <<>> /\ publishers = <<>>
  /\ told = [p \in Params |-> {}] /\ read = [p \in Params |-> {}]
  /\ pc = "connect" /\ abort = FALSE /\ handler = FALSE
  /\ upsets = 0 /\ misled = FALSE /\ late = 0

Calls(op) == calls # <<>> /\ Head(calls).op = op /\ calls' = Tail(calls)

-----------------------------------------------------------------------------
(* The serial link.  A request arrives or is lost, and so does its reply. *)

May(kind) == kind \in session.faults /\ upsets < session.upsets
Upset(happens) == upsets' = IF happens THEN upsets + 1 ELSE upsets
GoesWell == IF May("link") THEN {TRUE, FALSE} ELSE {TRUE}

\* recv_match: the first PARAM_VALUE, if one comes in time.
Received(sent, taken) ==
  /\ taken => sent # <<>>
  /\ replies' = IF taken THEN Tail(sent) ELSE sent

\* Faulty variant: a PARAM_VALUE of any parameter will do.
ConfirmsAny(message, name, value) == message.value = value

Confirms(message, name, value) == message.name = name /\ message.value = value

ParamSet ==
  /\ Calls("set")
  /\ \E arrives, answered, taken \in GoesWell :
       LET name == Head(calls).name
           value == Head(calls).value
           sent == IF arrives /\ answered THEN Append(replies, [name |-> name, value |-> value]) ELSE replies IN
       /\ Received(sent, taken)
       /\ param' = IF arrives THEN [param EXCEPT ![name] = value] ELSE param
       /\ told' = [told EXCEPT ![name] = IF taken /\ Confirms(Head(sent), name, value) THEN {value} ELSE {}]
       /\ misled' = (misled \/ ~arrives)
       /\ Upset(~arrives \/ ~answered \/ ~taken)
  /\ UNCHANGED <<session, modeVars, read, pc, abort, handler, publishers, late>>

ParamGet ==
  /\ Calls("get")
  /\ \E answered, taken \in GoesWell :
       LET name == Head(calls).name
           sent == IF answered THEN Append(replies, [name |-> name, value |-> param[name]]) ELSE replies IN
       /\ Received(sent, taken)
       /\ read' = [read EXCEPT ![name] = IF taken /\ Head(sent).name = name THEN {Head(sent).value} ELSE {}]
       /\ Upset(~answered \/ ~taken)
  /\ UNCHANGED <<session, modeVars, param, told, misled, pc, abort, handler, publishers, late>>

\* collect_telemetry takes the messages of several seconds, and drops all but the
\* telemetry.
CollectTelemetry ==
  /\ Calls("collect")
  /\ replies' = <<>>
  /\ UNCHANGED <<session, upsets, modeVars, param, told, read, misled, pc, abort, handler, publishers, late>>

-----------------------------------------------------------------------------
(* Publishers. *)

PubCmdVel ==
  /\ \/ /\ Calls("drive")
        /\ publishers' = Append(publishers, [drives |-> TRUE, left |-> DriveCount, attended |-> TRUE])
        /\ late' = IF abort THEN late + 1 ELSE late
     \/ /\ Calls("zeros")
        /\ publishers' = Append(publishers, [drives |-> FALSE, left |-> 1, attended |-> TRUE])
        /\ UNCHANGED late
  /\ UNCHANGED <<session, upsets, modeVars, linkVars, pc, abort, handler>>

\* Faulty variant: the process is not waited for.
ProcWaitNot ==
  /\ Calls("wait")
  /\ UNCHANGED <<session, upsets, modeVars, linkVars, pc, abort, handler, publishers, late>>

\* proc.wait
ProcWait ==
  /\ Calls("wait")
  /\ \A i \in DOMAIN publishers : ~publishers[i].attended
  /\ UNCHANGED <<session, upsets, modeVars, linkVars, pc, abort, handler, publishers, late>>

Publish ==
  \E i \in DOMAIN publishers :
    /\ HandleTwist(publishers[i].drives)
    /\ publishers' = IF publishers[i].left = 1 THEN RemoveAt(publishers, i)
                     ELSE [publishers EXCEPT ![i].left = @ - 1]
    /\ UNCHANGED <<session, upsets, linkVars, calls, pc, abort, handler, late>>

-----------------------------------------------------------------------------
(* What cuts in. *)

\* Ctrl-C goes to all processes of the terminal.  The script, once it has its
\* handler, goes on with its calls; a docker client ends, or not, while its
\* publisher goes on in the container.
Interrupt ==
  /\ May("operator") /\ Upset(TRUE)
  /\ pc # "ended" \/ calls # <<>>
  /\ IF handler THEN abort' = TRUE /\ UNCHANGED <<calls, pc>>
                ELSE pc' = "ended" /\ calls' = <<>> /\ UNCHANGED abort
  /\ \E survives \in BOOLEAN :
       publishers' = [i \in DOMAIN publishers |->
                        [publishers[i] EXCEPT !.attended = @ /\ survives]]
  /\ UNCHANGED <<session, modeVars, linkVars, handler, late>>

\* The USB cable is pulled: the script ends with an exception.
LinkBreaks ==
  /\ May("link") /\ Upset(TRUE)
  /\ calls # <<>> /\ Head(calls).op \in {"set", "get", "collect"}
  /\ pc' = "ended" /\ calls' = <<>>
  /\ UNCHANGED <<session, modeVars, linkVars, abort, handler, publishers, late>>

\* The pilot takes over, or gives the rover back.
ModeSwitch ==
  /\ May("pilot") /\ Upset(TRUE)
  /\ OnActivate \/ OnDeactivate
  /\ UNCHANGED <<session, linkVars, calls, pc, abort, handler, publishers, late>>

\* confirm, answered with yes, and install_abort_handler
Confirmed == abort' = FALSE /\ handler' = TRUE /\ late' = 0

=============================================================================
