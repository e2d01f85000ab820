---------------------------- MODULE TuningStages -----------------------------
(***************************************************************************)
(* The tuning scripts: the limits of stage 1, the binary search of stage   *)
(* 2A, and the sweeps over gains of stages 2B, 2C and 3, driven on the     *)
(* rover by an operator who may press Ctrl-C.                              *)
(*                                                                         *)
(* A gain is its position in P_VALUES or I_VALUES.  What a trial of a sweep*)
(* measures is free: whether it exceeds the limit of overshoot or          *)
(* oscillation, and an error on a scale on which Limit is the limit of the *)
(* steady error and Worst what the best error starts from.  Stage 2A drives*)
(* a vehicle that needs the value Ideal.                                   *)
(***************************************************************************)
EXTENDS TuningLib, FiniteSets

CONSTANTS
  LastGain,    \* the last position of a sweep
  Limit, Worst,
  Unit,        \* 0.5 m/s; the search halves whole multiples of it
  MaxIters     \* of the search

VARIABLES
  best,                   \* the results; in stage 1, 0 for a limit without one
  sweep, index, error,    \* the sweep, its next value, best_p_error or best_i_error
  measured,               \* ghost: the trials of the sweeps
  lo, hi,                 \* what the search has left
  speed, total, tested,   \* of the iteration that is driven
  sure                    \* ghost: all speeds so far were measured, with P and I at 0

sweepVars == <<sweep, error, measured>>
searchVars == <<lo, hi, speed, total, tested, sure>>
stageVars == <<best, sweepVars, index, searchVars>>
vars == <<modeVars, libVars, stageVars>>

-----------------------------------------------------------------------------
(* What is driven. *)

MaxSpeed == [name |-> "RO_MAX_THR_SPEED", coasts |-> FALSE]
Acceleration == [name |-> "RO_ACCEL_LIM", coasts |-> FALSE]
Deceleration == [name |-> "RO_DECEL_LIM", coasts |-> TRUE]
MaxYawRate == [name |-> "RO_YAW_RATE_LIM", coasts |-> FALSE]

Limits == <<MaxSpeed, Acceleration, Deceleration, MaxYawRate>>

\* run_speed_test, which other tests repeat
Trial == <<Drive, Collect, Wait>> \o Stop

YawRateTrial == Trial

\* run_heading_step_test: a turn, then straight on, and one stop.
HeadingTrial == <<Drive, Collect, Wait>> \o Trial

SpeedSweeps ==
  [reads |-> <<Get("RO_MAX_THR_SPEED")>>, gains |-> <<"RO_SPEED_P", "RO_SPEED_I">>,
   trial |-> Trial, verification |-> Trial]

YawRateSweeps ==
  [reads |-> <<Get("RO_YAW_RATE_P"), Get("RO_YAW_RATE_I"), Get("RO_YAW_RATE_LIM")>>,
   gains |-> <<"RO_YAW_RATE_P", "RO_YAW_RATE_I">>,
   trial |-> YawRateTrial, verification |-> YawRateTrial \o YawRateTrial]

HeadingSweep ==
  [reads |-> <<Get("RO_YAW_P"), Get("RO_YAW_RATE_P")>>, gains |-> <<"RO_YAW_P">>,
   trial |-> HeadingTrial, verification |-> HeadingTrial \o HeadingTrial \o Trial]

Sweeps == [stage2b |-> SpeedSweeps, stage2c |-> YawRateSweeps, stage3 |-> HeadingSweep]

ASSUME ParamsAssumption ==
  {"RO_MAX_THR_SPEED", "RO_ACCEL_LIM", "RO_DECEL_LIM", "RO_YAW_RATE_LIM", "RO_SPEED_P", "RO_SPEED_I",
   "RO_YAW_RATE_P", "RO_YAW_RATE_I", "RO_YAW_P"} \subseteq Params

\* Errors are absolute values, or the sum of two, and best_p_error starts from a
\* positive one.
ASSUME SweepAssumption ==
  /\ DriveCount \in Nat \ {0}
  /\ \A s \in Sessions : s.errors \subseteq Nat /\ s.before \subseteq [Params -> Nat]
  /\ LastGain \in Nat /\ Limit \in Int /\ Worst \in Nat

\* The multiples of Unit can be halved as often as the search does.
ASSUME SearchAssumption ==
  /\ MaxIters \in 1..8 /\ Unit \in Nat /\ 256 <= Unit
  /\ \A s \in Sessions : s.ideal \in Nat /\ s.tolerance \in Nat

stage == session.stage
Plan == Sweeps[stage]
Gain == Plan.gains[sweep]

\* The parameters the script has a result for.
Result(limit) == IF best[limit.name] # 0 THEN <<limit.name>> ELSE <<>>

Names ==
  IF stage = "stage1"
  THEN Result(MaxSpeed) \o Result(Acceleration) \o Result(Deceleration) \o Result(MaxYawRate)
  ELSE IF stage = "stage2a" THEN <<"RO_MAX_THR_SPEED">> ELSE Plan.gains

\* The calls that write the results.
Writes == [i \in DOMAIN Names |-> Set(Names[i], best[Names[i]])]

Init ==
  /\ ModeInit /\ LibInit
  /\ best = [p \in Params |-> 0]
  /\ sweep = 1 /\ index = (IF stage = "stage1" THEN 1 ELSE 0) /\ error = Worst /\ measured = {}
  /\ lo = 0 /\ hi = 0 /\ speed = 1 /\ total = 0 /\ tested = 0 /\ sure = TRUE

\* What a script does between two calls.
Go(from, to, next) ==
  /\ calls = <<>> /\ pc = from
  /\ calls' = next /\ pc' = to
  /\ UNCHANGED <<session, modeVars, linkVars, publishers>>

Step(from, to, next) == Go(from, to, next) /\ UNCHANGED <<upsets, abort, handler, late>>

-----------------------------------------------------------------------------
(* Beginning and end. *)

\* connect_mavlink returns or raises.
Connect ==
  /\ \/ Step("connect", "ended", <<>>)
     \/ stage = "stage1" /\ Step("connect", "test", <<>>)
     \/ stage = "stage2a" /\ Step("connect", "zero", <<Get("RO_SPEED_P"), Get("RO_SPEED_I")>>)
     \/ stage \in DOMAIN Sweeps /\ Step("connect", "ready", Plan.reads)
  /\ UNCHANGED stageVars

\* The operator does not confirm.
Decline == Step("ready", "ended", <<>>) /\ UNCHANGED stageVars

\* The summary, and --apply.
Conclude ==
  /\ Step("result", "ended", IF session.apply THEN Writes ELSE <<>>)
  /\ UNCHANGED stageVars

-----------------------------------------------------------------------------
(* Stages 2B, 2C and 3. *)

StartSweeps ==
  /\ stage \in DOMAIN Sweeps
  /\ Go("ready", "sweep", IF Len(Plan.gains) = 2 THEN <<Set(Plan.gains[2], 0)>> ELSE <<>>)
  /\ Confirmed /\ UNCHANGED upsets
  /\ UNCHANGED stageVars

\* Faulty variant: the flag is not looked at.
TryGainAnyway ==
  /\ index <= LastGain
  /\ Step("sweep", "judge", <<Set(Gain, index)>> \o Plan.trial)
  /\ UNCHANGED stageVars

TryGain ==
  /\ ~abort /\ index <= LastGain
  /\ Step("sweep", "judge", <<Set(Gain, index)>> \o Plan.trial)
  /\ UNCHANGED stageVars

SweepEnds ==
  /\ abort \/ index > LastGain
  /\ Step("sweep", "swept", <<>>)
  /\ UNCHANGED stageVars

Tried(over, e) ==
  [sweep |-> sweep, gains |-> [i \in DOMAIN Plan.gains |-> param[Plan.gains[i]]], over |-> over, error |-> e]

JudgeOver(e) ==
  /\ Step("judge", "swept", <<>>)
  /\ measured' = measured \cup {Tried(TRUE, e)}
  /\ UNCHANGED <<best, sweep, error, index, searchVars>>

\* The sweep over I ends with the first error within the limit.  The score of stage
\* 3 is always less than what it starts from.
Judge(e) ==
  /\ stage = "stage3" => e < Worst
  /\ Step("judge", IF sweep = 2 /\ e < Limit THEN "swept" ELSE "sweep", <<>>)
  /\ measured' = measured \cup {Tried(FALSE, e)}
  /\ best' = IF e < error THEN [best EXCEPT ![Gain] = index] ELSE best
  /\ error' = IF e < error THEN e ELSE error
  /\ index' = index + 1
  /\ UNCHANGED <<sweep, searchVars>>

\* Faulty variant: the best P is written only in the end.
SweptUnset ==
  /\ Step("swept", IF Len(Plan.gains) = 2 /\ sweep = 1 THEN "choose" ELSE "verify",
          IF Len(Plan.gains) = 2 /\ sweep = 1 THEN <<>> ELSE Stop)
  /\ UNCHANGED stageVars

\* After the sweep over P its best value is written; after the last, the rover is
\* stopped.
Swept ==
  /\ Step("swept", IF Len(Plan.gains) = 2 /\ sweep = 1 THEN "choose" ELSE "verify",
          IF Len(Plan.gains) = 2 /\ sweep = 1 THEN <<Set(Gain, best[Gain])>> ELSE Stop)
  /\ UNCHANGED stageVars

SweepI ==
  /\ error > Limit /\ ~abort
  /\ Step("choose", "sweep", <<>>)
  /\ sweep' = 2 /\ index' = 1
  /\ UNCHANGED <<best, error, measured, searchVars>>

SkipI ==
  /\ error <= Limit \/ abort
  /\ Step("choose", "verify", Stop)
  /\ UNCHANGED stageVars

Verify ==
  /\ Step("verify", "result", IF abort THEN <<>> ELSE Writes \o Plan.verification)
  /\ UNCHANGED stageVars

SweepStep ==
  \/ StartSweeps \/ TryGain \/ SweepEnds \/ Swept \/ SweepI \/ SkipI \/ Verify
  \/ \E e \in session.errors : Judge(e) \/ JudgeOver(e)

-----------------------------------------------------------------------------
(* Stage 2A. *)

mid == (lo + hi) \div 2

\* A read that failed counts as 0.
NonZero(name) == read[name] # {} /\ read[name] # {0}

ZeroGains ==
  /\ Step("zero", "ready",
          (IF NonZero("RO_SPEED_P") THEN <<Set("RO_SPEED_P", 0)>> ELSE <<>>)
          \o (IF NonZero("RO_SPEED_I") THEN <<Set("RO_SPEED_I", 0)>> ELSE <<>>)
          \o <<Get("RO_MAX_THR_SPEED")>>)
  /\ UNCHANGED stageVars

Current(default) ==
  IF NonZero("RO_MAX_THR_SPEED") THEN CHOOSE v \in read["RO_MAX_THR_SPEED"] : TRUE ELSE default

StartSearch ==
  /\ stage = "stage2a"
  /\ Go("ready", "search", <<>>)
  /\ Confirmed /\ UNCHANGED upsets
  /\ lo' = Unit
  /\ hi' = IF 2 * Current(4 * Unit) > 8 * Unit THEN 2 * Current(4 * Unit) ELSE 8 * Unit
  /\ best' = [best EXCEPT !["RO_MAX_THR_SPEED"] = Current(4 * Unit)]
  /\ UNCHANGED <<sweepVars, index, speed, total, tested, sure>>

Iterate ==
  /\ ~abort /\ index < MaxIters
  /\ Step("search", "speeds", <<Set("RO_MAX_THR_SPEED", mid)>>)
  /\ speed' = 1 /\ total' = 0 /\ tested' = 0
  /\ UNCHANGED <<best, sweepVars, index, lo, hi, sure>>

StopSearching ==
  /\ abort \/ index = MaxIters
  /\ Step("search", "found", IF abort THEN Stop ELSE <<>>)
  /\ UNCHANGED stageVars

Speeds == 1..3  \* times Unit

MeasureSpeed ==
  /\ ~abort /\ speed \in Speeds /\ speed * Unit < mid
  /\ Step("speeds", "measure", Trial)
  /\ UNCHANGED stageVars

SkipSpeed ==
  /\ ~abort /\ speed \in Speeds /\ speed * Unit >= mid
  /\ Step("speeds", "speeds", <<>>)
  /\ speed' = speed + 1
  /\ UNCHANGED <<best, sweepVars, index, lo, hi, total, tested, sure>>

SpeedsEnd ==
  /\ abort \/ speed \notin Speeds
  /\ Step("speeds", "average", <<>>)
  /\ UNCHANGED stageVars

\* By how much the vehicle is too fast, as a multiple of the speed over the
\* parameter: only the feed-forward counts while P and I are 0.
SpeedError ==
  IF param["RO_SPEED_P"] = 0 /\ param["RO_SPEED_I"] = 0 THEN session.ideal - param["RO_MAX_THR_SPEED"] ELSE 0

\* Without samples the speed is taken to be 0.
Measure(seen) ==
  /\ Go("measure", "speeds", <<>>) /\ UNCHANGED <<abort, handler, late>>
  /\ Upset(~seen)
  /\ total' = total + (IF seen THEN SpeedError ELSE -param["RO_MAX_THR_SPEED"])
  /\ tested' = tested + 1
  /\ speed' = speed + 1
  /\ sure' = (sure /\ seen /\ param["RO_SPEED_P"] = 0 /\ param["RO_SPEED_I"] = 0)
  /\ UNCHANGED <<best, sweepVars, index, lo, hi>>

NothingTested ==
  /\ tested = 0
  /\ Step("average", "search", <<>>)
  /\ hi' = mid
  /\ index' = index + 1
  /\ UNCHANGED <<best, sweepVars, lo, speed, total, tested, sure>>

Small(deviation, value) == 100 * deviation < session.tolerance * value /\ -100 * deviation < session.tolerance * value

WithinTolerance == Small(total, tested * param["RO_MAX_THR_SPEED"])

Accept ==
  /\ tested > 0 /\ WithinTolerance
  /\ Step("average", "found", <<>>)
  /\ best' = [best EXCEPT !["RO_MAX_THR_SPEED"] = mid]
  /\ UNCHANGED <<sweepVars, index, searchVars>>

\* Faulty variant: an error of either sign lowers the upper end.
HalveDown ==
  /\ tested > 0 /\ ~WithinTolerance
  /\ Step("average", "search", <<>>)
  /\ lo' = lo /\ hi' = mid
  /\ best' = [best EXCEPT !["RO_MAX_THR_SPEED"] = mid]
  /\ index' = index + 1
  /\ UNCHANGED <<sweepVars, speed, total, tested, sure>>

Halve ==
  /\ tested > 0 /\ ~WithinTolerance
  /\ Step("average", "search", <<>>)
  /\ IF total > 0 THEN lo' = mid /\ hi' = hi ELSE lo' = lo /\ hi' = mid
  /\ best' = [best EXCEPT !["RO_MAX_THR_SPEED"] = mid]
  /\ index' = index + 1
  /\ UNCHANGED <<sweepVars, speed, total, tested, sure>>

Found == Step("found", "result", Stop) /\ UNCHANGED stageVars

SearchStep ==
  \/ ZeroGains \/ StartSearch \/ Iterate \/ StopSearching
  \/ MeasureSpeed \/ SkipSpeed \/ SpeedsEnd \/ \E seen \in GoesWell : Measure(seen)
  \/ NothingTested \/ Accept \/ Halve \/ Found

-----------------------------------------------------------------------------
(* Stage 1. *)

Test == Limits[index]

\* A test is over, and the next one begins.
Leave(from, next) == Step(from, "test", next) /\ index' = index + 1 /\ UNCHANGED <<sweepVars, searchVars>>

\* --skip-... or no confirmation
SkipTest == index \in DOMAIN Limits /\ Leave("test", <<>>) /\ UNCHANGED best

StartTest ==
  /\ index \in DOMAIN Limits /\ index \notin session.skip
  /\ IF Test.coasts THEN Go("test", "coast", <<Drive, Wait>>) ELSE Go("test", "tested", Trial)
  /\ Confirmed /\ UNCHANGED upsets
  /\ UNCHANGED stageVars

Coast ==
  /\ ~abort
  /\ Step("coast", "coasted", Stop \o <<Collect>>)
  /\ UNCHANGED stageVars

TestAborted ==
  /\ abort
  /\ Leave("tested", Stop) \/ Leave("coast", Stop)
  /\ UNCHANGED best

\* The samples are enough for a limit, or not.  Ctrl-C while the rover coasts makes
\* no difference.
TestEnds ==
  /\ (~abort /\ Leave("tested", <<>>)) \/ Leave("coasted", <<>>)
  /\ best' \in {best, [best EXCEPT ![Test.name] = 1]}

Summary ==
  /\ index \notin DOMAIN Limits
  /\ Step("test", IF Names = <<>> THEN "ended" ELSE "result", [i \in DOMAIN Names |-> Get(Names[i])])
  /\ UNCHANGED stageVars

LimitStep == SkipTest \/ StartTest \/ Coast \/ TestAborted \/ TestEnds \/ Summary

-----------------------------------------------------------------------------
ScriptStep == Connect \/ Decline \/ Conclude \/ SweepStep \/ SearchStep \/ LimitStep

LibStep ==
  /\ ParamSet \/ ParamGet \/ CollectTelemetry \/ PubCmdVel \/ ProcWait
  /\ UNCHANGED stageVars

Published == Publish /\ UNCHANGED stageVars

ModeStep == UpdateSetpoint /\ UNCHANGED <<libVars, stageVars>>

Tick == ModeTick /\ UNCHANGED <<libVars, stageVars>>

Mishap == (Interrupt \/ LinkBreaks \/ ModeSwitch) /\ UNCHANGED stageVars

Next == ScriptStep \/ LibStep \/ Published \/ ModeStep \/ Tick \/ Mishap

Spec == Init /\ [][Next]_vars

\* The publishers run on by themselves, and PX4 asks the mode for setpoints.  The
\* script and the operator may stop anywhere.
FairSpec == Spec /\ WF_vars(Published) /\ WF_vars(ModeStep) /\ WF_vars(Tick)

-----------------------------------------------------------------------------
(* Properties. *)

\* The link keeps its order and holds no more answers than calls, the script waits
\* for one publisher at most and only while it has calls to make, and the search
\* keeps its ends apart.
TypeOK ==
  /\ param \in [Params -> Nat] /\ best \in [Params -> Nat]
  /\ \A i \in DOMAIN replies : replies[i].name \in Params
  /\ Cardinality({i \in DOMAIN publishers : publishers[i].attended}) <= 1
  /\ \A i \in DOMAIN publishers : publishers[i].attended => handler /\ publishers[i].left \in 1..DriveCount
  /\ moving => active
  /\ abort => handler
  /\ lo <= hi /\ (mid = lo => lo = hi)
  /\ error \in 0..Worst

\* What param_set reports as written is what PX4 holds, although requests are lost
\* and the answer it takes may be a late one to another call.  The exception is stage
\* 2A: when it gets no answer to its read of RO_MAX_THR_SPEED and is stopped with
\* Ctrl-C, --apply writes the default, and the late answer to the read may confirm
\* it although the search has written another value before.
DefaultApplied == stage = "stage2a" /\ abort /\ read["RO_MAX_THR_SPEED"] = {}

ReportedIsHeld ==
  \A p \in Params : ~(DefaultApplied /\ p = "RO_MAX_THR_SPEED") => \A v \in told[p] : param[p] = v

\* The gains of a sweep that are printed, and written with --apply, were driven in
\* this combination, within the limit of overshoot and with the least error of the
\* sweep; or nothing was, and they are the first of the list.  This fails as soon as
\* one write is lost, for no script looks at what param_set returns.
GainsMeasured ==
  pc = "result" /\ stage \in DOMAIN Sweeps /\ ~misled =>
    \A s \in DOMAIN Plan.gains :
      LET gains == [i \in DOMAIN Plan.gains |-> IF i <= s THEN best[Plan.gains[i]] ELSE 0]
          within == {t \in measured : t.sweep = s /\ ~t.over} IN
      best[Plan.gains[s]] # 0 =>
        \E t \in within : t.gains = gains /\ \A u \in within : t.error <= u.error

\* If all its writes and samples come through, the search of stage 2A for a value
\* in its range ends within the tolerance, or at one end of an interval around it
\* that its eight halvings have left.
SearchFinds ==
  pc = "result" /\ stage = "stage2a" /\ session.ideal \in Unit..(8 * Unit) /\ sure /\ ~misled /\ ~abort =>
    \/ Small(session.ideal - best["RO_MAX_THR_SPEED"], best["RO_MAX_THR_SPEED"])
    \/ lo <= session.ideal /\ session.ideal <= hi /\ best["RO_MAX_THR_SPEED"] \in {lo, hi} /\ index = MaxIters

DrivesOf(s) == {i \in DOMAIN s : s[i].op = "drive"}
Drives(s) == Cardinality(DrivesOf(s))

\* Once Ctrl-C is noted the script adds no drive to those that its test or its
\* verification still lists, whichever loop it is in.  Those are driven: two in a
\* heading test, up to five in a verification, where nothing looks at the flag,
\* although the guide says that Ctrl-C stops the rover.  Only a next test that the
\* operator confirms begins anew.
NothingBegunAfterAbort ==
  [][abort /\ abort' => late' + Drives(calls') <= late + Drives(calls)]_vars

\* The rover comes to rest whatever becomes of the script, the cable and the docker
\* clients: publishers that nobody waits for end, and the mode stops on silence.
MotionEnds == <>[]~moving

=============================================================================
