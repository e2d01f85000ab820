---------------------------- MODULE TuningProofs ----------------------------
(***************************************************************************)
(* What the tuning scripts guarantee for every number of gains, every      *)
(* error that is measured, every vehicle and every moment of Ctrl-C:       *)
(*   - the gains a sweep ends with were driven (GainsMeasured): between a  *)
(*     write and its trial no other write is on the list of calls, and     *)
(*     the error that is kept is the least one of the sweep (SweepInv);    *)
(*   - types, and no drive is added to the list of calls after Ctrl-C      *)
(*     (TypeOK, NothingBegunAfterAbort): what is on that list at each      *)
(*     place of a script (BaseInv);                                        *)
(*   - the search of stage 2A (SearchFinds): the interval is as many       *)
(*     halvings narrower as trials were judged (WidthInv), and while       *)
(*     nothing was missed the vehicle's value is in it (SearchInv);        *)
(*   - what is reported is held (ReportedIsHeld): at each place of a       *)
(*     script, which values an answer can confirm (HeldInv).               *)
(***************************************************************************)
EXTENDS TuningStages, FiniteSetTheorems, SequenceTheorems, TLAPS

Driven == {Drive, Zeros, Wait, Collect}

Reading == {Get(name) : name \in Params}

Writing == {Set(name, value) : name \in Params, value \in Nat}

AllCalls == Driven \cup Reading \cup Writing

NoSets(s) == \A i \in DOMAIN s : s[i].op # "set"

\* A parameter has a value, or the next call gives it.
Written(name, value) ==
  \/ NoSets(calls) /\ param[name] = value
  \/ /\ calls # <<>> /\ calls[1] = Set(name, value)
     /\ \A i \in DOMAIN calls : i # 1 => calls[i].op # "set"

Sweeping == stage \in DOMAIN Sweeps
P == Plan.gains[1]
I == Plan.gains[2]
Two == Len(Plan.gains) = 2

Within(s) == {t \in measured : t.sweep = s /\ ~t.over}
UpTo(s) == [i \in DOMAIN Plan.gains |-> IF i <= s THEN best[Plan.gains[i]] ELSE 0]

SweepTypes ==
  /\ session \in Sessions
  /\ pc \in {"connect", "ready", "sweep", "judge", "swept", "choose", "verify", "result", "ended"}
  /\ sweep \in DOMAIN Plan.gains /\ index \in Nat /\ error \in Int
  /\ best \in [Params -> Nat] /\ DOMAIN param = Params
  /\ calls \in Seq(AllCalls)
  /\ \A t \in measured : t.sweep \in 1..sweep /\ t.error \in Int
  /\ pc \in {"connect", "ready"} => sweep = 1 /\ measured = {} /\ best[P] = 0
  /\ Two /\ sweep = 1 => best[I] = 0
  /\ pc = "choose" => Two /\ sweep = 1

\* What PX4 holds while a gain is tried.
ParamInv ==
  /\ pc = "sweep" /\ sweep = 1 /\ Two => Written(I, 0)
  /\ pc = "sweep" /\ sweep = 2 => NoSets(calls)
  /\ pc = "judge" => Written(Gain, index)
  /\ pc = "judge" /\ sweep = 1 /\ Two => param[I] = 0
  /\ pc = "choose" => Written(P, best[P])
  /\ pc \in {"sweep", "judge"} /\ sweep = 2 => param[P] = best[P]

\* What the trials say of the best gain.
TrialInv ==
  /\ \A t \in Within(sweep) : error <= t.error
  /\ best[Gain] # 0 => \E t \in Within(sweep) : t.gains = UpTo(sweep) /\ t.error = error
  /\ sweep = 2 /\ best[P] # 0 => \E t \in Within(1) : t.gains = UpTo(1) /\ \A u \in Within(1) : t.error <= u.error

SweepInv == Sweeping => SweepTypes /\ (~misled => ParamInv /\ TrialInv)

-----------------------------------------------------------------------------
\* The gains of the three stages.
LEMMA GainsFacts ==
  ASSUME Sweeping
  PROVE  /\ Plan.gains \in {<<"RO_SPEED_P", "RO_SPEED_I">>, <<"RO_YAW_RATE_P", "RO_YAW_RATE_I">>, <<"RO_YAW_P">>}
         /\ Len(Plan.gains) \in {1, 2} /\ DOMAIN Plan.gains = 1..Len(Plan.gains)
         /\ \A i \in DOMAIN Plan.gains : Plan.gains[i] \in Params
         /\ Two => P # I
<1>1. Plan \in {SpeedSweeps, YawRateSweeps, HeadingSweep}
  BY DEF Sweeping, Plan, Sweeps
<1>2. Plan.gains \in {<<"RO_SPEED_P", "RO_SPEED_I">>, <<"RO_YAW_RATE_P", "RO_YAW_RATE_I">>, <<"RO_YAW_P">>}
  BY <1>1 DEF SpeedSweeps, YawRateSweeps, HeadingSweep
<1>3. \A i \in DOMAIN Plan.gains : Plan.gains[i] \in Params
  BY <1>2, ParamsAssumption
<1> QED BY <1>2, <1>3 DEF Two, P, I

\* A trial drives and waits, and writes nothing.
LEMMA TrialFacts ==
  ASSUME Sweeping
  PROVE  Plan.trial \in Seq(Driven) /\ Plan.verification \in Seq(Driven) /\ Plan.reads \in Seq(AllCalls)
<1>1. Stop \in Seq(Driven)
  BY DEF Stop, Driven
<1>2. Trial \in Seq(Driven)
  <2>1. <<Drive, Collect, Wait>> \in Seq(Driven)
    BY DEF Driven
  <2> QED BY <1>1, <2>1, ConcatProperties DEF Trial
<1>3. HeadingTrial \in Seq(Driven)
  <2>1. <<Drive, Collect, Wait>> \in Seq(Driven)
    BY DEF Driven
  <2> QED BY <1>2, <2>1, ConcatProperties DEF HeadingTrial
<1>4. /\ YawRateTrial \o YawRateTrial \in Seq(Driven)
      /\ HeadingTrial \o HeadingTrial \o Trial \in Seq(Driven)
  BY <1>2, <1>3, ConcatProperties DEF YawRateTrial
<1>6. Plan \in {SpeedSweeps, YawRateSweeps, HeadingSweep}
  BY DEF Sweeping, Plan, Sweeps
<1>7. Plan.trial \in {Trial, YawRateTrial, HeadingTrial}
  BY <1>6 DEF SpeedSweeps, YawRateSweeps, HeadingSweep
<1>8. Plan.verification \in {Trial, YawRateTrial \o YawRateTrial, HeadingTrial \o HeadingTrial \o Trial}
  BY <1>6 DEF SpeedSweeps, YawRateSweeps, HeadingSweep
<1>9. Plan.reads \in Seq(AllCalls)
  <2>1. Plan.reads \in {<<Get("RO_MAX_THR_SPEED")>>, <<Get("RO_YAW_P"), Get("RO_YAW_RATE_P")>>,
                         <<Get("RO_YAW_RATE_P"), Get("RO_YAW_RATE_I"), Get("RO_YAW_RATE_LIM")>>}
    BY <1>6 DEF SpeedSweeps, YawRateSweeps, HeadingSweep
  <2>2. /\ Get("RO_MAX_THR_SPEED") \in AllCalls /\ Get("RO_YAW_P") \in AllCalls
        /\ Get("RO_YAW_RATE_P") \in AllCalls /\ Get("RO_YAW_RATE_I") \in AllCalls
        /\ Get("RO_YAW_RATE_LIM") \in AllCalls
    BY ParamsAssumption DEF AllCalls, Reading
  <2>3. <<Get("RO_MAX_THR_SPEED")>> \in Seq(AllCalls)
    BY <2>2
  <2>4. <<Get("RO_YAW_P"), Get("RO_YAW_RATE_P")>> \in Seq(AllCalls)
    BY <2>2
  <2>5. <<Get("RO_YAW_RATE_P"), Get("RO_YAW_RATE_I"), Get("RO_YAW_RATE_LIM")>> \in Seq(AllCalls)
    BY <2>2
  <2> QED BY <2>1, <2>3, <2>4, <2>5
<1> QED BY <1>2, <1>3, <1>4, <1>7, <1>8, <1>9 DEF YawRateTrial

\* What is driven writes nothing.
LEMMA DrivenFacts ==
  ASSUME NEW s \in Seq(Driven)
  PROVE  s \in Seq(AllCalls) /\ NoSets(s)
<1>1. DOMAIN s = 1..Len(s) /\ Len(s) \in Nat /\ \A i \in 1..Len(s) : s[i] \in Driven
  BY ElementOfSeq, LenProperties
<1>2. \A c \in Driven : c.op # "set"
  BY DEF Driven, Drive, Zeros, Wait, Collect
<1>3. Driven \subseteq AllCalls
  BY DEF AllCalls
<1> QED BY <1>1, <1>2, <1>3 DEF NoSets

\* A write put before a trial is the only one.
LEMMA WriteFirst ==
  ASSUME NEW s \in Seq(Driven), NEW name \in Params, NEW value \in Nat
  PROVE  LET q == <<Set(name, value)>> \o s IN
         /\ q \in Seq(AllCalls) /\ q # <<>> /\ q[1] = Set(name, value)
         /\ \A i \in DOMAIN q : i # 1 => q[i].op # "set"
<1> DEFINE w == <<Set(name, value)>>
           q == w \o s
<1>1. Set(name, value) \in AllCalls
  BY DEF AllCalls, Writing
<1>2. w \in Seq(AllCalls) /\ Len(w) = 1 /\ w[1] = Set(name, value)
  BY <1>1
<1>3. s \in Seq(AllCalls) /\ NoSets(s) /\ Len(s) \in Nat /\ DOMAIN s = 1..Len(s)
  BY DrivenFacts, LenProperties
<1> HIDE DEF w
<1>4. /\ q \in Seq(AllCalls) /\ Len(q) = Len(w) + Len(s)
      /\ \A i \in 1..Len(q) : q[i] = IF i <= Len(w) THEN w[i] ELSE s[i - Len(w)]
  BY <1>2, <1>3, ConcatProperties
<1>5. DOMAIN q = 1..Len(q)
  BY <1>4, LenProperties
<1>6. Len(<<>>) = 0
  OBVIOUS
<1> HIDE DEF q
<1>7. q # <<>> /\ q[1] = Set(name, value)
  BY <1>2, <1>3, <1>4, <1>6
<1>8. ASSUME NEW i \in DOMAIN q, i # 1 PROVE q[i].op # "set"
  <2>1. i - 1 \in DOMAIN s /\ q[i] = s[i - 1]
    BY <1>2, <1>3, <1>4, <1>5, <1>8
  <2> QED BY <1>3, <2>1 DEF NoSets
<1> QED BY <1>4, <1>7, <1>8 DEF q, w

\* The results as calls.
LEMMA WritesFacts ==
  ASSUME Sweeping, best \in [Params -> Nat]
  PROVE  Writes \in Seq(AllCalls)
<1>1. Names = Plan.gains
  BY DEF Sweeping, Names, Sweeps
<1>2. \A i \in DOMAIN Plan.gains : Set(Plan.gains[i], best[Plan.gains[i]]) \in AllCalls
  BY GainsFacts DEF AllCalls, Writing
<1>3. /\ Writes = [i \in 1..Len(Plan.gains) |-> Set(Plan.gains[i], best[Plan.gains[i]])]
      /\ Len(Plan.gains) \in Nat
  BY <1>1, GainsFacts DEF Writes
<1>4. Writes \in [1..Len(Plan.gains) -> AllCalls]
  BY <1>2, <1>3, GainsFacts
<1> QED BY <1>3, <1>4, SeqDef

\* What is left of the calls when one is made.
LEMMA RestFacts ==
  ASSUME calls \in Seq(AllCalls), calls # <<>>
  PROVE  /\ Tail(calls) \in Seq(AllCalls) /\ Head(calls) = calls[1] /\ calls[1] \in AllCalls
         /\ (\A i \in DOMAIN calls : i # 1 => calls[i].op # "set") => NoSets(Tail(calls))
         /\ NoSets(calls) => NoSets(Tail(calls)) /\ Head(calls).op # "set"
<1>1. /\ DOMAIN calls = 1..Len(calls) /\ Len(calls) \in Nat \ {0}
      /\ Tail(calls) \in Seq(AllCalls) /\ Len(Tail(calls)) = Len(calls) - 1
      /\ \A i \in 1..Len(Tail(calls)) : Tail(calls)[i] = calls[i + 1]
      /\ Head(calls) = calls[1] /\ calls[1] \in AllCalls
      /\ DOMAIN Tail(calls) = 1..Len(Tail(calls))
  BY HeadTailProperties, LenProperties, EmptySeq, ElementOfSeq
<1>2. \A i \in DOMAIN Tail(calls) : i + 1 \in DOMAIN calls /\ i + 1 # 1 /\ Tail(calls)[i] = calls[i + 1]
  BY <1>1
<1> QED BY <1>1, <1>2 DEF NoSets

-----------------------------------------------------------------------------
(* Preservation.  The session never changes, so neither do its gains. *)

\* What is written in the session stays.
LEMMA SessionStays ==
  ASSUME session' = session
  PROVE  stage' = stage /\ Plan' = Plan /\ P' = P /\ I' = I /\ Two' = Two /\ Sweeping' = Sweeping
BY DEF stage, Plan, P, I, Two, Sweeping

\* What a script does between two calls leaves the parameters alone.
LEMMA GoFacts ==
  ASSUME NEW from, NEW to, NEW next, Go(from, to, next)
  PROVE  /\ calls = <<>> /\ pc = from /\ calls' = next /\ pc' = to
         /\ session' = session /\ param' = param /\ misled' = misled
BY DEF Go, linkVars

\* Only trials, results and the session matter to what is known of the trials.
LEMMA TrialsStay ==
  ASSUME TrialInv, session' = session, UNCHANGED <<best, sweep, error, measured>>
  PROVE  TrialInv'
<1>1. P' = P /\ Plan' = Plan /\ Gain' = Gain
  BY SessionStays DEF Gain
<1>2. \A s : Within(s)' = Within(s) /\ UpTo(s)' = UpTo(s)
  BY <1>1 DEF Within, UpTo
<1> QED BY <1>1, <1>2 DEF TrialInv

\* Steps after which nothing is to be tried keep the invariant.
LEMMA PauseKeeps ==
  ASSUME Sweeping, SweepInv, session' = session, UNCHANGED stageVars, DOMAIN param' = DOMAIN param,
         misled => misled', calls' \in Seq(AllCalls),
         \/ pc' \in {"swept", "verify", "result", "ended"}
         \/ pc = "connect" /\ pc' = "ready"
  PROVE  SweepInv'
<1>1. P' = P /\ I' = I /\ Two' = Two /\ Plan' = Plan
  BY SessionStays
<1>2. UNCHANGED <<best, sweep, index, error, measured>>
  BY DEF stageVars, sweepVars
<1>3. SweepTypes
  BY DEF SweepInv
<1>4. SweepTypes'
  BY <1>1, <1>2, <1>3 DEF SweepTypes
<1>5. ParamInv'
  BY DEF ParamInv
<1>6. ~misled' => TrialInv'
  BY <1>2, TrialsStay DEF SweepInv
<1> QED BY <1>4, <1>5, <1>6 DEF SweepInv

\* Steps that leave the script, the link and the trials alone keep it.
LEMMA AsideKeeps ==
  ASSUME Sweeping, SweepInv, UNCHANGED <<session, param, misled, calls, pc, stageVars>>
  PROVE  SweepInv'
<1>1. P' = P /\ I' = I /\ Two' = Two /\ Plan' = Plan
  BY SessionStays
<1>2. UNCHANGED <<best, sweep, index, error, measured>>
  BY DEF stageVars, sweepVars
<1>3. Gain' = Gain
  BY <1>1, <1>2 DEF Gain
<1>4. SweepTypes'
  BY <1>1, <1>2 DEF SweepInv, SweepTypes
<1>5. ~misled' => ParamInv'
  BY <1>1, <1>2, <1>3 DEF SweepInv, ParamInv, Written, NoSets
<1>6. ~misled' => TrialInv'
  BY <1>2, TrialsStay DEF SweepInv
<1> QED BY <1>4, <1>5, <1>6 DEF SweepInv

\* A call of the library keeps it: what is to be written is written by the first call.
LEMMA CallKeeps ==
  ASSUME Sweeping, SweepInv, LibStep
  PROVE  SweepInv'
<1>1. /\ calls # <<>> /\ calls' = Tail(calls) /\ pc' = pc /\ session' = session /\ UNCHANGED stageVars
      /\ misled => misled'
  <2>1. UNCHANGED stageVars
    BY DEF LibStep
  <2>2. CASE ParamSet
    <3>1. calls # <<>> /\ calls' = Tail(calls) /\ pc' = pc /\ session' = session
      BY <2>2 DEF ParamSet, Calls
    <3>2. PICK arrives \in GoesWell : misled' = (misled \/ ~arrives)
      BY <2>2, ZenonT(90) DEF ParamSet
    <3> QED BY <2>1, <3>1, <3>2
  <2>3. CASE ParamGet \/ CollectTelemetry
    BY <2>1, <2>3 DEF ParamGet, CollectTelemetry, Calls
  <2>4. CASE PubCmdVel \/ ProcWait
    BY <2>1, <2>4 DEF PubCmdVel, ProcWait, Calls, linkVars
  <2> QED BY <2>2, <2>3, <2>4 DEF LibStep
<1>2. P' = P /\ I' = I /\ Two' = Two /\ Plan' = Plan
  BY <1>1, SessionStays
<1>3. UNCHANGED <<best, sweep, index, error, measured>>
  BY <1>1 DEF stageVars, sweepVars
<1>4. Gain' = Gain
  BY <1>2, <1>3 DEF Gain
<1>5. SweepTypes
  BY DEF SweepInv
<1>6. calls \in Seq(AllCalls)
  BY <1>5 DEF SweepTypes
<1>7. /\ calls' \in Seq(AllCalls) /\ Head(calls) = calls[1]
      /\ (\A i \in DOMAIN calls : i # 1 => calls[i].op # "set") => NoSets(calls')
      /\ NoSets(calls) => NoSets(calls') /\ Head(calls).op # "set"
  BY <1>1, <1>6, RestFacts
<1>8. DOMAIN param' = DOMAIN param
  BY DEF LibStep, ParamSet, ParamGet, CollectTelemetry, PubCmdVel, ProcWait, linkVars
<1>9. SweepTypes'
  BY <1>1, <1>2, <1>3, <1>5, <1>7, <1>8 DEF SweepTypes
<1>10. ~misled' => TrialInv'
  BY <1>1, <1>3, TrialsStay DEF SweepInv
<1>11. ASSUME ~misled' PROVE ParamInv'
  <2>1. ParamInv
    BY <1>1, <1>11 DEF SweepInv
  <2>2. \A name, value : Set(name, value).op = "set" /\ Set(name, value).name = name /\ Set(name, value).value = value
    BY DEF Set
  <2>3. CASE Head(calls).op = "set"
    <3>1. param' = [param EXCEPT ![Head(calls).name] = Head(calls).value]
      BY <1>11, <2>3 DEF LibStep, ParamSet, ParamGet, CollectTelemetry, PubCmdVel, ProcWait, Calls
    <3>2. ASSUME NEW name \in Params, NEW value, Written(name, value)
          PROVE  /\ NoSets(calls') /\ param'[name] = value
                 /\ \A other \in Params : other # name => param'[other] = param[other]
      <4>1. calls[1] = Set(name, value) /\ NoSets(calls')
        BY <1>7, <2>3, <3>2 DEF Written
      <4>2. Head(calls).name = name /\ Head(calls).value = value
        BY <1>7, <2>2, <4>1
      <4>3. param' = [param EXCEPT ![name] = value]
        BY <3>1, <4>2
      <4> QED BY <1>5, <4>1, <4>3 DEF SweepTypes
    <3>3. P \in Params /\ Gain \in Params /\ (Two => I \in Params /\ I # P)
      BY <1>5, GainsFacts DEF SweepTypes, P, I, Two, Gain
    <3>4. sweep = 1 => Gain = P
      BY DEF Gain, P
    <3>5. sweep = 2 => Gain = I /\ Two
      BY <1>5, GainsFacts DEF SweepTypes, Gain, I, Two
    <3>6. pc = "sweep" /\ sweep = 1 /\ Two => NoSets(calls') /\ param'[I] = 0
      BY <2>1, <3>2, <3>3 DEF ParamInv
    <3>7. ~(pc = "sweep" /\ sweep = 2)
      BY <1>7, <2>1, <2>3 DEF ParamInv
    <3>8. pc = "judge" => NoSets(calls') /\ param'[Gain] = index
      BY <2>1, <3>2, <3>3 DEF ParamInv
    <3>9. pc = "judge" /\ sweep = 1 /\ Two => param'[I] = 0
      <4>1. ASSUME pc = "judge", sweep = 1, Two PROVE param'[I] = 0
        <5>1. I # Gain /\ param[I] = 0 /\ Written(Gain, index)
          BY <2>1, <3>3, <3>4, <4>1 DEF ParamInv
        <5> QED BY <3>2, <3>3, <4>1, <5>1
      <4> QED BY <4>1
    <3>10. pc = "judge" /\ sweep = 2 => param'[P] = best[P]
      <4>1. ASSUME pc = "judge", sweep = 2 PROVE param'[P] = best[P]
        <5>1. P # Gain /\ param[P] = best[P] /\ Written(Gain, index)
          BY <2>1, <3>3, <3>5, <4>1 DEF ParamInv
        <5> QED BY <3>2, <3>3, <4>1, <5>1
      <4> QED BY <4>1
    <3>11. pc = "choose" => NoSets(calls') /\ param'[P] = best[P]
      BY <2>1, <3>2, <3>3 DEF ParamInv
    <3> QED BY <1>1, <1>2, <1>3, <1>4, <3>6, <3>7, <3>8, <3>9, <3>10, <3>11 DEF ParamInv, Written, NoSets
  <2>4. CASE Head(calls).op # "set"
    <3>1. param' = param
      BY <2>4 DEF LibStep, ParamSet, ParamGet, CollectTelemetry, PubCmdVel, ProcWait, Calls, linkVars
    <3>2. ASSUME NEW name, NEW value, Written(name, value)
          PROVE  NoSets(calls') /\ param'[name] = value
      BY <1>7, <2>2, <2>4, <3>1, <3>2 DEF Written
    <3> QED BY <1>1, <1>2, <1>3, <1>4, <1>7, <2>1, <3>1, <3>2 DEF ParamInv, Written, NoSets
  <2> QED BY <2>3, <2>4
<1> QED BY <1>9, <1>10, <1>11 DEF SweepInv

\* One value is the first of the calls, or is there already.
LEMMA WriteAlone ==
  ASSUME NEW name \in Params, NEW value \in Nat
  PROVE  LET q == <<Set(name, value)>> IN
         q \in Seq(AllCalls) /\ q # <<>> /\ q[1] = Set(name, value) /\ \A i \in DOMAIN q : i = 1
<1>1. Set(name, value) \in AllCalls
  BY DEF AllCalls, Writing
<1> QED BY <1>1

\* The gains of a sweep and of its predecessor.
LEMMA GainIs ==
  ASSUME Sweeping, SweepTypes
  PROVE  /\ P \in Params /\ Gain \in Params /\ (Two => I \in Params /\ I # P)
         /\ sweep \in {1, 2} /\ (sweep = 1 => Gain = P) /\ (sweep = 2 => Two /\ Gain = I)
<1>1. sweep \in {1, 2} /\ (sweep = 2 => Two)
  BY GainsFacts DEF SweepTypes, Two
<1> QED BY <1>1, GainsFacts DEF SweepTypes, P, I, Two, Gain

\* With no call left, what was to be written is there.
LEMMA WrittenIs ==
  ASSUME NEW name, NEW value, Written(name, value), calls = <<>>
  PROVE  param[name] = value
BY DEF Written

\* The sweeps begin with I at 0.
LEMMA StartKeeps ==
  ASSUME Sweeping, SweepInv, StartSweeps
  PROVE  SweepInv'
<1> DEFINE next == IF Len(Plan.gains) = 2 THEN <<Set(Plan.gains[2], 0)>> ELSE <<>>
<1>1. Go("ready", "sweep", next) /\ UNCHANGED stageVars
  BY DEF StartSweeps
<1>2. calls = <<>> /\ pc = "ready" /\ calls' = next /\ pc' = "sweep" /\ UNCHANGED <<session, param, misled>>
  BY <1>1, GoFacts
<1>3. P' = P /\ I' = I /\ Two' = Two /\ Plan' = Plan
  BY <1>2, SessionStays
<1>4. UNCHANGED <<best, sweep, index, error, measured>>
  BY <1>1 DEF stageVars, sweepVars
<1>5. SweepTypes
  BY DEF SweepInv
<1>6. sweep = 1
  BY <1>2, <1>5 DEF SweepTypes
<1>7. calls' \in Seq(AllCalls)
  <2>1. CASE Two
    BY <1>2, <1>5, <2>1, GainIs, WriteAlone DEF I, Two
  <2>2. CASE ~Two
    BY <1>2, <2>2 DEF Two
  <2> QED BY <2>1, <2>2
<1>8. SweepTypes'
  BY <1>2, <1>3, <1>4, <1>5, <1>6, <1>7 DEF SweepTypes
<1>9. ParamInv'
  <2>1. ASSUME Two PROVE calls' # <<>> /\ calls'[1] = Set(I, 0) /\ \A i \in DOMAIN calls' : i = 1
    BY <1>2, <1>5, <2>1, GainIs, WriteAlone DEF I, Two
  <2> QED BY <1>2, <1>3, <1>4, <1>6, <2>1 DEF ParamInv, Written
<1>10. ~misled' => TrialInv'
  BY <1>2, <1>4, TrialsStay DEF SweepInv
<1> QED BY <1>8, <1>9, <1>10 DEF SweepInv

\* Before a trial its gain is written.
LEMMA TryKeeps ==
  ASSUME Sweeping, SweepInv, TryGain
  PROVE  SweepInv'
<1> DEFINE next == <<Set(Gain, index)>> \o Plan.trial
<1>1. Go("sweep", "judge", next) /\ UNCHANGED stageVars
  BY DEF TryGain, Step
<1>2. calls = <<>> /\ pc = "sweep" /\ calls' = next /\ pc' = "judge" /\ UNCHANGED <<session, param, misled>>
  BY <1>1, GoFacts
<1>3. P' = P /\ I' = I /\ Two' = Two /\ Plan' = Plan
  BY <1>2, SessionStays
<1>4. UNCHANGED <<best, sweep, index, error, measured>>
  BY <1>1 DEF stageVars, sweepVars
<1>5. SweepTypes
  BY DEF SweepInv
<1>6. /\ calls' \in Seq(AllCalls) /\ calls' # <<>> /\ calls'[1] = Set(Gain, index)
      /\ \A i \in DOMAIN calls' : i # 1 => calls'[i].op # "set"
  <2>1. Plan.trial \in Seq(Driven) /\ Gain \in Params /\ index \in Nat
    BY <1>5, TrialFacts, GainIs DEF SweepTypes
  <2> QED BY <1>2, <2>1, WriteFirst
<1>7. Gain' = Gain
  BY <1>3, <1>4 DEF Gain
<1>8. SweepTypes'
  BY <1>2, <1>3, <1>4, <1>5, <1>6 DEF SweepTypes
<1>9. ASSUME ~misled' PROVE ParamInv'
  <2>1. ParamInv
    BY <1>2, <1>9 DEF SweepInv
  <2>2. sweep = 1 /\ Two => param[I] = 0
    BY <1>2, <2>1, WrittenIs DEF ParamInv
  <2>3. sweep = 2 => param[P] = best[P]
    BY <1>2, <2>1 DEF ParamInv
  <2> QED BY <1>2, <1>3, <1>4, <1>6, <1>7, <2>2, <2>3 DEF ParamInv, Written
<1>10. ~misled' => TrialInv'
  BY <1>2, <1>4, TrialsStay DEF SweepInv
<1> QED BY <1>8, <1>9, <1>10 DEF SweepInv

\* A trial beyond the limit changes nothing but what was measured.
LEMMA OverKeeps ==
  ASSUME Sweeping, SweepInv, NEW e \in session.errors, JudgeOver(e)
  PROVE  SweepInv'
<1> DEFINE T == Tried(TRUE, e)
<1>1. Go("judge", "swept", <<>>) /\ measured' = measured \cup {T} /\ UNCHANGED <<best, sweep, error, index>>
  BY DEF JudgeOver, Step
<1>2. calls' = <<>> /\ pc' = "swept" /\ UNCHANGED <<session, param, misled>>
  BY <1>1, GoFacts
<1>3. P' = P /\ I' = I /\ Two' = Two /\ Plan' = Plan
  BY <1>2, SessionStays
<1>4. SweepTypes
  BY DEF SweepInv
<1>5. T.sweep = sweep /\ T.over = TRUE /\ T.error = e
  BY DEF Tried
<1>6. e \in Int
  BY <1>4, SweepAssumption DEF SweepTypes
<1>7. sweep \in 1..sweep
  BY <1>4, GainIs
<1> HIDE DEF T
<1>8. SweepTypes'
  BY <1>1, <1>2, <1>3, <1>4, <1>5, <1>6, <1>7 DEF SweepTypes
<1>9. ParamInv'
  BY <1>2 DEF ParamInv
<1>10. ASSUME ~misled' PROVE TrialInv'
  <2>1. TrialInv
    BY <1>2, <1>10 DEF SweepInv
  <2>2. \A s : Within(s)' = Within(s)
    BY <1>1, <1>5 DEF Within
  <2>3. \A s : UpTo(s)' = UpTo(s)
    BY <1>1, <1>3 DEF UpTo
  <2>4. Gain' = Gain
    BY <1>1, <1>3 DEF Gain
  <2> QED BY <1>1, <1>3, <2>1, <2>2, <2>3, <2>4 DEF TrialInv
<1> QED BY <1>8, <1>9, <1>10 DEF SweepInv

\* A trial within the limit is the best one, or the best one stays.
LEMMA JudgeKeeps ==
  ASSUME Sweeping, SweepInv, NEW e \in session.errors, Judge(e)
  PROVE  SweepInv'
<1> DEFINE T == Tried(FALSE, e)
<1>1. /\ Go("judge", IF sweep = 2 /\ e < Limit THEN "swept" ELSE "sweep", <<>>)
      /\ measured' = measured \cup {T} /\ sweep' = sweep /\ index' = index + 1
      /\ best' = IF e < error THEN [best EXCEPT ![Gain] = index] ELSE best
      /\ error' = IF e < error THEN e ELSE error
  BY DEF Judge, Step
<1>2. /\ calls = <<>> /\ pc = "judge" /\ calls' = <<>> /\ pc' \in {"swept", "sweep"}
      /\ UNCHANGED <<session, param, misled>>
  BY <1>1, GoFacts
<1>3. P' = P /\ I' = I /\ Two' = Two /\ Plan' = Plan
  BY <1>2, SessionStays
<1>4. Gain' = Gain
  BY <1>1, <1>3 DEF Gain
<1>5. SweepTypes
  BY DEF SweepInv
<1>6. /\ P \in Params /\ Gain \in Params /\ (Two => I \in Params /\ I # P)
      /\ sweep \in {1, 2} /\ (sweep = 1 => Gain = P) /\ (sweep = 2 => Two /\ Gain = I)
  BY <1>5, GainIs
<1>7. /\ T.sweep = sweep /\ T.over = FALSE /\ T.error = e
      /\ T.gains = [i \in DOMAIN Plan.gains |-> param[Plan.gains[i]]]
  BY DEF Tried
<1> HIDE DEF T
<1>8. e \in Int /\ error \in Int /\ index \in Nat /\ best \in [Params -> Nat]
  BY <1>5, SweepAssumption DEF SweepTypes
<1>9. /\ best' \in [Params -> Nat] /\ \A p \in Params : p # Gain => best'[p] = best[p]
      /\ e < error => best'[Gain] = index
  BY <1>1, <1>6, <1>8
<1>10. SweepTypes'
  <2>1. \A t \in measured' : t.sweep \in 1..sweep /\ t.error \in Int
    BY <1>1, <1>5, <1>6, <1>7, <1>8 DEF SweepTypes
  <2>2. Two /\ sweep = 1 => best'[I] = 0
    BY <1>5, <1>6, <1>9 DEF SweepTypes
  <2>3. sweep' \in DOMAIN Plan'.gains /\ index' \in Nat /\ error' \in Int
    BY <1>1, <1>3, <1>5, <1>8 DEF SweepTypes
  <2> QED BY <1>1, <1>2, <1>3, <1>5, <1>9, <2>1, <2>2, <2>3 DEF SweepTypes
<1>11. ASSUME ~misled' PROVE ParamInv' /\ TrialInv'
  <2>1. ParamInv /\ TrialInv
    BY <1>2, <1>11 DEF SweepInv
  <2>2. param[Gain] = index
    BY <1>2, <2>1, WrittenIs DEF ParamInv
  <2>3. (sweep = 1 /\ Two => param[I] = 0) /\ (sweep = 2 => param[P] = best[P] /\ best'[P] = best[P])
    BY <1>2, <1>6, <1>9, <2>1 DEF ParamInv
  <2>4. ParamInv'
    BY <1>1, <1>2, <1>3, <2>3 DEF ParamInv, Written, NoSets
  <2>5. Within(sweep)' = Within(sweep) \cup {T} /\ (sweep = 2 => Within(1)' = Within(1))
    BY <1>1, <1>6, <1>7 DEF Within
  <2>6. sweep = 2 => UpTo(1)' = UpTo(1)
    BY <1>3, <1>6, <2>3, GainsFacts DEF UpTo, P
  <2>7. \A t \in Within(sweep)' : error' <= t.error
    <3>1. \A t \in Within(sweep) : t.error \in Int /\ error <= t.error
      BY <1>5, <2>1 DEF TrialInv, Within, SweepTypes
    <3> QED BY <1>1, <1>7, <1>8, <2>5, <3>1
  <2>8. best'[Gain] # 0 => \E t \in Within(sweep)' : t.gains = UpTo(sweep)' /\ t.error = error'
    <3>1. CASE e < error
      <4>1. \A i \in DOMAIN Plan.gains : param[Plan.gains[i]] = IF i <= sweep THEN best'[Plan.gains[i]] ELSE 0
        BY <1>6, <1>9, <2>2, <2>3, <3>1, GainsFacts DEF P, I, Two
      <4>2. T.gains = UpTo(sweep)'
        BY <1>1, <1>3, <1>7, <4>1 DEF UpTo
      <4> QED BY <1>1, <1>7, <2>5, <3>1, <4>2
    <3>2. CASE ~(e < error)
      <4>1. best' = best /\ error' = error
        BY <1>1, <3>2
      <4>2. UpTo(sweep)' = UpTo(sweep)
        BY <1>1, <1>3, <4>1 DEF UpTo
      <4> QED BY <2>1, <2>5, <4>1, <4>2 DEF TrialInv
    <3> QED BY <3>1, <3>2
  <2>9. sweep = 2 /\ best'[P] # 0 =>
          \E t \in Within(1)' : t.gains = UpTo(1)' /\ \A u \in Within(1)' : t.error <= u.error
    BY <2>1, <2>3, <2>5, <2>6 DEF TrialInv
  <2>10. TrialInv'
    BY <1>1, <1>3, <1>4, <2>7, <2>8, <2>9 DEF TrialInv
  <2> QED BY <2>4, <2>10
<1> QED BY <1>10, <1>11 DEF SweepInv

\* After the sweep over P its best value is written; after the last sweep nothing is.
LEMMA SweptKeeps ==
  ASSUME Sweeping, SweepInv, Swept
  PROVE  SweepInv'
<1>1. /\ Go("swept", IF Two /\ sweep = 1 THEN "choose" ELSE "verify",
            IF Two /\ sweep = 1 THEN <<Set(Gain, best[Gain])>> ELSE Stop)
      /\ UNCHANGED stageVars
  BY DEF Swept, Step, Two
<1>2. /\ pc' = IF Two /\ sweep = 1 THEN "choose" ELSE "verify"
      /\ calls' = IF Two /\ sweep = 1 THEN <<Set(Gain, best[Gain])>> ELSE Stop
      /\ UNCHANGED <<session, param, misled>>
  BY <1>1, GoFacts
<1>3. P' = P /\ I' = I /\ Two' = Two /\ Plan' = Plan
  BY <1>2, SessionStays
<1>4. UNCHANGED <<best, sweep, index, error, measured>>
  BY <1>1 DEF stageVars, sweepVars
<1>5. SweepTypes
  BY DEF SweepInv
<1>6. CASE Two /\ sweep = 1
  <2>1. Gain = P /\ P \in Params /\ best[P] \in Nat
    BY <1>5, <1>6, GainIs DEF SweepTypes
  <2>2. pc' = "choose" /\ calls' = <<Set(P, best[P])>>
    BY <1>2, <1>6, <2>1
  <2>3. calls' \in Seq(AllCalls) /\ calls' # <<>> /\ calls'[1] = Set(P, best[P]) /\ \A i \in DOMAIN calls' : i = 1
    BY <2>1, <2>2, WriteAlone
  <2>4. SweepTypes'
    BY <1>2, <1>3, <1>4, <1>5, <1>6, <2>2, <2>3 DEF SweepTypes
  <2>5. ParamInv'
    BY <1>3, <1>4, <2>2, <2>3 DEF ParamInv, Written
  <2>6. ~misled' => TrialInv'
    BY <1>2, <1>4, TrialsStay DEF SweepInv
  <2> QED BY <2>4, <2>5, <2>6 DEF SweepInv
<1>7. CASE ~(Two /\ sweep = 1)
  <2>1. Stop \in Seq(Driven)
    BY DEF Stop, Driven
  <2>2. calls' \in Seq(AllCalls) /\ pc' = "verify"
    BY <1>2, <1>7, <2>1, DrivenFacts
  <2> QED BY <1>1, <1>2, <2>2, PauseKeeps
<1> QED BY <1>6, <1>7

\* The sweep over I finds the best P written.
LEMMA SweepIKeeps ==
  ASSUME Sweeping, SweepInv, SweepI
  PROVE  SweepInv'
<1>1. Go("choose", "sweep", <<>>) /\ sweep' = 2 /\ index' = 1 /\ UNCHANGED <<best, error, measured>>
  BY DEF SweepI, Step
<1>2. /\ calls = <<>> /\ pc = "choose" /\ calls' = <<>> /\ pc' = "sweep"
      /\ UNCHANGED <<session, param, misled>>
  BY <1>1, GoFacts
<1>3. P' = P /\ I' = I /\ Two' = Two /\ Plan' = Plan
  BY <1>2, SessionStays
<1>4. SweepTypes
  BY DEF SweepInv
<1>5. Two /\ sweep = 1 /\ Gain = P /\ Gain' = I /\ best[I] = 0
  BY <1>1, <1>2, <1>3, <1>4, GainIs DEF SweepTypes, Gain, I
<1>6. SweepTypes'
  <2>1. sweep' \in DOMAIN Plan.gains
    BY <1>1, <1>5, GainsFacts DEF Two
  <2>2. \A t \in measured : t.sweep \in 1..2 /\ t.error \in Int
    BY <1>4, <1>5 DEF SweepTypes
  <2> QED BY <1>1, <1>2, <1>3, <1>4, <2>1, <2>2 DEF SweepTypes
<1>7. ASSUME ~misled' PROVE ParamInv' /\ TrialInv'
  <2>1. ParamInv /\ TrialInv
    BY <1>2, <1>7 DEF SweepInv
  <2>2. param[P] = best[P]
    BY <1>2, <2>1, WrittenIs DEF ParamInv
  <2>3. ParamInv'
    BY <1>1, <1>2, <1>3, <2>2 DEF ParamInv, NoSets
  <2>4. Within(2) = {}
    BY <1>4, <1>5 DEF Within, SweepTypes
  <2>5. Within(2)' = Within(2) /\ Within(1)' = Within(1) /\ UpTo(1)' = UpTo(1)
    BY <1>1, <1>3 DEF Within, UpTo
  <2>6. \A t \in Within(1) : error <= t.error
    BY <1>5, <2>1 DEF TrialInv
  <2>7. best[P] # 0 => \E t \in Within(1) : t.gains = UpTo(1) /\ t.error = error
    BY <1>5, <2>1 DEF TrialInv
  <2>8. TrialInv'
    BY <1>1, <1>3, <1>5, <2>4, <2>5, <2>6, <2>7 DEF TrialInv
  <2> QED BY <2>3, <2>8
<1> QED BY <1>6, <1>7 DEF SweepInv

\* Beginning, end, and the steps without a trial.
LEMMA RestKeeps ==
  ASSUME Sweeping, SweepInv, Connect \/ Decline \/ Conclude \/ SweepEnds \/ SkipI \/ Verify
  PROVE  SweepInv'
<1>1. SweepTypes
  BY DEF SweepInv
<1>2. <<>> \in Seq(AllCalls) /\ Stop \in Seq(AllCalls) /\ Plan.reads \in Seq(AllCalls)
  <2>1. Stop \in Seq(Driven)
    BY DEF Stop, Driven
  <2> QED BY <2>1, TrialFacts, DrivenFacts
<1>3. Writes \in Seq(AllCalls) /\ Writes \o Plan.verification \in Seq(AllCalls)
  BY <1>1, WritesFacts, TrialFacts, DrivenFacts, ConcatProperties DEF SweepTypes
<1>4. CASE Connect
  <2>1. UNCHANGED stageVars
    BY <1>4 DEF Connect
  <2>2. Go("connect", "ended", <<>>) \/ Go("connect", "ready", Plan.reads)
    BY <1>4 DEF Connect, Step, Sweeping, Sweeps
  <2>3. /\ calls' \in Seq(AllCalls) /\ UNCHANGED <<session, param, misled>>
        /\ pc' = "ended" \/ (pc = "connect" /\ pc' = "ready")
    BY <1>2, <2>2 DEF Go, linkVars
  <2> QED BY <2>1, <2>3, PauseKeeps
<1>5. CASE Decline
  BY <1>2, <1>5, GoFacts, PauseKeeps DEF Decline, Step
<1>6. CASE Conclude
  <2>1. /\ Go("result", "ended", IF session.apply THEN Writes ELSE <<>>) /\ UNCHANGED stageVars
        /\ (IF session.apply THEN Writes ELSE <<>>) \in Seq(AllCalls)
    BY <1>2, <1>3, <1>6 DEF Conclude, Step
  <2>2. calls' \in Seq(AllCalls) /\ UNCHANGED <<session, param, misled>> /\ pc' = "ended"
    BY <2>1 DEF Go, linkVars
  <2> QED BY <2>1, <2>2, PauseKeeps
<1>7. CASE SweepEnds
  BY <1>2, <1>7, GoFacts, PauseKeeps DEF SweepEnds, Step
<1>8. CASE SkipI
  BY <1>2, <1>8, GoFacts, PauseKeeps DEF SkipI, Step
<1>9. CASE Verify
  <2>1. /\ Go("verify", "result", IF abort THEN <<>> ELSE Writes \o Plan.verification) /\ UNCHANGED stageVars
        /\ (IF abort THEN <<>> ELSE Writes \o Plan.verification) \in Seq(AllCalls)
    BY <1>2, <1>3, <1>9 DEF Verify, Step
  <2>2. calls' \in Seq(AllCalls) /\ UNCHANGED <<session, param, misled>> /\ pc' = "result"
    BY <2>1 DEF Go, linkVars
  <2> QED BY <2>1, <2>2, PauseKeeps
<1> QED BY <1>4, <1>5, <1>6, <1>7, <1>8, <1>9

\* The sweeps do not take the steps of the other stages.
LEMMA OtherStages ==
  ASSUME Sweeping, SweepTypes, SearchStep \/ LimitStep
  PROVE  FALSE
<1>1. stage # "stage2a"
  BY DEF Sweeping, Sweeps
<1>2. pc \notin {"zero", "search", "speeds", "measure", "average", "found", "test", "tested", "coast", "coasted"}
  BY DEF SweepTypes
<1>3. ~SearchStep
  BY <1>1, <1>2 DEF SearchStep, ZeroGains, StartSearch, Iterate, StopSearching, MeasureSpeed, SkipSpeed,
                    SpeedsEnd, Measure, NothingTested, Accept, Halve, Found, Step, Go
<1>4. ~LimitStep
  BY <1>2 DEF LimitStep, SkipTest, StartTest, Coast, TestAborted, TestEnds, Summary, Leave, Step, Go
<1> QED BY <1>3, <1>4

\* Ctrl-C, the cable and the pilot.
LEMMA MishapKeeps ==
  ASSUME Sweeping, SweepInv, Mishap
  PROVE  SweepInv'
<1>1. UNCHANGED <<stageVars, session, param, misled>>
  BY DEF Mishap, Interrupt, LinkBreaks, ModeSwitch, linkVars
<1>2. UNCHANGED <<calls, pc>> \/ (pc' = "ended" /\ calls' = <<>>)
  BY DEF Mishap, Interrupt, LinkBreaks, ModeSwitch
<1>3. CASE UNCHANGED <<calls, pc>>
  BY <1>1, <1>3, AsideKeeps
<1>4. CASE pc' = "ended" /\ calls' = <<>>
  BY <1>1, <1>4, PauseKeeps
<1> QED BY <1>2, <1>3, <1>4

\* The session is chosen in the beginning.
LEMMA SessionFixed ==
  ASSUME [Next]_vars
  PROVE  session' = session
<1>1. ScriptStep => session' = session
  BY DEF ScriptStep, Connect, Decline, Conclude, SweepStep, StartSweeps, TryGain, SweepEnds, Swept, SweepI, SkipI,
         Verify, Judge, JudgeOver, SearchStep, ZeroGains, StartSearch, Iterate, StopSearching, MeasureSpeed,
         SkipSpeed, SpeedsEnd, Measure, NothingTested, Accept, Halve, Found, LimitStep, SkipTest, StartTest,
         Coast, TestAborted, TestEnds, Summary, Leave, Step, Go
<1>2. LibStep => session' = session
  BY DEF LibStep, ParamSet, ParamGet, CollectTelemetry, PubCmdVel, ProcWait
<1>3. Published \/ ModeStep \/ Tick \/ Mishap => session' = session
  BY DEF Published, Publish, ModeStep, Tick, Mishap, Interrupt, LinkBreaks, ModeSwitch, libVars
<1>4. UNCHANGED vars => session' = session
  BY DEF vars, libVars
<1> QED BY <1>1, <1>2, <1>3, <1>4 DEF Next

\* Every step keeps the invariant.
LEMMA StepKeeps ==
  ASSUME SweepInv, [Next]_vars
  PROVE  SweepInv'
<1>1. session' = session /\ Sweeping' = Sweeping
  BY SessionFixed, SessionStays
<1> SUFFICES ASSUME Sweeping PROVE SweepInv'
  BY <1>1 DEF SweepInv
<1>2. CASE Connect \/ Decline \/ Conclude \/ SweepEnds \/ SkipI \/ Verify
  BY <1>2, RestKeeps
<1>3. CASE StartSweeps
  BY <1>3, StartKeeps
<1>4. CASE TryGain
  BY <1>4, TryKeeps
<1>5. CASE \E e \in session.errors : Judge(e) \/ JudgeOver(e)
  BY <1>5, JudgeKeeps, OverKeeps
<1>6. CASE Swept
  BY <1>6, SweptKeeps
<1>7. CASE SweepI
  BY <1>7, SweepIKeeps
<1>8. CASE SearchStep \/ LimitStep
  BY <1>8, OtherStages DEF SweepInv
<1>9. CASE LibStep
  BY <1>9, CallKeeps
<1>10. CASE Published \/ ModeStep \/ Tick \/ UNCHANGED vars
  <2>1. UNCHANGED <<session, param, misled, calls, pc, stageVars>>
    BY <1>10 DEF Published, Publish, ModeStep, Tick, vars, libVars, linkVars
  <2> QED BY <2>1, AsideKeeps
<1>11. CASE Mishap
  BY <1>11, MishapKeeps
<1> QED BY <1>2, <1>3, <1>4, <1>5, <1>6, <1>7, <1>8, <1>9, <1>10, <1>11 DEF Next, ScriptStep, SweepStep

\* In the beginning nothing was tried.
LEMMA InitHolds ==
  ASSUME Init
  PROVE  SweepInv
<1> SUFFICES ASSUME Sweeping PROVE SweepInv
  BY DEF SweepInv
<1>1. /\ session \in Sessions /\ param \in session.before /\ calls = <<>> /\ pc = "connect"
      /\ best = [p \in Params |-> 0] /\ sweep = 1 /\ index \in Nat /\ error = Worst /\ measured = {}
  BY DEF Init, LibInit
<1>2. param \in [Params -> Nat] /\ Worst \in Int
  BY <1>1, SweepAssumption
<1>3. P \in Params /\ (Two => I \in Params) /\ sweep \in DOMAIN Plan.gains /\ Gain \in Params
  BY <1>1, GainsFacts DEF P, I, Two, Gain
<1>4. SweepTypes
  BY <1>1, <1>2, <1>3 DEF SweepTypes
<1>5. ParamInv
  BY <1>1 DEF ParamInv
<1>6. TrialInv
  <2>1. Within(1) = {}
    BY <1>1 DEF Within
  <2> QED BY <1>1, <1>3, <2>1 DEF TrialInv
<1> QED BY <1>4, <1>5, <1>6 DEF SweepInv

-----------------------------------------------------------------------------
\* The gains that a script prints or writes were driven, in their combination, within
\* the limit and with the least error of their sweep, unless PX4 missed a write.
THEOREM GainsAreMeasured == Spec => []GainsMeasured
<1>1. Init => SweepInv
  BY InitHolds
<1>2. SweepInv /\ [Next]_vars => SweepInv'
  BY StepKeeps
<1>3. SweepInv => GainsMeasured
  <2> SUFFICES ASSUME SweepInv, pc = "result", Sweeping, ~misled, NEW s \in DOMAIN Plan.gains,
                      best[Plan.gains[s]] # 0
               PROVE  \E t \in Within(s) : t.gains = UpTo(s) /\ \A u \in Within(s) : t.error <= u.error
    BY DEF GainsMeasured, Sweeping, Within, UpTo
  <2>1. SweepTypes /\ TrialInv
    BY DEF SweepInv
  <2>2. /\ s \in {1, 2} /\ sweep \in {1, 2} /\ (s = 1 => Plan.gains[s] = P) /\ (s = 2 => Two /\ Plan.gains[s] = I)
        /\ (sweep = 1 => Gain = P) /\ (sweep = 2 => Two /\ Gain = I)
    BY <2>1, GainsFacts, GainIs DEF P, I, Two
  <2>3. CASE s = sweep
    <3>1. PICK t \in Within(s) : t.gains = UpTo(s) /\ t.error = error
      BY <2>1, <2>2, <2>3 DEF TrialInv
    <3> QED BY <2>1, <2>3, <3>1 DEF TrialInv
  <2>4. CASE s = 1 /\ sweep = 2
    BY <2>1, <2>2, <2>4 DEF TrialInv
  <2>5. CASE s = 2 /\ sweep = 1
    BY <2>1, <2>2, <2>5 DEF SweepTypes
  <2> QED BY <2>2, <2>3, <2>4, <2>5
<1> QED BY <1>1, <1>2, <1>3, PTL DEF Spec

-----------------------------------------------------------------------------
(* Lists of calls: each publisher is waited for before the next is started, *)
(* and a list holds so many drives.                                         *)

Pubs == {"drive", "zeros"}

Quiet(s) == \A i \in DOMAIN s : s[i].op \notin Pubs

WaitsFirst(s) == \E j \in DOMAIN s : s[j].op = "wait" /\ \A k \in DOMAIN s : k < j => s[k].op \notin Pubs

Waited(s) ==
  \A i \in DOMAIN s : s[i].op \in Pubs =>
    \E j \in DOMAIN s : i < j /\ s[j].op = "wait" /\ \A k \in DOMAIN s : i < k /\ k < j => s[k].op \notin Pubs

\* The drives of a list are finitely many.
LEMMA DrivesFacts ==
  ASSUME NEW s \in Seq(AllCalls)
  PROVE  IsFiniteSet(DrivesOf(s)) /\ Drives(s) \in Nat /\ DrivesOf(s) \subseteq 1..Len(s)
<1>1. Len(s) \in Nat /\ DOMAIN s = 1..Len(s)
  BY LenProperties
<1>2. IsFiniteSet(1..Len(s))
  BY <1>1, FS_Interval
<1>3. DrivesOf(s) \subseteq 1..Len(s)
  BY <1>1 DEF DrivesOf
<1> QED BY <1>2, <1>3, FS_Subset, FS_CardinalityType DEF Drives

\* A list without publishers waits for nothing and drives nothing.
LEMMA QuietFacts ==
  ASSUME NEW s \in Seq(AllCalls), Quiet(s)
  PROVE  Waited(s) /\ Drives(s) = 0
<1>1. DrivesOf(s) = {}
  BY DEF Quiet, DrivesOf, Pubs
<1> QED BY <1>1, FS_EmptySet DEF Quiet, Waited, Drives

\* Two lists, one after the other.
LEMMA ConcatCalls ==
  ASSUME NEW s \in Seq(AllCalls), NEW t \in Seq(AllCalls)
  PROVE  /\ s \o t \in Seq(AllCalls)
         /\ Waited(s) /\ Waited(t) => Waited(s \o t)
         /\ Quiet(s) /\ Quiet(t) => Quiet(s \o t)
         /\ Drives(s \o t) = Drives(s) + Drives(t)
<1> DEFINE q == s \o t
           n == Len(s)
           m == Len(t)
<1>1. /\ n \in Nat /\ m \in Nat /\ DOMAIN s = 1..n /\ DOMAIN t = 1..m
      /\ q \in Seq(AllCalls) /\ Len(q) = n + m /\ DOMAIN q = 1..(n + m)
      /\ \A i \in 1..(n + m) : q[i] = IF i <= n THEN s[i] ELSE t[i - n]
  BY ConcatProperties, LenProperties
<1> HIDE DEF q, n, m
<1>2. /\ \A i \in DOMAIN s : i \in DOMAIN q /\ q[i] = s[i] /\ i <= n
      /\ \A i \in DOMAIN t : i + n \in DOMAIN q /\ q[i + n] = t[i] /\ i + n > n
      /\ \A i \in DOMAIN q : i > n => i - n \in DOMAIN t /\ q[i] = t[i - n] /\ (i - n) + n = i
      /\ \A i \in DOMAIN q : i <= n => i \in DOMAIN s /\ q[i] = s[i]
      /\ \A i \in DOMAIN q : i \in Nat
  BY <1>1
<1>3. ASSUME Quiet(s), Quiet(t) PROVE Quiet(q)
  <2> SUFFICES ASSUME NEW i \in DOMAIN q PROVE q[i].op \notin Pubs
    BY DEF Quiet
  <2>1. CASE i <= n
    BY <1>2, <1>3, <2>1 DEF Quiet
  <2>2. CASE i > n
    BY <1>2, <1>3, <2>2 DEF Quiet
  <2> QED BY <1>1, <2>1, <2>2
<1>4. ASSUME Waited(s), Waited(t) PROVE Waited(q)
  <2> SUFFICES ASSUME NEW i \in DOMAIN q, q[i].op \in Pubs
               PROVE  \E j \in DOMAIN q : /\ i < j /\ q[j].op = "wait"
                                          /\ \A k \in DOMAIN q : i < k /\ k < j => q[k].op \notin Pubs
    BY DEF Waited
  <2>1. CASE i <= n
    <3>1. PICK j \in DOMAIN s : /\ i < j /\ s[j].op = "wait"
                                /\ \A k \in DOMAIN s : i < k /\ k < j => s[k].op \notin Pubs
      BY <1>2, <1>4, <2>1 DEF Waited
    <3>2. \A k \in DOMAIN q : k < j => k <= n
      BY <1>1, <1>2
    <3> QED BY <1>2, <3>1, <3>2
  <2>2. CASE i > n
    <3>1. PICK j \in DOMAIN t : /\ i - n < j /\ t[j].op = "wait"
                                /\ \A k \in DOMAIN t : i - n < k /\ k < j => t[k].op \notin Pubs
      BY <1>2, <1>4, <2>2 DEF Waited
    <3>2. j + n \in DOMAIN q /\ i < j + n /\ q[j + n].op = "wait"
      BY <1>1, <1>2, <3>1
    <3>3. ASSUME NEW k \in DOMAIN q, i < k, k < j + n PROVE q[k].op \notin Pubs
      <4>1. k > n /\ i - n < k - n /\ k - n < j
        BY <1>1, <1>2, <2>2, <3>1, <3>3
      <4> QED BY <1>2, <3>1, <4>1
    <3> QED BY <3>2, <3>3
  <2> QED BY <1>1, <1>2, <2>1, <2>2
<1>5. Drives(q) = Drives(s) + Drives(t)
  <2> DEFINE B == {i \in DrivesOf(q) : i > n}
             f == [i \in DrivesOf(t) |-> i + n]
  <2>1. DrivesOf(q) = DrivesOf(s) \cup B /\ DrivesOf(s) \cap B = {}
    BY <1>1, <1>2 DEF DrivesOf
  <2>2. f \in Bijection(DrivesOf(t), B)
    <3>1. \A i \in DrivesOf(t) : f[i] \in B
      BY <1>1, <1>2 DEF DrivesOf
    <3>2. \A i, j \in DrivesOf(t) : f[i] = f[j] => i = j
      BY <1>1 DEF DrivesOf
    <3>3. \A b \in B : \E i \in DrivesOf(t) : f[i] = b
      <4> SUFFICES ASSUME NEW b \in B PROVE \E i \in DrivesOf(t) : f[i] = b
        OBVIOUS
      <4>1. b - n \in DrivesOf(t) /\ (b - n) + n = b
        BY <1>1, <1>2 DEF DrivesOf
      <4> QED BY <4>1
    <3> QED BY <3>1, <3>2, <3>3 DEF Bijection, Injection, Surjection, IsInjective
  <2>3. IsFiniteSet(DrivesOf(s)) /\ IsFiniteSet(DrivesOf(t)) /\ Drives(s) \in Nat /\ Drives(t) \in Nat
    BY DrivesFacts
  <2> HIDE DEF B, f
  <2>4. IsFiniteSet(B) /\ Cardinality(B) = Drives(t)
    BY <2>2, <2>3, FS_Bijection DEF ExistsBijection, Drives
  <2>5. Cardinality(DrivesOf(s) \cup B) = Cardinality(DrivesOf(s)) + Cardinality(B) - Cardinality({})
    BY <2>1, <2>3, <2>4, FS_Union
  <2> QED BY <2>1, <2>3, <2>4, <2>5, FS_EmptySet DEF Drives
<1> QED BY <1>1, <1>3, <1>4, <1>5 DEF q

\* What is left of a list when its first call is made.
LEMMA TailCalls ==
  ASSUME NEW s \in Seq(AllCalls), s # <<>>
  PROVE  /\ Tail(s) \in Seq(AllCalls) /\ Head(s) \in AllCalls
         /\ Quiet(s) => Quiet(Tail(s)) /\ Head(s).op \notin Pubs
         /\ Waited(s) => Waited(Tail(s))
         /\ Waited(s) /\ Head(s).op \in Pubs => WaitsFirst(Tail(s))
         /\ WaitsFirst(s) => Head(s).op \notin Pubs
         /\ WaitsFirst(s) /\ Head(s).op # "wait" => WaitsFirst(Tail(s))
         /\ Drives(s) = Drives(Tail(s)) + (IF Head(s).op = "drive" THEN 1 ELSE 0)
<1> DEFINE q == Tail(s)
           n == Len(s)
<1>1. /\ n \in Nat \ {0} /\ DOMAIN s = 1..n /\ q \in Seq(AllCalls) /\ Len(q) = n - 1 /\ DOMAIN q = 1..(n - 1)
      /\ Head(s) = s[1] /\ Head(s) \in AllCalls
      /\ \A i \in 1..(n - 1) : q[i] = s[i + 1]
  BY HeadTailProperties, LenProperties, EmptySeq, ElementOfSeq
<1> HIDE DEF q, n
<1>2. /\ \A i \in DOMAIN q : i + 1 \in DOMAIN s /\ q[i] = s[i + 1]
      /\ \A i \in DOMAIN s : i # 1 => i - 1 \in DOMAIN q /\ q[i - 1] = s[i] /\ (i - 1) + 1 = i
      /\ 1 \in DOMAIN s
      /\ \A i \in DOMAIN s : i \in Nat /\ i >= 1
  BY <1>1
<1>3. Quiet(s) => Quiet(q) /\ Head(s).op \notin Pubs
  BY <1>1, <1>2 DEF Quiet
<1>4. ASSUME Waited(s) PROVE Waited(q)
  <2> SUFFICES ASSUME NEW i \in DOMAIN q, q[i].op \in Pubs
               PROVE  \E j \in DOMAIN q : /\ i < j /\ q[j].op = "wait"
                                          /\ \A k \in DOMAIN q : i < k /\ k < j => q[k].op \notin Pubs
    BY DEF Waited
  <2>1. PICK j \in DOMAIN s : /\ i + 1 < j /\ s[j].op = "wait"
                              /\ \A k \in DOMAIN s : i + 1 < k /\ k < j => s[k].op \notin Pubs
    BY <1>2, <1>4 DEF Waited
  <2>2. j - 1 \in DOMAIN q /\ i < j - 1 /\ q[j - 1].op = "wait"
    BY <1>1, <1>2, <2>1
  <2>3. ASSUME NEW k \in DOMAIN q, i < k, k < j - 1 PROVE q[k].op \notin Pubs
    <3>1. i + 1 < k + 1 /\ k + 1 < j
      BY <1>1, <2>1, <2>3
    <3> QED BY <1>2, <2>1, <3>1
  <2> QED BY <2>2, <2>3
<1>5. ASSUME Waited(s), Head(s).op \in Pubs PROVE WaitsFirst(q)
  <2>1. PICK j \in DOMAIN s : /\ 1 < j /\ s[j].op = "wait"
                              /\ \A k \in DOMAIN s : 1 < k /\ k < j => s[k].op \notin Pubs
    BY <1>1, <1>2, <1>5 DEF Waited
  <2>2. j - 1 \in DOMAIN q /\ q[j - 1].op = "wait"
    BY <1>2, <2>1
  <2>3. ASSUME NEW k \in DOMAIN q, k < j - 1 PROVE q[k].op \notin Pubs
    <3>1. 1 < k + 1 /\ k + 1 < j
      BY <1>1, <2>1, <2>3
    <3> QED BY <1>2, <2>1, <3>1
  <2> QED BY <2>2, <2>3 DEF WaitsFirst
<1>6. ASSUME WaitsFirst(s) PROVE Head(s).op \notin Pubs /\ (Head(s).op # "wait" => WaitsFirst(q))
  <2>1. PICK j \in DOMAIN s : s[j].op = "wait" /\ \A k \in DOMAIN s : k < j => s[k].op \notin Pubs
    BY <1>6 DEF WaitsFirst
  <2>2. CASE j = 1
    BY <1>1, <2>1, <2>2 DEF Pubs
  <2>3. CASE j # 1
    <3>1. 1 < j
      BY <1>1, <2>3
    <3>4. Head(s).op \notin Pubs
      BY <1>1, <1>2, <2>1, <3>1
    <3>2. j - 1 \in DOMAIN q /\ q[j - 1].op = "wait"
      BY <1>2, <2>1, <2>3
    <3>3. ASSUME NEW k \in DOMAIN q, k < j - 1 PROVE q[k].op \notin Pubs
      <4>1. k + 1 < j
        BY <1>1, <2>1, <3>3
      <4> QED BY <1>2, <2>1, <4>1
    <3> QED BY <3>2, <3>3, <3>4 DEF WaitsFirst
  <2> QED BY <2>2, <2>3
<1>7. Drives(s) = Drives(q) + (IF Head(s).op = "drive" THEN 1 ELSE 0)
  <2> DEFINE B == DrivesOf(s) \ {1}
             f == [i \in DrivesOf(q) |-> i + 1]
  <2>1. f \in Bijection(DrivesOf(q), B)
    <3>1. \A i \in DrivesOf(q) : f[i] \in B
      BY <1>1, <1>2 DEF DrivesOf
    <3>2. \A i, j \in DrivesOf(q) : f[i] = f[j] => i = j
      BY <1>1 DEF DrivesOf
    <3>3. \A b \in B : \E i \in DrivesOf(q) : f[i] = b
      <4> SUFFICES ASSUME NEW b \in B PROVE \E i \in DrivesOf(q) : f[i] = b
        OBVIOUS
      <4>1. b - 1 \in DrivesOf(q) /\ (b - 1) + 1 = b
        BY <1>2 DEF DrivesOf
      <4> QED BY <4>1
    <3> QED BY <3>1, <3>2, <3>3 DEF Bijection, Injection, Surjection, IsInjective
  <2>2. IsFiniteSet(DrivesOf(s)) /\ IsFiniteSet(DrivesOf(q)) /\ Drives(s) \in Nat /\ Drives(q) \in Nat
    BY <1>1, DrivesFacts
  <2>3. 1 \in DrivesOf(s) <=> Head(s).op = "drive"
    BY <1>1, <1>2 DEF DrivesOf
  <2> HIDE DEF f
  <2>4. Cardinality(B) = Drives(q)
    BY <2>1, <2>2, FS_Bijection DEF ExistsBijection, Drives
  <2>5. Cardinality(B) = IF 1 \in DrivesOf(s) THEN Drives(s) - 1 ELSE Drives(s)
    BY <2>2, FS_RemoveElement DEF Drives
  <2> HIDE DEF B
  <2> QED BY <2>2, <2>3, <2>4, <2>5
<1> QED BY <1>1, <1>3, <1>4, <1>5, <1>6, <1>7 DEF q

-----------------------------------------------------------------------------
(* The types of what all scripts use.                                      *)

Reply == [name : Params, value : Nat]
Publisher == [drives : BOOLEAN, left : 1..DriveCount, attended : BOOLEAN]

LimitPlaces == {"connect", "test", "coast", "tested", "coasted", "result", "ended"}
SearchPlaces ==
  {"connect", "zero", "ready", "search", "speeds", "measure", "average", "found", "result", "ended"}
SweepPlaces == {"connect", "ready", "sweep", "judge", "swept", "choose", "verify", "result", "ended"}

\* Where a script can be.
Places ==
  IF stage = "stage1" THEN LimitPlaces
  ELSE IF stage = "stage2a" THEN SearchPlaces
  ELSE IF Sweeping THEN SweepPlaces ELSE {"connect", "ended"}

LinkTypes ==
  /\ param \in [Params -> Nat] /\ replies \in Seq(Reply)
  /\ told \in [Params -> SUBSET Nat] /\ read \in [Params -> SUBSET Nat]

ScriptTypes ==
  /\ session \in Sessions /\ pc \in Places
  /\ best \in [Params -> Nat] /\ index \in Nat /\ error \in 0..Worst
  /\ lo \in Nat /\ hi \in Nat /\ speed \in Nat /\ total \in Int /\ tested \in Nat
  /\ Sweeping => sweep \in DOMAIN Plan.gains

FlagTypes ==
  /\ abort \in BOOLEAN /\ handler \in BOOLEAN /\ late \in Nat
  /\ active \in BOOLEAN /\ received \in BOOLEAN /\ driving \in BOOLEAN /\ moving \in BOOLEAN
  /\ moving => active
  /\ abort => handler

TypeInv ==
  LinkTypes /\ ScriptTypes /\ FlagTypes /\ calls \in Seq(AllCalls) /\ publishers \in Seq(Publisher)

\* How often a script drives without looking at the flag.
Most == CASE stage = "stage3" -> 5 [] stage = "stage2c" -> 2 [] OTHER -> 1

Early == {"connect", "zero", "ready", "test", "result", "ended"}

\* The calls of a script: before the first confirmation nothing is published.
ListInv ==
  /\ Waited(calls) /\ (handler \/ (Quiet(calls) /\ pc \in Early))
  /\ late + Drives(calls) <= Most /\ (~abort => late = 0)

\* The kinds of calls.
LEMMA CallFacts ==
  /\ Drive \in AllCalls /\ Zeros \in AllCalls /\ Wait \in AllCalls /\ Collect \in AllCalls
  /\ Drive.op = "drive" /\ Zeros.op = "zeros" /\ Wait.op = "wait" /\ Collect.op = "collect"
  /\ \A name : Get(name).op = "get" /\ Get(name).name = name
  /\ \A name, value : Set(name, value).op = "set" /\ Set(name, value).name = name /\ Set(name, value).value = value
  /\ \A name \in Params : Get(name) \in AllCalls
  /\ \A name \in Params, value \in Nat : Set(name, value) \in AllCalls
  /\ \A c \in AllCalls : c.op \in {"set", "get"} => c.name \in Params
  /\ \A c \in AllCalls : c.op = "set" => c.value \in Nat /\ c = Set(c.name, c.value)
<1>1. /\ Drive.op = "drive" /\ Zeros.op = "zeros" /\ Wait.op = "wait" /\ Collect.op = "collect"
      /\ \A name : Get(name).op = "get" /\ Get(name).name = name
      /\ \A name, value : Set(name, value).op = "set" /\ Set(name, value).name = name /\ Set(name, value).value = value
  BY DEF Drive, Zeros, Wait, Collect, Get, Set
<1>2. /\ Drive \in AllCalls /\ Zeros \in AllCalls /\ Wait \in AllCalls /\ Collect \in AllCalls
      /\ \A name \in Params : Get(name) \in AllCalls
      /\ \A name \in Params, value \in Nat : Set(name, value) \in AllCalls
  BY DEF AllCalls, Driven, Reading, Writing
<1>3. ASSUME NEW c \in AllCalls, c.op \in {"set", "get"} PROVE c.name \in Params
  BY <1>1, <1>3 DEF AllCalls, Driven, Reading, Writing
<1>4. ASSUME NEW c \in AllCalls, c.op = "set" PROVE c.value \in Nat /\ c = Set(c.name, c.value)
  BY <1>1, <1>4 DEF AllCalls, Driven, Reading, Writing
<1> QED BY <1>1, <1>2, <1>3, <1>4

\* The lists the scripts are made of.
LEMMA StopFacts ==
  /\ <<>> \in Seq(AllCalls) /\ Quiet(<<>>) /\ Waited(<<>>) /\ Drives(<<>>) = 0
  /\ Stop \in Seq(AllCalls) /\ Waited(Stop) /\ Drives(Stop) = 0
<1>1. <<>> \in Seq(AllCalls) /\ Quiet(<<>>)
  BY DEF Quiet
<1>2. Waited(<<>>) /\ Drives(<<>>) = 0
  BY <1>1, QuietFacts
<1>3. Stop \in Seq(AllCalls) /\ DOMAIN Stop = {1, 2} /\ Stop[1].op = "zeros" /\ Stop[2].op = "wait"
  BY CallFacts DEF Stop
<1>4. Waited(Stop)
  BY <1>3 DEF Waited, Pubs
<1>5. DrivesOf(Stop) = {}
  BY <1>3 DEF DrivesOf
<1> QED BY <1>1, <1>2, <1>3, <1>4, <1>5, FS_EmptySet DEF Drives

\* What is driven once, or twice.
LEMMA TrialCalls ==
  /\ Trial \in Seq(AllCalls) /\ Waited(Trial) /\ Drives(Trial) = 1
  /\ HeadingTrial \in Seq(AllCalls) /\ Waited(HeadingTrial) /\ Drives(HeadingTrial) = 2
  /\ <<Drive, Wait>> \in Seq(AllCalls) /\ Waited(<<Drive, Wait>>) /\ Drives(<<Drive, Wait>>) = 1
<1> DEFINE once == <<Drive, Collect, Wait>>
           coasting == <<Drive, Wait>>
<1>1. /\ once \in Seq(AllCalls) /\ DOMAIN once = {1, 2, 3}
      /\ once[1].op = "drive" /\ once[2].op = "collect" /\ once[3].op = "wait"
  BY CallFacts
<1>2. /\ coasting \in Seq(AllCalls) /\ DOMAIN coasting = {1, 2}
      /\ coasting[1].op = "drive" /\ coasting[2].op = "wait"
  BY CallFacts
<1> HIDE DEF once, coasting
<1>3. Waited(once) /\ DrivesOf(once) = {1}
  BY <1>1 DEF Waited, Pubs, DrivesOf
<1>4. Waited(coasting) /\ DrivesOf(coasting) = {1}
  BY <1>2 DEF Waited, Pubs, DrivesOf
<1>5. Drives(once) = 1 /\ Drives(coasting) = 1
  BY <1>3, <1>4, FS_Singleton DEF Drives
<1>6. Trial \in Seq(AllCalls) /\ Waited(Trial) /\ Drives(Trial) = 1
  <2>1. /\ once \o Stop \in Seq(AllCalls) /\ Waited(once \o Stop)
        /\ Drives(once \o Stop) = Drives(once) + Drives(Stop)
    BY <1>1, <1>3, StopFacts, ConcatCalls
  <2> QED BY <1>5, <2>1, StopFacts DEF Trial, once
<1>7. HeadingTrial \in Seq(AllCalls) /\ Waited(HeadingTrial) /\ Drives(HeadingTrial) = 2
  <2>1. /\ once \o Trial \in Seq(AllCalls) /\ Waited(once \o Trial)
        /\ Drives(once \o Trial) = Drives(once) + Drives(Trial)
    BY <1>1, <1>3, <1>6, ConcatCalls
  <2> QED BY <1>5, <1>6, <2>1 DEF HeadingTrial, once
<1> QED BY <1>2, <1>4, <1>5, <1>6, <1>7 DEF coasting

\* What the sweeps read, try and verify.
LEMMA PlanCalls ==
  ASSUME Sweeping
  PROVE  /\ Plan.reads \in Seq(AllCalls) /\ Quiet(Plan.reads)
         /\ Plan.trial \in Seq(AllCalls) /\ Waited(Plan.trial) /\ Drives(Plan.trial) <= Most
         /\ Plan.verification \in Seq(AllCalls) /\ Waited(Plan.verification) /\ Drives(Plan.verification) <= Most
<1>1. \/ stage = "stage2b" /\ Plan = SpeedSweeps
      \/ stage = "stage2c" /\ Plan = YawRateSweeps
      \/ stage = "stage3" /\ Plan = HeadingSweep
  BY DEF Sweeping, Plan, Sweeps
<1>2. Plan.reads \in Seq(AllCalls)
  BY TrialFacts
<1>3. Quiet(Plan.reads)
  BY <1>1, CallFacts DEF Quiet, Pubs, SpeedSweeps, YawRateSweeps, HeadingSweep
<1>4. CASE stage = "stage2b" /\ Plan = SpeedSweeps
  <2>1. Plan.trial = Trial /\ Plan.verification = Trial /\ Most = 1
    BY <1>4 DEF SpeedSweeps, Most
  <2> QED BY <1>2, <1>3, <2>1, TrialCalls
<1>5. CASE stage = "stage2c" /\ Plan = YawRateSweeps
  <2>1. Plan.trial = Trial /\ Plan.verification = Trial \o Trial /\ Most = 2
    BY <1>5 DEF YawRateSweeps, Most, YawRateTrial
  <2>2. /\ Trial \o Trial \in Seq(AllCalls) /\ Waited(Trial \o Trial)
        /\ Drives(Trial \o Trial) = Drives(Trial) + Drives(Trial)
    BY TrialCalls, ConcatCalls
  <2> QED BY <1>2, <1>3, <2>1, <2>2, TrialCalls
<1>6. CASE stage = "stage3" /\ Plan = HeadingSweep
  <2>1. Plan.trial = HeadingTrial /\ Plan.verification = HeadingTrial \o HeadingTrial \o Trial /\ Most = 5
    BY <1>6 DEF HeadingSweep, Most
  <2> DEFINE two == HeadingTrial \o HeadingTrial
  <2>2. two \in Seq(AllCalls) /\ Waited(two) /\ Drives(two) = 2 + 2
    BY TrialCalls, ConcatCalls
  <2> HIDE DEF two
  <2>3. two \o Trial \in Seq(AllCalls) /\ Waited(two \o Trial) /\ Drives(two \o Trial) = Drives(two) + 1
    BY <2>2, TrialCalls, ConcatCalls
  <2> QED BY <1>2, <1>3, <2>1, <2>2, <2>3, TrialCalls DEF two
<1> QED BY <1>1, <1>4, <1>5, <1>6

\* The results and the calls that read and write them.
LEMMA NamesFacts ==
  ASSUME best \in [Params -> Nat], stage \in {"stage1", "stage2a"} \/ Sweeping
  PROVE  /\ Names \in Seq(Params)
         /\ Writes \in Seq(AllCalls) /\ Quiet(Writes)
         /\ \A i \in DOMAIN Writes : Writes[i] = Set(Writes[i].name, best[Writes[i].name])
         /\ [i \in DOMAIN Names |-> Get(Names[i])] \in Seq(AllCalls)
         /\ Quiet([i \in DOMAIN Names |-> Get(Names[i])])
         /\ NoSets([i \in DOMAIN Names |-> Get(Names[i])])
<1>1. Names \in Seq(Params)
  <2>1. CASE stage = "stage1"
    <3>1. \A limit \in {MaxSpeed, Acceleration, Deceleration, MaxYawRate} : limit.name \in Params
      BY ParamsAssumption DEF MaxSpeed, Acceleration, Deceleration, MaxYawRate
    <3>2. \A limit \in {MaxSpeed, Acceleration, Deceleration, MaxYawRate} : Result(limit) \in Seq(Params)
      BY <3>1 DEF Result
    <3> QED BY <2>1, <3>2, ConcatProperties DEF Names
  <2>2. CASE stage = "stage2a"
    BY <2>2, ParamsAssumption DEF Names
  <2>3. CASE Sweeping
    <3>1. Names = Plan.gains
      BY <2>3 DEF Sweeping, Names, Sweeps
    <3>2. Plan.gains \in Seq(Params)
      BY <2>3, GainsFacts
    <3> QED BY <3>1, <3>2
  <2> QED BY <2>1, <2>2, <2>3
<1>2. Len(Names) \in Nat /\ DOMAIN Names = 1..Len(Names) /\ \A i \in DOMAIN Names : Names[i] \in Params
  BY <1>1, LenProperties, ElementOfSeq
<1>3. /\ DOMAIN Writes = 1..Len(Names)
      /\ \A i \in DOMAIN Writes : /\ Writes[i] = Set(Names[i], best[Names[i]])
                                  /\ Writes[i] \in AllCalls /\ Writes[i].name = Names[i] /\ Writes[i].op = "set"
  BY <1>2, CallFacts DEF Writes
<1>4. Writes \in Seq(AllCalls)
  <2>1. Writes \in [1..Len(Names) -> AllCalls]
    BY <1>3 DEF Writes
  <2> QED BY <1>2, <2>1, SeqDef
<1>5. Quiet(Writes)
  BY <1>3 DEF Quiet, Pubs
<1> DEFINE reads == [i \in DOMAIN Names |-> Get(Names[i])]
<1>6. \A i \in DOMAIN reads : reads[i] \in AllCalls /\ reads[i].op = "get"
  BY <1>2, CallFacts
<1>7. reads \in [1..Len(Names) -> AllCalls]
  BY <1>2, <1>6
<1>8. reads \in Seq(AllCalls) /\ Quiet(reads) /\ NoSets(reads)
  BY <1>2, <1>6, <1>7, SeqDef DEF Quiet, NoSets, Pubs
<1> QED BY <1>1, <1>3, <1>4, <1>5, <1>8

\* Which script is at a place.
LEMMA PlaceFacts ==
  ASSUME pc \in Places
  PROVE  /\ "ended" \in Places /\ "connect" \in Places
         /\ stage = "stage1" => Places = LimitPlaces
         /\ stage = "stage2a" => Places = SearchPlaces
         /\ Sweeping => Places = SweepPlaces
         /\ pc \in {"test", "coast", "tested", "coasted"} => stage = "stage1"
         /\ pc \in {"zero", "search", "speeds", "measure", "average", "found"} => stage = "stage2a"
         /\ pc \in {"sweep", "judge", "swept", "choose", "verify"} => Sweeping
         /\ pc = "ready" => stage = "stage2a" \/ Sweeping
         /\ pc = "result" => stage \in {"stage1", "stage2a"} \/ Sweeping
         /\ Sweeping => stage # "stage1" /\ stage # "stage2a"
<1>1. Sweeping => stage # "stage1" /\ stage # "stage2a"
  BY DEF Sweeping, Sweeps
<1>2. \/ stage = "stage1" /\ Places = LimitPlaces
      \/ stage = "stage2a" /\ Places = SearchPlaces
      \/ Sweeping /\ Places = SweepPlaces
      \/ stage # "stage1" /\ stage # "stage2a" /\ ~Sweeping /\ Places = {"connect", "ended"}
  BY <1>1 DEF Places
<1> QED BY <1>1, <1>2 DEF LimitPlaces, SearchPlaces, SweepPlaces

\* What a script step does to the calls: the next list is waited for, it is not the
\* first to publish without a confirmation, and it drives only if the flag is down.
Begun ==
  /\ calls = <<>> /\ pc # "ended" /\ pc' \in Places
  /\ calls' \in Seq(AllCalls) /\ Waited(calls')
  /\ handler' \/ (Quiet(calls') /\ pc' \in Early)
  /\ UNCHANGED <<session, modeVars, linkVars, publishers>>
  /\ \/ UNCHANGED <<abort, handler, late>> /\ (Drives(calls') = 0 \/ (~abort /\ Drives(calls') <= Most))
     \/ Confirmed /\ Drives(calls') <= Most

\* A step to a list without a publisher.
LEMMA QuietBegins ==
  ASSUME NEW from, NEW to, NEW next, Step(from, to, next), next \in Seq(AllCalls), Quiet(next),
         from # "ended", to \in Places, handler \/ to \in Early, handler \in BOOLEAN
  PROVE  Begun
<1>1. Waited(next) /\ Drives(next) = 0
  BY QuietFacts
<1> QED BY <1>1 DEF Begun, Step, Go

\* A step of a confirmed script to a list that drives or stops.
LEMMA DriveBegins ==
  ASSUME NEW from, NEW to, NEW next, Step(from, to, next), next \in Seq(AllCalls), Waited(next),
         from # "ended", to \in Places, handler = TRUE, Drives(next) = 0 \/ (~abort /\ Drives(next) <= Most)
  PROVE  Begun
BY DEF Begun, Step, Go

\* A step that the operator confirms.
LEMMA ConfirmBegins ==
  ASSUME NEW from, NEW to, NEW next, Go(from, to, next), Confirmed, next \in Seq(AllCalls), Waited(next),
         from # "ended", to \in Places, Drives(next) <= Most
  PROVE  Begun
BY DEF Begun, Go, Confirmed

\* Where a script is once it was confirmed.
LEMMA HandlerFacts ==
  ASSUME ListInv, TypeInv, pc \notin Early
  PROVE  handler = TRUE
BY DEF ListInv, TypeInv, FlagTypes

\* A drive is never too many.
LEMMA MostFacts == Most \in Nat /\ 1 <= Most
BY DEF Most

\* The steps of all scripts.
LEMMA ScriptBegins ==
  ASSUME TypeInv, ListInv, ScriptStep
  PROVE  Begun
<1>1. /\ pc \in Places /\ handler \in BOOLEAN /\ best \in [Params -> Nat] /\ index \in Nat
      /\ lo \in Nat /\ hi \in Nat /\ (Sweeping => sweep \in DOMAIN Plan.gains)
  BY DEF TypeInv, ScriptTypes, FlagTypes
<1>2. /\ "ended" \in Places /\ "connect" \in Places
      /\ stage = "stage1" => Places = LimitPlaces
      /\ stage = "stage2a" => Places = SearchPlaces
      /\ Sweeping => Places = SweepPlaces
      /\ pc \in {"test", "coast", "tested", "coasted"} => stage = "stage1"
      /\ pc \in {"zero", "search", "speeds", "measure", "average", "found"} => stage = "stage2a"
      /\ pc \in {"sweep", "judge", "swept", "choose", "verify"} => Sweeping
      /\ pc = "ready" => stage = "stage2a" \/ Sweeping
      /\ pc = "result" => stage \in {"stage1", "stage2a"} \/ Sweeping
  BY <1>1, PlaceFacts
<1>3. pc \notin Early => handler = TRUE
  BY HandlerFacts
<1>4. /\ stage = "stage1" => {"test", "coast", "tested", "coasted", "result"} \subseteq Places
      /\ stage = "stage2a" => {"zero", "ready", "search", "speeds", "measure", "average", "found", "result"} \subseteq Places
      /\ Sweeping => {"ready", "sweep", "judge", "swept", "choose", "verify", "result"} \subseteq Places
  BY <1>2 DEF LimitPlaces, SearchPlaces, SweepPlaces
<1> USE <1>1, <1>2, <1>3, <1>4, StopFacts, MostFacts
<1>5. CASE Connect
  <2>1. CASE Step("connect", "ended", <<>>)
    BY <2>1, QuietBegins DEF Early
  <2>2. CASE stage = "stage1" /\ Step("connect", "test", <<>>)
    BY <2>2, QuietBegins DEF Early
  <2>3. CASE stage = "stage2a" /\ Step("connect", "zero", <<Get("RO_SPEED_P"), Get("RO_SPEED_I")>>)
    <3> DEFINE next == <<Get("RO_SPEED_P"), Get("RO_SPEED_I")>>
    <3>1. next \in Seq(AllCalls) /\ DOMAIN next = {1, 2} /\ next[1].op = "get" /\ next[2].op = "get"
      BY CallFacts, ParamsAssumption
    <3>2. Quiet(next)
      BY <3>1 DEF Quiet, Pubs
    <3> HIDE DEF next
    <3>3. Step("connect", "zero", next)
      BY <2>3 DEF next
    <3> QED BY <2>3, <3>1, <3>2, <3>3, QuietBegins DEF Early
  <2>4. CASE stage \in DOMAIN Sweeps /\ Step("connect", "ready", Plan.reads)
    BY <2>4, PlanCalls, QuietBegins DEF Early, Sweeping
  <2> QED BY <1>5, <2>1, <2>2, <2>3, <2>4 DEF Connect
<1>6. CASE Decline
  BY <1>6, QuietBegins DEF Decline, Early
<1>7. CASE Conclude
  <2>1. pc = "result"
    BY <1>7 DEF Conclude, Step, Go
  <2>2. Writes \in Seq(AllCalls) /\ Quiet(Writes)
    BY <2>1, NamesFacts
  <2>3. PICK next \in {Writes, <<>>} : Step("result", "ended", next)
    BY <1>7 DEF Conclude
  <2> QED BY <2>2, <2>3, QuietBegins DEF Early
<1>8. CASE StartSweeps
  <2> DEFINE next == IF Two THEN <<Set(I, 0)>> ELSE <<>>
  <2>1. Sweeping /\ Go("ready", "sweep", next) /\ Confirmed
    BY <1>8 DEF StartSweeps, Sweeping, Two, I
  <2>2. next \in Seq(AllCalls) /\ Quiet(next)
    <3>1. CASE Two
      <4> DEFINE one == <<Set(I, 0)>>
      <4>1. I \in Params
        BY <2>1, <3>1, GainsFacts DEF I, Two
      <4>2. one \in Seq(AllCalls) /\ DOMAIN one = {1} /\ one[1].op = "set"
        BY <4>1, CallFacts
      <4> QED BY <3>1, <4>2 DEF Quiet, Pubs
    <3>2. CASE ~Two
      BY <3>2
    <3> QED BY <3>1, <3>2
  <2> HIDE DEF next
  <2>3. Waited(next) /\ Drives(next) = 0
    BY <2>2, QuietFacts
  <2> QED BY <2>1, <2>2, <2>3, ConfirmBegins
<1>9. CASE TryGain
  <2> DEFINE write == <<Set(Gain, index)>>
  <2>1. Step("sweep", "judge", write \o Plan.trial) /\ pc = "sweep" /\ ~abort
    BY <1>9 DEF TryGain, Step, Go
  <2>2. Gain \in Params
    BY <2>1, GainsFacts DEF Gain
  <2>3. write \in Seq(AllCalls) /\ DOMAIN write = {1} /\ write[1].op = "set"
    BY <2>2, CallFacts
  <2>4. Quiet(write)
    BY <2>3 DEF Quiet, Pubs
  <2> HIDE DEF write
  <2>5. Waited(write) /\ Drives(write) = 0
    BY <2>3, <2>4, QuietFacts
  <2>6. /\ write \o Plan.trial \in Seq(AllCalls) /\ Waited(write \o Plan.trial)
        /\ Drives(write \o Plan.trial) = Drives(write) + Drives(Plan.trial)
    BY <2>1, <2>3, <2>5, PlanCalls, ConcatCalls
  <2>7. Drives(write \o Plan.trial) <= Most
    <3>1. Drives(Plan.trial) \in Nat /\ Drives(Plan.trial) <= Most
      BY <2>1, PlanCalls, DrivesFacts
    <3> QED BY <2>5, <2>6, <3>1
  <2> QED BY <2>1, <2>6, <2>7, DriveBegins DEF Early
<1>10. CASE SweepEnds \/ SweepI \/ (\E e \in session.errors : Judge(e) \/ JudgeOver(e))
  <2>1. PICK from \in {"sweep", "choose", "judge"}, to \in {"swept", "sweep"} : Step(from, to, <<>>)
    BY <1>10 DEF SweepEnds, SweepI, Judge, JudgeOver
  <2>2. pc = from
    BY <2>1 DEF Step, Go
  <2> QED BY <2>1, <2>2, QuietBegins DEF Early
<1>11. CASE Swept
  <2>1. pc = "swept" /\ Sweeping /\ handler = TRUE
    BY <1>11 DEF Swept, Step, Go, Early
  <2>2. Gain \in Params /\ best[Gain] \in Nat
    BY <2>1, GainsFacts DEF Gain
  <2> DEFINE write == <<Set(Gain, best[Gain])>>
  <2>3. write \in Seq(AllCalls) /\ DOMAIN write = {1} /\ write[1].op = "set"
    BY <2>2, CallFacts
  <2>4. Quiet(write)
    BY <2>3 DEF Quiet, Pubs
  <2>5. Step("swept", "choose", write) \/ Step("swept", "verify", Stop)
    BY <1>11 DEF Swept
  <2> HIDE DEF write
  <2> QED BY <2>1, <2>3, <2>4, <2>5, QuietBegins, DriveBegins
<1>12. CASE SkipI
  <2>1. Step("choose", "verify", Stop) /\ pc = "choose"
    BY <1>12 DEF SkipI, Step, Go
  <2> QED BY <2>1, DriveBegins DEF Early
<1>13. CASE Verify
  <2>1. /\ Step("verify", "result", IF abort THEN <<>> ELSE Writes \o Plan.verification)
        /\ pc = "verify" /\ Sweeping /\ handler = TRUE
    BY <1>13 DEF Verify, Step, Go, Early
  <2>2. CASE abort
    BY <2>1, <2>2, QuietBegins
  <2>3. CASE ~abort
    <3>1. Writes \in Seq(AllCalls) /\ Waited(Writes) /\ Drives(Writes) = 0
      BY <2>1, NamesFacts, QuietFacts
    <3>2. /\ Writes \o Plan.verification \in Seq(AllCalls) /\ Waited(Writes \o Plan.verification)
          /\ Drives(Writes \o Plan.verification) = Drives(Writes) + Drives(Plan.verification)
      BY <2>1, <3>1, PlanCalls, ConcatCalls
    <3>3. Drives(Writes \o Plan.verification) <= Most
      <4>1. Drives(Plan.verification) \in Nat /\ Drives(Plan.verification) <= Most
        BY <2>1, PlanCalls, DrivesFacts
      <4> QED BY <3>1, <3>2, <4>1
    <3> QED BY <2>1, <2>3, <3>2, <3>3, DriveBegins
  <2> QED BY <2>2, <2>3
<1>14. CASE ZeroGains
  <2> DEFINE p == IF NonZero("RO_SPEED_P") THEN <<Set("RO_SPEED_P", 0)>> ELSE <<>>
             i == IF NonZero("RO_SPEED_I") THEN <<Set("RO_SPEED_I", 0)>> ELSE <<>>
             max == <<Get("RO_MAX_THR_SPEED")>>
  <2>1. p \in Seq(AllCalls) /\ Quiet(p) /\ i \in Seq(AllCalls) /\ Quiet(i) /\ max \in Seq(AllCalls) /\ Quiet(max)
    <3>1. /\ Set("RO_SPEED_P", 0) \in AllCalls /\ Set("RO_SPEED_I", 0) \in AllCalls /\ Get("RO_MAX_THR_SPEED") \in AllCalls
          /\ Set("RO_SPEED_P", 0).op = "set" /\ Set("RO_SPEED_I", 0).op = "set" /\ Get("RO_MAX_THR_SPEED").op = "get"
      BY CallFacts, ParamsAssumption
    <3>2. \A c \in AllCalls : c.op \in {"set", "get"} => <<c>> \in Seq(AllCalls) /\ Quiet(<<c>>)
      BY DEF Quiet, Pubs
    <3> QED BY <3>1, <3>2
  <2>2. Step("zero", "ready", p \o i \o max) /\ pc = "zero"
    BY <1>14 DEF ZeroGains, Step, Go
  <2> HIDE DEF p, i, max
  <2>3. p \o i \in Seq(AllCalls) /\ Quiet(p \o i)
    BY <2>1, ConcatCalls
  <2>4. p \o i \o max \in Seq(AllCalls) /\ Quiet(p \o i \o max)
    BY <2>1, <2>3, ConcatCalls
  <2> QED BY <2>2, <2>4, QuietBegins DEF Early
<1>15. CASE StartSearch
  <2>1. Go("ready", "search", <<>>) /\ Confirmed /\ stage = "stage2a"
    BY <1>15 DEF StartSearch
  <2>2. "search" \in Places /\ Drives(<<>>) <= Most
    BY <2>1
  <2> QED BY <2>1, <2>2, ConfirmBegins
<1>16. CASE Iterate
  <2> DEFINE write == <<Set("RO_MAX_THR_SPEED", mid)>>
  <2>1. Step("search", "speeds", write) /\ pc = "search"
    BY <1>16 DEF Iterate, Step, Go
  <2>2. mid \in Nat
    BY DEF mid
  <2>3. write \in Seq(AllCalls) /\ DOMAIN write = {1} /\ write[1].op = "set"
    BY <2>2, CallFacts, ParamsAssumption
  <2>4. Quiet(write)
    BY <2>3 DEF Quiet, Pubs
  <2> HIDE DEF write
  <2> QED BY <2>1, <2>3, <2>4, QuietBegins DEF Early
<1>17. CASE StopSearching \/ Found
  <2>1. PICK from \in {"search", "found"}, to \in {"found", "result"}, next \in {Stop, <<>>} : Step(from, to, next)
    BY <1>17 DEF StopSearching, Found
  <2>2. pc = from
    BY <2>1 DEF Step, Go
  <2> QED BY <2>1, <2>2, DriveBegins DEF Early
<1>18. CASE MeasureSpeed
  <2>1. Step("speeds", "measure", Trial) /\ ~abort /\ pc = "speeds"
    BY <1>18 DEF MeasureSpeed, Step, Go
  <2> QED BY <2>1, TrialCalls, DriveBegins DEF Early
<1>19. CASE SkipSpeed \/ SpeedsEnd \/ NothingTested \/ Accept \/ Halve
  <2>1. PICK from \in {"speeds", "average"}, to \in {"speeds", "average", "search", "found"} : Step(from, to, <<>>)
    BY <1>19 DEF SkipSpeed, SpeedsEnd, NothingTested, Accept, Halve
  <2>2. pc = from
    BY <2>1 DEF Step, Go
  <2> QED BY <2>1, <2>2, QuietBegins DEF Early
<1>20. CASE \E seen \in GoesWell : Measure(seen)
  <2>1. Go("measure", "speeds", <<>>) /\ UNCHANGED <<abort, handler, late>>
    BY <1>20 DEF Measure
  <2>2. pc = "measure" /\ handler = TRUE
    BY <2>1 DEF Go, Early
  <2> QED BY <2>1, <2>2 DEF Begun, Go
<1>21. CASE SkipTest
  <2>1. Step("test", "test", <<>>) /\ pc = "test"
    BY <1>21 DEF SkipTest, Leave, Step, Go
  <2> QED BY <2>1, QuietBegins DEF Early
<1>22. CASE StartTest
  <2>1. PICK next \in {<<Drive, Wait>>, Trial}, to \in {"coast", "tested"} : Go("test", to, next)
    BY <1>22 DEF StartTest
  <2>2. Confirmed /\ pc = "test"
    BY <1>22, <2>1 DEF StartTest, Go
  <2> QED BY <2>1, <2>2, TrialCalls, ConfirmBegins
<1>23. CASE Coast
  <2> DEFINE next == Stop \o <<Collect>>
  <2>1. Step("coast", "coasted", next) /\ pc = "coast"
    BY <1>23 DEF Coast, Step, Go
  <2>2. <<Collect>> \in Seq(AllCalls) /\ Quiet(<<Collect>>)
    BY CallFacts DEF Quiet, Pubs
  <2>3. Waited(<<Collect>>) /\ Drives(<<Collect>>) = 0
    BY <2>2, QuietFacts
  <2>4. next \in Seq(AllCalls) /\ Waited(next) /\ Drives(next) = Drives(Stop) + Drives(<<Collect>>)
    BY <2>2, <2>3, ConcatCalls
  <2> HIDE DEF next
  <2> QED BY <2>1, <2>3, <2>4, DriveBegins DEF Early
<1>24. CASE TestAborted
  <2>1. PICK from \in {"tested", "coast"} : Step(from, "test", Stop)
    BY <1>24 DEF TestAborted, Leave
  <2>2. pc = from
    BY <2>1 DEF Step, Go
  <2> QED BY <2>1, <2>2, DriveBegins DEF Early
<1>25. CASE TestEnds
  <2>1. PICK from \in {"tested", "coasted"} : Step(from, "test", <<>>)
    BY <1>25 DEF TestEnds, Leave
  <2>2. pc = from
    BY <2>1 DEF Step, Go
  <2> QED BY <2>1, <2>2, QuietBegins DEF Early
<1>26. CASE Summary
  <2> DEFINE next == [i \in DOMAIN Names |-> Get(Names[i])]
  <2>1. PICK to \in {"ended", "result"} : Step("test", to, next)
    BY <1>26 DEF Summary
  <2>2. pc = "test"
    BY <2>1 DEF Step, Go
  <2>3. next \in Seq(AllCalls) /\ Quiet(next)
    BY <2>2, NamesFacts
  <2> HIDE DEF next
  <2> QED BY <2>1, <2>2, <2>3, QuietBegins DEF Early
<1> QED
  BY <1>5, <1>6, <1>7, <1>8, <1>9, <1>10, <1>11, <1>12, <1>13, <1>14, <1>15, <1>16, <1>17, <1>18, <1>19, <1>20,
     <1>21, <1>22, <1>23, <1>24, <1>25, <1>26 DEF ScriptStep, SweepStep, SearchStep, LimitStep

-----------------------------------------------------------------------------
(* The calls and types are kept.                                           *)

\* A sequence without one of its elements.
LEMMA RemoveAtFacts ==
  ASSUME NEW S, NEW s \in Seq(S), NEW i \in DOMAIN s
  PROVE  /\ RemoveAt(s, i) \in Seq(S) /\ DOMAIN RemoveAt(s, i) = 1..(Len(s) - 1)
         /\ \A k \in 1..(Len(s) - 1) : RemoveAt(s, i)[k] = IF k < i THEN s[k] ELSE s[k + 1]
<1> DEFINE n == Len(s)
           a == SubSeq(s, 1, i - 1)
           b == SubSeq(s, i + 1, n)
<1>1. n \in Nat /\ DOMAIN s = 1..n /\ i \in 1..n /\ \A k \in 1..n : s[k] \in S
  BY LenProperties, ElementOfSeq
<1> HIDE DEF n
<1>2. \A k \in 1..(i - 1) : s[k] \in S
  BY <1>1
<1>3. \A k \in (i + 1)..n : s[k] \in S
  BY <1>1
<1>4. a \in Seq(S) /\ Len(a) = i - 1 /\ \A k \in 1..(i - 1) : a[k] = s[k]
  <2>1. /\ a \in Seq(S) /\ Len(a) = IF 1 <= i - 1 THEN i - 1 - 1 + 1 ELSE 0
        /\ \A k \in 1..(i - 1 - 1 + 1) : a[k] = s[1 + k - 1]
    BY <1>1, <1>2, SubSeqProperties
  <2> HIDE DEF a
  <2> QED BY <1>1, <2>1
<1>5. b \in Seq(S) /\ Len(b) = n - i /\ \A k \in 1..(n - i) : b[k] = s[i + k]
  <2>1. /\ b \in Seq(S) /\ Len(b) = IF i + 1 <= n THEN n - (i + 1) + 1 ELSE 0
        /\ \A k \in 1..(n - (i + 1) + 1) : b[k] = s[i + 1 + k - 1]
    BY <1>1, <1>3, SubSeqProperties
  <2> HIDE DEF b
  <2>2. n - (i + 1) + 1 = n - i /\ \A k \in 1..(n - i) : i + 1 + k - 1 = i + k
    BY <1>1
  <2>3. \A k \in 1..(n - i) : b[k] = s[i + k]
    BY <2>1, <2>2
  <2> QED BY <1>1, <2>1, <2>2, <2>3
<1> DEFINE q == a \o b
<1>6. RemoveAt(s, i) = q
  BY DEF RemoveAt, n
<1> HIDE DEF a, b
<1>7. /\ q \in Seq(S) /\ Len(q) = Len(a) + Len(b)
      /\ \A k \in 1..(Len(a) + Len(b)) : q[k] = IF k <= Len(a) THEN a[k] ELSE b[k - Len(a)]
  BY <1>4, <1>5, ConcatProperties
<1>8. DOMAIN q = 1..Len(q)
  BY <1>7, LenProperties
<1> HIDE DEF q
<1>9. ASSUME NEW k \in 1..(n - 1) PROVE q[k] = IF k < i THEN s[k] ELSE s[k + 1]
  <2>1. CASE k < i
    BY <1>1, <1>4, <1>5, <1>7, <2>1
  <2>2. CASE ~(k < i)
    <3>1. k - (i - 1) \in 1..(n - i) /\ i + (k - (i - 1)) = k + 1 /\ ~(k <= i - 1)
      BY <1>1, <2>2
    <3>2. Len(a) = i - 1 /\ ~(k <= Len(a)) /\ k \in 1..(Len(a) + Len(b))
      <4>1. Len(a) = i - 1 /\ Len(b) = n - i
        BY <1>4, <1>5
      <4> QED BY <1>1, <2>2, <4>1
    <3>3. q[k] = b[k - Len(a)]
      BY <1>7, <3>2, Zenon
    <3>4. q[k] = b[k - (i - 1)]
      BY <3>2, <3>3, Zenon
    <3> QED BY <1>5, <2>2, <3>1, <3>4
  <2> QED BY <2>1, <2>2
<1>10. Len(q) = n - 1
  <2>1. Len(a) + Len(b) = n - 1
    BY <1>1, <1>4, <1>5
  <2> QED BY <1>7, <2>1
<1>11. DOMAIN q = 1..(n - 1)
  BY <1>8, <1>10
<1> QED BY <1>6, <1>7, <1>9, <1>11 DEF n

\* A call of the library takes the first one from the list.
LEMMA LibCalls ==
  ASSUME LibStep
  PROVE  /\ calls # <<>> /\ calls' = Tail(calls) /\ UNCHANGED <<session, pc, abort, handler, modeVars, stageVars>>
         /\ late' = late + (IF abort /\ Head(calls).op = "drive" THEN 1 ELSE 0) \/ late' = late
         /\ ~(abort /\ Head(calls).op = "drive") => late' = late
<1>1. CASE ParamSet \/ ParamGet \/ CollectTelemetry \/ ProcWait
  BY <1>1 DEF LibStep, ParamSet, ParamGet, CollectTelemetry, ProcWait, Calls
<1>2. CASE PubCmdVel
  BY <1>2 DEF LibStep, PubCmdVel, Calls
<1> QED BY <1>1, <1>2 DEF LibStep

\* Neither a publisher nor the mode has calls to make.
LEMMA Aside ==
  ASSUME Published \/ ModeStep \/ Tick \/ UNCHANGED vars
  PROVE  UNCHANGED <<session, linkVars, calls, pc, abort, handler, late, stageVars>>
BY DEF Published, Publish, ModeStep, Tick, vars, libVars

\* What cuts in ends the script, or leaves its calls.
LEMMA MishapFacts ==
  ASSUME Mishap
  PROVE  /\ UNCHANGED <<session, linkVars, handler, late, stageVars>>
         /\ \/ UNCHANGED <<calls, pc>> /\ (abort' = abort \/ (handler /\ abort' = TRUE))
            \/ calls' = <<>> /\ pc' = "ended" /\ abort' = abort
BY DEF Mishap, Interrupt, LinkBreaks, ModeSwitch

\* Where a script can be depends on the session.
LEMMA PlacesStay ==
  ASSUME session' = session
  PROVE  Places' = Places /\ Most' = Most
<1>1. stage' = stage /\ Sweeping' = Sweeping
  BY SessionStays
<1> QED BY <1>1 DEF Places, Most

\* Every step keeps the calls in order.
LEMMA ListKeeps ==
  ASSUME TypeInv, ListInv, [Next]_vars
  PROVE  ListInv'
<1>1. session' = session
  BY SessionFixed
<1>2. Most' = Most /\ Most \in Nat
  BY <1>1, PlacesStay, MostFacts
<1>3. /\ calls \in Seq(AllCalls) /\ late \in Nat /\ abort \in BOOLEAN /\ handler \in BOOLEAN
      /\ (abort => handler)
  BY DEF TypeInv, FlagTypes
<1>4. Drives(calls) \in Nat
  BY <1>3, DrivesFacts
<1>5. CASE ScriptStep
  <2>1. Begun
    BY <1>5, ScriptBegins
  <2>2. Drives(calls') \in Nat
    BY <2>1, DrivesFacts DEF Begun
  <2>3. late' + Drives(calls') <= Most /\ (~abort' => late' = 0)
    <3>1. CASE UNCHANGED <<abort, handler, late>> /\ (Drives(calls') = 0 \/ (~abort /\ Drives(calls') <= Most))
      BY <1>2, <1>3, <1>4, <2>2, <3>1 DEF ListInv
    <3>2. CASE Confirmed /\ Drives(calls') <= Most
      BY <1>2, <2>2, <3>2 DEF Confirmed
    <3> QED BY <2>1, <3>1, <3>2 DEF Begun
  <2>4. Waited(calls') /\ (handler' \/ (Quiet(calls') /\ pc' \in Early))
    BY <2>1 DEF Begun
  <2> QED BY <1>2, <2>3, <2>4 DEF ListInv, Waited, Quiet, Drives, DrivesOf, Early
<1>6. CASE LibStep
  <2>1. /\ calls # <<>> /\ calls' = Tail(calls) /\ pc' = pc /\ abort' = abort /\ handler' = handler
        /\ late' = late + (IF abort /\ Head(calls).op = "drive" THEN 1 ELSE 0) \/ late' = late
        /\ ~(abort /\ Head(calls).op = "drive") => late' = late
    BY <1>6, LibCalls
  <2>2. /\ calls' \in Seq(AllCalls) /\ (Quiet(calls) => Quiet(calls')) /\ Waited(calls')
        /\ Drives(calls) = Drives(calls') + (IF Head(calls).op = "drive" THEN 1 ELSE 0)
    BY <1>3, <2>1, TailCalls DEF ListInv
  <2>3. Drives(calls') \in Nat
    BY <2>2, DrivesFacts
  <2>4. late' + Drives(calls') <= Most /\ (~abort' => late' = 0)
    BY <1>2, <1>3, <1>4, <2>1, <2>2, <2>3 DEF ListInv
  <2>5. Waited(calls') /\ (handler' \/ (Quiet(calls') /\ pc' \in Early))
    BY <2>1, <2>2 DEF ListInv
  <2> QED BY <1>2, <2>4, <2>5 DEF ListInv, Waited, Quiet, Drives, DrivesOf, Early
<1>7. CASE Published \/ ModeStep \/ Tick \/ UNCHANGED vars
  <2>1. UNCHANGED <<calls, pc, abort, handler, late>>
    BY <1>7, Aside
  <2> QED BY <1>2, <2>1 DEF ListInv, Waited, Quiet, Drives, DrivesOf, Early
<1>8. CASE Mishap
  <2>1. /\ handler' = handler /\ late' = late
        /\ \/ UNCHANGED <<calls, pc>> /\ (abort' = abort \/ (handler /\ abort' = TRUE))
           \/ calls' = <<>> /\ pc' = "ended" /\ abort' = abort
    BY <1>8, MishapFacts
  <2>2. CASE UNCHANGED <<calls, pc>> /\ (abort' = abort \/ (handler /\ abort' = TRUE))
    BY <1>2, <2>1, <2>2 DEF ListInv, Waited, Quiet, Drives, DrivesOf, Early
  <2>3. CASE calls' = <<>> /\ pc' = "ended" /\ abort' = abort
    <3>1. Waited(calls') /\ Quiet(calls') /\ Drives(calls') = 0 /\ pc' \in Early
      BY <2>3, StopFacts DEF Early
    <3>2. late' + Drives(calls') <= Most /\ (~abort' => late' = 0)
      BY <1>2, <1>3, <1>4, <2>1, <2>3, <3>1 DEF ListInv
    <3> QED BY <1>2, <3>1, <3>2 DEF ListInv, Waited, Quiet, Drives, DrivesOf, Early
  <2> QED BY <2>1, <2>2, <2>3
<1> QED BY <1>5, <1>6, <1>7, <1>8 DEF Next

\* The link holds values of parameters.
LEMMA LinkKeeps ==
  ASSUME TypeInv, LibStep
  PROVE  LinkTypes'
<1>1. LinkTypes /\ calls \in Seq(AllCalls) /\ calls # <<>>
  BY LibCalls DEF TypeInv
<1>2. Head(calls) \in AllCalls
  BY <1>1, TailCalls
<1>3. CASE ParamSet
  <2>1. PICK arrives \in GoesWell, answered \in GoesWell, taken \in GoesWell :
          LET name == Head(calls).name
              value == Head(calls).value
              sent == IF arrives /\ answered THEN Append(replies, [name |-> name, value |-> value]) ELSE replies IN
          /\ Received(sent, taken)
          /\ param' = IF arrives THEN [param EXCEPT ![name] = value] ELSE param
          /\ told' = [told EXCEPT ![name] = IF taken /\ Confirms(Head(sent), name, value) THEN {value} ELSE {}]
    BY <1>3, ZenonT(90) DEF ParamSet
  <2> DEFINE name == Head(calls).name
             value == Head(calls).value
             sent == IF arrives /\ answered THEN Append(replies, [name |-> name, value |-> value]) ELSE replies
  <2>2. name \in Params /\ value \in Nat
    BY <1>2, <1>3, CallFacts DEF ParamSet, Calls
  <2>3. [name |-> name, value |-> value] \in Reply
    BY <2>2 DEF Reply
  <2>4. sent \in Seq(Reply)
    BY <1>1, <2>3, AppendProperties DEF LinkTypes
  <2>5. /\ Received(sent, taken)
        /\ param' = IF arrives THEN [param EXCEPT ![name] = value] ELSE param
        /\ told' = [told EXCEPT ![name] = IF taken /\ Confirms(Head(sent), name, value) THEN {value} ELSE {}]
        /\ read' = read
    BY <1>3, <2>1 DEF ParamSet
  <2> HIDE DEF name, value, sent
  <2>6. replies' \in Seq(Reply)
    BY <2>4, <2>5, HeadTailProperties DEF Received
  <2>7. param' \in [Params -> Nat]
    BY <1>1, <2>2, <2>5 DEF LinkTypes
  <2>8. told' \in [Params -> SUBSET Nat]
    BY <1>1, <2>2, <2>5 DEF LinkTypes
  <2> QED BY <1>1, <2>5, <2>6, <2>7, <2>8 DEF LinkTypes
<1>4. CASE ParamGet
  <2>1. PICK answered \in GoesWell, taken \in GoesWell :
          LET name == Head(calls).name
              sent == IF answered THEN Append(replies, [name |-> name, value |-> param[name]]) ELSE replies IN
          /\ Received(sent, taken)
          /\ read' = [read EXCEPT ![name] = IF taken /\ Head(sent).name = name THEN {Head(sent).value} ELSE {}]
    BY <1>4, ZenonT(90) DEF ParamGet
  <2> DEFINE name == Head(calls).name
             sent == IF answered THEN Append(replies, [name |-> name, value |-> param[name]]) ELSE replies
  <2>2. name \in Params /\ param[name] \in Nat
    BY <1>1, <1>2, <1>4, CallFacts DEF ParamGet, Calls, LinkTypes
  <2>3. [name |-> name, value |-> param[name]] \in Reply
    BY <2>2 DEF Reply
  <2>4. sent \in Seq(Reply)
    BY <1>1, <2>3, AppendProperties DEF LinkTypes
  <2>5. /\ Received(sent, taken)
        /\ read' = [read EXCEPT ![name] = IF taken /\ Head(sent).name = name THEN {Head(sent).value} ELSE {}]
        /\ UNCHANGED <<param, told>>
    BY <1>4, <2>1 DEF ParamGet
  <2> HIDE DEF name, sent
  <2>6. replies' \in Seq(Reply)
    BY <2>4, <2>5, HeadTailProperties DEF Received
  <2>7. taken => Head(sent).value \in Nat
    <3>1. taken => Head(sent) \in Reply
      BY <2>4, <2>5, HeadTailProperties DEF Received
    <3> QED BY <3>1 DEF Reply
  <2>8. read' \in [Params -> SUBSET Nat]
    BY <1>1, <2>2, <2>5, <2>7 DEF LinkTypes
  <2> QED BY <1>1, <2>5, <2>6, <2>8 DEF LinkTypes
<1>5. CASE CollectTelemetry
  BY <1>1, <1>5 DEF LinkTypes, CollectTelemetry
<1>6. CASE PubCmdVel \/ ProcWait
  BY <1>1, <1>6 DEF LinkTypes, PubCmdVel, ProcWait, linkVars
<1> QED BY <1>3, <1>4, <1>5, <1>6 DEF LibStep

\* What the scripts compute.
LEMMA ScriptKeeps ==
  ASSUME TypeInv, ListInv, SweepInv, ScriptStep
  PROVE  ScriptTypes'
<1>1. ScriptTypes /\ LinkTypes
  BY DEF TypeInv
<1>2. session' = session /\ pc' \in Places
  BY ScriptBegins DEF Begun
<1>3. Places' = Places /\ Plan' = Plan /\ Sweeping' = Sweeping
  BY <1>2, PlacesStay, SessionStays
<1>4. mid \in Nat /\ Unit \in Nat
  BY <1>1, SearchAssumption DEF mid, ScriptTypes
<1>5. Current(4 * Unit) \in Nat
  <2>1. read["RO_MAX_THR_SPEED"] \subseteq Nat
    BY <1>1, ParamsAssumption DEF LinkTypes
  <2>2. 4 * Unit \in Nat
    BY <1>4
  <2> QED BY <2>1, <2>2 DEF Current, NonZero
<1>6. SpeedError \in Int /\ param["RO_MAX_THR_SPEED"] \in Int
  <2>1. /\ session.ideal \in Nat /\ param["RO_MAX_THR_SPEED"] \in Nat
    BY <1>1, SearchAssumption, ParamsAssumption DEF ScriptTypes, LinkTypes
  <2> QED BY <2>1 DEF SpeedError
<1>7. pc \in Places /\ index \in Nat /\ total \in Int /\ tested \in Nat /\ speed \in Nat /\ error \in 0..Worst
  BY <1>1 DEF ScriptTypes
<1>8. Sweeping' => sweep' \in DOMAIN Plan'.gains
  <2>1. SweepInv'
    BY StepKeeps DEF Next
  <2> QED BY <2>1 DEF SweepInv, SweepTypes
<1> SUFFICES /\ best' \in [Params -> Nat] /\ index' \in Nat /\ error' \in 0..Worst
             /\ lo' \in Nat /\ hi' \in Nat /\ speed' \in Nat /\ total' \in Int /\ tested' \in Nat
  BY <1>1, <1>2, <1>3, <1>8 DEF ScriptTypes
<1>9. CASE Connect \/ Decline \/ Conclude \/ StartSweeps \/ TryGain \/ SweepEnds \/ Swept \/ SkipI \/ Verify
           \/ ZeroGains \/ StopSearching \/ MeasureSpeed \/ SpeedsEnd \/ Found \/ StartTest \/ Coast \/ Summary
  <2>1. UNCHANGED <<best, index, error, lo, hi, speed, total, tested>>
    BY <1>9 DEF Connect, Decline, Conclude, StartSweeps, TryGain, SweepEnds, Swept, SkipI, Verify, ZeroGains,
       StopSearching, MeasureSpeed, SpeedsEnd, Found, StartTest, Coast, Summary, stageVars, sweepVars, searchVars
  <2> QED BY <1>1, <2>1 DEF ScriptTypes
<1>10. CASE SweepI
  BY <1>1, <1>10 DEF ScriptTypes, SweepI, searchVars
<1>11. CASE \E e \in session.errors : Judge(e) \/ JudgeOver(e)
  <2>1. PICK e \in session.errors : Judge(e) \/ JudgeOver(e)
    BY <1>11
  <2>2. e \in Nat /\ Worst \in Nat
    BY <1>1, SweepAssumption DEF ScriptTypes
  <2>3. CASE JudgeOver(e)
    BY <1>1, <2>3 DEF ScriptTypes, JudgeOver, searchVars
  <2>4. CASE Judge(e)
    <3>1. /\ best' = IF e < error THEN [best EXCEPT ![Gain] = index] ELSE best
          /\ error' = IF e < error THEN e ELSE error
          /\ index' = index + 1 /\ UNCHANGED <<lo, hi, speed, total, tested>>
      BY <2>4 DEF Judge, searchVars
    <3>2. best' \in [Params -> Nat]
      BY <1>1, <1>7, <3>1 DEF ScriptTypes
    <3>3. error' \in 0..Worst
      BY <1>7, <2>2, <3>1
    <3> QED BY <1>1, <1>7, <3>1, <3>2, <3>3 DEF ScriptTypes
  <2> QED BY <2>1, <2>3, <2>4
<1>12. CASE StartSearch
  <2>1. /\ lo' = Unit
        /\ hi' = (IF 2 * Current(4 * Unit) > 8 * Unit THEN 2 * Current(4 * Unit) ELSE 8 * Unit)
        /\ best' = [best EXCEPT !["RO_MAX_THR_SPEED"] = Current(4 * Unit)]
        /\ UNCHANGED <<index, error, speed, total, tested>>
    BY <1>12 DEF StartSearch, sweepVars
  <2>2. hi' \in Nat
    BY <1>4, <1>5, <2>1
  <2>3. best' \in [Params -> Nat]
    BY <1>1, <1>5, <2>1 DEF ScriptTypes
  <2> QED BY <1>1, <1>4, <2>1, <2>2, <2>3 DEF ScriptTypes
<1>13. CASE Iterate \/ SkipSpeed
  BY <1>1, <1>13 DEF ScriptTypes, Iterate, SkipSpeed, sweepVars
<1>14. CASE \E seen \in GoesWell : Measure(seen)
  <2>1. PICK seen \in GoesWell : Measure(seen)
    BY <1>14
  <2>2. /\ total' = total + (IF seen THEN SpeedError ELSE -param["RO_MAX_THR_SPEED"])
        /\ tested' = tested + 1 /\ speed' = speed + 1
        /\ UNCHANGED <<best, error, index, lo, hi>>
    BY <2>1 DEF Measure, sweepVars
  <2>3. total' \in Int
    BY <1>6, <1>7, <2>2
  <2> QED BY <1>1, <1>7, <2>2, <2>3 DEF ScriptTypes
<1>15. CASE NothingTested \/ Accept \/ Halve
  <2>1. /\ best' \in {best, [best EXCEPT !["RO_MAX_THR_SPEED"] = mid]}
        /\ lo' \in {lo, mid} /\ hi' \in {hi, mid} /\ index' \in {index, index + 1}
        /\ UNCHANGED <<error, speed, total, tested>>
    BY <1>15 DEF NothingTested, Accept, Halve, sweepVars, searchVars
  <2>2. best' \in [Params -> Nat]
    BY <1>1, <1>4, <2>1 DEF ScriptTypes
  <2> QED BY <1>1, <1>4, <1>7, <2>1, <2>2 DEF ScriptTypes
<1>16. CASE SkipTest \/ TestAborted
  <2>1. UNCHANGED <<best, error, lo, hi, speed, total, tested>> /\ index' = index + 1
    BY <1>16 DEF SkipTest, TestAborted, Leave, sweepVars, searchVars
  <2> QED BY <1>1, <1>7, <2>1 DEF ScriptTypes
<1>17. CASE TestEnds
  <2>1. /\ UNCHANGED <<error, lo, hi, speed, total, tested>> /\ index' = index + 1
        /\ best' \in {best, [best EXCEPT ![Test.name] = 1]}
    BY <1>17 DEF TestEnds, Leave, sweepVars, searchVars
  <2>2. best' \in [Params -> Nat]
    BY <1>1, <2>1 DEF ScriptTypes
  <2> QED BY <1>1, <1>7, <2>1, <2>2 DEF ScriptTypes
<1> QED
  BY <1>9, <1>10, <1>11, <1>12, <1>13, <1>14, <1>15, <1>16, <1>17 DEF ScriptStep, SweepStep, SearchStep, LimitStep

\* Publishers have messages left as long as they run.
LEMMA PublisherKeeps ==
  ASSUME TypeInv, ListInv, [Next]_vars
  PROVE  publishers' \in Seq(Publisher)
<1>1. publishers \in Seq(Publisher) /\ DriveCount \in Nat \ {0}
  BY SweepAssumption DEF TypeInv
<1>2. /\ Len(publishers) \in Nat /\ DOMAIN publishers = 1..Len(publishers)
      /\ \A i \in DOMAIN publishers : publishers[i] \in Publisher
  BY <1>1, LenProperties, ElementOfSeq
<1>3. CASE PubCmdVel
  <2>1. /\ [drives |-> TRUE, left |-> DriveCount, attended |-> TRUE] \in Publisher
        /\ [drives |-> FALSE, left |-> 1, attended |-> TRUE] \in Publisher
    BY <1>1 DEF Publisher
  <2> QED BY <1>1, <1>3, <2>1, AppendProperties DEF PubCmdVel
<1>4. CASE Publish
  <2>1. PICK i \in DOMAIN publishers :
          publishers' = IF publishers[i].left = 1 THEN RemoveAt(publishers, i)
                        ELSE [publishers EXCEPT ![i].left = @ - 1]
    BY <1>4 DEF Publish
  <2>2. CASE publishers[i].left = 1
    BY <1>1, <2>1, <2>2, RemoveAtFacts
  <2>3. CASE publishers[i].left # 1
    <3>1. publishers' = [publishers EXCEPT ![i] = [publishers[i] EXCEPT !.left = @ - 1]]
      BY <2>1, <2>3
    <3>2. [publishers[i] EXCEPT !.left = @ - 1] \in Publisher
      BY <1>1, <1>2, <2>3 DEF Publisher
    <3> QED BY <1>1, <3>1, <3>2, ExceptSeq
  <2> QED BY <2>2, <2>3
<1>5. CASE Interrupt
  <2>1. PICK survives \in BOOLEAN :
          publishers' = [i \in DOMAIN publishers |-> [publishers[i] EXCEPT !.attended = @ /\ survives]]
    BY <1>5 DEF Interrupt
  <2>2. \A i \in DOMAIN publishers : [publishers[i] EXCEPT !.attended = @ /\ survives] \in Publisher
    <3> SUFFICES ASSUME NEW i \in DOMAIN publishers
                 PROVE  [publishers[i] EXCEPT !.attended = @ /\ survives] \in Publisher
      OBVIOUS
    <3>1. publishers[i] \in Publisher
      BY <1>2
    <3>2. (publishers[i].attended /\ survives) \in BOOLEAN
      OBVIOUS
    <3> QED BY <3>1, <3>2 DEF Publisher
  <2>3. publishers' \in [1..Len(publishers) -> Publisher]
    BY <1>2, <2>1, <2>2
  <2> QED BY <1>2, <2>3, SeqDef
<1>6. CASE ScriptStep
  <2>1. publishers' = publishers
    BY <1>6, ScriptBegins DEF Begun
  <2> QED BY <1>1, <2>1
<1>7. CASE ParamSet \/ ParamGet \/ CollectTelemetry \/ ProcWait \/ LinkBreaks \/ ModeSwitch \/ ModeStep \/ Tick
           \/ UNCHANGED vars
  BY <1>1, <1>7 DEF ParamSet, ParamGet, CollectTelemetry, ProcWait, LinkBreaks, ModeSwitch, ModeStep, Tick, vars,
     libVars
<1> QED BY <1>3, <1>4, <1>5, <1>6, <1>7 DEF Next, LibStep, Published, Mishap

\* The mode moves only while it is flown, and Ctrl-C counts only with a handler.
LEMMA FlagsKeep ==
  ASSUME TypeInv, ListInv, [Next]_vars
  PROVE  FlagTypes'
<1>1. FlagTypes
  BY DEF TypeInv
<1>2. CASE ScriptStep
  <2>1. UNCHANGED modeVars /\ (UNCHANGED <<abort, handler, late>> \/ Confirmed)
    BY <1>2, ScriptBegins DEF Begun
  <2>2. UNCHANGED <<active, received, driving, moving>>
    BY <2>1 DEF modeVars
  <2>3. CASE UNCHANGED <<abort, handler, late>>
    BY <1>1, <2>2, <2>3 DEF FlagTypes
  <2>4. CASE Confirmed
    <3>1. abort' = FALSE /\ handler' = TRUE /\ late' \in Nat
      BY <2>4 DEF Confirmed
    <3> QED BY <1>1, <2>2, <3>1 DEF FlagTypes
  <2> QED BY <2>1, <2>3, <2>4
<1>3. CASE LibStep
  <2>1. UNCHANGED <<abort, handler, modeVars>> /\ late' \in {late, late + 1}
    BY <1>1, <1>3, LibCalls DEF FlagTypes
  <2> QED BY <1>1, <2>1 DEF FlagTypes, modeVars
<1>4. CASE Published
  <2>1. PICK i \in DOMAIN publishers : HandleTwist(publishers[i].drives)
    BY <1>4 DEF Published, Publish
  <2>2. publishers[i].drives \in BOOLEAN
    <3>1. publishers[i] \in Publisher
      BY ElementOfSeq, LenProperties DEF TypeInv
    <3> QED BY <3>1 DEF Publisher
  <2> QED BY <1>1, <1>4, <2>1, <2>2 DEF FlagTypes, HandleTwist, Published, Publish
<1>5. CASE ModeStep
  BY <1>1, <1>5 DEF FlagTypes, ModeStep, UpdateSetpoint, libVars
<1>6. CASE Tick \/ UNCHANGED vars
  BY <1>1, <1>6 DEF FlagTypes, Tick, ModeTick, vars, libVars, modeVars
<1>7. CASE Mishap
  <2>1. CASE Interrupt \/ LinkBreaks
    <3>1. UNCHANGED <<handler, late, active, received, driving, moving>>
      BY <2>1 DEF Interrupt, LinkBreaks, modeVars
    <3>2. abort' = abort \/ (handler /\ abort' = TRUE)
      BY <2>1 DEF Interrupt, LinkBreaks
    <3>3. CASE abort' = abort
      BY <1>1, <3>1, <3>3 DEF FlagTypes
    <3>4. CASE handler /\ abort' = TRUE
      <4>1. abort' \in BOOLEAN /\ (abort' => handler') /\ handler' \in BOOLEAN
        BY <1>1, <3>1, <3>4 DEF FlagTypes
      <4> QED BY <1>1, <3>1, <4>1 DEF FlagTypes
    <3> QED BY <3>2, <3>3, <3>4
  <2>2. CASE ModeSwitch
    <3>1. UNCHANGED <<abort, handler, late>> /\ (OnActivate \/ OnDeactivate)
      BY <2>2 DEF ModeSwitch
    <3>2. CASE OnActivate
      <4>1. active' = TRUE /\ received' = FALSE /\ driving' = FALSE /\ moving' = moving
        BY <3>2 DEF OnActivate
      <4> QED BY <1>1, <3>1, <4>1 DEF FlagTypes
    <3>3. CASE OnDeactivate
      <4>1. active' = FALSE /\ moving' = FALSE /\ UNCHANGED <<received, driving>>
        BY <3>3 DEF OnDeactivate
      <4> QED BY <1>1, <3>1, <4>1 DEF FlagTypes
    <3> QED BY <3>1, <3>2, <3>3
  <2> QED BY <1>7, <2>1, <2>2 DEF Mishap
<1> QED BY <1>2, <1>3, <1>4, <1>5, <1>6, <1>7 DEF Next

\* Every step keeps the types.
LEMMA TypesKeep ==
  ASSUME TypeInv, ListInv, SweepInv, [Next]_vars
  PROVE  TypeInv'
<1>1. FlagTypes' /\ publishers' \in Seq(Publisher)
  BY FlagsKeep, PublisherKeeps
<1>2. session' = session
  BY SessionFixed
<1>3. Places' = Places /\ Plan' = Plan /\ Sweeping' = Sweeping
  BY <1>2, PlacesStay, SessionStays
<1>4. LinkTypes /\ ScriptTypes /\ calls \in Seq(AllCalls) /\ "ended" \in Places
  BY PlaceFacts DEF TypeInv, ScriptTypes
<1>5. CASE ScriptStep
  <2>1. UNCHANGED linkVars /\ calls' \in Seq(AllCalls)
    BY <1>5, ScriptBegins DEF Begun
  <2> QED BY <1>1, <1>4, <1>5, <2>1, ScriptKeeps DEF TypeInv, LinkTypes, linkVars
<1>6. CASE LibStep
  <2>1. calls' \in Seq(AllCalls) /\ UNCHANGED <<pc, stageVars>>
    BY <1>4, <1>6, LibCalls, TailCalls
  <2> QED BY <1>1, <1>2, <1>3, <1>4, <1>6, <2>1, LinkKeeps
       DEF TypeInv, ScriptTypes, stageVars, sweepVars, searchVars
<1>7. CASE Published \/ ModeStep \/ Tick \/ UNCHANGED vars
  <2>1. UNCHANGED <<linkVars, calls, pc, stageVars>>
    BY <1>7, Aside
  <2> QED BY <1>1, <1>2, <1>3, <1>4, <2>1
       DEF TypeInv, LinkTypes, linkVars, ScriptTypes, stageVars, sweepVars, searchVars
<1>8. CASE Mishap
  <2>1. UNCHANGED <<linkVars, stageVars>> /\ (UNCHANGED <<calls, pc>> \/ (calls' = <<>> /\ pc' = "ended"))
    BY <1>8, MishapFacts
  <2>2. calls' \in Seq(AllCalls) /\ pc' \in Places
    BY <1>4, <2>1, StopFacts DEF ScriptTypes
  <2> QED BY <1>1, <1>2, <1>3, <1>4, <2>1, <2>2
       DEF TypeInv, LinkTypes, linkVars, ScriptTypes, stageVars, sweepVars, searchVars
<1> QED BY <1>5, <1>6, <1>7, <1>8 DEF Next

-----------------------------------------------------------------------------
(* At most one publisher is waited for, and only before the next starts.   *)

AttendedInv ==
  /\ \A i, j \in DOMAIN publishers : publishers[i].attended /\ publishers[j].attended => i = j
  /\ \A i \in DOMAIN publishers :
       publishers[i].attended => handler /\ ((calls = <<>> /\ pc = "ended") \/ WaitsFirst(calls))

Unattended == \A i \in DOMAIN publishers : ~publishers[i].attended

\* Every step keeps it.
LEMMA AttendedKeeps ==
  ASSUME TypeInv, ListInv, AttendedInv, [Next]_vars
  PROVE  AttendedInv'
<1>1. /\ calls \in Seq(AllCalls) /\ publishers \in Seq(Publisher)
      /\ Len(publishers) \in Nat /\ DOMAIN publishers = 1..Len(publishers)
      /\ \A i \in DOMAIN publishers : publishers[i] \in Publisher
  BY LenProperties, ElementOfSeq DEF TypeInv
<1>2. calls = <<>> => ~WaitsFirst(calls)
  BY DEF WaitsFirst
<1>3. CASE ScriptStep
  <2>1. calls = <<>> /\ pc # "ended" /\ publishers' = publishers
    BY <1>3, ScriptBegins DEF Begun
  <2>2. Unattended
    BY <1>2, <2>1 DEF AttendedInv, Unattended
  <2> QED BY <2>1, <2>2 DEF AttendedInv, Unattended
<1>4. CASE PubCmdVel
  <2>1. /\ calls # <<>> /\ Head(calls).op \in Pubs /\ calls' = Tail(calls) /\ handler' = handler
        /\ publishers' \in {Append(publishers, [drives |-> TRUE, left |-> DriveCount, attended |-> TRUE]),
                            Append(publishers, [drives |-> FALSE, left |-> 1, attended |-> TRUE])}
    BY <1>4 DEF PubCmdVel, Calls, Pubs
  <2>2. handler /\ ~WaitsFirst(calls) /\ WaitsFirst(calls')
    BY <1>1, <2>1, TailCalls DEF ListInv
  <2>3. Unattended
    BY <2>1, <2>2 DEF AttendedInv, Unattended
  <2>4. DOMAIN publishers' = 1..(Len(publishers) + 1) /\ \A i \in DOMAIN publishers : publishers'[i] = publishers[i]
    BY <1>1, <2>1
  <2>5. \A i \in DOMAIN publishers' : publishers'[i].attended => i = Len(publishers) + 1
    BY <1>1, <2>3, <2>4 DEF Unattended
  <2> QED BY <1>1, <2>1, <2>2, <2>5 DEF AttendedInv, WaitsFirst
<1>5. CASE ProcWait
  <2>1. Unattended /\ publishers' = publishers
    BY <1>5 DEF ProcWait, Unattended
  <2> QED BY <2>1 DEF AttendedInv, Unattended
<1>6. CASE ParamSet \/ ParamGet \/ CollectTelemetry
  <2>1. /\ calls # <<>> /\ Head(calls).op # "wait" /\ calls' = Tail(calls)
        /\ publishers' = publishers /\ handler' = handler
    BY <1>6 DEF ParamSet, ParamGet, CollectTelemetry, Calls
  <2>2. WaitsFirst(calls) => WaitsFirst(calls')
    BY <1>1, <2>1, TailCalls
  <2> QED BY <2>1, <2>2 DEF AttendedInv, WaitsFirst
<1>7. CASE Published
  <2>1. PICK i \in DOMAIN publishers :
          /\ publishers' = IF publishers[i].left = 1 THEN RemoveAt(publishers, i)
                           ELSE [publishers EXCEPT ![i].left = @ - 1]
          /\ UNCHANGED <<calls, pc, handler>>
    BY <1>7 DEF Published, Publish
  <2>2. CASE publishers[i].left = 1
    <3>1. /\ DOMAIN publishers' = 1..(Len(publishers) - 1)
          /\ \A k \in DOMAIN publishers' : publishers'[k] = IF k < i THEN publishers[k] ELSE publishers[k + 1]
      BY <1>1, <2>1, <2>2, RemoveAtFacts
    <3> DEFINE from(k) == IF k < i THEN k ELSE k + 1
    <3>2. \A k \in DOMAIN publishers' : from(k) \in DOMAIN publishers /\ publishers'[k] = publishers[from(k)]
      BY <1>1, <3>1
    <3>3. \A k, m \in DOMAIN publishers' : from(k) = from(m) => k = m
      BY <1>1, <3>1
    <3> HIDE DEF from
    <3> QED BY <2>1, <3>2, <3>3 DEF AttendedInv, WaitsFirst
  <2>3. CASE publishers[i].left # 1
    <3>1. publishers' = [publishers EXCEPT ![i] = [publishers[i] EXCEPT !.left = @ - 1]]
      BY <2>1, <2>3
    <3>2. [publishers[i] EXCEPT !.left = @ - 1].attended = publishers[i].attended
      BY <1>1 DEF Publisher
    <3>3. DOMAIN publishers' = DOMAIN publishers /\ \A k \in DOMAIN publishers : publishers'[k].attended = publishers[k].attended
      BY <3>1, <3>2
    <3> QED BY <2>1, <3>3 DEF AttendedInv, WaitsFirst
  <2> QED BY <2>2, <2>3
<1>8. CASE Interrupt
  <2>1. PICK survives \in BOOLEAN :
          publishers' = [i \in DOMAIN publishers |-> [publishers[i] EXCEPT !.attended = @ /\ survives]]
    BY <1>8 DEF Interrupt
  <2>2. DOMAIN publishers' = DOMAIN publishers
    BY <2>1
  <2>3. \A i \in DOMAIN publishers : publishers'[i].attended => publishers[i].attended
    <3> SUFFICES ASSUME NEW i \in DOMAIN publishers PROVE publishers'[i].attended => publishers[i].attended
      OBVIOUS
    <3>1. publishers'[i] = [publishers[i] EXCEPT !.attended = @ /\ survives] /\ publishers[i] \in Publisher
      BY <1>1, <2>1
    <3>2. publishers'[i].attended = (publishers[i].attended /\ survives)
      BY <3>1 DEF Publisher
    <3> QED BY <3>2
  <2>4. handler' = handler /\ (handler => UNCHANGED <<calls, pc>>)
    BY <1>8 DEF Interrupt
  <2> QED BY <2>2, <2>3, <2>4 DEF AttendedInv, WaitsFirst
<1>9. CASE LinkBreaks
  BY <1>9 DEF LinkBreaks, AttendedInv
<1>10. CASE ModeSwitch \/ ModeStep \/ Tick \/ UNCHANGED vars
  <2>1. UNCHANGED <<publishers, handler, calls, pc>>
    BY <1>10 DEF ModeSwitch, ModeStep, Tick, vars, libVars
  <2> QED BY <2>1 DEF AttendedInv, WaitsFirst
<1> QED BY <1>3, <1>4, <1>5, <1>6, <1>7, <1>8, <1>9, <1>10 DEF Next, LibStep, Mishap

\* Everything so far holds at the start.
LEMMA InitTypes ==
  ASSUME Init
  PROVE  TypeInv /\ ListInv /\ AttendedInv
<1>1. /\ session \in Sessions /\ param \in session.before /\ calls = <<>> /\ replies = <<>> /\ publishers = <<>>
      /\ told = [p \in Params |-> {}] /\ read = [p \in Params |-> {}] /\ pc = "connect"
      /\ abort = FALSE /\ handler = FALSE /\ late = 0
      /\ best = [p \in Params |-> 0] /\ sweep = 1 /\ index \in Nat /\ error = Worst
      /\ lo = 0 /\ hi = 0 /\ speed = 1 /\ total = 0 /\ tested = 0
      /\ active = TRUE /\ received = FALSE /\ driving = FALSE /\ moving = FALSE
  BY DEF Init, LibInit, ModeInit
<1>2. param \in [Params -> Nat] /\ Worst \in Nat
  BY <1>1, SweepAssumption
<1>3. LinkTypes
  BY <1>1, <1>2 DEF LinkTypes
<1>4. "connect" \in Places
  BY DEF Places, LimitPlaces, SearchPlaces, SweepPlaces
<1>5. Sweeping => sweep \in DOMAIN Plan.gains
  BY <1>1, GainsFacts
<1>6. ScriptTypes
  BY <1>1, <1>2, <1>4, <1>5 DEF ScriptTypes
<1>7. FlagTypes
  BY <1>1 DEF FlagTypes
<1>8. ListInv
  BY <1>1, StopFacts, MostFacts DEF ListInv, Early
<1> QED BY <1>1, <1>3, <1>6, <1>7, <1>8, StopFacts DEF TypeInv, AttendedInv

BaseInv == TypeInv /\ ListInv /\ AttendedInv /\ SweepInv

\* The inductive invariant of the scripts' calls.
LEMMA BaseKeeps ==
  /\ Init => BaseInv
  /\ BaseInv /\ [Next]_vars => BaseInv'
<1>1. Init => BaseInv
  BY InitTypes, InitHolds DEF BaseInv
<1>2. ASSUME BaseInv, [Next]_vars PROVE BaseInv'
  BY <1>2, TypesKeep, ListKeeps, AttendedKeeps, StepKeeps DEF BaseInv
<1> QED BY <1>1, <1>2

\* After Ctrl-C no step of any script adds a drive to its list: a list with drives
\* begins while the flag is down, and a call only takes its own off the list.
THEOREM AbortEndsTheList == Spec => NothingBegunAfterAbort
<1>1. ASSUME BaseInv, [Next]_vars, abort, abort'
      PROVE  late' + Drives(calls') <= late + Drives(calls)
  <2>1. /\ TypeInv /\ ListInv /\ calls \in Seq(AllCalls) /\ late \in Nat /\ Drives(calls) \in Nat
        /\ Waited(calls)
    BY <1>1, DrivesFacts DEF BaseInv, TypeInv, FlagTypes, ListInv
  <2>2. CASE ScriptStep
    <3>1. late' = late /\ Drives(calls') = 0
      BY <1>1, <2>1, <2>2, ScriptBegins DEF Begun, Confirmed
    <3> QED BY <2>1, <3>1
  <2>3. CASE LibStep
    <3>1. /\ calls # <<>> /\ calls' = Tail(calls)
          /\ late' = late + (IF Head(calls).op = "drive" THEN 1 ELSE 0) \/ late' = late
          /\ Head(calls).op # "drive" => late' = late
      BY <1>1, <2>3, LibCalls
    <3>2. Drives(calls) = Drives(calls') + (IF Head(calls).op = "drive" THEN 1 ELSE 0) /\ calls' \in Seq(AllCalls)
      BY <2>1, <3>1, TailCalls
    <3>3. Drives(calls') \in Nat
      BY <3>2, DrivesFacts
    <3> QED BY <2>1, <3>1, <3>2, <3>3
  <2>4. CASE Published \/ ModeStep \/ Tick \/ UNCHANGED vars
    <3>1. late' = late /\ calls' = calls
      BY <2>4, Aside
    <3> QED BY <2>1, <3>1
  <2>5. CASE Mishap
    <3>1. late' = late /\ (calls' = calls \/ calls' = <<>>)
      BY <2>5, MishapFacts
    <3>2. Drives(<<>>) = 0
      BY StopFacts
    <3> QED BY <2>1, <3>1, <3>2
  <2> QED BY <1>1, <2>2, <2>3, <2>4, <2>5 DEF Next
<1>2. BaseInv /\ [Next]_vars
        => [abort /\ abort' => late' + Drives(calls') <= late + Drives(calls)]_vars
  BY <1>1
<1> QED BY <1>2, BaseKeeps, PTL DEF Spec, NothingBegunAfterAbort

-----------------------------------------------------------------------------
(* The search of stage 2A: what is left of the range after so many halvings. *)

Searched == "RO_MAX_THR_SPEED"

\* The least width of the range after 0 .. 8 halvings, with a unit of 256.
Width == <<1792, 896, 448, 224, 112, 56, 28, 14, 7>>

Trying == {"speeds", "measure", "average"}
Halving == {"search", "found", "result"} \cup Trying

WidthInv ==
  /\ (lo = 0 /\ hi = 0) \/ lo + 7 <= hi
  /\ stage = "stage2a" =>
       /\ pc \in Halving => index \in 0..MaxIters /\ Unit <= lo /\ lo + Width[index + 1] <= hi
       /\ pc \in Trying => index < MaxIters /\ tested < speed /\ speed \in 1..4 /\ (speed > 1 => tested > 0)
       /\ pc = "measure" => speed <= 3
       /\ pc = "average" => abort \/ tested > 0
       /\ pc \in {"connect", "zero", "ready"} => index = 0

\* Half of a range is wide enough for the halvings that are left.
LEMMA HalfFacts ==
  ASSUME lo \in Nat, hi \in Nat, NEW i \in 0..7, lo + Width[i + 1] <= hi
  PROVE  /\ mid \in Nat /\ lo + 7 <= mid /\ mid + 7 <= hi
         /\ lo + Width[i + 2] <= mid /\ mid + Width[i + 2] <= hi
<1>1. mid = (lo + hi) \div 2
  BY DEF mid
<1>2. mid \in Nat /\ 2 * mid <= lo + hi /\ lo + hi <= 2 * mid + 1
  BY <1>1
<1>3. /\ Width[i + 1] \in Nat /\ Width[i + 2] \in Nat /\ 2 * Width[i + 2] <= Width[i + 1] /\ 7 <= Width[i + 2]
  BY DEF Width
<1> HIDE DEF Width
<1> QED BY <1>2, <1>3

\* Every step of the script keeps the range.
LEMMA WidthScript ==
  ASSUME BaseInv, WidthInv, ScriptStep
  PROVE  WidthInv'
<1>1. ScriptTypes
  BY DEF BaseInv, TypeInv
<1>2. /\ session' = session /\ pc \in Places /\ lo \in Nat /\ hi \in Nat /\ index \in Nat /\ speed \in Nat /\ tested \in Nat
  BY <1>1, SessionFixed DEF ScriptTypes, Next
<1>3. stage' = stage
  BY <1>2, SessionStays
<1>4. MaxIters \in 1..8 /\ Unit \in Nat /\ 256 <= Unit
  BY SearchAssumption
<1>5. CASE ~SearchStep
  <2>1. UNCHANGED <<lo, hi, speed, tested>>
    BY <1>5 DEF ScriptStep, Connect, Decline, Conclude, SweepStep, StartSweeps, TryGain, SweepEnds, Swept, SweepI, SkipI,
       Verify, Judge, JudgeOver, LimitStep, SkipTest, StartTest, Coast, TestAborted, TestEnds, Summary, Leave,
       stageVars, searchVars
  <2>2. CASE stage # "stage2a"
    BY <1>3, <2>1, <2>2 DEF WidthInv
  <2>3. CASE stage = "stage2a"
    <3>1. Places = SearchPlaces /\ ~Sweeping
      BY <1>2, <2>3, PlaceFacts
    <3>2. Connect \/ Decline \/ Conclude
      BY <1>2, <1>5, <2>3, <3>1 DEF ScriptStep, SweepStep, StartSweeps, TryGain, SweepEnds, Swept, SweepI, SkipI,
         Verify, Judge, JudgeOver, LimitStep, SkipTest, StartTest, Coast, TestAborted, TestEnds, Summary, Leave,
         Step, Go, SearchPlaces, Sweeping
    <3>3. /\ index' = index
          /\ (pc = "connect" /\ pc' = "zero") \/ pc' = "ended"
      BY <2>3, <3>1, <3>2 DEF Connect, Decline, Conclude, Step, Go, stageVars, Sweeping
    <3> QED BY <1>3, <2>1, <3>3 DEF WidthInv, Halving, Trying
  <2> QED BY <2>2, <2>3
<1>6. CASE ZeroGains \/ Found \/ StopSearching
  <2>1. /\ UNCHANGED <<lo, hi, index, speed, tested>>
        /\ \/ pc = "zero" /\ pc' = "ready"
           \/ pc = "found" /\ pc' = "result"
           \/ pc = "search" /\ pc' = "found"
    BY <1>6 DEF ZeroGains, Found, StopSearching, Step, Go, stageVars, searchVars
  <2> QED BY <1>3, <2>1 DEF WidthInv, Halving, Trying
<1>7. CASE StartSearch
  <2>1. /\ lo' = Unit /\ index' = index /\ pc = "ready" /\ pc' = "search" /\ stage = "stage2a"
        /\ hi' = (IF 2 * Current(4 * Unit) > 8 * Unit THEN 2 * Current(4 * Unit) ELSE 8 * Unit)
    BY <1>7 DEF StartSearch, Go
  <2>2. index = 0
    BY <2>1 DEF WidthInv
  <2>3. lo' + 1792 <= hi'
    <3>1. Current(4 * Unit) \in Nat
      <4>1. read["RO_MAX_THR_SPEED"] \subseteq Nat
        BY ParamsAssumption DEF BaseInv, TypeInv, LinkTypes
      <4> QED BY <1>4, <4>1 DEF Current, NonZero
    <3> QED BY <1>4, <2>1, <3>1
  <2>4. Width[index' + 1] = 1792
    BY <2>1, <2>2 DEF Width
  <2>5. lo' + 7 <= hi' /\ index' \in 0..MaxIters /\ Unit <= lo'
    BY <1>4, <2>1, <2>2, <2>3
  <2> QED BY <1>3, <2>1, <2>2, <2>3, <2>4, <2>5 DEF WidthInv, Halving, Trying
<1>8. CASE Iterate
  <2>1. /\ UNCHANGED <<lo, hi, index>> /\ pc = "search" /\ pc' = "speeds" /\ index < MaxIters
        /\ speed' = 1 /\ tested' = 0
    BY <1>8 DEF Iterate, Step, Go
  <2> QED BY <1>3, <2>1 DEF WidthInv, Halving, Trying
<1>9. CASE MeasureSpeed
  <2>1. UNCHANGED <<lo, hi, index, speed, tested>> /\ pc = "speeds" /\ pc' = "measure" /\ speed \in 1..3
    BY <1>9 DEF MeasureSpeed, Step, Go, stageVars, searchVars, Speeds
  <2> QED BY <1>3, <2>1 DEF WidthInv, Halving, Trying
<1>10. CASE SkipSpeed
  <2>1. /\ UNCHANGED <<lo, hi, index, tested>> /\ pc = "speeds" /\ pc' = "speeds" /\ speed \in 1..3
        /\ speed' = speed + 1 /\ speed * Unit >= mid
    BY <1>10 DEF SkipSpeed, Step, Go, Speeds
  <2>2. stage = "stage2a"
    BY <1>2, <2>1, PlaceFacts
  <2>3. index \in 0..7 /\ lo + Width[index + 1] <= hi /\ Unit <= lo
    BY <1>2, <1>4, <2>1, <2>2 DEF WidthInv, Halving, Trying
  <2>4. mid \in Nat /\ lo + 7 <= mid
    BY <1>2, <2>3, HalfFacts
  <2>5. speed # 1
    BY <1>2, <1>4, <2>1, <2>3, <2>4
  <2>6. tested > 0
    BY <2>1, <2>2, <2>5 DEF WidthInv, Trying
  <2>7. tested' < speed' /\ speed' \in 1..4 /\ tested' > 0
    BY <1>2, <2>1, <2>2, <2>6 DEF WidthInv, Trying
  <2> QED BY <1>3, <2>1, <2>7 DEF WidthInv, Halving, Trying
<1>11. CASE SpeedsEnd
  <2>1. UNCHANGED <<lo, hi, index, speed, tested, abort>> /\ pc = "speeds" /\ pc' = "average" /\ (abort \/ speed \notin 1..3)
    BY <1>11 DEF SpeedsEnd, Step, Go, stageVars, searchVars, Speeds
  <2>2. stage = "stage2a"
    BY <1>2, <2>1, PlaceFacts
  <2>3. abort \/ tested > 0
    BY <2>1, <2>2 DEF WidthInv, Trying
  <2> QED BY <1>3, <2>1, <2>3 DEF WidthInv, Halving, Trying
<1>12. CASE \E seen \in GoesWell : Measure(seen)
  <2>1. /\ UNCHANGED <<lo, hi, index>> /\ pc = "measure" /\ pc' = "speeds"
        /\ tested' = tested + 1 /\ speed' = speed + 1
    BY <1>12 DEF Measure, Go
  <2>2. stage = "stage2a"
    BY <1>2, <2>1, PlaceFacts
  <2>3. tested' < speed' /\ speed' \in 1..4 /\ tested' > 0
    BY <1>2, <2>1, <2>2 DEF WidthInv, Trying
  <2> QED BY <1>3, <2>1, <2>3 DEF WidthInv, Halving, Trying
<1>13. CASE NothingTested \/ Halve
  <2>1. /\ (lo' = lo /\ hi' = mid) \/ (lo' = mid /\ hi' = hi)
        /\ index' = index + 1 /\ pc = "average" /\ pc' = "search"
    BY <1>13 DEF NothingTested, Halve, Step, Go
  <2>2. stage = "stage2a"
    BY <1>2, <2>1, PlaceFacts
  <2>3. index \in 0..7 /\ index' \in 0..MaxIters /\ lo + Width[index + 1] <= hi /\ Unit <= lo
    BY <1>2, <1>4, <2>1, <2>2 DEF WidthInv, Halving, Trying
  <2>4. /\ mid \in Nat /\ lo + 7 <= mid /\ mid + 7 <= hi
        /\ lo + Width[index + 2] <= mid /\ mid + Width[index + 2] <= hi
    BY <1>2, <2>3, HalfFacts
  <2>5. index' + 1 = index + 2
    BY <2>1, <2>3
  <2>6. lo' + 7 <= hi' /\ Unit <= lo' /\ lo' + Width[index' + 1] <= hi'
    BY <1>2, <1>4, <2>1, <2>3, <2>4, <2>5
  <2> QED BY <1>3, <2>1, <2>3, <2>6 DEF WidthInv, Halving, Trying
<1>14. CASE Accept
  <2>1. UNCHANGED <<lo, hi, index>> /\ pc = "average" /\ pc' = "found"
    BY <1>14 DEF Accept, Step, Go, searchVars
  <2> QED BY <1>3, <2>1 DEF WidthInv, Halving, Trying
<1> QED BY <1>5, <1>6, <1>7, <1>8, <1>9, <1>10, <1>11, <1>12, <1>13, <1>14 DEF SearchStep

\* Nothing else touches it.
LEMMA WidthKeeps ==
  ASSUME BaseInv, WidthInv, [Next]_vars
  PROVE  WidthInv'
<1>1. session' = session /\ stage' = stage
  BY SessionFixed, SessionStays
<1>2. CASE ScriptStep
  BY <1>2, WidthScript
<1>3. CASE LibStep \/ Published \/ ModeStep \/ Tick \/ UNCHANGED vars
  <2>1. UNCHANGED <<pc, abort, stageVars>>
    BY <1>3, LibCalls, Aside
  <2> QED BY <1>1, <2>1 DEF WidthInv, stageVars, searchVars
<1>4. CASE Mishap
  <2>1. /\ UNCHANGED <<lo, hi, index, speed, tested>>
        /\ (pc' = pc /\ (abort => abort')) \/ pc' = "ended"
    <3>1. UNCHANGED <<lo, hi, index, speed, tested>>
      BY <1>4, MishapFacts DEF stageVars, searchVars
    <3>2. pc' = "ended" \/ (pc' = pc /\ (abort' = abort \/ abort' = TRUE))
      BY <1>4, MishapFacts
    <3> QED BY <3>1, <3>2
  <2> QED BY <1>1, <2>1 DEF WidthInv, Halving, Trying
<1> QED BY <1>2, <1>3, <1>4 DEF Next

\* The search begins after the start.
LEMMA InitWidth == Init => WidthInv
BY DEF Init, LibInit, WidthInv, Halving, Trying

\* The types of the scripts, the link and the publishers: the script waits for one
\* publisher at most and only once it was confirmed, the mode moves only when it is
\* flown, and the ends of the search stay apart.
THEOREM TuningTypeOK == Spec => []TypeOK
<1>1. BaseInv /\ WidthInv => TypeOK
  <2> SUFFICES ASSUME BaseInv, WidthInv PROVE TypeOK
    OBVIOUS
  <2>1. TypeInv /\ AttendedInv
    BY DEF BaseInv
  <2>2. param \in [Params -> Nat] /\ best \in [Params -> Nat] /\ error \in 0..Worst /\ (moving => active) /\ (abort => handler)
    BY <2>1 DEF TypeInv, LinkTypes, ScriptTypes, FlagTypes
  <2>3. \A i \in DOMAIN replies : replies[i].name \in Params
    <3>1. \A i \in DOMAIN replies : replies[i] \in Reply
      BY <2>1, LenProperties, ElementOfSeq DEF TypeInv, LinkTypes
    <3> QED BY <3>1 DEF Reply
  <2>4. \A i \in DOMAIN publishers : publishers[i].attended => handler /\ publishers[i].left \in 1..DriveCount
    <3>1. \A i \in DOMAIN publishers : publishers[i] \in Publisher
      BY <2>1, LenProperties, ElementOfSeq DEF TypeInv
    <3> QED BY <2>1, <3>1 DEF Publisher, AttendedInv
  <2>5. Cardinality({i \in DOMAIN publishers : publishers[i].attended}) <= 1
    <3> DEFINE A == {i \in DOMAIN publishers : publishers[i].attended}
    <3>1. CASE A = {}
      BY <3>1, FS_EmptySet
    <3>2. CASE A # {}
      <4>1. PICK i \in DOMAIN publishers : publishers[i].attended
        BY <3>2
      <4>2. A = {i}
        BY <2>1, <4>1 DEF AttendedInv
      <4> HIDE DEF A
      <4>3. Cardinality(A) = 1
        BY <4>2, FS_Singleton
      <4> QED BY <4>3 DEF A
    <3> QED BY <3>1, <3>2
  <2>6. lo <= hi /\ (mid = lo => lo = hi)
    <3>1. lo \in Nat /\ hi \in Nat
      BY <2>1 DEF TypeInv, ScriptTypes
    <3> QED BY <3>1 DEF WidthInv, mid
  <2> QED BY <2>2, <2>3, <2>4, <2>5, <2>6 DEF TypeOK
<1> QED BY <1>1, BaseKeeps, InitWidth, WidthKeeps, PTL DEF Spec

-----------------------------------------------------------------------------
(* The search of stage 2A keeps the value it looks for in its range as long *)
(* as its writes and samples come through.                                  *)

Sure ==
  /\ stage = "stage2a" /\ session.ideal \in Unit..(8 * Unit)
  /\ sure /\ ~misled /\ ~abort

Finds ==
  \/ Small(session.ideal - best[Searched], best[Searched])
  \/ lo <= session.ideal /\ session.ideal <= hi /\ best[Searched] \in {lo, hi} /\ index = MaxIters

SearchInv ==
  Sure =>
    /\ pc \in {"search"} \cup Trying => lo <= session.ideal /\ session.ideal <= hi
    /\ pc = "search" => (index > 0 => best[Searched] \in {lo, hi})
    /\ pc \in Trying => Written(Searched, mid) /\ total = tested * (session.ideal - mid)
    /\ pc \in {"found", "result"} => Finds

\* A value that has to be written is written by the next call of the library.
LEMMA WrittenKeeps ==
  ASSUME LibStep, calls \in Seq(AllCalls), param \in [Params -> Nat], ~misled',
         NEW name \in Params, NEW value, Written(name, value)
  PROVE  NoSets(calls') /\ param'[name] = value
<1>1. calls # <<>> /\ calls' = Tail(calls)
  BY LibCalls
<1>2. /\ Head(calls) = calls[1]
      /\ (\A i \in DOMAIN calls : i # 1 => calls[i].op # "set") => NoSets(calls')
      /\ NoSets(calls) => NoSets(calls') /\ Head(calls).op # "set"
  BY <1>1, RestFacts
<1>3. CASE Head(calls).op = "set"
  <2>1. ParamSet
    BY <1>3 DEF LibStep, ParamGet, CollectTelemetry, PubCmdVel, ProcWait, Calls
  <2>2. param' = [param EXCEPT ![Head(calls).name] = Head(calls).value]
    BY <2>1 DEF ParamSet
  <2>3. calls[1] = Set(name, value) /\ NoSets(calls')
    BY <1>2, <1>3 DEF Written
  <2>4. Head(calls).name = name /\ Head(calls).value = value
    BY <1>2, <2>3, CallFacts
  <2> QED BY <2>2, <2>3, <2>4
<1>4. CASE Head(calls).op # "set"
  <2>1. param' = param
    BY <1>4 DEF LibStep, ParamSet, ParamGet, CollectTelemetry, PubCmdVel, ProcWait, Calls, linkVars
  <2>2. NoSets(calls) /\ param[name] = value
    BY <1>2, <1>4, CallFacts DEF Written
  <2> QED BY <1>2, <2>1, <2>2
<1> QED BY <1>3, <1>4

\* A trial writes nothing.
LEMMA DrivenTrial == Trial \in Seq(Driven) /\ <<>> \in Seq(Driven)
<1>1. Stop \in Seq(Driven) /\ <<Drive, Collect, Wait>> \in Seq(Driven)
  BY DEF Stop, Driven
<1> QED BY <1>1, ConcatProperties DEF Trial

\* Up to three measurements of the same difference add up to a multiple of it.
LEMMA Times ==
  ASSUME NEW n \in 0..3, NEW d \in Int
  PROVE  /\ n * d \in Int /\ (n + 1) * d = n * d + d
         /\ n > 0 => (n * d > 0 <=> d > 0)
<1>1. CASE n = 0
  BY <1>1
<1>2. CASE n = 1
  BY <1>2
<1>3. CASE n = 2
  BY <1>3
<1>4. CASE n = 3
  BY <1>4
<1> QED BY <1>1, <1>2, <1>3, <1>4

\* A mean is within the tolerance if the sum is within a multiple of it.
LEMMA MeanIsSmall ==
  ASSUME NEW n \in 1..3, NEW d \in Int, NEW v \in Nat, session.tolerance \in Nat, Small(n * d, n * v)
  PROVE  Small(d, v)
<1> DEFINE t == session.tolerance
           x == t * v
<1>1. 100 * (n * d) < t * (n * v) /\ -100 * (n * d) < t * (n * v)
  BY DEF Small
<1>2. x \in Int /\ t * (1 * v) = x /\ t * (2 * v) = 2 * x /\ t * (3 * v) = 3 * x
  OBVIOUS
<1> HIDE DEF x
<1>3. CASE n = 1
  <2>1. 100 * d < x /\ -100 * d < x
    BY <1>1, <1>2, <1>3
  <2> QED BY <2>1 DEF Small, x
<1>4. CASE n = 2
  <2>1. 100 * (2 * d) < 2 * x /\ -100 * (2 * d) < 2 * x
    BY <1>1, <1>2, <1>4
  <2>2. 100 * d < x /\ -100 * d < x
    BY <1>2, <2>1
  <2> QED BY <2>2 DEF Small, x
<1>5. CASE n = 3
  <2>1. 100 * (3 * d) < 3 * x /\ -100 * (3 * d) < 3 * x
    BY <1>1, <1>2, <1>5
  <2>2. 100 * d < x /\ -100 * d < x
    BY <1>2, <2>1
  <2> QED BY <2>2 DEF Small, x
<1> QED BY <1>3, <1>4, <1>5

\* A script step that stays sure was sure before, and still is in the same session.
LEMMA SureFacts ==
  ASSUME BaseInv, ScriptStep, Sure', pc \in {"search", "found"} \cup Trying
  PROVE  Sure /\ param' = param /\ calls = <<>>
<1>1. /\ session' = session /\ stage' = stage
  BY SessionFixed, SessionStays DEF Next
<1>2. stage = "stage2a"
  BY <1>1 DEF Sure
<1>3. ScriptTypes
  BY DEF BaseInv, TypeInv
<1>4. Places = SearchPlaces
  BY <1>2, <1>3, PlaceFacts DEF ScriptTypes
<1>5. param' = param /\ misled' = misled /\ calls = <<>>
  BY ScriptBegins DEF BaseInv, Begun, linkVars
<1>6. SearchStep
  BY <1>2 DEF Trying, ScriptStep, Connect, Decline, Conclude, SweepStep, StartSweeps, TryGain, SweepEnds, Swept,
     SweepI, SkipI, Verify, Judge, JudgeOver, LimitStep, SkipTest, StartTest, Coast, TestAborted, TestEnds, Summary,
     Leave, Step, Go
<1>7. sure' => sure
  <2>1. CASE \E seen \in GoesWell : Measure(seen)
    BY <2>1 DEF Measure
  <2>2. CASE ~\E seen \in GoesWell : Measure(seen)
    BY <1>6, <2>2 DEF SearchStep, ZeroGains, StartSearch, Iterate, StopSearching, MeasureSpeed, SkipSpeed, SpeedsEnd,
       NothingTested, Accept, Halve, Found, stageVars, searchVars
  <2> QED BY <2>1, <2>2
<1>8. ~StartSearch
  BY DEF StartSearch, Go, Trying
<1>9. abort' = abort
  <2>1. CASE \E seen \in GoesWell : Measure(seen)
    BY <2>1 DEF Measure
  <2>2. CASE ~\E seen \in GoesWell : Measure(seen)
    BY <1>6, <1>8, <2>2 DEF SearchStep, ZeroGains, Iterate, StopSearching, MeasureSpeed, SkipSpeed, SpeedsEnd,
       NothingTested, Accept, Halve, Found, Step
  <2> QED BY <2>1, <2>2
<1> QED BY <1>1, <1>5, <1>7, <1>9 DEF Sure

\* Every step of the script keeps the value in the range.
LEMMA SearchScript ==
  ASSUME BaseInv, WidthInv, SearchInv, ScriptStep
  PROVE  SearchInv'
<1> SUFFICES ASSUME Sure'
             PROVE  /\ pc' \in {"search"} \cup Trying => lo' <= session'.ideal /\ session'.ideal <= hi'
                    /\ pc' = "search" => (index' > 0 => best'[Searched] \in {lo', hi'})
                    /\ pc' \in Trying => Written(Searched, mid)' /\ total' = tested' * (session'.ideal - mid')
                    /\ pc' \in {"found", "result"} => Finds'
  BY DEF SearchInv
<1>1. ScriptTypes /\ LinkTypes
  BY DEF BaseInv, TypeInv
<1>2. /\ session' = session /\ stage' = stage /\ stage = "stage2a"
      /\ session.ideal \in Nat /\ session.tolerance \in Nat /\ session.ideal \in Unit..(8 * Unit)
  BY <1>1, SessionFixed, SessionStays, SearchAssumption DEF Sure, Next, ScriptTypes
<1>3. /\ Places = SearchPlaces /\ ~Sweeping /\ lo \in Nat /\ hi \in Nat /\ index \in Nat /\ tested \in Nat /\ total \in Int
      /\ best \in [Params -> Nat] /\ param \in [Params -> Nat] /\ Searched \in Params /\ mid \in Nat /\ pc \in Places
  <2>1. pc \in Places
    BY <1>1 DEF ScriptTypes
  <2>2. Places = SearchPlaces /\ ~Sweeping
    BY <1>1, <1>2, PlaceFacts DEF ScriptTypes
  <2>3. lo \in Nat /\ hi \in Nat /\ index \in Nat /\ tested \in Nat /\ total \in Int /\ best \in [Params -> Nat]
    BY <1>1 DEF ScriptTypes
  <2>4. param \in [Params -> Nat]
    BY <1>1 DEF LinkTypes
  <2>5. Searched \in Params
    BY ParamsAssumption DEF Searched
  <2>6. mid \in Nat
    BY <2>3 DEF mid
  <2> QED BY <2>1, <2>2, <2>3, <2>4, <2>5, <2>6
<1>4. CASE pc \in {"connect", "zero", "ready"} /\ ~StartSearch
  <2>1. pc' \in {"zero", "ready", "ended"}
    BY <1>2, <1>3, <1>4 DEF ScriptStep, Connect, Decline, Conclude, SweepStep, StartSweeps, TryGain, SweepEnds, Swept,
       SweepI, SkipI, Verify, Judge, JudgeOver, LimitStep, SkipTest, StartTest, Coast, TestAborted, TestEnds, Summary,
       Leave, SearchStep, ZeroGains, Iterate, StopSearching, MeasureSpeed, SkipSpeed, SpeedsEnd, Measure,
       NothingTested, Accept, Halve, Found, Step, Go, Sweeping
  <2> QED BY <2>1 DEF Trying
<1>5. CASE StartSearch
  <2>1. /\ lo' = Unit /\ index' = index /\ pc = "ready" /\ pc' = "search"
        /\ hi' = (IF 2 * Current(4 * Unit) > 8 * Unit THEN 2 * Current(4 * Unit) ELSE 8 * Unit)
    BY <1>5 DEF StartSearch, Go
  <2>2. index = 0
    BY <1>2, <2>1 DEF WidthInv
  <2>3. Current(4 * Unit) \in Nat /\ Unit \in Nat
    <3>1. read["RO_MAX_THR_SPEED"] \subseteq Nat
      BY <1>1, ParamsAssumption DEF LinkTypes
    <3> QED BY <3>1, SearchAssumption DEF Current, NonZero
  <2>4. lo' <= session.ideal /\ session.ideal <= hi'
    BY <1>2, <2>1, <2>3
  <2> QED BY <1>2, <2>1, <2>2, <2>4 DEF Trying
<1>6. CASE pc \in {"search", "found"} \cup Trying
  <2>1. Sure /\ param' = param /\ calls = <<>>
    BY <1>6, SureFacts
  <2>2. /\ pc \in {"search"} \cup Trying => lo <= session.ideal /\ session.ideal <= hi
        /\ pc = "search" => (index > 0 => best[Searched] \in {lo, hi})
        /\ pc \in Trying => Written(Searched, mid) /\ total = tested * (session.ideal - mid)
        /\ pc \in {"found", "result"} => Finds
    BY <2>1 DEF SearchInv
  <2>3. pc \in Trying => param[Searched] = mid
    BY <2>1, <2>2, WrittenIs
  <2>4. /\ pc \in Trying => index < MaxIters /\ tested \in 0..3 /\ tested < speed /\ speed \in 1..4
        /\ pc = "measure" => tested \in 0..2
        /\ pc = "average" => tested \in 1..3
    BY <1>2, <1>3, <2>1 DEF WidthInv, Trying, Sure
  <2>5. SearchStep
    BY <1>6, <1>2, <1>3 DEF Trying, ScriptStep, Connect, Decline, Conclude, SweepStep, StartSweeps, TryGain, SweepEnds,
       Swept, SweepI, SkipI, Verify, Judge, JudgeOver, LimitStep, SkipTest, StartTest, Coast, TestAborted, TestEnds,
       Summary, Leave, Step, Go, Sweeping
  <2>6. CASE Iterate
    <3>1. /\ UNCHANGED <<lo, hi, index>> /\ pc = "search" /\ pc' = "speeds" /\ total' = 0 /\ tested' = 0
          /\ calls' = <<Set(Searched, mid)>>
      BY <2>6 DEF Iterate, Step, Go, Searched
    <3>2. mid' = mid
      BY <3>1 DEF mid
    <3>3. calls' # <<>> /\ calls'[1] = Set(Searched, mid') /\ \A i \in DOMAIN calls' : i = 1
      BY <3>1, <3>2
    <3>4. Written(Searched, mid)'
      BY <3>3 DEF Written
    <3>5. total' = tested' * (session'.ideal - mid')
      BY <1>2, <1>3, <3>1, <3>2
    <3> QED BY <1>2, <2>2, <3>1, <3>4, <3>5 DEF Trying
  <2>7. CASE StopSearching
    <3>1. /\ UNCHANGED <<lo, hi, index, best>> /\ pc = "search" /\ pc' = "found" /\ (abort \/ index = MaxIters)
      BY <2>7 DEF StopSearching, Step, Go, stageVars, searchVars
    <3>2. index = MaxIters /\ index > 0
      BY <1>3, <2>1, <3>1, SearchAssumption DEF Sure
    <3>3. Finds'
      BY <1>2, <2>2, <3>1, <3>2 DEF Finds
    <3> QED BY <3>1, <3>3 DEF Trying
  <2>8. CASE MeasureSpeed \/ SkipSpeed \/ SpeedsEnd
    <3>1. /\ UNCHANGED <<lo, hi, index, best, total, tested>> /\ pc = "speeds" /\ pc' \in Trying
          /\ calls' \in {Trial, <<>>}
      BY <2>8 DEF MeasureSpeed, SkipSpeed, SpeedsEnd, Step, Go, stageVars, searchVars, Trying
    <3>2. mid' = mid
      BY <3>1 DEF mid
    <3>3. NoSets(calls')
      <4>1. Trial \in Seq(Driven) /\ <<>> \in Seq(Driven)
        BY DrivenTrial
      <4> QED BY <3>1, <4>1, DrivenFacts
    <3>4. Written(Searched, mid)'
      BY <2>1, <2>3, <3>1, <3>2, <3>3 DEF Written, NoSets, Trying
    <3> QED BY <1>2, <2>2, <3>1, <3>2, <3>4 DEF Trying
  <2>9. CASE \E seen \in GoesWell : Measure(seen)
    <3>1. PICK seen \in GoesWell : Measure(seen)
      BY <2>9
    <3>2. /\ UNCHANGED <<lo, hi, index, best>> /\ pc = "measure" /\ pc' = "speeds" /\ calls' = <<>>
          /\ total' = total + (IF seen THEN SpeedError ELSE -param["RO_MAX_THR_SPEED"])
          /\ tested' = tested + 1
      BY <3>1 DEF Measure, Go
    <3>3. seen /\ param["RO_SPEED_P"] = 0 /\ param["RO_SPEED_I"] = 0
      BY <3>1 DEF Measure, Sure
    <3>4. mid' = mid
      BY <3>2 DEF mid
    <3>5. total' = total + (session.ideal - mid)
      BY <2>3, <3>2, <3>3 DEF SpeedError, Searched, Trying
    <3>6. total' = tested' * (session'.ideal - mid')
      <4> DEFINE d == session.ideal - mid
      <4>1. d \in Int /\ total = tested * d /\ tested \in 0..2
        BY <1>2, <1>3, <2>2, <2>4, <3>2 DEF Trying
      <4> HIDE DEF d
      <4>2. (tested + 1) * d = tested * d + d
        BY <4>1, Times
      <4>3. total' = tested' * d
        BY <3>2, <3>5, <4>1, <4>2 DEF d
      <4> QED BY <1>2, <3>4, <4>3 DEF d
    <3>7. Written(Searched, mid)'
      BY <2>1, <2>3, <3>2, <3>4 DEF Written, NoSets, Trying
    <3> QED BY <1>2, <2>2, <3>2, <3>6, <3>7 DEF Trying
  <2>10. CASE NothingTested
    <3>1. pc = "average" /\ tested = 0
      BY <2>10 DEF NothingTested, Step, Go
    <3> QED BY <2>4, <3>1
  <2>11. CASE Accept
    <3>1. /\ UNCHANGED <<lo, hi, index>> /\ pc = "average" /\ pc' = "found" /\ WithinTolerance
          /\ best' = [best EXCEPT ![Searched] = mid]
      BY <2>11 DEF Accept, Step, Go, searchVars, Searched
    <3>2. Small(tested * (session.ideal - mid), tested * mid)
      BY <2>2, <2>3, <3>1 DEF WithinTolerance, Trying, Searched
    <3>3. Small(session.ideal - mid, mid)
      <4>1. tested \in 1..3 /\ session.ideal - mid \in Int
        BY <1>2, <1>3, <2>4, <3>1
      <4> QED BY <1>2, <1>3, <3>2, <4>1, MeanIsSmall
    <3>4. best'[Searched] = mid
      BY <1>3, <3>1
    <3>5. Finds'
      BY <1>2, <3>3, <3>4 DEF Finds, Small
    <3> QED BY <3>1, <3>5 DEF Trying
  <2>12. CASE Halve
    <3>1. /\ pc = "average" /\ pc' = "search" /\ best' = [best EXCEPT ![Searched] = mid]
          /\ IF total > 0 THEN lo' = mid /\ hi' = hi ELSE lo' = lo /\ hi' = mid
      BY <2>12 DEF Halve, Step, Go, Searched
    <3>2. total > 0 <=> session.ideal - mid > 0
      <4> DEFINE d == session.ideal - mid
      <4>1. d \in Int /\ total = tested * d /\ tested \in 1..3
        BY <1>2, <1>3, <2>2, <2>4, <3>1 DEF Trying
      <4> HIDE DEF d
      <4>2. tested \in 0..3 /\ tested > 0
        BY <4>1
      <4> QED BY <4>1, <4>2, Times DEF d
    <3>3. lo' <= session.ideal /\ session.ideal <= hi'
      BY <1>2, <1>3, <2>2, <3>1, <3>2 DEF Trying
    <3>4. best'[Searched] = mid /\ mid \in {lo', hi'}
      BY <1>3, <3>1
    <3> QED BY <1>2, <3>1, <3>3, <3>4 DEF Trying
  <2>13. CASE Found
    <3>1. UNCHANGED <<lo, hi, index, best>> /\ pc = "found" /\ pc' = "result"
      BY <2>13 DEF Found, Step, Go, stageVars, searchVars
    <3>2. Finds'
      BY <1>2, <2>2, <3>1 DEF Finds, Small
    <3> QED BY <3>1, <3>2 DEF Trying
  <2>14. CASE ZeroGains \/ StartSearch
    BY <1>6, <2>14 DEF ZeroGains, StartSearch, Step, Go, Trying
  <2> QED BY <2>5, <2>6, <2>7, <2>8, <2>9, <2>10, <2>11, <2>12, <2>13, <2>14 DEF SearchStep
<1>7. CASE pc \in {"result", "ended"}
  <2>1. pc' = "ended"
    BY <1>2, <1>3, <1>7 DEF ScriptStep, Connect, Decline, Conclude, SweepStep, StartSweeps, TryGain, SweepEnds, Swept,
       SweepI, SkipI, Verify, Judge, JudgeOver, LimitStep, SkipTest, StartTest, Coast, TestAborted, TestEnds, Summary,
       Leave, SearchStep, ZeroGains, StartSearch, Iterate, StopSearching, MeasureSpeed, SkipSpeed, SpeedsEnd, Measure,
       NothingTested, Accept, Halve, Found, Step, Go
  <2> QED BY <2>1 DEF Trying
<1> QED BY <1>3, <1>4, <1>5, <1>6, <1>7 DEF SearchPlaces, Trying

\* Every step keeps the value in the range.
LEMMA SearchKeeps ==
  ASSUME BaseInv, WidthInv, SearchInv, [Next]_vars
  PROVE  SearchInv'
<1>1. session' = session /\ stage' = stage
  BY SessionFixed, SessionStays
<1>2. TypeInv
  BY DEF BaseInv
<1>3. CASE ScriptStep
  BY <1>3, SearchScript
<1>4. CASE LibStep
  <2>1. UNCHANGED <<pc, abort, lo, hi, index, best, total, tested, sure>>
    BY <1>4, LibCalls DEF stageVars, searchVars
  <2>2. mid' = mid
    BY <2>1 DEF mid
  <2>3. misled => misled'
    <3>1. CASE ParamSet
      <4>1. PICK arrives \in GoesWell : misled' = (misled \/ ~arrives)
        BY <3>1, ZenonT(90) DEF ParamSet
      <4> QED BY <4>1
    <3>2. CASE ~ParamSet
      BY <1>4, <3>2 DEF LibStep, ParamGet, CollectTelemetry, PubCmdVel, ProcWait, linkVars
    <3> QED BY <3>1, <3>2
  <2>4. ASSUME Sure', Written(Searched, mid) PROVE Written(Searched, mid)'
    <3>1. Searched \in Params /\ ~misled' /\ param \in [Params -> Nat] /\ calls \in Seq(AllCalls)
      BY <1>2, <2>4, ParamsAssumption DEF Sure, Searched, TypeInv, LinkTypes
    <3>2. NoSets(calls') /\ param'[Searched] = mid
      BY <1>4, <2>4, <3>1, WrittenKeeps
    <3> QED BY <2>2, <3>2 DEF Written, NoSets
  <2>5. Sure' => Sure
    BY <1>1, <2>1, <2>3 DEF Sure
  <2>6. Finds => Finds'
    BY <1>1, <2>1 DEF Finds, Small
  <2> QED BY <1>1, <2>1, <2>2, <2>4, <2>5, <2>6 DEF SearchInv
<1>5. CASE Published \/ ModeStep \/ Tick \/ UNCHANGED vars
  <2>1. UNCHANGED <<pc, calls, param, misled, abort, lo, hi, index, best, total, tested, sure>>
    BY <1>5, Aside DEF stageVars, searchVars, linkVars
  <2>2. mid' = mid
    BY <2>1 DEF mid
  <2> QED BY <1>1, <2>1, <2>2 DEF SearchInv, Sure, Finds, Small, Written, NoSets
<1>6. CASE Mishap
  <2>1. /\ UNCHANGED <<param, misled, lo, hi, index, best, total, tested, sure>>
        /\ (UNCHANGED <<pc, calls>> /\ (abort' = abort \/ abort' = TRUE)) \/ pc' = "ended"
    <3>1. UNCHANGED <<param, misled, lo, hi, index, best, total, tested, sure>>
      BY <1>6, MishapFacts DEF stageVars, searchVars, linkVars
    <3>2. (UNCHANGED <<pc, calls>> /\ (abort' = abort \/ abort' = TRUE)) \/ pc' = "ended"
      BY <1>6, MishapFacts
    <3> QED BY <3>1, <3>2
  <2>2. mid' = mid
    BY <2>1 DEF mid
  <2>3. CASE pc' = "ended"
    BY <2>3 DEF SearchInv, Trying
  <2>4. CASE UNCHANGED <<pc, calls>> /\ abort' = abort
    BY <1>1, <2>1, <2>2, <2>4 DEF SearchInv, Sure, Finds, Small, Written, NoSets
  <2>5. CASE abort' = TRUE
    BY <2>5 DEF SearchInv, Sure
  <2> QED BY <2>1, <2>3, <2>4, <2>5
<1> QED BY <1>3, <1>4, <1>5, <1>6 DEF Next

\* If its writes and samples come through, the search for a value in its range ends
\* within the tolerance, or at an end of the interval that its halvings have left.
THEOREM SearchFindsTheValue == Spec => []SearchFinds
<1>1. Init => SearchInv
  BY DEF Init, LibInit, SearchInv, Trying
<1>2. SearchInv => SearchFinds
  BY DEF SearchInv, SearchFinds, Sure, Finds, Searched
<1> QED BY <1>1, <1>2, BaseKeeps, InitWidth, WidthKeeps, SearchKeeps, PTL DEF Spec

-----------------------------------------------------------------------------
(* What is reported to be written is there.  An answer on its way to the    *)
(* script may be late: it can confirm a write only if its value is held.    *)

Answer(name, value) == [name |-> name, value |-> value]
Answers == ToSet(replies)
Pending == ToSet(calls)

Vouched(name, value) == Answer(name, value) \in Answers => param[name] = value

\* Every answer on its way, or every one to a read of the parameter of stage 2A, is up to date.
AllFresh == \A a \in Answers : a.value = param[a.name]
Fresh == \A a \in Answers : a.name = Searched => a.value = param[Searched]
Unanswered == \A a \in Answers : a.name # Searched

NoWrite == \A c \in Pending : c.op # "set"
NoRead == \A c \in Pending : c.op # "get"
Collects == \E c \in Pending : c.op = "collect"

\* What is to be written is vouched for, and it is the same value each time.
WritesVouched ==
  /\ \A c \in Pending : c.op = "set" /\ ~(DefaultApplied /\ c.name = Searched) => Vouched(c.name, c.value)
  /\ \A c, d \in Pending : c.op = "set" /\ d.op = "set" /\ c.name = d.name => c.value = d.value

CallInv == WritesVouched /\ ReportedIsHeld

\* Stage 1 writes nothing before its results.
LimitHeld ==
  stage = "stage1" =>
    /\ pc \in {"connect", "test", "coast", "tested", "coasted"} => Answers = {} /\ NoWrite /\ NoRead
    /\ pc = "result" => AllFresh /\ NoWrite

BestVouched == \A i \in DOMAIN Plan.gains : Vouched(Plan.gains[i], best[Plan.gains[i]])
BestWritten == \A c \in Pending : c.op = "set" => c.value = best[c.name]
IUnanswered == \A a \in Answers : a.name # I

\* The sweeps write values that are new to the link, or the best ones.
SweepHeld ==
  Sweeping =>
    /\ pc \in {"connect", "ready"} => AllFresh /\ NoWrite /\ index = 0
    /\ pc \in {"sweep", "swept", "choose", "verify", "result"} => BestVouched /\ BestWritten
    /\ pc = "sweep" =>
         \/ sweep = 1 /\ index = 0 /\ best[P] = 0
         \/ sweep = 1 /\ calls = <<>> /\ Answers = {}
         \/ sweep = 2 /\ calls = <<>> /\ IUnanswered
    /\ pc = "judge" =>
         /\ NoRead /\ \A i \in DOMAIN calls : i # 1 => calls[i].op # "set"
         /\ Collects \/ (Answers = {} /\ NoWrite)
    /\ pc = "swept" => calls = <<>>
    /\ pc \in {"swept", "choose"} /\ Two /\ sweep = 1 /\ ~abort =>
         IUnanswered /\ NoRead /\ \A c \in Pending : c.op = "set" => c.name # I

\* Stage 2A reads its parameter once, and its search finds no answer but to that read.
SearchHeld ==
  stage = "stage2a" =>
    /\ pc \in {"connect", "zero"} =>
         AllFresh /\ NoWrite /\ Unanswered /\ \A c \in Pending : c.op = "get" => c.name # Searched
    /\ pc = "ready" =>
         \/ calls = <<>> /\ Fresh /\ (read[Searched] # {} => Unanswered)
         \/ /\ Unanswered
            /\ \A i \in DOMAIN calls :
                 \/ calls[i].op = "set" /\ calls[i].name # Searched
                 \/ calls[i] = Get(Searched) /\ i = Len(calls)
    /\ pc \in {"connect", "zero", "ready"} => handler = FALSE
    /\ pc \in Halving \cup {"ended"} => NoRead
    /\ pc = "search" => calls = <<>> /\ (Fresh \/ DefaultApplied) /\ (Unanswered \/ read[Searched] = {} \/ abort)
    /\ pc = "speeds" =>
         \/ calls = <<>> /\ (Answers = {} \/ (tested = 0 /\ (Fresh \/ read[Searched] = {})))
         \/ calls = <<Set(Searched, mid)>> /\ tested = 0 /\ Fresh /\ (Unanswered \/ read[Searched] = {})
    /\ pc = "measure" => NoWrite /\ (Collects \/ Answers = {})
    /\ pc = "average" => calls = <<>> /\ (Answers = {} \/ (tested = 0 /\ (Fresh \/ read[Searched] = {})))
    /\ pc \in {"found", "result"} => NoWrite /\ (Fresh \/ DefaultApplied)

HeldInv == CallInv /\ LimitHeld /\ SweepHeld /\ SearchHeld

\* A list put before another.
LEMMA SetOfConcat ==
  ASSUME NEW S, NEW s \in Seq(S), NEW t \in Seq(S)
  PROVE  ToSet(s \o t) = ToSet(s) \cup ToSet(t)
<1>1. /\ s \o t \in Seq(S) /\ Len(s \o t) = Len(s) + Len(t) /\ Len(s) \in Nat /\ Len(t) \in Nat
      /\ \A i \in 1..Len(s) : (s \o t)[i] = s[i]
      /\ \A i \in 1..Len(t) : (s \o t)[Len(s) + i] = t[i]
  <2>1. s \o t \in Seq(S) /\ Len(s \o t) = Len(s) + Len(t) /\ Len(s) \in Nat /\ Len(t) \in Nat
    BY ConcatProperties
  <2>2. \A i \in 1..(Len(s) + Len(t)) : (s \o t)[i] = IF i <= Len(s) THEN s[i] ELSE t[i - Len(s)]
    BY ConcatProperties
  <2> QED BY <2>1, <2>2
<1>2. /\ ToSet(s) = {s[i] : i \in 1..Len(s)} /\ ToSet(t) = {t[i] : i \in 1..Len(t)}
      /\ ToSet(s \o t) = {(s \o t)[i] : i \in 1..(Len(s) + Len(t))}
  BY <1>1 DEF ToSet
<1> DEFINE q == s \o t
<1>3. ASSUME NEW i \in 1..(Len(s) + Len(t)) PROVE q[i] \in ToSet(s) \cup ToSet(t)
  <2>1. CASE i <= Len(s)
    BY <1>1, <1>2, <2>1
  <2>2. CASE ~(i <= Len(s))
    <3>1. i - Len(s) \in 1..Len(t) /\ Len(s) + (i - Len(s)) = i
      BY <1>1, <2>2
    <3> QED BY <1>1, <1>2, <3>1
  <2> QED BY <2>1, <2>2
<1>4. ASSUME NEW i \in 1..Len(s) PROVE s[i] \in ToSet(q)
  BY <1>1, <1>2
<1>5. ASSUME NEW i \in 1..Len(t) PROVE t[i] \in ToSet(q)
  <2>1. Len(s) + i \in 1..(Len(s) + Len(t)) /\ q[Len(s) + i] = t[i]
    BY <1>1
  <2> QED BY <1>2, <2>1
<1> HIDE DEF q
<1>6. ToSet(q) = {q[i] : i \in 1..(Len(s) + Len(t))}
  BY <1>2 DEF q
<1>7. ToSet(q) = ToSet(s) \cup ToSet(t)
  BY <1>2, <1>3, <1>4, <1>5, <1>6
<1> QED BY <1>7 DEF q

\* The empty list, and what a list holds.
LEMMA SetFacts ==
  /\ ToSet(<<>>) = {}
  /\ \A c : ToSet(<<c>>) = {c}
  /\ \A c, d : ToSet(<<c, d>>) = {c, d}
<1>1. ASSUME NEW c PROVE ToSet(<<c>>) = {c}
  <2>1. DOMAIN <<c>> = {1} /\ <<c>>[1] = c
    OBVIOUS
  <2> QED BY <2>1 DEF ToSet
<1>2. ASSUME NEW c, NEW d PROVE ToSet(<<c, d>>) = {c, d}
  <2>1. DOMAIN <<c, d>> = {1, 2} /\ <<c, d>>[1] = c /\ <<c, d>>[2] = d
    OBVIOUS
  <2> QED BY <2>1 DEF ToSet
<1>3. ToSet(<<>>) = {}
  BY DEF ToSet
<1> QED BY <1>1, <1>2, <1>3

\* The first of a list, and the rest.
LEMMA SetOfTail ==
  ASSUME NEW S, NEW s \in Seq(S), s # <<>>
  PROVE  Head(s) = s[1] /\ ToSet(s) = {Head(s)} \cup ToSet(Tail(s))
<1>1. /\ Len(s) \in Nat \ {0} /\ Head(s) = s[1] /\ DOMAIN s = 1..Len(s)
      /\ Len(Tail(s)) = Len(s) - 1 /\ DOMAIN Tail(s) = 1..(Len(s) - 1)
      /\ \A i \in 1..(Len(s) - 1) : Tail(s)[i] = s[i + 1]
  BY HeadTailProperties, EmptySeq, LenProperties
<1> DEFINE t == Tail(s)
<1>2. ASSUME NEW i \in DOMAIN s PROVE s[i] \in {s[1]} \cup ToSet(t)
  <2>1. CASE i = 1
    BY <2>1
  <2>2. CASE i # 1
    <3>1. i - 1 \in 1..(Len(s) - 1) /\ (i - 1) + 1 = i
      BY <1>1, <2>2
    <3>2. t[i - 1] = s[i] /\ i - 1 \in DOMAIN t
      BY <1>1, <3>1
    <3> QED BY <3>2 DEF ToSet
  <2> QED BY <2>1, <2>2
<1>3. ASSUME NEW i \in DOMAIN t PROVE t[i] \in ToSet(s)
  <2>1. i + 1 \in DOMAIN s /\ t[i] = s[i + 1]
    BY <1>1
  <2> QED BY <2>1 DEF ToSet
<1>4. s[1] \in ToSet(s)
  <2>1. 1 \in DOMAIN s
    BY <1>1
  <2> QED BY <2>1 DEF ToSet
<1> HIDE DEF t
<1>5. ToSet(s) = {s[1]} \cup ToSet(t)
  <2>1. ToSet(s) \subseteq {s[1]} \cup ToSet(t)
    BY <1>2 DEF ToSet
  <2>2. ToSet(t) \subseteq ToSet(s)
    BY <1>3 DEF ToSet
  <2> QED BY <1>4, <2>1, <2>2
<1> QED BY <1>1, <1>5 DEF t

\* The last of a list after one was added.
LEMMA SetOfAppend ==
  ASSUME NEW S, NEW s \in Seq(S), NEW e \in S
  PROVE  Append(s, e) \in Seq(S) /\ Append(s, e) # <<>> /\ ToSet(Append(s, e)) = ToSet(s) \cup {e}
<1>1. Append(s, e) = s \o <<e>> /\ <<e>> \in Seq(S)
  OBVIOUS
<1>2. ToSet(s \o <<e>>) = ToSet(s) \cup ToSet(<<e>>) /\ s \o <<e>> \in Seq(S)
  BY <1>1, SetOfConcat, ConcatProperties
<1>3. Append(s, e) # <<>>
  BY AppendProperties, EmptySeq
<1> QED BY <1>1, <1>2, <1>3, SetFacts

\* The answers and the calls as sets.
LEMMA LinkSets ==
  ASSUME TypeInv
  PROVE  /\ Answers \subseteq Reply /\ Pending \subseteq AllCalls /\ (calls = <<>> => Pending = {})
         /\ \A a \in Answers : a.name \in Params /\ a.value \in Nat /\ a = Answer(a.name, a.value)
<1>1. replies \in Seq(Reply) /\ calls \in Seq(AllCalls)
  BY DEF TypeInv, LinkTypes
<1>2. Answers \subseteq Reply
  BY <1>1 DEF Answers, ToSet
<1>3. Pending \subseteq AllCalls
  BY <1>1 DEF Pending, ToSet
<1>4. calls = <<>> => Pending = {}
  BY SetFacts DEF Pending
<1> QED BY <1>2, <1>3, <1>4 DEF Reply, Answer

\* A call that is made is gone from the list.
LEMMA PendingShrinks ==
  ASSUME TypeInv, LibStep
  PROVE  /\ Head(calls) \in AllCalls /\ Head(calls) \in Pending /\ Pending = {Head(calls)} \cup Pending'
         /\ Head(calls) = calls[1] /\ calls' = Tail(calls) /\ calls # <<>>
<1>1. calls \in Seq(AllCalls) /\ calls # <<>> /\ calls' = Tail(calls)
  BY LibCalls DEF TypeInv
<1>2. Head(calls) = calls[1] /\ ToSet(calls) = {Head(calls)} \cup ToSet(Tail(calls))
  BY <1>1, SetOfTail
<1>3. Pending = {Head(calls)} \cup Pending'
  BY <1>1, <1>2 DEF Pending
<1>4. Head(calls) \in AllCalls
  BY <1>1, TailCalls
<1> QED BY <1>1, <1>2, <1>3, <1>4

\* What a reception leaves of the answers, and what it took.
LEMMA Receives ==
  ASSUME NEW sent \in Seq(Reply), NEW taken \in BOOLEAN, Received(sent, taken)
  PROVE  /\ Answers' \subseteq ToSet(sent)
         /\ taken => sent # <<>> /\ Head(sent) \in ToSet(sent) /\ Head(sent) = sent[1]
<1>1. CASE taken
  <2>1. sent # <<>> /\ replies' = Tail(sent)
    BY <1>1 DEF Received
  <2>2. Head(sent) = sent[1] /\ ToSet(sent) = {Head(sent)} \cup ToSet(Tail(sent))
    BY <2>1, SetOfTail
  <2> QED BY <2>1, <2>2 DEF Answers
<1>2. CASE ~taken
  BY <1>2 DEF Received, Answers
<1> QED BY <1>1, <1>2

\* A write: its answer may be on its way only if it arrived, and what is reported was
\* confirmed by an answer that was on its way before or is its own.
LEMMA SetFactsOfLink ==
  ASSUME TypeInv, ParamSet
  PROVE  LET name == Head(calls).name
             value == Head(calls).value IN
         /\ name \in Params /\ value \in Nat /\ Head(calls).op = "set"
         /\ read' = read /\ (\A p \in Params : p # name => told'[p] = told[p]) /\ told'[name] \subseteq {value}
         /\ \/ param' = [param EXCEPT ![name] = value] /\ Answers' \subseteq Answers \cup {Answer(name, value)}
            \/ /\ param' = param /\ Answers' \subseteq Answers
               /\ told'[name] # {} => Answer(name, value) \in Answers
<1> DEFINE name == Head(calls).name
           value == Head(calls).value
<1>1. PICK arrives \in GoesWell, answered \in GoesWell, taken \in GoesWell :
        LET sent == IF arrives /\ answered THEN Append(replies, [name |-> name, value |-> value]) ELSE replies IN
        /\ Received(sent, taken)
        /\ param' = IF arrives THEN [param EXCEPT ![name] = value] ELSE param
        /\ told' = [told EXCEPT ![name] = IF taken /\ Confirms(Head(sent), name, value) THEN {value} ELSE {}]
  BY ZenonT(90) DEF ParamSet
<1> DEFINE sent == IF arrives /\ answered THEN Append(replies, Answer(name, value)) ELSE replies
<1>2. /\ Received(sent, taken) /\ read' = read
      /\ param' = IF arrives THEN [param EXCEPT ![name] = value] ELSE param
      /\ told' = [told EXCEPT ![name] = IF taken /\ Confirms(Head(sent), name, value) THEN {value} ELSE {}]
  BY <1>1 DEF ParamSet, Answer
<1>3. name \in Params /\ value \in Nat /\ Head(calls).op = "set"
  <2>1. Head(calls).op = "set" /\ Head(calls) \in AllCalls
    <3>1. calls # <<>> /\ Head(calls).op = "set" /\ calls \in Seq(AllCalls)
      BY DEF ParamSet, Calls, TypeInv
    <3> QED BY <3>1, TailCalls
  <2> QED BY <2>1, CallFacts
<1>4. /\ replies \in Seq(Reply) /\ Answer(name, value) \in Reply /\ told \in [Params -> SUBSET Nat]
      /\ arrives \in BOOLEAN /\ answered \in BOOLEAN /\ taken \in BOOLEAN
  BY <1>3 DEF TypeInv, LinkTypes, Answer, Reply, GoesWell
<1> HIDE DEF name, value
<1>5. /\ sent \in Seq(Reply)
      /\ ToSet(sent) \subseteq Answers \cup {Answer(name, value)}
      /\ ~arrives => ToSet(sent) = Answers
  <2>1. /\ Append(replies, Answer(name, value)) \in Seq(Reply)
        /\ ToSet(Append(replies, Answer(name, value))) = ToSet(replies) \cup {Answer(name, value)}
    BY <1>4, SetOfAppend
  <2> QED BY <1>4, <2>1 DEF Answers
<1> HIDE DEF sent
<1>6. /\ Answers' \subseteq ToSet(sent)
      /\ taken => Head(sent) \in ToSet(sent)
  BY <1>2, <1>4, <1>5, Receives
<1>7. told'[name] = IF taken /\ Confirms(Head(sent), name, value) THEN {value} ELSE {}
  BY <1>2, <1>3, <1>4 DEF name
<1>8. (\A p \in Params : p # name => told'[p] = told[p]) /\ told'[name] \subseteq {value}
  BY <1>2, <1>4, <1>7
<1>9. CASE arrives
  BY <1>2, <1>3, <1>5, <1>6, <1>8, <1>9 DEF name, value
<1>10. CASE ~arrives
  <2>1. param' = param /\ Answers' \subseteq Answers
    BY <1>2, <1>5, <1>6, <1>10
  <2>2. ASSUME told'[name] # {} PROVE Answer(name, value) \in Answers
    <3>1. taken /\ Head(sent).name = name /\ Head(sent).value = value /\ Head(sent) \in Reply
      <4>1. taken /\ Head(sent).name = name /\ Head(sent).value = value
        BY <1>7, <2>2 DEF Confirms
      <4> QED BY <4>1, <1>5, <1>6 DEF ToSet
    <3>2. Head(sent) = Answer(name, value)
      BY <3>1 DEF Reply, Answer
    <3> QED BY <1>5, <1>6, <1>10, <3>1, <3>2
  <2> QED BY <1>2, <1>3, <1>8, <2>1, <2>2 DEF name, value
<1> QED BY <1>9, <1>10

\* A read: its answer carries what is held.  If there was none of the parameter before,
\* the read that succeeds takes the only one.
LEMMA GetFactsOfLink ==
  ASSUME TypeInv, ParamGet
  PROVE  LET name == Head(calls).name IN
         /\ name \in Params /\ Head(calls).op = "get"
         /\ UNCHANGED <<param, told>>
         /\ Answers' \subseteq Answers \cup {Answer(name, param[name])}
         /\ \A p \in Params : p # name => read'[p] = read[p]
         /\ (\A a \in Answers : a.name # name) /\ read'[name] # {} => Answers' = {}
<1> DEFINE name == Head(calls).name
<1>1. PICK answered \in GoesWell, taken \in GoesWell :
        LET sent == IF answered THEN Append(replies, [name |-> name, value |-> param[name]]) ELSE replies IN
        /\ Received(sent, taken)
        /\ read' = [read EXCEPT ![name] = IF taken /\ Head(sent).name = name THEN {Head(sent).value} ELSE {}]
  BY ZenonT(90) DEF ParamGet
<1> DEFINE new == Answer(name, param[name])
           sent == IF answered THEN Append(replies, new) ELSE replies
<1>2. /\ Received(sent, taken) /\ UNCHANGED <<param, told>>
      /\ read' = [read EXCEPT ![name] = IF taken /\ Head(sent).name = name THEN {Head(sent).value} ELSE {}]
  BY <1>1 DEF ParamGet, Answer
<1>3. name \in Params /\ Head(calls).op = "get"
  <2>1. Head(calls).op = "get" /\ Head(calls) \in AllCalls
    <3>1. calls # <<>> /\ Head(calls).op = "get" /\ calls \in Seq(AllCalls)
      BY DEF ParamGet, Calls, TypeInv
    <3> QED BY <3>1, TailCalls
  <2> QED BY <2>1, CallFacts
<1>4. /\ replies \in Seq(Reply) /\ new \in Reply /\ read \in [Params -> SUBSET Nat]
      /\ answered \in BOOLEAN /\ taken \in BOOLEAN
  <2>1. param[name] \in Nat
    BY <1>3 DEF TypeInv, LinkTypes
  <2> QED BY <1>3, <2>1 DEF TypeInv, LinkTypes, Answer, Reply, GoesWell
<1>5. new.name = name
  BY DEF Answer
<1> HIDE DEF name, new
<1>6. sent \in Seq(Reply) /\ ToSet(sent) \subseteq Answers \cup {new}
  <2>1. /\ Append(replies, new) \in Seq(Reply)
        /\ ToSet(Append(replies, new)) = ToSet(replies) \cup {new}
    BY <1>4, SetOfAppend
  <2> QED BY <1>4, <2>1 DEF Answers
<1>7. Answers' \subseteq ToSet(sent)
  BY <1>2, <1>4, <1>6, Receives
<1>8. ASSUME \A a \in Answers : a.name # name, read'[name] # {} PROVE Answers' = {}
  <2>1. taken /\ Head(sent).name = name
    BY <1>2, <1>3, <1>4, <1>8 DEF name
  <2>2. sent # <<>> /\ Head(sent) = sent[1] /\ replies' = Tail(sent)
    <3>1. sent # <<>> /\ replies' = Tail(sent)
      BY <1>2, <2>1 DEF Received
    <3> QED BY <1>2, <1>4, <1>6, <2>1, <3>1, Receives
  <2>3. replies = <<>>
    <3> SUFFICES ASSUME replies # <<>> PROVE FALSE
      OBVIOUS
    <3>1. 1 \in DOMAIN replies /\ replies[1] \in Answers
      <4>1. 1 \in DOMAIN replies
        BY <1>4, EmptySeq, LenProperties
      <4> QED BY <4>1 DEF Answers, ToSet
    <3>2. sent[1] = replies[1]
      BY <1>4, <3>1, AppendProperties
    <3> QED BY <1>8, <2>1, <2>2, <3>1, <3>2
  <2>4. sent = <<new>>
    BY <2>2, <2>3
  <2>5. replies' = <<>>
    BY <2>2, <2>4
  <2> QED BY <2>5, SetFacts DEF Answers
<1> HIDE DEF sent
<1>9. \A p \in Params : p # name => read'[p] = read[p]
  BY <1>2, <1>4
<1> QED BY <1>2, <1>3, <1>6, <1>7, <1>8, <1>9 DEF name, new

\* The calls that neither write nor read; collecting takes all answers.
LEMMA OtherCalls ==
  ASSUME TypeInv, LibStep, ~ParamSet, ~ParamGet
  PROVE  /\ UNCHANGED <<param, told, read>> /\ Head(calls).op \notin {"set", "get"}
         /\ Answers' \subseteq Answers /\ (Head(calls).op = "collect" => Answers' = {})
<1>1. CASE CollectTelemetry
  <2>1. replies' = <<>> /\ UNCHANGED <<param, told, read>> /\ Head(calls).op = "collect"
    BY <1>1 DEF CollectTelemetry, Calls
  <2> QED BY <2>1, SetFacts DEF Answers
<1>2. CASE PubCmdVel \/ ProcWait
  BY <1>2 DEF PubCmdVel, ProcWait, Calls, linkVars, Answers
<1> QED BY <1>1, <1>2 DEF LibStep

-----------------------------------------------------------------------------
(* What a call of the library does to the answers on their way.            *)

\* A value that is vouched for stays so, unless another one is written.
LEMMA VouchedKeeps ==
  ASSUME TypeInv, LibStep, NEW name \in Params, NEW value, Vouched(name, value),
         Head(calls).op = "set" /\ Head(calls).name = name => Head(calls).value = value
  PROVE  Answer(name, value) \in Answers' => param'[name] = value
<1> USE DEF Vouched
<1>1. param \in [Params -> Nat]
  BY DEF TypeInv, LinkTypes
<1>2. CASE ParamSet
  <2> DEFINE n == Head(calls).name
             v == Head(calls).value
  <2>1. /\ n \in Params /\ v \in Nat /\ Head(calls).op = "set"
        /\ \/ param' = [param EXCEPT ![n] = v] /\ Answers' \subseteq Answers \cup {Answer(n, v)}
           \/ param' = param /\ Answers' \subseteq Answers
    BY <1>2, SetFactsOfLink
  <2>2. n = name => v = value
    BY <2>1
  <2> HIDE DEF n, v
  <2>3. Answer(n, v) = Answer(name, value) => n = name /\ v = value
    BY DEF Answer
  <2> QED BY <1>1, <2>1, <2>2, <2>3
<1>3. CASE ParamGet
  <2> DEFINE n == Head(calls).name
  <2>1. n \in Params /\ param' = param /\ Answers' \subseteq Answers \cup {Answer(n, param[n])}
    BY <1>3, GetFactsOfLink
  <2>2. Answer(n, param[n]) = Answer(name, value) => n = name /\ param[n] = value
    BY DEF Answer
  <2> HIDE DEF n
  <2> QED BY <2>1, <2>2
<1>4. CASE ~ParamSet /\ ~ParamGet
  BY <1>4, OtherCalls
<1> QED BY <1>2, <1>3, <1>4

\* Without a write all answers stay fresh.
LEMMA AllFreshKeeps ==
  ASSUME TypeInv, LibStep, AllFresh, NoWrite
  PROVE  AllFresh' /\ NoWrite' /\ param' = param
<1>1. Head(calls).op # "set" /\ NoWrite'
  BY PendingShrinks DEF NoWrite
<1>2. ~ParamSet
  BY <1>1 DEF ParamSet, Calls
<1>3. CASE ParamGet
  <2> DEFINE n == Head(calls).name
  <2>1. n \in Params /\ param' = param /\ Answers' \subseteq Answers \cup {Answer(n, param[n])}
    BY <1>3, GetFactsOfLink
  <2>2. Answer(n, param[n]).name = n /\ Answer(n, param[n]).value = param[n]
    BY DEF Answer
  <2> HIDE DEF n
  <2> QED BY <1>1, <2>1, <2>2 DEF AllFresh
<1>4. CASE ~ParamGet
  <2>1. Answers' \subseteq Answers /\ param' = param
    BY <1>2, <1>4, OtherCalls
  <2> QED BY <1>1, <2>1 DEF AllFresh
<1> QED BY <1>3, <1>4

\* A parameter without an answer on its way gets none but by a call of its own.
LEMMA UnansweredKeeps ==
  ASSUME TypeInv, LibStep, NEW name, \A a \in Answers : a.name # name,
         Head(calls).op \in {"set", "get"} => Head(calls).name # name
  PROVE  \A a \in Answers' : a.name # name
<1>1. CASE ParamSet
  <2> DEFINE n == Head(calls).name
             v == Head(calls).value
  <2>1. Head(calls).op = "set" /\ Answers' \subseteq Answers \cup {Answer(n, v)}
    BY <1>1, SetFactsOfLink
  <2>2. Answer(n, v).name = n
    BY DEF Answer
  <2> QED BY <2>1, <2>2
<1>2. CASE ParamGet
  <2> DEFINE n == Head(calls).name
  <2>1. Head(calls).op = "get" /\ Answers' \subseteq Answers \cup {Answer(n, param[n])}
    BY <1>2, GetFactsOfLink
  <2>2. Answer(n, param[n]).name = n
    BY DEF Answer
  <2> QED BY <2>1, <2>2
<1>3. CASE ~ParamSet /\ ~ParamGet
  BY <1>3, OtherCalls
<1> QED BY <1>1, <1>2, <1>3

\* The answers to a parameter stay fresh as long as none of another value may come.
LEMMA FreshKeeps ==
  ASSUME TypeInv, LibStep, Fresh,
         Head(calls).op = "set" /\ Head(calls).name = Searched => Unanswered
  PROVE  Fresh'
<1>1. param \in [Params -> Nat]
  BY DEF TypeInv, LinkTypes
<1>2. CASE ParamSet
  <2> DEFINE n == Head(calls).name
             v == Head(calls).value
  <2>1. /\ n \in Params /\ v \in Nat /\ Head(calls).op = "set"
        /\ \/ param' = [param EXCEPT ![n] = v] /\ Answers' \subseteq Answers \cup {Answer(n, v)}
           \/ param' = param /\ Answers' \subseteq Answers
    BY <1>2, SetFactsOfLink
  <2>2. n = Searched => \A a \in Answers : a.name # Searched
    BY <2>1 DEF Unanswered
  <2>3. Answer(n, v).name = n /\ Answer(n, v).value = v
    BY DEF Answer
  <2> HIDE DEF n, v
  <2>4. ASSUME NEW a \in Answers', a.name = Searched PROVE a.value = param'[Searched]
    <3>1. Searched \in Params
      BY ParamsAssumption DEF Searched
    <3>2. CASE n = Searched
      <4>1. a \notin Answers
        BY <2>2, <2>4, <3>2
      <4>2. a = Answer(n, v) /\ param' = [param EXCEPT ![n] = v]
        BY <2>1, <4>1
      <4> QED BY <1>1, <2>3, <3>1, <3>2, <4>2
    <3>3. CASE n # Searched
      <4>1. a \in Answers
        BY <2>1, <2>3, <2>4, <3>3
      <4>2. param'[Searched] = param[Searched]
        BY <1>1, <2>1, <3>1, <3>3
      <4> QED BY <2>4, <4>1, <4>2 DEF Fresh
    <3> QED BY <3>2, <3>3
  <2> QED BY <2>4 DEF Fresh, Searched
<1>3. CASE ParamGet
  <2> DEFINE n == Head(calls).name
  <2>1. n \in Params /\ param' = param /\ Answers' \subseteq Answers \cup {Answer(n, param[n])}
    BY <1>3, GetFactsOfLink
  <2>2. Answer(n, param[n]).name = n /\ Answer(n, param[n]).value = param[n]
    BY DEF Answer
  <2> HIDE DEF n
  <2> QED BY <2>1, <2>2 DEF Fresh, Searched
<1>4. CASE ~ParamSet /\ ~ParamGet
  <2>1. Answers' \subseteq Answers /\ param' = param
    BY <1>4, OtherCalls
  <2> QED BY <2>1 DEF Fresh, Searched
<1> QED BY <1>2, <1>3, <1>4

\* The default of stage 2A is decided before there is a flag.
LEMMA DefaultStays ==
  ASSUME BaseInv, SearchHeld, LibStep
  PROVE  DefaultApplied' <=> DefaultApplied
<1>1. session' = session /\ abort' = abort /\ stage' = stage
  BY LibCalls, SessionStays
<1>2. CASE stage # "stage2a"
  BY <1>1, <1>2 DEF DefaultApplied
<1>3. CASE stage = "stage2a" /\ ParamGet
  <2>1. Head(calls) \in Pending /\ Head(calls).op = "get"
    BY <1>3, PendingShrinks DEF BaseInv, ParamGet, Calls
  <2>2. pc \notin Halving \cup {"ended"}
    BY <1>3, <2>1 DEF SearchHeld, NoRead
  <2>3. pc \in SearchPlaces
    BY <1>3, PlaceFacts DEF BaseInv, TypeInv, ScriptTypes
  <2>4. handler = FALSE
    BY <1>3, <2>2, <2>3 DEF SearchHeld, SearchPlaces, Halving, Trying
  <2>5. ~abort
    BY <2>4 DEF BaseInv, TypeInv, FlagTypes
  <2> QED BY <1>1, <2>5 DEF DefaultApplied
<1>4. CASE ~ParamGet
  <2>1. read' = read
    BY <1>4 DEF LibStep, ParamSet, CollectTelemetry, PubCmdVel, ProcWait, linkVars
  <2> QED BY <1>1, <2>1 DEF DefaultApplied
<1> QED BY <1>2, <1>3, <1>4

\* A call reports only what is held.
LEMMA CallsKeep ==
  ASSUME BaseInv, CallInv, SearchHeld, LibStep
  PROVE  CallInv'
<1>1. TypeInv /\ (DefaultApplied' <=> DefaultApplied)
  BY DefaultStays DEF BaseInv
<1>2. /\ Head(calls) \in AllCalls /\ Head(calls) \in Pending /\ Pending = {Head(calls)} \cup Pending'
      /\ Pending \subseteq AllCalls
  BY <1>1, PendingShrinks, LinkSets
<1> DEFINE Spared(p) == DefaultApplied /\ p = Searched
<1>3. ASSUME NEW c \in Pending', c.op = "set", ~Spared(c.name)
      PROVE  Answer(c.name, c.value) \in Answers' => param'[c.name] = c.value
  <2>1. c \in Pending /\ c \in AllCalls
    BY <1>2
  <2>2. c.name \in Params /\ Vouched(c.name, c.value)
    BY <1>3, <2>1, CallFacts DEF CallInv, WritesVouched, ReportedIsHeld, Searched
  <2>3. Head(calls).op = "set" /\ Head(calls).name = c.name => Head(calls).value = c.value
    BY <1>2, <1>3, <2>1 DEF CallInv, WritesVouched, ReportedIsHeld, Searched
  <2> QED BY <1>1, <2>2, <2>3, VouchedKeeps
<1>4. \A c, d \in Pending' : c.op = "set" /\ d.op = "set" /\ c.name = d.name => c.value = d.value
  BY <1>2 DEF CallInv, WritesVouched, ReportedIsHeld, Searched
<1>5. ASSUME NEW p \in Params, ~Spared(p), NEW v \in told'[p] PROVE param'[p] = v
  <2>0. param \in [Params -> Nat] /\ told \in [Params -> SUBSET Nat]
    BY <1>1 DEF TypeInv, LinkTypes
  <2>1. CASE ParamSet
    <3> DEFINE n == Head(calls).name
               w == Head(calls).value
    <3>1. /\ n \in Params /\ w \in Nat /\ Head(calls).op = "set"
          /\ (\A q \in Params : q # n => told'[q] = told[q]) /\ told'[n] \subseteq {w}
          /\ \/ param' = [param EXCEPT ![n] = w]
             \/ param' = param /\ (told'[n] # {} => Answer(n, w) \in Answers)
      BY <1>1, <2>1, SetFactsOfLink
    <3>2. p = n => (Answer(n, w) \in Answers => param[n] = w)
      BY <1>2, <1>5, <3>1 DEF CallInv, WritesVouched, ReportedIsHeld, Searched, Vouched
    <3> HIDE DEF n, w
    <3>3. CASE p = n
      BY <1>5, <2>0, <3>1, <3>2, <3>3
    <3>4. CASE p # n
      <4>1. told'[p] = told[p] /\ param'[p] = param[p]
        BY <2>0, <3>1, <3>4
      <4> QED BY <1>5, <4>1 DEF CallInv, WritesVouched, ReportedIsHeld, Searched
    <3> QED BY <3>3, <3>4
  <2>2. CASE ~ParamSet
    <3>1. param' = param /\ told' = told
      BY <1>1, <2>2, GetFactsOfLink, OtherCalls
    <3> QED BY <1>5, <3>1 DEF CallInv, WritesVouched, ReportedIsHeld, Searched
  <2> QED BY <2>1, <2>2
<1> QED BY <1>1, <1>3, <1>4, <1>5 DEF CallInv, WritesVouched, ReportedIsHeld, Searched, Vouched, Answer

\* Calls that neither write nor read get no answers.
LEMMA QuietLink ==
  ASSUME TypeInv, LibStep, NoWrite, NoRead
  PROVE  NoWrite' /\ NoRead' /\ Answers' \subseteq Answers /\ UNCHANGED <<param, read>>
<1>1. Head(calls) \in Pending /\ Pending' \subseteq Pending
  BY PendingShrinks
<1>2. Head(calls).op \notin {"set", "get"}
  BY <1>1 DEF NoWrite, NoRead
<1>3. ~ParamSet /\ ~ParamGet
  BY <1>2 DEF ParamSet, ParamGet, Calls
<1> QED BY <1>1, <1>3, OtherCalls DEF NoWrite, NoRead

\* A list that collects after its only write still does, or nothing is on its way.
LEMMA CollectsOrDone ==
  ASSUME TypeInv, LibStep, NoRead, \A i \in DOMAIN calls : i # 1 => calls[i].op # "set",
         Collects \/ (Answers = {} /\ NoWrite)
  PROVE  NoRead' /\ NoWrite' /\ (Collects' \/ Answers' = {})
<1>1. /\ Head(calls) \in Pending /\ Pending = {Head(calls)} \cup Pending'
  BY PendingShrinks
<1>2. NoSets(calls')
  <2>1. calls \in Seq(AllCalls) /\ calls # <<>> /\ calls' = Tail(calls)
    BY LibCalls DEF TypeInv
  <2> QED BY <2>1, RestFacts
<1>3. NoWrite' /\ NoRead'
  BY <1>1, <1>2 DEF NoWrite, NoRead, NoSets, Pending, ToSet
<1>4. CASE Collects /\ Head(calls).op = "collect"
  <2>1. ~ParamSet /\ ~ParamGet
    BY <1>4 DEF ParamSet, ParamGet, Calls
  <2> QED BY <1>3, <1>4, <2>1, OtherCalls
<1>5. CASE Collects /\ Head(calls).op # "collect"
  BY <1>1, <1>3, <1>5 DEF Collects
<1>6. CASE Answers = {} /\ NoWrite
  BY <1>3, <1>6, QuietLink
<1> QED BY <1>4, <1>5, <1>6

\* The calls of the library keep what stage 1 says of the link.
LEMMA LimitLib ==
  ASSUME BaseInv, LimitHeld, LibStep
  PROVE  LimitHeld'
<1>1. TypeInv /\ pc' = pc /\ stage' = stage
  BY LibCalls, SessionStays DEF BaseInv
<1>2. CASE stage = "stage1" /\ pc \in {"connect", "test", "coast", "tested", "coasted"}
  <2>1. Answers = {} /\ NoWrite /\ NoRead
    BY <1>2 DEF LimitHeld
  <2>2. Answers' = {} /\ NoWrite' /\ NoRead'
    BY <1>1, <2>1, QuietLink
  <2> QED BY <1>1, <1>2, <2>2 DEF LimitHeld
<1>3. CASE stage = "stage1" /\ pc = "result"
  <2>1. AllFresh' /\ NoWrite'
    BY <1>1, <1>3, AllFreshKeeps DEF LimitHeld
  <2> QED BY <1>1, <1>3, <2>1 DEF LimitHeld
<1> QED BY <1>1, <1>2, <1>3 DEF LimitHeld

\* They keep what the sweeps say of it.
LEMMA SweepLib ==
  ASSUME BaseInv, SweepHeld, LibStep
  PROVE  SweepHeld'
<1> SUFFICES ASSUME Sweeping PROVE SweepHeld'
  <2>1. Sweeping' = Sweeping
    BY LibCalls, SessionStays
  <2> QED BY <2>1 DEF SweepHeld
<1>1. /\ TypeInv /\ session' = session /\ calls # <<>>
      /\ UNCHANGED <<pc, abort, sweep, index, best>>
  BY LibCalls DEF BaseInv, stageVars, sweepVars
<1>2. Plan' = Plan /\ P' = P /\ I' = I /\ Two' = Two /\ Sweeping' = Sweeping
  BY <1>1, SessionStays
<1>3. /\ Head(calls) \in Pending /\ Pending = {Head(calls)} \cup Pending' /\ Head(calls) \in AllCalls
  BY <1>1, PendingShrinks
<1>4. pc \in {"connect", "ready"} => AllFresh' /\ NoWrite' /\ index' = 0
  BY <1>1, AllFreshKeeps DEF SweepHeld
<1>5. ASSUME pc \in {"sweep", "swept", "choose", "verify", "result"} PROVE BestVouched' /\ BestWritten'
  <2>1. BestVouched /\ BestWritten
    BY <1>5 DEF SweepHeld
  <2>2. ASSUME NEW i \in DOMAIN Plan.gains
        PROVE  Answer(Plan.gains[i], best[Plan.gains[i]]) \in Answers' => param'[Plan.gains[i]] = best[Plan.gains[i]]
    <3>1. Plan.gains[i] \in Params
      BY GainsFacts
    <3>2. Vouched(Plan.gains[i], best[Plan.gains[i]])
      BY <2>1 DEF BestVouched
    <3>3. Head(calls).op = "set" /\ Head(calls).name = Plan.gains[i] => Head(calls).value = best[Plan.gains[i]]
      BY <1>3, <2>1 DEF BestWritten
    <3> QED BY <1>1, <3>1, <3>2, <3>3, VouchedKeeps
  <2>3. BestVouched'
    BY <1>1, <1>2, <2>2 DEF BestVouched, Vouched, Answer
  <2>4. BestWritten'
    BY <1>1, <1>3, <2>1 DEF BestWritten
  <2> QED BY <2>3, <2>4
<1>6. pc = "sweep" => sweep = 1 /\ index = 0 /\ best[P] = 0
  BY <1>1 DEF SweepHeld
<1>7. pc = "judge" =>
        /\ NoRead' /\ (\A i \in DOMAIN calls' : i # 1 => calls'[i].op # "set")
        /\ Collects' \/ (Answers' = {} /\ NoWrite')
  <2> SUFFICES ASSUME pc = "judge"
               PROVE /\ NoRead' /\ (\A i \in DOMAIN calls' : i # 1 => calls'[i].op # "set")
                     /\ Collects' \/ (Answers' = {} /\ NoWrite')
    OBVIOUS
  <2>1. NoRead' /\ NoWrite' /\ (Collects' \/ Answers' = {})
    BY <1>1, CollectsOrDone DEF SweepHeld
  <2>2. \A i \in DOMAIN calls' : calls'[i].op # "set"
    BY <2>1 DEF NoWrite, Pending, ToSet
  <2> QED BY <2>1, <2>2
<1>8. pc # "swept"
  BY <1>1 DEF SweepHeld
<1>9. ASSUME pc = "choose", Two, sweep = 1, ~abort
      PROVE  (\A a \in Answers' : a.name # I) /\ NoRead' /\ \A c \in Pending' : c.op = "set" => c.name # I
  <2>1. IUnanswered /\ NoRead /\ \A c \in Pending : c.op = "set" => c.name # I
    BY <1>9 DEF SweepHeld
  <2>2. Head(calls).op \in {"set", "get"} => Head(calls).name # I
    BY <1>3, <2>1 DEF NoRead
  <2>3. \A a \in Answers' : a.name # I
    BY <1>1, <2>1, <2>2, UnansweredKeeps DEF IUnanswered
  <2> QED BY <1>3, <2>1, <2>3 DEF NoRead
<1>10. pc = "choose" /\ Two /\ sweep = 1 /\ ~abort =>
         IUnanswered' /\ NoRead' /\ (\A c \in Pending' : c.op = "set" => c.name # I')
  BY <1>2, <1>9 DEF IUnanswered
<1> QED BY <1>1, <1>2, <1>4, <1>5, <1>6, <1>7, <1>8, <1>10 DEF SweepHeld

\* They keep what stage 2A says of it.
LEMMA SearchLib ==
  ASSUME BaseInv, SearchHeld, LibStep
  PROVE  SearchHeld'
<1> SUFFICES ASSUME stage = "stage2a" PROVE SearchHeld'
  <2>1. stage' = stage
    BY LibCalls, SessionStays
  <2> QED BY <2>1 DEF SearchHeld
<1>1. /\ TypeInv /\ session' = session /\ stage' = stage /\ calls # <<>> /\ calls \in Seq(AllCalls)
      /\ UNCHANGED <<pc, abort, handler, tested, lo, hi>>
  BY LibCalls, SessionStays DEF BaseInv, TypeInv, stageVars, searchVars
<1>2. mid' = mid
  BY <1>1 DEF mid
<1>3. /\ Head(calls) \in Pending /\ Pending = {Head(calls)} \cup Pending' /\ Head(calls) \in AllCalls
      /\ Head(calls) = calls[1] /\ calls' = Tail(calls)
  BY <1>1, PendingShrinks
<1>4. DefaultApplied' <=> DefaultApplied
  BY DefaultStays
<1>5. ASSUME pc \in {"connect", "zero"}
      PROVE  AllFresh' /\ NoWrite' /\ Unanswered' /\ \A c \in Pending' : c.op = "get" => c.name # Searched'
  <2>1. AllFresh /\ NoWrite /\ Unanswered /\ \A c \in Pending : c.op = "get" => c.name # Searched
    BY <1>5 DEF SearchHeld
  <2>2. AllFresh' /\ NoWrite'
    BY <1>1, <2>1, AllFreshKeeps
  <2>3. Head(calls).op \in {"set", "get"} => Head(calls).name # Searched
    BY <1>3, <2>1 DEF NoWrite
  <2>4. \A a \in Answers' : a.name # Searched
    BY <1>1, <2>1, <2>3, UnansweredKeeps DEF Unanswered
  <2> QED BY <1>3, <2>1, <2>2, <2>4 DEF Unanswered, Searched
<1>6. ASSUME pc = "ready"
      PROVE  \/ calls' = <<>> /\ Fresh' /\ (read'[Searched] # {} => Unanswered')
             \/ /\ Unanswered'
                /\ \A i \in DOMAIN calls' :
                     \/ calls'[i].op = "set" /\ calls'[i].name # Searched
                     \/ calls'[i] = Get(Searched) /\ i = Len(calls')
  <2>1. /\ Unanswered
        /\ \A i \in DOMAIN calls :
             \/ calls[i].op = "set" /\ calls[i].name # Searched
             \/ calls[i] = Get(Searched) /\ i = Len(calls)
    BY <1>1, <1>6 DEF SearchHeld
  <2>2. /\ Len(calls) \in Nat \ {0} /\ DOMAIN calls = 1..Len(calls) /\ 1 \in DOMAIN calls
        /\ Len(calls') = Len(calls) - 1 /\ DOMAIN calls' = 1..(Len(calls) - 1)
        /\ \A i \in 1..(Len(calls) - 1) : calls'[i] = calls[i + 1] /\ i + 1 \in DOMAIN calls
    BY <1>1, <1>3, HeadTailProperties, EmptySeq, LenProperties
  <2>3. CASE Head(calls).op = "set" /\ Head(calls).name # Searched
    <3>1. \A a \in Answers' : a.name # Searched
      BY <1>1, <2>1, <2>3, UnansweredKeeps DEF Unanswered
    <3>2. ASSUME NEW i \in DOMAIN calls'
          PROVE  \/ calls'[i].op = "set" /\ calls'[i].name # Searched
                 \/ calls'[i] = Get(Searched) /\ i = Len(calls')
      <4>1. calls'[i] = calls[i + 1] /\ i + 1 \in DOMAIN calls /\ (i + 1 = Len(calls) => i = Len(calls'))
        BY <2>2
      <4> QED BY <2>1, <4>1
    <3> QED BY <3>1, <3>2 DEF Unanswered, Searched
  <2>4. CASE Head(calls) = Get(Searched) /\ 1 = Len(calls)
    <3>1. calls' = <<>>
      BY <1>1, <1>3, <2>2, <2>4, EmptySeq, TailCalls
    <3>2. Head(calls).op = "get" /\ Head(calls).name = Searched
      BY <2>4, CallFacts
    <3>3. Fresh
      BY <2>1 DEF Unanswered, Fresh
    <3>4. Fresh'
      BY <1>1, <3>2, <3>3, FreshKeeps
    <3>5. ParamGet
      BY <3>2 DEF LibStep, ParamSet, CollectTelemetry, PubCmdVel, ProcWait, Calls
    <3>6. read'[Searched] # {} => Answers' = {}
      BY <1>1, <2>1, <3>2, <3>5, GetFactsOfLink DEF Unanswered
    <3> QED BY <3>1, <3>4, <3>6 DEF Unanswered, Searched
  <2> QED BY <1>3, <2>1, <2>2, <2>3, <2>4
<1>7. pc \in Halving \cup {"ended"} => NoRead'
  BY <1>3 DEF SearchHeld, NoRead
<1>8. pc \notin {"search", "average"}
  BY <1>1 DEF SearchHeld
<1>9. ASSUME pc = "speeds"
      PROVE  calls' = <<>> /\ tested' = 0 /\ (Fresh' \/ read'[Searched] = {})
  <2>1. calls = <<Set(Searched, mid)>> /\ tested = 0 /\ Fresh /\ (Unanswered \/ read[Searched] = {})
    BY <1>1, <1>9 DEF SearchHeld
  <2>2. Head(calls) = Set(Searched, mid) /\ Tail(calls) = <<>>
    BY <2>1
  <2>3. Head(calls).op = "set"
    BY <2>2, CallFacts
  <2>4. read' = read
    BY <2>3 DEF LibStep, ParamSet, ParamGet, CollectTelemetry, PubCmdVel, ProcWait, Calls, linkVars
  <2>5. Unanswered => Fresh'
    BY <1>1, <2>1, FreshKeeps
  <2> QED BY <1>1, <1>3, <2>1, <2>2, <2>4, <2>5
<1>10. ASSUME pc = "measure" PROVE NoWrite' /\ (Collects' \/ Answers' = {})
  <2>1. NoWrite /\ NoRead /\ (Collects \/ Answers = {})
    BY <1>10 DEF SearchHeld, Halving, Trying
  <2>2. \A i \in DOMAIN calls : i # 1 => calls[i].op # "set"
    BY <2>1 DEF NoWrite, Pending, ToSet
  <2> QED BY <1>1, <2>1, <2>2, CollectsOrDone
<1>11. ASSUME pc \in {"found", "result"} PROVE NoWrite' /\ (Fresh' \/ DefaultApplied')
  <2>1. NoWrite /\ NoRead /\ (Fresh \/ DefaultApplied)
    BY <1>11 DEF SearchHeld, Halving
  <2>2. NoWrite' /\ Answers' \subseteq Answers /\ param' = param
    BY <1>1, <2>1, QuietLink
  <2>3. Fresh => Fresh'
    BY <2>2 DEF Fresh, Searched
  <2> QED BY <1>4, <2>1, <2>2, <2>3
<1>12. pc \in {"connect", "zero", "ready"} => handler' = FALSE
  BY <1>1 DEF SearchHeld
<1> QED BY <1>1, <1>2, <1>5, <1>6, <1>7, <1>8, <1>9, <1>10, <1>11, <1>12 DEF SearchHeld, Searched

-----------------------------------------------------------------------------
(* What the scripts do between two calls.                                  *)

\* The link is as it was, and no call is left.
LEMMA LinkStays ==
  ASSUME BaseInv, SearchHeld, ScriptStep
  PROVE  /\ TypeInv /\ calls = <<>> /\ session' = session /\ stage' = stage /\ Answers' = Answers
         /\ UNCHANGED linkVars /\ (DefaultApplied => DefaultApplied')
         /\ AllFresh' = AllFresh /\ Fresh' = Fresh /\ Unanswered' = Unanswered
         /\ pc \in Places /\ best \in [Params -> Nat] /\ param \in [Params -> Nat] /\ Pending' \subseteq AllCalls
<1>1. Begun /\ TypeInv
  BY ScriptBegins DEF BaseInv
<1>2. /\ calls = <<>> /\ session' = session /\ UNCHANGED linkVars /\ calls' \in Seq(AllCalls)
  BY <1>1 DEF Begun
<1>3. stage' = stage /\ Answers' = Answers
  BY <1>2, SessionStays DEF Answers, linkVars
<1>4. pc \in Places /\ best \in [Params -> Nat] /\ param \in [Params -> Nat]
  BY <1>1 DEF TypeInv, ScriptTypes, LinkTypes
<1>5. Pending' \subseteq AllCalls
  BY <1>2 DEF Pending, ToSet
<1>6. ASSUME DefaultApplied PROVE DefaultApplied'
  <2>1. stage = "stage2a" /\ abort /\ read[Searched] = {}
    BY <1>6 DEF DefaultApplied, Searched
  <2>2. handler
    BY <1>1, <2>1 DEF TypeInv, FlagTypes
  <2>3. pc \notin {"connect", "zero", "ready"}
    BY <2>1, <2>2 DEF SearchHeld
  <2>4. Places = SearchPlaces /\ ~Sweeping
    BY <1>4, <2>1, PlaceFacts
  <2>5. ~StartSweeps /\ ~StartSearch /\ ~StartTest
    BY <1>4, <2>1, <2>3, <2>4 DEF StartSweeps, StartSearch, StartTest, Go, SearchPlaces
  <2>6. UNCHANGED abort
    <3>1. CASE \E seen \in GoesWell : Measure(seen)
      BY <3>1 DEF Measure
    <3>2. CASE ~\E seen \in GoesWell : Measure(seen)
      BY <2>5, <3>2 DEF ScriptStep, Connect, Decline, Conclude, SweepStep, TryGain, SweepEnds, Swept, SweepI, SkipI,
         Verify, Judge, JudgeOver, LimitStep, SkipTest, Coast, TestAborted, TestEnds, Summary, Leave, SearchStep,
         ZeroGains, Iterate, StopSearching, MeasureSpeed, SkipSpeed, SpeedsEnd, NothingTested, Accept, Halve, Found, Step
    <3> QED BY <3>1, <3>2
  <2>7. read' = read
    BY <1>2 DEF linkVars
  <2> QED BY <1>3, <2>1, <2>6, <2>7 DEF DefaultApplied, Searched
<1>7. AllFresh' = AllFresh /\ Fresh' = Fresh /\ Unanswered' = Unanswered
  BY <1>2, <1>3 DEF AllFresh, Fresh, Unanswered, Searched, linkVars
<1> QED BY <1>1, <1>2, <1>3, <1>4, <1>5, <1>6, <1>7

\* What is driven neither writes nor reads.
LEMMA DrivenQuiet ==
  ASSUME calls' \in Seq(Driven)
  PROVE  NoWrite' /\ NoRead' /\ WritesVouched'
<1>1. Pending' \subseteq Driven
  BY DEF Pending, ToSet
<1>2. \A c \in Driven : c.op \notin {"set", "get"}
  BY CallFacts DEF Driven
<1> QED BY <1>1, <1>2 DEF NoWrite, NoRead, WritesVouched

\* The lists that drive or stop.
LEMMA DrivenLists ==
  /\ <<>> \in Seq(Driven) /\ Stop \in Seq(Driven) /\ Trial \in Seq(Driven)
  /\ <<Drive, Wait>> \in Seq(Driven) /\ Stop \o <<Collect>> \in Seq(Driven)
<1>1. Stop \in Seq(Driven) /\ <<Collect>> \in Seq(Driven) /\ <<Drive, Wait>> \in Seq(Driven)
  BY DEF Stop, Driven
<1>2. Stop \o <<Collect>> \in Seq(Driven)
  BY <1>1, ConcatProperties
<1> QED BY <1>1, <1>2, DrivenTrial

\* The results are values of their parameters.
LEMMA WritesAre ==
  ASSUME best \in [Params -> Nat], stage \in {"stage1", "stage2a"} \/ Sweeping
  PROVE  \A c \in ToSet(Writes) : c.op = "set" /\ c.name \in Params /\ c.value = best[c.name]
<1>1. \A i \in DOMAIN Writes : Writes[i] = Set(Writes[i].name, best[Writes[i].name])
  BY NamesFacts
<1>2. Writes \in Seq(AllCalls)
  BY NamesFacts
<1>3. \A i \in DOMAIN Writes : Writes[i] \in AllCalls
  BY <1>2
<1>4. ASSUME NEW i \in DOMAIN Writes
      PROVE  Writes[i].op = "set" /\ Writes[i].name \in Params /\ Writes[i].value = best[Writes[i].name]
  <2>1. Writes[i].op = "set" /\ Writes[i].value = best[Writes[i].name]
    BY <1>1, CallFacts
  <2> QED BY <1>3, <2>1, CallFacts
<1> QED BY <1>4 DEF ToSet

\* Stage 1 writes its results over the answers to its own reads.
LEMMA LimitScript ==
  ASSUME BaseInv, HeldInv, stage = "stage1", ScriptStep
  PROVE  LimitHeld' /\ WritesVouched'
<1>1. /\ TypeInv /\ calls = <<>> /\ stage' = stage /\ Answers' = Answers /\ AllFresh' = AllFresh
      /\ best \in [Params -> Nat] /\ param' = param /\ (DefaultApplied => DefaultApplied')
  BY LinkStays DEF HeldInv, linkVars
<1>2. /\ pc \in LimitPlaces /\ ~Sweeping /\ stage # "stage2a"
  BY LinkStays, PlaceFacts DEF HeldInv
<1>3. CASE pc = "result"
  <2>1. AllFresh
    BY <1>3 DEF HeldInv, LimitHeld
  <2>2. pc' = "ended" /\ calls' \in {Writes, <<>>}
    BY <1>2, <1>3 DEF ScriptStep, Connect, Decline, Conclude, SweepStep, StartSweeps, TryGain, SweepEnds, Swept,
       SweepI, SkipI, Verify, Judge, JudgeOver, LimitStep, SkipTest, StartTest, Coast, TestAborted, TestEnds, Summary,
       Leave, SearchStep, ZeroGains, StartSearch, Iterate, StopSearching, MeasureSpeed, SkipSpeed, SpeedsEnd, Measure,
       NothingTested, Accept, Halve, Found, Step, Go
  <2>3. \A c \in Pending' : c.op = "set" /\ c.name \in Params /\ c.value = best[c.name]
    BY <1>1, <2>2, WritesAre, SetFacts DEF Pending
  <2>4. ASSUME NEW c \in Pending' PROVE Answer(c.name, c.value) \in Answers' => param'[c.name] = c.value
    BY <1>1, <2>1 DEF AllFresh, Answer
  <2>5. WritesVouched'
    BY <2>3, <2>4 DEF WritesVouched, Vouched, Answer
  <2> QED BY <2>2, <2>5 DEF LimitHeld
<1>4. CASE Summary
  <2> DEFINE gets == [i \in DOMAIN Names |-> Get(Names[i])]
  <2>1. calls' = gets /\ pc' \in {"ended", "result"} /\ pc = "test"
    BY <1>4 DEF Summary, Step, Go
  <2>2. NoSets(gets)
    BY <1>1, NamesFacts
  <2>3. NoWrite'
    BY <2>1, <2>2 DEF NoWrite, Pending, ToSet, NoSets
  <2>4. Answers = {}
    BY <2>1 DEF HeldInv, LimitHeld
  <2>5. AllFresh'
    BY <1>1, <2>4 DEF AllFresh
  <2> QED BY <2>1, <2>3, <2>5 DEF LimitHeld, WritesVouched, NoWrite
<1>5. CASE pc # "result" /\ ~Summary
  <2>1. /\ pc \in {"connect", "test", "coast", "tested", "coasted"}
        /\ pc' \in {"test", "coast", "tested", "coasted", "ended"}
        /\ calls' \in {<<>>, Stop, Trial, <<Drive, Wait>>, Stop \o <<Collect>>}
    BY <1>2, <1>5 DEF LimitPlaces, ScriptStep, Connect, Decline, Conclude, SweepStep, StartSweeps, TryGain, SweepEnds, Swept,
       SweepI, SkipI, Verify, Judge, JudgeOver, LimitStep, SkipTest, StartTest, Coast, TestAborted, TestEnds,
       Leave, SearchStep, ZeroGains, StartSearch, Iterate, StopSearching, MeasureSpeed, SkipSpeed, SpeedsEnd, Measure,
       NothingTested, Accept, Halve, Found, Step, Go, Sweeping
  <2>2. NoWrite' /\ NoRead' /\ WritesVouched'
    BY <2>1, DrivenLists, DrivenQuiet
  <2>3. Answers' = {}
    BY <1>1, <2>1 DEF HeldInv, LimitHeld
  <2> QED BY <2>1, <2>2, <2>3 DEF LimitHeld
<1> QED BY <1>3, <1>4, <1>5

\* Every trial collects.
LEMMA TrialCollects == Collect \in ToSet(Trial) /\ Collect \in ToSet(HeadingTrial)
<1>1. /\ <<Drive, Collect, Wait>> \in Seq(Driven) /\ Stop \in Seq(Driven)
      /\ DOMAIN <<Drive, Collect, Wait>> = 1..3 /\ <<Drive, Collect, Wait>>[2] = Collect
  BY DEF Stop, Driven
<1>2. Collect \in ToSet(<<Drive, Collect, Wait>>)
  BY <1>1 DEF ToSet
<1>3. Trial \in Seq(Driven)
  BY DrivenLists
<1> DEFINE drive == <<Drive, Collect, Wait>>
<1>4. drive \in Seq(Driven) /\ Collect \in ToSet(drive)
  BY <1>1, <1>2
<1>5. Trial = drive \o Stop /\ HeadingTrial = drive \o Trial
  BY DEF Trial, HeadingTrial
<1> HIDE DEF drive
<1>6. \A t \in Seq(Driven) : ToSet(drive \o t) = ToSet(drive) \cup ToSet(t)
  BY <1>4, SetOfConcat
<1> QED BY <1>1, <1>3, <1>4, <1>5, <1>6

\* What the sweeps read and drive.
LEMMA SweepLists ==
  ASSUME Sweeping
  PROVE  /\ \A c \in ToSet(Plan.reads) : c.op = "get"
         /\ Collect \in ToSet(Plan.trial) /\ Plan.trial \in Seq(Driven) /\ Plan.verification \in Seq(Driven)
<1>1. Collect \in ToSet(Trial) /\ Collect \in ToSet(HeadingTrial)
  BY TrialCollects
<1>2. Plan.trial \in {Trial, HeadingTrial}
  BY DEF Sweeping, Plan, Sweeps, SpeedSweeps, YawRateSweeps, HeadingSweep, YawRateTrial
<1>3. Plan.reads \in {<<Get("RO_MAX_THR_SPEED")>>,
                      <<Get("RO_YAW_RATE_P"), Get("RO_YAW_RATE_I"), Get("RO_YAW_RATE_LIM")>>,
                      <<Get("RO_YAW_P"), Get("RO_YAW_RATE_P")>>}
  BY DEF Sweeping, Plan, Sweeps, SpeedSweeps, YawRateSweeps, HeadingSweep
<1>4. ASSUME NEW i \in DOMAIN Plan.reads PROVE Plan.reads[i].op = "get"
  <2>1. CASE Plan.reads = <<Get("RO_MAX_THR_SPEED")>>
    BY <1>4, <2>1, CallFacts
  <2>2. CASE Plan.reads = <<Get("RO_YAW_RATE_P"), Get("RO_YAW_RATE_I"), Get("RO_YAW_RATE_LIM")>>
    BY <1>4, <2>2, CallFacts
  <2>3. CASE Plan.reads = <<Get("RO_YAW_P"), Get("RO_YAW_RATE_P")>>
    BY <1>4, <2>3, CallFacts
  <2> QED BY <1>3, <2>1, <2>2, <2>3
<1>5. \A c \in ToSet(Plan.reads) : c.op = "get"
  BY <1>4 DEF ToSet
<1> QED BY <1>1, <1>2, <1>5, TrialFacts

\* The results of a sweep are written as they are.
LEMMA SweepWrites ==
  ASSUME Sweeping, best \in [Params -> Nat]
  PROVE  \A c \in ToSet(Writes) : \E i \in DOMAIN Plan.gains : c = Set(Plan.gains[i], best[Plan.gains[i]])
<1>1. Names = Plan.gains
  BY DEF Sweeping, Names, Sweeps
<1> QED BY <1>1 DEF Writes, ToSet

\* Gains that are vouched for may be written.
LEMMA BestMayBeWritten ==
  ASSUME Sweeping, BestVouched, session' = session, Answers' = Answers, param' = param, best' = best,
         \A c \in Pending' : c.op = "set" => \E i \in DOMAIN Plan.gains : c = Set(Plan.gains[i], best[Plan.gains[i]])
  PROVE  WritesVouched' /\ BestVouched' /\ BestWritten'
<1>1. Plan' = Plan
  BY SessionStays
<1>2. BestVouched'
  BY <1>1 DEF BestVouched, Vouched, Answer
<1>3. ASSUME NEW c \in Pending', c.op = "set"
      PROVE  c.value = best[c.name] /\ (Answer(c.name, c.value) \in Answers' => param'[c.name] = c.value)
  <2>1. PICK i \in DOMAIN Plan.gains : c = Set(Plan.gains[i], best[Plan.gains[i]])
    BY <1>3
  <2>2. c.name = Plan.gains[i] /\ c.value = best[Plan.gains[i]]
    BY <2>1, CallFacts
  <2>3. Answer(Plan.gains[i], best[Plan.gains[i]]) \in Answers => param[Plan.gains[i]] = best[Plan.gains[i]]
    BY DEF BestVouched, Vouched
  <2> QED BY <2>2, <2>3
<1>4. BestWritten'
  BY <1>3 DEF BestWritten
<1>5. WritesVouched'
  BY <1>3 DEF WritesVouched, Vouched, Answer
<1> QED BY <1>2, <1>4, <1>5

\* Between the calls of a sweep: a gain is tried only if no answer of it is late.
LEMMA SweepScript ==
  ASSUME BaseInv, HeldInv, Sweeping, ScriptStep
  PROVE  SweepHeld' /\ WritesVouched'
<1>1. /\ TypeInv /\ calls = <<>> /\ session' = session /\ stage' = stage /\ Answers' = Answers /\ AllFresh' = AllFresh
      /\ best \in [Params -> Nat] /\ param' = param /\ param \in [Params -> Nat] /\ (DefaultApplied => DefaultApplied')
  BY LinkStays DEF HeldInv, linkVars
<1>2. Plan' = Plan /\ P' = P /\ I' = I /\ Two' = Two /\ Sweeping' = Sweeping
  BY <1>1, SessionStays
<1>3. /\ SweepTypes /\ SweepHeld /\ Pending = {}
      /\ P \in Params /\ Gain \in Params /\ (Two => I \in Params /\ I # P)
      /\ sweep \in {1, 2} /\ (sweep = 1 => Gain = P) /\ (sweep = 2 => Two /\ Gain = I)
  <2>1. SweepTypes /\ SweepHeld
    BY DEF BaseInv, SweepInv, HeldInv
  <2> QED BY <1>1, <2>1, GainIs, LinkSets
<1>4. /\ 1 \in DOMAIN Plan.gains /\ Plan.gains[1] = P /\ (Two => 2 \in DOMAIN Plan.gains /\ Plan.gains[2] = I)
      /\ DOMAIN Plan.gains = 1..Len(Plan.gains) /\ Len(Plan.gains) \in {1, 2}
  BY GainsFacts DEF P, I, Two
<1>5. Pending' = ToSet(calls')
  BY DEF Pending
<1>6. CASE Connect \/ Decline
  <2>1. /\ calls' \in {<<>>, Plan.reads} /\ index' = index
        /\ pc' = "ended" \/ (pc = "connect" /\ pc' = "ready")
    BY <1>6 DEF Connect, Decline, Step, Go, Sweeping, Sweeps, stageVars
  <2>2. NoWrite'
    BY <1>5, <2>1, SweepLists, SetFacts DEF NoWrite
  <2>3. pc' = "ready" => AllFresh' /\ index' = 0
    BY <1>1, <1>3, <2>1 DEF SweepHeld
  <2> QED BY <1>2, <2>1, <2>2, <2>3 DEF SweepHeld, WritesVouched, NoWrite
<1>7. CASE Conclude
  <2>1. pc = "result" /\ pc' = "ended" /\ calls' \in {Writes, <<>>} /\ best' = best
    BY <1>7 DEF Conclude, Step, Go, stageVars
  <2>2. \A c \in Pending' : \E i \in DOMAIN Plan.gains : c = Set(Plan.gains[i], best[Plan.gains[i]])
    BY <1>1, <1>5, <2>1, SweepWrites, SetFacts
  <2>3. WritesVouched'
    BY <1>1, <1>3, <2>1, <2>2, BestMayBeWritten DEF SweepHeld
  <2> QED BY <1>2, <2>1, <2>3 DEF SweepHeld
<1>8. CASE StartSweeps
  <2>1. /\ pc = "ready" /\ pc' = "sweep" /\ UNCHANGED <<best, sweep, index>>
        /\ calls' = (IF Two THEN <<Set(I, 0)>> ELSE <<>>)
    BY <1>8 DEF StartSweeps, Go, stageVars, sweepVars, Two, I
  <2>2. sweep = 1 /\ index = 0 /\ best[P] = 0 /\ (Two => best[I] = 0) /\ AllFresh
    BY <1>3, <2>1 DEF SweepTypes, SweepHeld
  <2>3. BestVouched
    BY <2>2 DEF BestVouched, Vouched, AllFresh, Answer
  <2>4. ASSUME NEW c \in Pending' PROVE \E i \in DOMAIN Plan.gains : c = Set(Plan.gains[i], best[Plan.gains[i]])
    <3>1. Two /\ c = Set(I, 0)
      BY <1>5, <2>1, <2>4, SetFacts
    <3> QED BY <1>4, <2>2, <3>1
  <2>5. WritesVouched' /\ BestVouched' /\ BestWritten'
    BY <1>1, <2>1, <2>3, <2>4, BestMayBeWritten
  <2> QED BY <1>2, <2>1, <2>2, <2>5 DEF SweepHeld
<1>9. CASE TryGain
  <2>1. pc = "sweep" /\ pc' = "judge" /\ calls' = <<Set(Gain, index)>> \o Plan.trial
    BY <1>9 DEF TryGain, Step, Go
  <2>2. index \in Nat
    BY <1>3 DEF SweepTypes
  <2>3. \A i \in DOMAIN calls' : i # 1 => calls'[i].op # "set"
    BY <1>3, <2>1, <2>2, SweepLists, WriteFirst
  <2>4. Pending' = {Set(Gain, index)} \cup ToSet(Plan.trial)
    <3>1. Plan.trial \in Seq(AllCalls) /\ <<Set(Gain, index)>> \in Seq(AllCalls)
      BY <1>3, <2>2, SweepLists, DrivenFacts, CallFacts
    <3>2. ToSet(<<Set(Gain, index)>> \o Plan.trial) = ToSet(<<Set(Gain, index)>>) \cup ToSet(Plan.trial)
      BY <3>1, SetOfConcat
    <3>3. ToSet(<<Set(Gain, index)>>) = {Set(Gain, index)}
      BY SetFacts
    <3> QED BY <1>5, <2>1, <3>2, <3>3
  <2>5. \A c \in ToSet(Plan.trial) : c.op \notin {"set", "get"}
    <3>1. ToSet(Plan.trial) \subseteq Driven
      BY SweepLists DEF ToSet
    <3>2. \A c \in Driven : c.op \notin {"set", "get"}
      BY CallFacts DEF Driven
    <3> QED BY <3>1, <3>2
  <2>6. NoRead' /\ Collects'
    BY <2>4, <2>5, SweepLists, CallFacts DEF NoRead, Collects
  <2>7. Answer(Gain, index) \in Answers => param[Gain] = index
    <3>1. CASE sweep = 1 /\ index = 0 /\ best[P] = 0
      <4>1. Vouched(P, best[P])
        BY <1>3, <1>4, <2>1 DEF SweepHeld, BestVouched
      <4> QED BY <1>3, <3>1, <4>1 DEF Vouched
    <3>2. CASE Answers = {}
      BY <3>2
    <3>3. CASE sweep = 2 /\ IUnanswered
      <4>1. Answer(Gain, index).name = I
        BY <1>3, <3>3 DEF Answer
      <4> QED BY <3>3, <4>1 DEF IUnanswered
    <3> QED BY <1>3, <2>1, <3>1, <3>2, <3>3 DEF SweepHeld
  <2>8. \A c \in Pending' : c.op = "set" => c = Set(Gain, index)
    BY <2>4, <2>5
  <2>9. \A c \in Pending' : c.op = "set" => c.name = Gain /\ c.value = index
    BY <2>8, CallFacts
  <2>10. WritesVouched'
    BY <1>1, <2>7, <2>9 DEF WritesVouched, Vouched, Answer
  <2> QED BY <1>2, <2>1, <2>3, <2>6, <2>10 DEF SweepHeld
<1>10. CASE SweepEnds
  <2>1. /\ pc = "sweep" /\ pc' = "swept" /\ calls' = <<>> /\ UNCHANGED <<best, sweep, abort>>
        /\ abort \/ index > LastGain
    BY <1>10 DEF SweepEnds, Step, Go, stageVars, sweepVars
  <2>2. BestVouched
    BY <1>3, <2>1 DEF SweepHeld
  <2>3. Pending' = {}
    BY <1>5, <2>1, SetFacts
  <2>4. WritesVouched' /\ BestVouched' /\ BestWritten'
    BY <1>1, <2>1, <2>2, <2>3, BestMayBeWritten
  <2>5. sweep = 1 /\ ~abort => Answers' = {}
    <3>1. ~abort => index # 0
      BY <1>3, <2>1, SweepAssumption DEF SweepTypes
    <3> QED BY <1>1, <1>3, <2>1, <3>1 DEF SweepHeld
  <2> QED BY <1>2, <2>1, <2>3, <2>4, <2>5 DEF SweepHeld, IUnanswered, NoRead
<1>11. CASE \E e \in session.errors : Judge(e) \/ JudgeOver(e)
  <2>1. /\ pc = "judge" /\ pc' \in {"swept", "sweep"} /\ calls' = <<>> /\ sweep' = sweep
    BY <1>11 DEF Judge, JudgeOver, Step, Go
  <2>2. Answers' = {}
    BY <1>1, <1>3, <2>1 DEF SweepHeld, Collects
  <2>3. Pending' = {}
    BY <1>5, <2>1, SetFacts
  <2>4. BestVouched' /\ BestWritten' /\ WritesVouched' /\ NoRead' /\ IUnanswered'
    BY <2>2, <2>3 DEF BestVouched, BestWritten, WritesVouched, Vouched, NoRead, IUnanswered
  <2> QED BY <1>2, <1>3, <2>1, <2>2, <2>3, <2>4 DEF SweepHeld
<1>12. CASE Swept
  <2>1. /\ pc = "swept" /\ UNCHANGED <<best, sweep, abort>>
        /\ \/ pc' = "choose" /\ Two /\ sweep = 1 /\ calls' = <<Set(Gain, best[Gain])>>
           \/ pc' = "verify" /\ calls' = Stop
    BY <1>12 DEF Swept, Step, Go, stageVars, sweepVars, Two
  <2>2. BestVouched /\ (Two /\ sweep = 1 /\ ~abort => IUnanswered)
    BY <1>3, <2>1 DEF SweepHeld
  <2>3. CASE pc' = "choose" /\ Two /\ sweep = 1 /\ calls' = <<Set(Gain, best[Gain])>>
    <3>1. Pending' = {Set(P, best[P])}
      BY <1>3, <1>5, <2>3, SetFacts
    <3>2. WritesVouched' /\ BestVouched' /\ BestWritten'
      BY <1>1, <1>4, <2>1, <2>2, <3>1, BestMayBeWritten
    <3>3. NoRead' /\ \A c \in Pending' : c.op = "set" => c.name # I
      BY <1>3, <2>3, <3>1, CallFacts DEF NoRead
    <3>4. ~abort => IUnanswered'
      BY <1>1, <1>2, <2>2, <2>3 DEF IUnanswered
    <3> QED BY <1>2, <2>1, <2>3, <3>2, <3>3, <3>4 DEF SweepHeld
  <2>4. CASE pc' = "verify" /\ calls' = Stop
    <3>1. NoWrite'
      BY <2>4, DrivenLists, DrivenQuiet
    <3>2. WritesVouched' /\ BestVouched' /\ BestWritten'
      BY <1>1, <2>1, <2>2, <3>1, BestMayBeWritten DEF NoWrite
    <3> QED BY <1>2, <2>4, <3>2 DEF SweepHeld
  <2> QED BY <2>1, <2>3, <2>4
<1>13. CASE SweepI
  <2>1. pc = "choose" /\ pc' = "sweep" /\ calls' = <<>> /\ best' = best /\ sweep' = 2 /\ ~abort
    BY <1>13 DEF SweepI, Step, Go
  <2>2. BestVouched /\ IUnanswered
    BY <1>3, <2>1 DEF SweepHeld, SweepTypes
  <2>3. Pending' = {}
    BY <1>5, <2>1, SetFacts
  <2>4. WritesVouched' /\ BestVouched' /\ BestWritten'
    BY <1>1, <2>1, <2>2, <2>3, BestMayBeWritten
  <2>5. IUnanswered'
    BY <1>1, <1>2, <2>2 DEF IUnanswered
  <2> QED BY <1>2, <2>1, <2>4, <2>5 DEF SweepHeld
<1>14. CASE SkipI
  <2>1. pc = "choose" /\ pc' = "verify" /\ calls' = Stop /\ best' = best
    BY <1>14 DEF SkipI, Step, Go, stageVars
  <2>2. NoWrite'
    BY <2>1, DrivenLists, DrivenQuiet
  <2>3. WritesVouched' /\ BestVouched' /\ BestWritten'
    BY <1>1, <1>3, <2>1, <2>2, BestMayBeWritten DEF NoWrite, SweepHeld
  <2> QED BY <1>2, <2>1, <2>3 DEF SweepHeld
<1>15. CASE Verify
  <2>1. pc = "verify" /\ pc' = "result" /\ calls' \in {<<>>, Writes \o Plan.verification} /\ best' = best
    BY <1>15 DEF Verify, Step, Go, stageVars
  <2>2. ASSUME NEW c \in Pending', c.op = "set"
        PROVE  \E i \in DOMAIN Plan.gains : c = Set(Plan.gains[i], best[Plan.gains[i]])
    <3>1. calls' = Writes \o Plan.verification
      BY <1>5, <2>1, <2>2, SetFacts
    <3>2. Writes \in Seq(AllCalls) /\ Plan.verification \in Seq(AllCalls)
      BY <1>1, SweepLists, DrivenFacts, WritesFacts
    <3>3. c \in ToSet(Writes) \cup ToSet(Plan.verification)
      BY <1>5, <2>2, <3>1, <3>2, SetOfConcat
    <3>4. c \notin ToSet(Plan.verification)
      <4>1. ToSet(Plan.verification) \subseteq Driven
        BY SweepLists DEF ToSet
      <4>2. \A d \in Driven : d.op # "set"
        BY CallFacts DEF Driven
      <4> QED BY <2>2, <4>1, <4>2
    <3> QED BY <1>1, <3>3, <3>4, SweepWrites
  <2>3. WritesVouched' /\ BestVouched' /\ BestWritten'
    BY <1>1, <1>3, <2>1, <2>2, BestMayBeWritten DEF SweepHeld
  <2> QED BY <1>2, <2>1, <2>3 DEF SweepHeld
<1>16. ~SearchStep /\ ~LimitStep
  BY <1>3, OtherStages
<1> QED BY <1>6, <1>7, <1>8, <1>9, <1>10, <1>11, <1>12, <1>13, <1>14, <1>15, <1>16 DEF ScriptStep, SweepStep

\* The gains that are not 0 are written, then the parameter is read.
LEMMA ZeroLists ==
  ASSUME ZeroGains
  PROVE  \A k \in DOMAIN calls' :
           \/ calls'[k] \in {Set("RO_SPEED_P", 0), Set("RO_SPEED_I", 0)}
           \/ calls'[k] = Get(Searched) /\ k = Len(calls')
<1> DEFINE p == Set("RO_SPEED_P", 0)
           i == Set("RO_SPEED_I", 0)
           g == Get(Searched)
<1>1. PICK a \in {<<>>, <<p>>}, b \in {<<>>, <<i>>} : calls' = a \o b \o <<g>>
  BY DEF ZeroGains, Step, Go, Searched
<1> HIDE DEF p, i, g
<1>2. a \in Seq({p, i}) /\ b \in Seq({p, i})
  <2>1. <<>> \in Seq({p, i}) /\ <<p>> \in Seq({p, i}) /\ <<i>> \in Seq({p, i})
    OBVIOUS
  <2> QED BY <2>1
<1> DEFINE s == a \o b
<1>3. s \in Seq({p, i})
  BY <1>2, ConcatProperties
<1>4. calls' = s \o <<g>>
  BY <1>1
<1> HIDE DEF s
<1>5. s \o <<g>> = Append(s, g)
  BY <1>3
<1>6. /\ s \in Seq({p, i, g}) /\ Len(s) \in Nat /\ Len(Append(s, g)) = Len(s) + 1
      /\ DOMAIN Append(s, g) = 1..(Len(s) + 1)
      /\ \A k \in 1..Len(s) : Append(s, g)[k] = s[k] /\ s[k] \in {p, i}
      /\ Append(s, g)[Len(s) + 1] = g
  <2>1. s \in Seq({p, i, g}) /\ g \in {p, i, g}
    BY <1>3
  <2>2. \A k \in 1..Len(s) : s[k] \in {p, i}
    BY <1>3
  <2> QED BY <2>1, <2>2, AppendProperties
<1>7. ASSUME NEW k \in DOMAIN calls' PROVE calls'[k] \in {p, i} \/ (calls'[k] = g /\ k = Len(calls'))
  <2>1. k \in 1..(Len(s) + 1) /\ calls' = Append(s, g)
    BY <1>4, <1>5, <1>6, <1>7
  <2>2. k \in 1..Len(s) \/ k = Len(s) + 1
    BY <1>6, <2>1
  <2> QED BY <1>6, <2>1, <2>2
<1> QED BY <1>7 DEF p, i, g

\* Between the calls of stage 2A: the parameter is written only if no answer can
\* confirm another value, or the answer to the one read of it is still to come.
LEMMA SearchHeldScript ==
  ASSUME BaseInv, WidthInv, HeldInv, stage = "stage2a", ScriptStep
  PROVE  SearchHeld' /\ WritesVouched'
<1>1. /\ TypeInv /\ calls = <<>> /\ session' = session /\ stage' = stage /\ Answers' = Answers
      /\ AllFresh' = AllFresh /\ Fresh' = Fresh /\ Unanswered' = Unanswered
      /\ best \in [Params -> Nat] /\ param' = param /\ param \in [Params -> Nat] /\ read' = read
      /\ (DefaultApplied => DefaultApplied')
  BY LinkStays DEF HeldInv, linkVars
<1>2. /\ pc \in SearchPlaces /\ ~Sweeping /\ stage # "stage1" /\ SearchHeld /\ Pending = {}
  BY <1>1, LinkStays, PlaceFacts, LinkSets DEF HeldInv
<1>3. Pending' = ToSet(calls') /\ Searched \in Params /\ Searched' = Searched
  BY ParamsAssumption DEF Pending, Searched
<1>4. ScriptStep => Connect \/ Decline \/ Conclude \/ SearchStep
  BY <1>2 DEF ScriptStep, SweepStep, StartSweeps, TryGain, SweepEnds, Swept, SweepI, SkipI, Verify, Judge, JudgeOver,
     LimitStep, SkipTest, StartTest, Coast, TestAborted, TestEnds, Summary, Leave, Step, Go, SearchPlaces, Sweeping
<1>5. calls' = <<>> => Pending' = {}
  BY <1>3, SetFacts
<1>6. Pending' = {} => WritesVouched' /\ NoWrite' /\ NoRead'
  BY DEF WritesVouched, NoWrite, NoRead
<1>7. Answers = {} => Fresh' /\ Unanswered'
  BY <1>1 DEF Fresh, Unanswered
<1>8. calls' \in Seq(Driven) => NoWrite' /\ NoRead' /\ WritesVouched'
  BY DrivenQuiet
<1>9. abort /\ read[Searched] = {} => DefaultApplied
  BY DEF DefaultApplied, Searched
<1>10. DefaultApplied => abort
  BY DEF DefaultApplied
<1>11. CASE Connect
  <2>1. pc = "connect" /\ handler' = handler
    BY <1>11 DEF Connect, Step, Go
  <2>2. CASE pc' = "ended" /\ calls' = <<>>
    BY <1>1, <1>5, <1>6, <2>2 DEF SearchHeld, Halving, Trying
  <2>3. CASE pc' = "zero" /\ calls' = <<Get("RO_SPEED_P"), Get("RO_SPEED_I")>>
    <3>1. Pending' = {Get("RO_SPEED_P"), Get("RO_SPEED_I")}
      BY <1>3, <2>3, SetFacts
    <3>2. \A c \in Pending' : c.op = "get" /\ c.name # Searched
      BY <3>1, CallFacts DEF Searched
    <3>3. NoWrite' /\ WritesVouched'
      BY <3>2 DEF NoWrite, WritesVouched
    <3>4. AllFresh /\ Unanswered /\ handler = FALSE
      BY <1>2, <2>1 DEF SearchHeld
    <3> QED BY <1>1, <1>3, <2>1, <2>3, <3>2, <3>3, <3>4 DEF SearchHeld, Halving, Trying
  <2> QED BY <1>1, <1>11, <2>2, <2>3 DEF Connect, Step, Go, Sweeps
<1>12. CASE Decline
  <2>1. pc' = "ended" /\ calls' = <<>>
    BY <1>12 DEF Decline, Step, Go
  <2> QED BY <1>1, <1>5, <1>6, <2>1 DEF SearchHeld, Halving, Trying
<1>13. CASE Conclude
  <2>1. pc = "result" /\ pc' = "ended" /\ calls' \in {Writes, <<>>}
    BY <1>13 DEF Conclude, Step, Go
  <2>2. \A c \in Pending' : c.op = "set" /\ c.name = Searched /\ c.value = best[Searched]
    <3>1. Names = <<Searched>>
      BY DEF Names, Searched
    <3>2. \A i \in DOMAIN Writes : Writes[i] = Set(Searched, best[Searched])
      BY <3>1 DEF Writes
    <3>3. ASSUME NEW c \in Pending' PROVE c = Set(Searched, best[Searched])
      <4>1. c \in ToSet(Writes)
        BY <1>3, <2>1, <3>3, SetFacts
      <4> QED BY <3>2, <4>1 DEF ToSet
    <3> QED BY <3>3, CallFacts
  <2>3. ~DefaultApplied' => Fresh
    BY <1>1, <1>2, <2>1 DEF SearchHeld
  <2>4. ASSUME ~DefaultApplied', Answer(Searched, best[Searched]) \in Answers' PROVE param'[Searched] = best[Searched]
    BY <1>1, <2>3, <2>4 DEF Fresh, Answer
  <2>5. WritesVouched'
    BY <1>3, <2>2, <2>4 DEF WritesVouched, Vouched, Answer
  <2>6. NoRead'
    BY <2>2 DEF NoRead
  <2> QED BY <1>1, <2>1, <2>5, <2>6 DEF SearchHeld, Halving, Trying
<1>14. CASE ZeroGains
  <2> DEFINE p == Set("RO_SPEED_P", 0)
             i == Set("RO_SPEED_I", 0)
             g == Get(Searched)
  <2>1. pc = "zero" /\ pc' = "ready" /\ handler' = handler
    BY <1>14 DEF ZeroGains, Step, Go
  <2>2. AllFresh /\ Unanswered /\ handler = FALSE
    BY <1>2, <2>1 DEF SearchHeld
  <2>3. \A k \in DOMAIN calls' : calls'[k] \in {p, i} \/ (calls'[k] = g /\ k = Len(calls'))
    BY <1>14, ZeroLists
  <2>4. /\ p.op = "set" /\ p.name = "RO_SPEED_P" /\ p.value = 0
        /\ i.op = "set" /\ i.name = "RO_SPEED_I" /\ i.value = 0
        /\ g.op = "get" /\ p.name # Searched /\ i.name # Searched
    BY CallFacts DEF Searched
  <2> HIDE DEF p, i, g
  <2>5. \A c \in Pending' : c \in {p, i, g}
    BY <1>3, <2>3 DEF ToSet
  <2>6. \A c \in Pending' : c.op = "set" => c.value = 0
    BY <2>4, <2>5
  <2>7. ASSUME NEW c \in Pending', c.op = "set" PROVE Answer(c.name, c.value) \in Answers' => param'[c.name] = c.value
    BY <1>1, <2>2 DEF AllFresh, Answer
  <2>8. WritesVouched'
    BY <2>6, <2>7 DEF WritesVouched, Vouched, Answer
  <2>9. \A k \in DOMAIN calls' :
           \/ calls'[k].op = "set" /\ calls'[k].name # Searched
           \/ calls'[k] = Get(Searched) /\ k = Len(calls')
    BY <2>3, <2>4 DEF g
  <2> QED BY <1>1, <1>3, <2>1, <2>2, <2>8, <2>9 DEF SearchHeld, Halving, Trying
<1>15. CASE StartSearch
  <2>1. pc = "ready" /\ pc' = "search" /\ calls' = <<>>
    BY <1>15 DEF StartSearch, Go
  <2>2. Fresh /\ (read[Searched] # {} => Unanswered)
    BY <1>2, <2>1 DEF SearchHeld, Fresh, Unanswered
  <2> QED BY <1>1, <1>3, <1>5, <1>6, <2>1, <2>2 DEF SearchHeld, Halving, Trying
<1>16. CASE Iterate
  <2>1. /\ pc = "search" /\ pc' = "speeds" /\ calls' = <<Set(Searched, mid)>> /\ ~abort
        /\ tested' = 0 /\ UNCHANGED <<lo, hi>>
    BY <1>16 DEF Iterate, Step, Go, Searched
  <2>2. mid' = mid
    BY <2>1 DEF mid
  <2>3. Fresh /\ (Unanswered \/ read[Searched] = {})
    BY <1>2, <1>10, <2>1 DEF SearchHeld
  <2>4. Pending' = {Set(Searched, mid)}
    BY <1>3, <2>1, SetFacts
  <2>5. \A c \in Pending' : c.op = "set" /\ c.name = Searched /\ c.value = mid
    BY <2>4, CallFacts
  <2>6. Answer(Searched, mid) \in Answers' => param'[Searched] = mid
    BY <1>1, <2>3 DEF Fresh, Answer
  <2>7. WritesVouched'
    BY <1>3, <2>5, <2>6 DEF WritesVouched, Vouched, Answer
  <2>8. NoRead'
    BY <2>5 DEF NoRead
  <2>9. calls' = <<Set(Searched', mid')>>
    BY <1>3, <2>1, <2>2
  <2> QED BY <1>1, <1>3, <2>1, <2>3, <2>7, <2>8, <2>9 DEF SearchHeld, Halving, Trying, Set
<1>17. CASE StopSearching \/ Found
  <2>1. /\ pc \in {"search", "found"} /\ pc' \in {"found", "result"} /\ calls' \in {Stop, <<>>}
    BY <1>17 DEF StopSearching, Found, Step, Go
  <2>2. Fresh \/ DefaultApplied
    BY <1>2, <2>1 DEF SearchHeld
  <2>3. NoWrite' /\ NoRead' /\ WritesVouched'
    BY <1>8, <2>1, DrivenLists
  <2> QED BY <1>1, <2>1, <2>2, <2>3 DEF SearchHeld, Halving, Trying
<1>18. CASE MeasureSpeed
  <2>1. pc' = "measure" /\ calls' = Trial
    BY <1>18 DEF MeasureSpeed, Step, Go
  <2>2. NoWrite' /\ NoRead' /\ WritesVouched'
    BY <1>8, <2>1, DrivenLists
  <2>3. Collects'
    BY <1>3, <2>1, TrialCollects, CallFacts DEF Collects
  <2> QED BY <1>1, <2>1, <2>2, <2>3 DEF SearchHeld, Halving, Trying
<1>19. CASE SkipSpeed \/ SpeedsEnd
  <2>1. pc = "speeds" /\ pc' \in {"speeds", "average"} /\ calls' = <<>> /\ tested' = tested
    BY <1>19 DEF SkipSpeed, SpeedsEnd, Step, Go, stageVars, searchVars
  <2>2. Answers = {} \/ (tested = 0 /\ (Fresh \/ read[Searched] = {}))
    BY <1>1, <1>2, <2>1 DEF SearchHeld
  <2> QED BY <1>1, <1>3, <1>5, <1>6, <2>1, <2>2 DEF SearchHeld, Halving, Trying
<1>20. CASE \E seen \in GoesWell : Measure(seen)
  <2>1. pc = "measure" /\ pc' = "speeds" /\ calls' = <<>>
    BY <1>20 DEF Measure, Go
  <2>2. Answers = {}
    BY <1>2, <2>1 DEF SearchHeld, Collects
  <2> QED BY <1>1, <1>3, <1>5, <1>6, <2>1, <2>2 DEF SearchHeld, Halving, Trying
<1>21. CASE NothingTested
  <2>1. pc = "average" /\ pc' = "search" /\ calls' = <<>> /\ tested = 0 /\ abort' = abort
    BY <1>21 DEF NothingTested, Step, Go
  <2>2. abort
    BY <2>1 DEF WidthInv
  <2>3. Fresh \/ DefaultApplied
    BY <1>1, <1>2, <1>7, <1>9, <2>1, <2>2 DEF SearchHeld
  <2> QED BY <1>1, <1>5, <1>6, <2>1, <2>2, <2>3 DEF SearchHeld, Halving, Trying
<1>22. CASE Accept \/ Halve
  <2>1. pc = "average" /\ pc' \in {"found", "search"} /\ calls' = <<>> /\ tested > 0
    BY <1>22 DEF Accept, Halve, Step, Go
  <2>2. Answers = {}
    BY <1>2, <2>1 DEF SearchHeld
  <2> QED BY <1>1, <1>5, <1>6, <1>7, <2>1, <2>2 DEF SearchHeld, Halving, Trying
<1> QED BY <1>4, <1>11, <1>12, <1>13, <1>14, <1>15, <1>16, <1>17, <1>18, <1>19, <1>20, <1>21, <1>22 DEF SearchStep

-----------------------------------------------------------------------------
\* Every step of the script keeps the link vouched for.
LEMMA HeldScript ==
  ASSUME BaseInv, WidthInv, HeldInv, ScriptStep
  PROVE  HeldInv'
<1>1. /\ session' = session /\ stage' = stage /\ param' = param /\ told' = told
      /\ (DefaultApplied => DefaultApplied') /\ pc \in Places /\ calls = <<>>
  BY LinkStays DEF HeldInv, linkVars
<1>2. Sweeping' = Sweeping /\ (Sweeping => stage # "stage1" /\ stage # "stage2a")
  BY <1>1, SessionStays, PlaceFacts
<1>3. ReportedIsHeld'
  BY <1>1 DEF HeldInv, CallInv, ReportedIsHeld
<1>4. CASE stage = "stage1"
  <2>1. LimitHeld' /\ WritesVouched'
    BY <1>4, LimitScript
  <2> QED BY <1>1, <1>2, <1>3, <1>4, <2>1 DEF HeldInv, CallInv, SweepHeld, SearchHeld
<1>5. CASE Sweeping
  <2>1. SweepHeld' /\ WritesVouched'
    BY <1>5, SweepScript
  <2> QED BY <1>1, <1>2, <1>3, <1>5, <2>1 DEF HeldInv, CallInv, LimitHeld, SearchHeld
<1>6. CASE stage = "stage2a"
  <2>1. SearchHeld' /\ WritesVouched'
    BY <1>6, SearchHeldScript
  <2> QED BY <1>1, <1>2, <1>3, <1>6, <2>1 DEF HeldInv, CallInv, LimitHeld, SweepHeld
<1>7. CASE stage # "stage1" /\ ~Sweeping /\ stage # "stage2a"
  <2>1. calls' = <<>>
    BY <1>1, <1>7 DEF Places, ScriptStep, Connect, Decline, Conclude, SweepStep, StartSweeps, TryGain, SweepEnds, Swept,
       SweepI, SkipI, Verify, Judge, JudgeOver, LimitStep, SkipTest, StartTest, Coast, TestAborted, TestEnds, Summary,
       Leave, SearchStep, ZeroGains, StartSearch, Iterate, StopSearching, MeasureSpeed, SkipSpeed, SpeedsEnd, Measure,
       NothingTested, Accept, Halve, Found, Step, Go, Sweeping
  <2>2. WritesVouched'
    BY <2>1, SetFacts DEF Pending, WritesVouched
  <2> QED BY <1>1, <1>2, <1>3, <1>7, <2>2 DEF HeldInv, CallInv, LimitHeld, SweepHeld, SearchHeld
<1> QED BY <1>4, <1>5, <1>6, <1>7

\* What cuts in leaves the link alone.
LEMMA HeldMishap ==
  ASSUME BaseInv, HeldInv, Mishap
  PROVE  HeldInv'
<1>1. /\ UNCHANGED <<session, param, replies, told, read, handler, best, sweep, index, lo, hi, tested>>
      /\ \/ UNCHANGED <<calls, pc>> /\ (abort' = abort \/ (handler /\ abort' = TRUE))
         \/ calls' = <<>> /\ pc' = "ended" /\ abort' = abort
  <2>1. UNCHANGED <<session, param, replies, told, read, handler, best, sweep, index, lo, hi, tested>>
    BY MishapFacts DEF linkVars, stageVars, sweepVars, searchVars
  <2>2. \/ UNCHANGED <<calls, pc>> /\ (abort' = abort \/ (handler /\ abort' = TRUE))
        \/ calls' = <<>> /\ pc' = "ended" /\ abort' = abort
    BY MishapFacts
  <2> QED BY <2>1, <2>2
<1>2. Plan' = Plan /\ P' = P /\ I' = I /\ Two' = Two /\ Sweeping' = Sweeping /\ stage' = stage
  BY <1>1, SessionStays
<1>3. Answers' = Answers /\ AllFresh' = AllFresh /\ Fresh' = Fresh /\ Unanswered' = Unanswered /\ mid' = mid
  BY <1>1 DEF Answers, AllFresh, Fresh, Unanswered, mid, Searched
<1>4. DefaultApplied => DefaultApplied'
  <2>1. abort => abort'
    BY <1>1
  <2> QED BY <1>1, <1>2, <2>1 DEF DefaultApplied
<1>5. ReportedIsHeld'
  BY <1>1, <1>4 DEF HeldInv, CallInv, ReportedIsHeld
<1>6. CASE calls' = <<>> /\ pc' = "ended" /\ abort' = abort
  <2>1. Pending' = {}
    BY <1>6, SetFacts DEF Pending
  <2> QED BY <1>2, <1>5, <1>6, <2>1
    DEF HeldInv, CallInv, WritesVouched, LimitHeld, SweepHeld, SearchHeld, NoRead, Halving, Trying
<1>7. CASE UNCHANGED <<calls, pc>> /\ (abort' = abort \/ (handler /\ abort' = TRUE))
  <2>1. /\ Pending' = Pending /\ NoWrite' = NoWrite /\ NoRead' = NoRead /\ Collects' = Collects /\ (abort => abort')
    BY <1>7 DEF Pending, NoWrite, NoRead, Collects
  <2>2. WritesVouched'
    BY <1>1, <1>3, <1>4, <2>1 DEF HeldInv, CallInv, WritesVouched, Vouched, Answer, Searched
  <2>3. BestVouched' = BestVouched /\ BestWritten' = BestWritten /\ IUnanswered' = IUnanswered
    BY <1>1, <1>2, <1>3, <2>1 DEF BestVouched, BestWritten, IUnanswered, Vouched, Answer
  <2>4. LimitHeld'
    BY <1>1, <1>2, <1>3, <1>7, <2>1 DEF HeldInv, LimitHeld
  <2>5. SweepHeld'
    BY <1>1, <1>2, <1>3, <1>7, <2>1, <2>3 DEF HeldInv, SweepHeld
  <2>6. SearchHeld'
    BY <1>1, <1>2, <1>3, <1>4, <1>7, <2>1 DEF HeldInv, SearchHeld, Searched
  <2> QED BY <1>5, <2>2, <2>4, <2>5, <2>6 DEF HeldInv, CallInv
<1> QED BY <1>1, <1>6, <1>7

\* Every step does.
LEMMA HeldKeeps ==
  ASSUME BaseInv, WidthInv, HeldInv, [Next]_vars
  PROVE  HeldInv'
<1>1. CASE ScriptStep
  BY <1>1, HeldScript
<1>2. CASE LibStep
  BY <1>2, CallsKeep, LimitLib, SweepLib, SearchLib DEF HeldInv
<1>3. CASE Published \/ ModeStep \/ Tick \/ UNCHANGED vars
  <2>1. UNCHANGED <<session, param, replies, told, read, calls, pc, abort, handler, best, sweep, index, lo, hi, tested>>
    BY <1>3, Aside DEF linkVars, stageVars, sweepVars, searchVars
  <2>2. Plan' = Plan /\ P' = P /\ I' = I /\ Two' = Two /\ Sweeping' = Sweeping /\ stage' = stage
    BY <2>1, SessionStays
  <2>3. /\ Answers' = Answers /\ AllFresh' = AllFresh /\ Fresh' = Fresh /\ Unanswered' = Unanswered /\ mid' = mid
        /\ Pending' = Pending /\ NoWrite' = NoWrite /\ NoRead' = NoRead /\ Collects' = Collects
        /\ DefaultApplied' = DefaultApplied
    BY <2>1, <2>2 DEF Answers, AllFresh, Fresh, Unanswered, mid, Searched, Pending, NoWrite, NoRead, Collects, DefaultApplied
  <2>4. WritesVouched' /\ ReportedIsHeld'
    BY <2>1, <2>3 DEF HeldInv, CallInv, WritesVouched, ReportedIsHeld, Vouched, Answer, Searched
  <2>5. BestVouched' = BestVouched /\ BestWritten' = BestWritten /\ IUnanswered' = IUnanswered
    BY <2>1, <2>2, <2>3 DEF BestVouched, BestWritten, IUnanswered, Vouched, Answer
  <2>6. LimitHeld' /\ SweepHeld'
    BY <2>1, <2>2, <2>3, <2>5 DEF HeldInv, LimitHeld, SweepHeld
  <2>7. SearchHeld'
    BY <2>1, <2>2, <2>3 DEF HeldInv, SearchHeld, Searched
  <2> QED BY <2>4, <2>6, <2>7 DEF HeldInv, CallInv
<1>4. CASE Mishap
  BY <1>4, HeldMishap
<1> QED BY <1>1, <1>2, <1>3, <1>4 DEF Next

\* At the start nothing is on its way.
LEMMA InitHeld == Init => HeldInv
<1> SUFFICES ASSUME Init PROVE HeldInv
  OBVIOUS
<1>1. /\ replies = <<>> /\ calls = <<>> /\ told = [p \in Params |-> {}] /\ pc = "connect" /\ handler = FALSE
      /\ sweep = 1 /\ index = (IF stage = "stage1" THEN 1 ELSE 0)
  BY DEF Init, LibInit
<1>2. Answers = {} /\ Pending = {}
  BY <1>1, SetFacts DEF Answers, Pending
<1>3. CallInv
  BY <1>1, <1>2 DEF CallInv, WritesVouched, ReportedIsHeld
<1>4. NoWrite /\ NoRead /\ AllFresh /\ Unanswered
  BY <1>2 DEF NoWrite, NoRead, AllFresh, Unanswered
<1>5. LimitHeld /\ SearchHeld
  BY <1>1, <1>2, <1>4 DEF LimitHeld, SearchHeld, Halving, Trying
<1>6. SweepHeld
  BY <1>1, <1>4 DEF SweepHeld, Sweeping, Sweeps
<1> QED BY <1>3, <1>5, <1>6 DEF HeldInv

\* A value that param_set reports as written is the one PX4 holds, however requests
\* and answers are lost or delayed and whichever script runs; but for the default that
\* stage 2A writes after Ctrl-C when it could not read the parameter.
THEOREM ReportsAreHeld == Spec => []ReportedIsHeld
<1>1. HeldInv => ReportedIsHeld
  BY DEF HeldInv, CallInv
<1> QED BY <1>1, BaseKeeps, InitWidth, WidthKeeps, InitHeld, HeldKeeps, PTL DEF Spec

=============================================================================
