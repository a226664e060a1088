---------------------- MODULE RocketDevfreqBooksProofs ----------------------
(***************************************************************************)
(* Proofs that the books of the devfreq layer are true: its references,    *)
(* the rate it reports, what it answers, the voltage above High, and that  *)
(* it fails closed.                                                        *)
(***************************************************************************)
EXTENDS RocketDevfreqProofs

----------------------------------------------------------------------------
(* References.                                                             *)

NoLeak == Fixed /\ "resume_fail" \notin Events

LEMMA BalanceTarget ==
    ASSUME NoLeak, TypeInv, HeldInv, RefsBalanced, TargetStep
    PROVE  RefsBalanced'
<1> USE DEF TypeInv, TypeOK, dfVars, pmVars, tgtVars
<1>0. Bound = Core /\ PmOn = Core /\ job' = job
  BY DEF HeldInv, AllUp, Bound, PmOn, TargetStep, TargetCheck, TargetHold,
         TargetHeld, TargetHoldFails, TargetPublish, TargetWrite, TargetBook
<1> SUFFICES ASSUME NEW c \in Core
             PROVE usage'[c] = Ref(job[c] # "none") + Ref(refsHeld') + Ref(HeldByTarget(c)')
  BY <1>0 DEF RefsBalanced, HeldByTarget
<1>1. usage[c] = Ref(job[c] # "none") + Ref(refsHeld) + Ref(HeldByTarget(c))
  BY DEF RefsBalanced
<1>2. CASE TargetCheck \/ TargetPublish \/ TargetWrite
  <2>1. UNCHANGED <<usage, refsHeld>>
    BY <1>2 DEF TargetCheck, TargetPublish, TargetWrite
  <2>2. HeldByTarget(c)' <=> HeldByTarget(c)
    BY <1>2, CoresAssumption
    DEF HeldByTarget, TargetCheck, TargetPublish, TargetWrite, TargetReturn, Core
  <2> QED BY <1>1, <2>1, <2>2 DEF Ref
<1>3. CASE TargetHold
  <2>1. refsHeld' = refsHeld
    BY <1>3 DEF TargetHold
  <2>2. CASE usage' = usage
    <3>1. HeldByTarget(c)' <=> HeldByTarget(c)
      BY <1>0, <1>3, <2>2, CoresAssumption DEF HeldByTarget, TargetHold, Core
    <3> QED BY <1>1, <2>1, <2>2, <3>1 DEF Ref
  <2>3. CASE usage' = [usage EXCEPT ![tidx] = @ + 1] /\ tpc' = "wait" /\ tidx' = tidx
    <3>1. HeldByTarget(c)' <=> (HeldByTarget(c) \/ c = tidx)
      BY <1>3, <2>3, CoresAssumption DEF HeldByTarget, TargetHold, Core
    <3>2. c = tidx => ~HeldByTarget(c)
      BY <1>3, CoresAssumption DEF HeldByTarget, TargetHold, Core
    <3> QED BY <1>1, <2>1, <2>3, <3>1, <3>2 DEF Ref
  <2> QED BY <1>3, <2>2, <2>3 DEF TargetHold
<1>4. CASE TargetHeld
  <2>1. UNCHANGED <<usage, refsHeld>>
    BY <1>4 DEF TargetHeld
  <2>2. HeldByTarget(c)' <=> HeldByTarget(c)
    BY <1>4, CoresAssumption DEF HeldByTarget, TargetHeld, Core
  <2> QED BY <1>1, <2>1, <2>2 DEF Ref
<1>5. ~TargetHoldFails
  BY <1>0, CoresAssumption DEF NoLeak, TargetHoldFails, Core
<1>6. CASE TargetBook
  <2>1. BookedUsage[c] = IF Boosting
                         THEN IF refsHeld THEN Put(usage[c]) ELSE usage[c]
                         ELSE IF refsHeld THEN Put(Put(usage[c])) ELSE Put(usage[c])
    BY <1>0 DEF BookedUsage, ReleaseAll, PutAll
  <2>2. HeldByTarget(c) /\ ~HeldByTarget(c)' /\ refsHeld' = Boosting
    BY <1>6 DEF HeldByTarget, TargetBook, TargetReturn
  <2>3. usage'[c] = BookedUsage[c]
    BY <1>6 DEF TargetBook
  <2>4. Boosting \in BOOLEAN /\ usage[c] \in Nat
    BY DEF Boosting
  <2> QED BY <1>1, <2>1, <2>2, <2>3, <2>4 DEF Ref, Put
<1> QED BY <1>2, <1>3, <1>4, <1>5, <1>6 DEF TargetStep

LEMMA BalanceOther ==
    ASSUME NoLeak, TypeInv, HeldInv, RefsBalanced, [Next]_vars, ~TargetStep
    PROVE  RefsBalanced'
<1> USE DEF TypeInv, TypeOK, dfVars, pmVars, tgtVars
<1>1. CASE \E c \in Core : JobStep(c)
  <2> PICK c \in Core : JobStep(c)
    BY <1>1
  <2>0. UNCHANGED <<refsHeld, tgtVars>>
    BY DEF JobStep, JobStart, JobRun, JobFails, JobEnd
  <2> SUFFICES ASSUME NEW d \in Core
               PROVE usage'[d] = Ref(job'[d] # "none") + Ref(refsHeld) + Ref(HeldByTarget(d))
    BY <2>0 DEF RefsBalanced, HeldByTarget
  <2>1. usage[d] = Ref(job[d] # "none") + Ref(refsHeld) + Ref(HeldByTarget(d))
    BY DEF RefsBalanced
  <2>2. CASE JobStart(c)
    BY <2>1, <2>2 DEF JobStart, Ref
  <2>3. CASE JobRun(c)
    BY <2>1, <2>3 DEF JobRun, Ref
  <2>4. CASE JobEnd(c)
    BY <2>1, <2>4 DEF JobEnd, Put, Ref
  <2>5. ~JobFails(c)
    BY DEF NoLeak, JobFails
  <2> QED BY <2>2, <2>3, <2>4, <2>5 DEF JobStep
<1>2. ASSUME UNCHANGED <<usage, job, refsHeld>>, \A c \in Core : HeldByTarget(c)' = HeldByTarget(c)
      PROVE  RefsBalanced'
  BY <1>2 DEF RefsBalanced
<1>3. ASSUME NEW c \in Core, PmStep(c) \/ DomStep(c) \/ SleepStep(c)
      PROVE  UNCHANGED <<usage, job, refsHeld, tgtVars>>
  BY <1>3 DEF PmStep, Resume, SuspendStart, SuspendFinish, DomStep, PreOn, PreOff, Switch,
              SleepStep, ForceSuspend, ForceResume
<1>4. ASSUME \/ SleepAll \/ Shutdown \/ (\E r \in Foreign : ForeignSet(r))
             \/ (\E v \in Volts : RailMove(v)) \/ UNCHANGED vars
      PROVE  UNCHANGED <<usage, job, refsHeld, tgtVars>>
  BY <1>4 DEF SleepAll, SleepStart, SleepDown, SleepUp, SleepThaw, SleepEnd, SleepPhase,
              Shutdown, ForeignSet, RailMove, vars
<1>5. ASSUME NEW f \in Rates, TargetCall(f)
      PROVE  /\ UNCHANGED <<usage, job, refsHeld>>
             /\ \A c \in Core : HeldByTarget(c)' = HeldByTarget(c)
  BY <1>5 DEF TargetCall, HeldByTarget
<1>6. UNCHANGED tgtVars => \A c \in Core : HeldByTarget(c)' = HeldByTarget(c)
  BY DEF HeldByTarget
<1>7. AllUp /\ registered
  BY DEF HeldInv
<1> QED BY <1>1, <1>2, <1>3, <1>4, <1>5, <1>6, <1>7, FixedSteps DEF AnyStep, NoLeak

\* No reference on a core leaks or is given back twice, through raises on
\* raises, lost boosts, failed clock writes and sleep (rocket_devfreq.c:232-275,
\* 399-416), when every core resumes.
THEOREM BalancedBooks == NoLeak => (Spec => []RefsBalanced)
<1> SUFFICES ASSUME NoLeak PROVE Spec => []RefsBalanced
  OBVIOUS
<1>1. Init => RefsBalanced
  BY DEF Init, RefsBalanced, HeldByTarget, Ref
<1>2. TypeInv /\ HeldInv /\ RefsBalanced /\ [Next]_vars => RefsBalanced'
  BY BalanceTarget, BalanceOther
<1>3. Spec => [](TypeInv /\ HeldInv)
  BY HeldAlways DEF NoLeak
<1> QED BY <1>1, <1>2, <1>3, PTL DEF Spec

\* Where resumes fail a reference may stay behind, but none that a job, the boost
\* or a request relies on is ever missing, not even when hold_all gives back half
\* of its own (rocket_devfreq.c:250-275).
THEOREM NoReferenceMissing == KeptEnv => (Spec => []RefsSuffice)
<1>1. ASSUME CalmEnv PROVE Spec => []RefsSuffice
  <2>1. SpeedInv => RefsSuffice
    BY DEF SpeedInv
  <2> QED BY <1>1, <2>1, SpeedAlways, PTL
<1>2. ASSUME Fixed PROVE Spec => []RefsSuffice
  <2>1. HeldInv => RefsSuffice
    BY DEF HeldInv
  <2> QED BY <1>2, <2>1, HeldAlways, PTL
<1> QED BY <1>1, <1>2 DEF KeptEnv, Fixed

----------------------------------------------------------------------------
(* Answers.                                                                *)

\* What target is about to answer is true of the clock, unless another module
\* has written it since.
AnswerInv == tpc = "book" /\ tret = "ok" => rate = tfreq \/ rate \in Foreign

\* Of the driver only target and shutdown move the clock as target is about to
\* answer: where cores are bound every one is active, and core 0 waits with its
\* fini.
BookInv == tpc = "book" =>
    /\ registered /\ AllThere /\ sys = "awake"
    /\ \A c \in Core : rpm[c] = "active" /\ dom[c] = "on"

LEMMA SpeedBook == TypeInv /\ SpeedInv => BookInv
  BY DEF TypeInv, TypeOK, SpeedInv, CallInv, ActiveInv, Calling, HeldByTarget, BookInv

LEMMA HeldBook == TypeInv /\ HeldInv => BookInv
  BY DEF TypeInv, TypeOK, HeldInv, AllUp, AllThere, HeldByTarget, BookInv

LEMMA AnswerStep ==
    ASSUME "shutdown" \notin Events, TypeInv, BookInv, AnswerInv, [Next]_vars
    PROVE  /\ AnswerInv'
           /\ (tpc # "idle" /\ tpc' = "idle" /\ tret' = "ok")
                 => rate' = tfreq \/ (tpc = "book" /\ rate' \in Foreign)
<1> USE DEF TypeInv, TypeOK, dfVars, pmVars, tgtVars, AnswerInv
<1>1. CASE TargetStep
  BY <1>1 DEF TargetStep, TargetCheck, TargetHold, TargetHeld, TargetHoldFails, TargetPublish,
              TargetWrite, TargetBook, TargetReturn, AlreadyThere
<1>2. ASSUME NEW c \in Core, AnyStep(c)
      PROVE  UNCHANGED tgtVars /\ (tpc = "book" => UNCHANGED rate)
  BY <1>2 DEF BookInv, AnyStep, JobStep, JobStart, JobRun, JobFails, JobEnd, PmStep, Resume,
              SuspendStart, SuspendFinish, DomStep, PreOn, PreOff, Switch, MayGoOn, MayGoOff,
              SleepStep, ForceSuspend, ForceResume
<1>3. CASE \/ SleepAll \/ Shutdown \/ Register \/ (\E r \in Foreign : ForeignSet(r))
           \/ (\E v \in Volts : RailMove(v)) \/ UNCHANGED vars
  <2>1. UNCHANGED tgtVars /\ (tpc = "book" => rate' \in {rate} \cup Foreign)
    BY <1>3 DEF SleepAll, SleepStart, SleepDown, SleepUp, SleepThaw, SleepEnd, SleepPhase,
                Shutdown, Register, ForeignSet, RailMove, vars
  <2> QED BY <2>1
<1>4. CASE \E f \in Rates : TargetCall(f)
  BY <1>4 DEF TargetCall
<1>5. ASSUME NEW c \in Core, ProbeStep(c)
      PROVE  UNCHANGED tgtVars /\ UNCHANGED rate
  BY <1>5 DEF ProbeStep, ProbeAttach, ProbeClaim, ProbePm, Arm
<1>6. ASSUME NEW c \in Core, RemoveStep(c)
      PROVE  UNCHANGED tgtVars /\ (tpc = "book" => UNCHANGED rate)
  <2>1. tpc = "book" => Owns(Owner)
    BY OwnerIsCore DEF BookInv, AllThere, Owns, Bound
  <2> QED BY <1>6, <2>1 DEF RemoveStep, RemoveDrop, RemoveDisarm, RemoveFini, Detach
<1> QED BY <1>1, <1>2, <1>3, <1>4, <1>5, <1>6 DEF Next, AnyStep

\* target says "ok" only with *freq the rate the clock runs at, also when the
\* clock rounds, cores fail to resume or the clock to move, or core 0 is leaving
\* (rocket_devfreq.c:305-319, 380-397); after its write only another module's
\* write or the shutdown callback can still move the clock under the answer.
THEOREM AnswersHonestly ==
    KeptEnv /\ "shutdown" \notin Events => (Spec => HonestAnswer)
<1> SUFFICES ASSUME KeptEnv, "shutdown" \notin Events PROVE Spec => HonestAnswer
  OBVIOUS
<1>1. Init => AnswerInv
  BY DEF Init, AnswerInv
<1>2. TypeInv /\ BookInv /\ AnswerInv /\ [Next]_vars => AnswerInv'
  BY AnswerStep
<1>3. TypeInv /\ BookInv /\ AnswerInv /\ [Next]_vars
        => [(tpc # "idle" /\ tpc' = "idle" /\ tret' = "ok")
              => rate' = tfreq \/ (tpc = "book" /\ rate' \in Foreign)]_vars
  BY AnswerStep
<1>4. Spec => [](TypeInv /\ BookInv)
  <2>1. ASSUME CalmEnv PROVE Spec => [](TypeInv /\ BookInv)
    BY <2>1, SpeedAlways, SpeedBook, PTL
  <2>2. ASSUME Fixed PROVE Spec => [](TypeInv /\ BookInv)
    BY <2>2, HeldAlways, HeldBook, PTL
  <2> QED BY <2>1, <2>2 DEF KeptEnv, Fixed
<1> QED BY <1>1, <1>2, <1>3, <1>4, PTL DEF Spec, HonestAnswer

----------------------------------------------------------------------------
(* The report and the boost.                                               *)

\* Every step of a core's way in and out leaves the machine without a boost,
\* but for core 0's disarming, which leaves everything to its fini.
LEMMA BindLowers ==
    ASSUME CalmEnv, TypeInv, SpeedInv,
           Register \/ \E c \in Core : ProbeStep(c) \/ RemoveStep(c)
    PROVE  /\ UNCHANGED <<sys, tgtVars>>
           /\ \/ rate' = Safe /\ reqRate' = Safe /\ ~refsHeld' /\ ~Calling
              \/ RemoveDisarm(Owner) /\ UNCHANGED <<rate, reqRate, refsHeld, rpm>>
<1> USE OwnerIsCore DEF TypeInv, TypeOK, dfVars, pmVars
<1>1. PICK c \in Core : RemoveDrop(c) \/ (BindStep(c) /\ life[c] # "up")
  BY BindSteps
<1>2. CASE RemoveDrop(c)
  <2>1. "clk_fail" \notin Events /\ tpc = "idle"
    BY <1>2 DEF CalmEnv, RemoveDrop
  <2>2. ~registered => rate = Safe /\ reqRate = Safe /\ ~refsHeld
    BY QuietWhileMissing
  <2> QED BY <1>2, <2>1, <2>2 DEF RemoveDrop, Calling
<1>3. CASE BindStep(c) /\ ~(AllThere /\ registered)
  <2>1. ~Calling /\ ~refsHeld /\ reqRate = Safe /\ rate = Safe
    BY <1>3, QuietWhileMissing
  <2>2. ~refsHeld' /\ reqRate' = Safe /\ rate' = Safe
    BY <1>3, <2>1 DEF BindStep, ProbeStep, ProbeAttach, ProbeClaim, ProbePm, Arm, Register,
                RemoveDisarm, RemoveFini, Detach, SetSafe
  <2>3. UNCHANGED <<sys, tgtVars>>
    BY <1>3 DEF BindStep, ProbeStep, ProbeAttach, ProbeClaim, ProbePm, Arm, Register,
                RemoveDisarm, RemoveFini, Detach
  <2> QED BY <2>1, <2>2, <2>3
<1>4. CASE BindStep(c) /\ life[c] # "up" /\ AllThere /\ registered
  <2>1. RemoveDisarm(Owner) \/ RemoveFini(Owner)
    BY <1>4, StepsOfOwner
  <2>2. CASE RemoveDisarm(Owner)
    BY <2>2 DEF RemoveDisarm
  <2>3. CASE RemoveFini(Owner)
    <3>1. life[Owner] = "fini"
      BY <2>3 DEF RemoveFini, Step
    <3>2. Owns(Owner) /\ "clk_fail" \notin Events
      BY <1>4, <3>1 DEF Owns, Bound, SpeedInv, ArmedInv, AllUp, CalmEnv
    <3>3. rpm[Owner] = "suspended" => rate = Safe
      BY DEF SpeedInv, ActiveInv
    <3> QED BY <2>3, <3>2, <3>3 DEF RemoveFini, SetSafe, Calling
  <2> QED BY <2>1, <2>2, <2>3
<1> QED BY <1>1, <1>2, <1>3, <1>4

\* Beside these nothing is bound, and the flag stays as it is.
LEMMA OtherSteps ==
    ASSUME [Next]_vars, ~TargetStep, ~Register,
           \A c \in Core : ~ProbeStep(c) /\ ~RemoveStep(c)
    PROVE  UNCHANGED <<life, unsafe>>
<1>1. ASSUME NEW c \in Core, AnyStep(c) PROVE UNCHANGED <<life, unsafe>>
  BY <1>1 DEF AnyStep, JobStep, JobStart, JobRun, JobFails, JobEnd, PmStep, Resume, SuspendStart,
     SuspendFinish, DomStep, PreOn, PreOff, Switch, SleepStep, ForceSuspend, ForceResume,
     dfVars, pmVars
<1>2. (\E f \in Rates : TargetCall(f)) \/ SleepAll \/ Shutdown
      \/ (\E r \in Foreign : ForeignSet(r)) \/ (\E v \in Volts : RailMove(v)) \/ UNCHANGED vars
        => UNCHANGED <<life, unsafe>>
  BY DEF TargetCall, SleepAll, SleepStart, SleepDown, SleepUp, SleepThaw, SleepEnd, SleepPhase,
         Shutdown, ForeignSet, RailMove, vars, dfVars, pmVars
<1> QED BY <1>1, <1>2 DEF Next, AnyStep

\* Nobody else sets the clock, and there is neither sleep nor shutdown, which
\* lower the clock behind the books.
Steady == CalmEnv /\ Events \cap {"sleep", "shutdown"} = {}

\* The books are those of the clock, up to its rounding of a raised rate, and
\* boost references mean a boost, at every point of target: while it writes, the
\* request that counts is the old one.
Booked == IF tpc = "write" THEN told ELSE reqRate

ReportInv ==
    /\ sys = "awake"
    /\ rate = Booked \/ (Booked > Safe /\ rate \in Rounded)
    /\ refsHeld => \A c \in Core : rpm[c] = "active"
    /\ refsHeld /\ tpc = "write" => told > Safe
    /\ refsHeld /\ tpc \notin {"write", "book"} => reqRate > Safe

LEMMA ReportTarget ==
    ASSUME Steady, TypeInv, SpeedInv, ReportInv,
           TargetStep \/ \E f \in Rates : TargetCall(f)
    PROVE  ReportInv'
<1> USE DEF TypeInv, TypeOK, dfVars, pmVars, tgtVars, ReportInv, Booked
<1>1. CASE (\E f \in Rates : TargetCall(f)) \/ TargetCheck \/ TargetHold \/ TargetHeld
           \/ TargetHoldFails
  <2>1. /\ UNCHANGED <<rate, reqRate, refsHeld, rpm, sys, told>>
        /\ tpc \notin {"write", "book"} /\ tpc' \notin {"write", "book"}
    BY <1>1 DEF TargetCall, TargetCheck, TargetHold, TargetHeld, TargetHoldFails, TargetReturn
  <2> QED BY <2>1
<1>2. CASE TargetPublish
  BY <1>2 DEF TargetPublish
<1>3. CASE TargetWrite
  <2>1. reqRate = tfreq
    BY <1>3 DEF TargetWrite, SpeedInv, BoostInv
  <2>2. CASE rate' \in Settles(tfreq) /\ tret' = "ok" /\ UNCHANGED reqRate
    BY <1>3, <2>1, <2>2, RatesAssumption DEF TargetWrite, Settles
  <2>3. CASE reqRate' = told /\ UNCHANGED rate
    BY <1>3, <2>3 DEF TargetWrite
  <2> QED BY <1>3, <2>2, <2>3 DEF TargetWrite
<1>4. CASE TargetBook
  <2>1. \A c \in Core : rpm[c] = "active"
    BY <1>4 DEF TargetBook, SpeedInv, ActiveInv, HeldByTarget
  <2> QED BY <1>4, <2>1 DEF TargetBook, TargetReturn, Boosting
<1> QED BY <1>1, <1>2, <1>3, <1>4 DEF TargetStep

LEMMA ReportCore ==
    ASSUME Steady, TypeInv, SpeedInv, ReportInv, NEW c \in Core, AnyStep(c)
    PROVE  ReportInv'
<1> USE DEF TypeInv, TypeOK, dfVars, pmVars, tgtVars, ReportInv, Booked
<1>0. UNCHANGED <<sys, refsHeld, tgtVars>>
  BY DEF AnyStep, JobStep, JobStart, JobRun, JobFails, JobEnd, PmStep, Resume, SuspendStart,
         SuspendFinish, DomStep, PreOn, PreOff, Switch, SleepStep, ForceSuspend, ForceResume
<1>1. tpc = "write" => rpm[c] = "active" /\ dom[c] = "on"
  BY DEF SpeedInv, ActiveInv, HeldByTarget
<1>2. refsHeld => usage[c] > 0
  BY DEF SpeedInv, RefsSuffice, Ref
<1>3. refsHeld => \A d \in Core : rpm'[d] = "active"
  <2> SUFFICES ASSUME refsHeld, NEW d \in Core PROVE rpm'[d] = "active"
    OBVIOUS
  <2>1. rpm[c] = "active" /\ rpm[d] = "active" /\ usage[c] # 0 /\ sys = "awake"
    BY <1>2
  <2>2. CASE JobStep(c)
    BY <2>1, <2>2 DEF JobStep, JobStart, JobRun, JobFails, JobEnd
  <2>3. ~Resume(c) /\ ~SuspendFinish(c) /\ ~ForceSuspend(c) /\ ~ForceResume(c)
    BY <2>1 DEF Resume, SuspendFinish, ForceSuspend, ForceResume
  <2>5. ~SuspendStart(c)
    BY <2>1 DEF SuspendStart
  <2>4. CASE DomStep(c)
    BY <2>1, <2>4 DEF DomStep, PreOn, PreOff, Switch
  <2> QED BY <2>2, <2>3, <2>4, <2>5 DEF AnyStep, PmStep, SleepStep
<1>4. \/ UNCHANGED <<rate, reqRate>>
      \/ rate' = Safe /\ reqRate' \in {Safe, reqRate} /\ rpm[c] # "active"
  BY <1>1 DEF AnyStep, JobStep, JobStart, JobRun, JobFails, JobEnd, PmStep, Resume, SuspendStart,
         SuspendFinish, SuspendHook, DomStep, PreOn, PreOff, Switch, MayGoOn, MayGoOff, Notify,
         SleepStep, ForceSuspend, ForceResume, SpeedInv, ActiveInv
<1>5. rpm[c] # "active" => rate = Safe /\ tpc # "write" /\ ~refsHeld
  BY <1>1 DEF SpeedInv, ActiveInv
<1> QED BY <1>0, <1>3, <1>4, <1>5

LEMMA ReportStep == Steady /\ TypeInv /\ SpeedInv /\ ReportInv /\ [Next]_vars => ReportInv'
<1> SUFFICES ASSUME Steady, TypeInv, SpeedInv, ReportInv, [Next]_vars PROVE ReportInv'
  OBVIOUS
<1>1. CASE SleepAll \/ Shutdown
  BY <1>1 DEF Steady, SleepAll, SleepStart, SleepDown, SleepUp, SleepThaw, SleepEnd, SleepPhase,
              Shutdown, ReportInv, Booked
<1>2. CASE (\E r \in Foreign : ForeignSet(r)) \/ (\E v \in Volts : RailMove(v)) \/ UNCHANGED vars
  BY <1>2 DEF Steady, CalmEnv, RailMove, vars, dfVars, pmVars, tgtVars, ReportInv, Booked
<1>3. CASE Register \/ \E c \in Core : ProbeStep(c) \/ RemoveStep(c)
  BY <1>3, BindLowers DEF Steady, ReportInv, Booked, Calling, tgtVars
<1> QED BY <1>1, <1>2, <1>3, ReportTarget, ReportCore DEF Next, AnyStep

LEMMA ReportAlways == Steady => (Spec => [](TypeInv /\ ReportInv))
<1> SUFFICES ASSUME Steady PROVE Spec => [](TypeInv /\ ReportInv)
  OBVIOUS
<1>1. CalmEnv
  BY DEF Steady
<1>2. Init => ReportInv
  BY DEF Init, ReportInv, Booked
<1>3. TypeInv /\ SpeedInv /\ ReportInv /\ [Next]_vars => ReportInv'
  BY ReportStep
<1> QED BY <1>1, <1>2, <1>3, SpeedAlways, PTL DEF Spec

\* get_cur_freq reports what the hardware runs, through lost boosts and clock
\* writes that fail (rocket_devfreq.c:374-397, 587-592), or the raised rate that
\* was asked for where the clock has rounded it.
THEOREM ReportsTruly == Steady => (Spec => []ReportIsTrue)
<1>1. TypeInv /\ ReportInv => ReportIsTrue
  BY DEF ReportInv, Booked, ReportIsTrue, CurFreq
<1> QED BY <1>1, ReportAlways, PTL

\* Cores are kept awake only for a boost in force (rocket_devfreq.c:21-28).
THEOREM RefsMeanBoost == Steady => (Spec => []BoostRefsOnlyWhileBoosted)
<1>1. TypeInv /\ ReportInv => BoostRefsOnlyWhileBoosted
  BY DEF ReportInv, BoostRefsOnlyWhileBoosted
<1> QED BY <1>1, ReportAlways, PTL

----------------------------------------------------------------------------
(* The voltage, and failing closed.                                        *)

\* A request above High past its checks has the voltage already, unless the rail
\* went down behind it.
VoltInv == (rate > High \/ (Calling /\ tfreq > High)) => rail >= VoltForHigh \/ lowered

\* Nobody else sets the clock, and it does not round a request that needs no
\* voltage to a rate that does.
NoneAboveHigh == Foreign = {} /\ \A r \in Rounded : r <= High

LEMMA RateMoves ==
    ASSUME Foreign = {}, TypeInv, [Next]_vars, ~TargetStep
    PROVE  rate' \in {rate, Safe} /\ (Calling' => Calling) /\ (Calling => tfreq' = tfreq)
<1>1. ASSUME NEW c \in Core, AnyStep(c) \/ ProbeStep(c) \/ RemoveStep(c)
      PROVE  rate' \in {rate, Safe} /\ UNCHANGED tgtVars
  <2>1. CASE AnyStep(c)
    BY <2>1 DEF AnyStep, JobStep, JobStart, JobRun, JobFails, JobEnd, PmStep, Resume, SuspendStart,
         SuspendFinish, SuspendHook, DomStep, PreOn, PreOff, Switch, Notify,
         SleepStep, ForceSuspend, ForceResume
  <2>2. CASE ProbeStep(c)
    BY <2>2 DEF ProbeStep, ProbeAttach, ProbeClaim, ProbePm, Arm
  <2>3. CASE RemoveStep(c)
    BY <2>3 DEF RemoveStep, RemoveDrop, RemoveDisarm, RemoveFini, SetSafe, Detach
  <2> QED BY <1>1, <2>1, <2>2, <2>3
<1>2. CASE \/ SleepAll \/ Shutdown \/ Register \/ (\E v \in Volts : RailMove(v)) \/ UNCHANGED vars
  BY <1>2 DEF SleepAll, SleepStart, SleepDown, SleepUp, SleepThaw, SleepEnd, SleepPhase,
              Shutdown, ShutdownHook, SetSafe, Register, RailMove, vars, tgtVars, Calling
<1>3. CASE \E f \in Rates : TargetCall(f)
  BY <1>3 DEF TargetCall, Calling
<1> QED BY <1>1, <1>2, <1>3 DEF Next, AnyStep, tgtVars, Calling

LEMMA VoltStep == NoneAboveHigh /\ TypeInv /\ VoltInv /\ [Next]_vars => VoltInv'
<1> SUFFICES ASSUME NoneAboveHigh, TypeInv, VoltInv, [Next]_vars PROVE VoltInv'
  OBVIOUS
<1> USE RatesAssumption, VoltsAssumption DEF TypeInv, TypeOK, VoltInv
<1>1. CASE TargetStep
  <2>1. CASE TargetCheck
    <3>1. Calling' /\ tfreq' > High => rail' >= VoltForHigh
      BY <2>1 DEF TargetCheck, TargetReturn, Calling, VoltRefused
    <3>2. ~(Calling' /\ tfreq' > High) => (lowered' <=> lowered)
      BY <2>1 DEF TargetCheck, TargetReturn, Calling
    <3>3. rate' = rate /\ rail' = rail
      BY <2>1 DEF TargetCheck
    <3> QED BY <3>1, <3>2, <3>3
  <2>2. CASE TargetWrite
    <3>1. UNCHANGED railVars /\ Calling /\ rate' \in {rate, tfreq} \cup Rounded
          /\ tfreq' \in {rate', tfreq}
      BY <2>2 DEF TargetWrite, Settles, Calling
    <3> QED BY <3>1 DEF railVars, NoneAboveHigh
  <2>3. CASE TargetStep /\ ~TargetCheck /\ ~TargetWrite
    <3>1. UNCHANGED <<rate, tfreq, railVars>> /\ (Calling' => Calling)
      BY <2>3 DEF TargetStep, TargetHold, TargetHeld, TargetHoldFails, TargetPublish,
                  TargetBook, TargetReturn, Calling
    <3> QED BY <3>1 DEF railVars
  <2> QED BY <1>1, <2>1, <2>2, <2>3
<1>2. CASE \E v \in Volts : RailMove(v)
  <2>1. /\ UNCHANGED <<rate, tgtVars>> /\ rail' \in Volts
        /\ lowered' <=> (lowered \/ (rail >= VoltForHigh /\ rail' < VoltForHigh))
    BY <1>2 DEF RailMove
  <2> QED BY <2>1 DEF Calling, tgtVars
<1>3. CASE ~TargetStep /\ UNCHANGED railVars
  BY <1>3, RateMoves DEF railVars, NoneAboveHigh
<1>4. ~TargetStep /\ ~(\E v \in Volts : RailMove(v)) => UNCHANGED railVars
  <2>1. ASSUME NEW c \in Core, AnyStep(c) \/ ProbeStep(c) \/ RemoveStep(c)
        PROVE  UNCHANGED railVars
    BY <2>1 DEF AnyStep, JobStep, JobStart, JobRun, JobFails, JobEnd, PmStep, Resume, SuspendStart,
         SuspendFinish, DomStep, PreOn, PreOff, Switch, SleepStep, ForceSuspend, ForceResume,
         ProbeStep, ProbeAttach, ProbeClaim, ProbePm, Arm,
         RemoveStep, RemoveDrop, RemoveDisarm, RemoveFini, Detach
  <2>2. CASE \E f \in Rates : TargetCall(f)
    BY <2>2 DEF TargetCall
  <2>3. CASE SleepAll \/ Shutdown \/ Register \/ UNCHANGED vars
    BY <2>3 DEF SleepAll, SleepStart, SleepDown, SleepUp, SleepThaw, SleepEnd, SleepPhase,
                Shutdown, Register, vars
  <2>4. ~\E r \in Foreign : ForeignSet(r)
    BY DEF NoneAboveHigh
  <2> QED BY <2>1, <2>2, <2>3, <2>4 DEF Next, AnyStep
<1> QED BY <1>1, <1>2, <1>3, <1>4

\* Above ROCKET_HIGH_RATE the rail carries the voltage for it, or carried it when
\* target read it and has been lowered since, at whatever moment the voltage
\* module moves it, whatever fails and whoever is unbound
\* (rocket_devfreq.c:341-354), if the clock rounds no lower request past High.
THEOREM VoltageSuffices == NoneAboveHigh => (Spec => []HighNeedsVolts)
<1> SUFFICES ASSUME NoneAboveHigh PROVE Spec => []HighNeedsVolts
  OBVIOUS
<1>1. Init => VoltInv
  BY RatesAssumption DEF Init, VoltInv, Calling
<1>2. TypeInv /\ VoltInv /\ [Next]_vars => TypeInv' /\ VoltInv'
  BY TypeStep, VoltStep
<1>3. VoltInv => HighNeedsVolts
  BY DEF VoltInv, HighNeedsVolts
<1> QED BY <1>1, <1>2, <1>3, TypeInit, PTL DEF Spec

LEMMA UnsafeStep == CalmEnv /\ TypeInv /\ SpeedInv /\ UnsafeInv /\ [Next]_vars => UnsafeInv'
<1> SUFFICES ASSUME CalmEnv, TypeInv, SpeedInv, UnsafeInv, [Next]_vars PROVE UnsafeInv'
  OBVIOUS
<1> USE RatesAssumption, OwnerIsCore DEF TypeInv, TypeOK, UnsafeInv
<1>1. CASE TargetStep
  <2>1. UNCHANGED <<unsafe, life>>
    BY <1>1 DEF TargetStep, TargetCheck, TargetHold, TargetHeld, TargetHoldFails, TargetPublish,
                TargetWrite, TargetBook, dfVars, pmVars
  <2>2. CASE TargetCheck
    BY <2>1, <2>2 DEF TargetCheck, TargetReturn, Calling, BoostRefused
  <2>3. CASE TargetStep /\ ~TargetCheck
    BY <2>1, <2>3 DEF TargetStep, TargetHold, TargetHeld, TargetHoldFails, TargetPublish,
                TargetWrite, Settles, TargetBook, TargetReturn, Calling
  <2> QED BY <1>1, <2>2, <2>3
<1>2. CASE Register \/ \E c \in Core : ProbeStep(c) \/ RemoveStep(c)
  <2>1. CASE rate' = Safe /\ ~Calling
    BY <1>2, <2>1, BindLowers DEF Calling, tgtVars
  <2>2. CASE RemoveDisarm(Owner)
    BY <2>2 DEF RemoveDisarm, Step
  <2> QED BY <1>2, <2>1, <2>2, BindLowers
<1>3. CASE ~TargetStep /\ ~Register /\ \A c \in Core : ~ProbeStep(c) /\ ~RemoveStep(c)
  BY <1>3, OtherSteps, RateMoves DEF CalmEnv
<1> QED BY <1>1, <1>2, <1>3

\* Fail closed: after a notifier could not be armed or removed the clock never
\* rises again, unless core 0 is on its way to the fini that lowers it
\* (rocket_devfreq.c:641-655, 727-733).
THEOREM FailsClosed == KeptEnv => (Spec => []UnsafeMeansNoBoost)
<1> SUFFICES ASSUME KeptEnv PROVE Spec => []UnsafeMeansNoBoost
  OBVIOUS
<1>1. ASSUME CalmEnv PROVE Spec => []UnsafeMeansNoBoost
  <2>1. Init => UnsafeInv
    BY DEF Init, UnsafeInv
  <2>2. TypeInv /\ SpeedInv /\ UnsafeInv /\ [Next]_vars => UnsafeInv'
    BY <1>1, UnsafeStep
  <2>3. UnsafeInv => UnsafeMeansNoBoost
    BY OwnerIsCore DEF UnsafeInv, UnsafeMeansNoBoost
  <2> QED BY <1>1, <2>1, <2>2, <2>3, SpeedAlways, PTL DEF Spec
<1>2. ASSUME Fixed PROVE Spec => []UnsafeMeansNoBoost
  <2>1. GuardInv => UnsafeMeansNoBoost
    BY DEF GuardInv, UnsafeMeansNoBoost
  <2> QED BY <1>2, <2>1, GuardAlways, PTL
<1> QED BY <1>1, <1>2 DEF KeptEnv, Fixed
=============================================================================
