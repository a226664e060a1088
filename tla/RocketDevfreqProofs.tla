------------------------ MODULE RocketDevfreqProofs ------------------------
(***************************************************************************)
(* Proofs about RocketDevfreq for any number of cores, any OPP table and   *)
(* any combination of the modelled events.                                 *)
(***************************************************************************)
EXTENDS RocketDevfreq, FiniteSetTheorems, TLAPS

\* hold_all never waits for a slot past the last, and until the clock has
\* settled *freq is the rate of the table that was asked for.
TypeInv == /\ TypeOK
           /\ tpc = "wait" => tidx < MaxCores
           /\ tpc \notin {"idle", "book"} => tfreq \in Rates

LEMMA PutType == \A u \in Nat : Put(u) \in Nat
  BY DEF Put

LEMMA PutAllType ==
    ASSUME NEW u \in [Core -> Nat], NEW S
    PROVE  PutAll(u, S) \in [Core -> Nat]
  BY PutType DEF PutAll

LEMMA TypeInit == Init => TypeInv
<1> SUFFICES ASSUME Init PROVE TypeInv
  OBVIOUS
<1> USE DEF Init
<1>1. /\ rate \in Rates \cup Rounded \cup Foreign /\ reqRate \in Rates
      /\ tfreq \in Rates \cup Rounded /\ told \in Rates
  BY RatesAssumption
<1>2. /\ registered \in BOOLEAN /\ refsHeld \in BOOLEAN /\ unsafe \in BOOLEAN
      /\ reg \in BOOLEAN /\ lowered \in BOOLEAN
  OBVIOUS
<1>3. tidx \in 0 .. MaxCores
  BY CoresAssumption
<1>4. /\ life \in [Core -> LifeStates] /\ usage \in [Core -> Nat]
      /\ rpm \in [Core -> {"suspended", "active", "suspending"}]
      /\ job \in [Core -> {"none", "start", "run"}]
      /\ dom \in [Core -> {"off", "pre_on", "on", "pre_off"}]
  BY DEF LifeStates
<1> QED BY <1>1, <1>2, <1>3, <1>4 DEF TypeInv, TypeOK

LEMMA LifeType ==
    ASSUME life \in [Core -> LifeStates], NEW c \in Core,
           NEW from, NEW to \in LifeStates, Step(c, from, to)
    PROVE  life' \in [Core -> LifeStates]
  BY DEF Step

LEMMA OwnerIsCore == Owner \in Core
  BY CoresAssumption DEF Owner, Core

LEMMA TypeStep == TypeInv /\ [Next]_vars => TypeInv'
<1> SUFFICES ASSUME TypeInv, [Next]_vars PROVE TypeInv'
  OBVIOUS
<1> USE DEF TypeInv, TypeOK, dfVars, railVars, pmVars, tgtVars
<1>1. CASE UNCHANGED vars
  BY <1>1 DEF vars
<1>2. ASSUME NEW f \in Rates, TargetCall(f) PROVE TypeInv'
  BY <1>2 DEF TargetCall
<1>3. CASE TargetStep
  <2>1. CASE TargetCheck
    <3>1. lowered' \in BOOLEAN
      BY <2>1 DEF TargetCheck
    <3> QED BY <2>1, <3>1, CoresAssumption DEF TargetCheck, TargetReturn
  <2>2. CASE TargetHold
    BY <2>2, CoresAssumption DEF TargetHold, Bound
  <2>3. CASE TargetHeld
    BY <2>3, CoresAssumption DEF TargetHeld
  <2>4. CASE TargetHoldFails
    BY <2>4, PutAllType DEF TargetHoldFails, TargetReturn
  <2>5. CASE TargetPublish
    BY <2>5 DEF TargetPublish
  <2>7. CASE TargetWrite
    BY <2>7, RatesAssumption DEF TargetWrite, Settles
  <2>6. CASE TargetBook
    <3>1. BookedUsage \in [Core -> Nat]
      BY PutAllType DEF BookedUsage, ReleaseAll
    <3> QED BY <2>6, <3>1 DEF TargetBook, TargetReturn, Boosting
  <2> QED BY <1>3, <2>1, <2>2, <2>3, <2>4, <2>5, <2>6, <2>7 DEF TargetStep
<1>4. ASSUME NEW c \in Core, JobStep(c) PROVE TypeInv'
  BY <1>4, PutType DEF JobStep, JobStart, JobRun, JobFails, JobEnd
<1>5. ASSUME NEW c \in Core, PmStep(c) PROVE TypeInv'
  BY <1>5, RatesAssumption DEF PmStep, Resume, SuspendStart, SuspendFinish, SuspendHook
<1>6. ASSUME NEW c \in Core, DomStep(c) PROVE TypeInv'
  BY <1>6, RatesAssumption DEF DomStep, PreOn, PreOff, Switch, Notify
<1>7. ASSUME NEW c \in Core, ProbeStep(c) PROVE TypeInv'
  BY <1>7 DEF ProbeStep, ProbeAttach, ProbeClaim, ProbePm, Arm, ArmNotifiers, Step, LifeStates, Bound
<1>8. ASSUME NEW c \in Core, RemoveStep(c) PROVE TypeInv'
  <2>1. ReleaseAll(usage) \in [Core -> Nat]
    BY PutAllType DEF ReleaseAll
  <2>2. CASE RemoveDrop(c)
    BY <2>1, <2>2, RatesAssumption DEF RemoveDrop, Step, LifeStates
  <2>3. CASE RemoveDisarm(c)
    <3>1. life' \in [Core -> LifeStates]
      BY <2>3, LifeType DEF RemoveDisarm, LifeStates
    <3>2. unsafe' \in BOOLEAN /\ armed' \subseteq Core
      BY <2>3 DEF RemoveDisarm
    <3> QED BY <2>3, <3>1, <3>2 DEF RemoveDisarm
  <2>4. CASE RemoveFini(c)
    <3>1. life' \in [Core -> LifeStates]
      BY <2>4, LifeType DEF RemoveFini, Owns, Bound, DisarmNotifiers, LifeStates
    <3>2. /\ registered' \in BOOLEAN /\ refsHeld' \in BOOLEAN
          /\ armed' \subseteq Core
      BY <2>4 DEF RemoveFini, Owns, Bound, DisarmNotifiers
    <3>3. rate' \in Rates \cup Rounded \cup Foreign /\ reqRate' \in Rates
      BY <2>4, RatesAssumption DEF RemoveFini, Owns, Bound, DisarmNotifiers, SetSafe
    <3>4. usage' \in [Core -> Nat]
      BY <2>1, <2>4 DEF RemoveFini, Owns, Bound, DisarmNotifiers
    <3>5. /\ job' \in [Core -> {"none", "start", "run"}]
          /\ UNCHANGED <<unsafe, reg, railVars, rpm, dom, sys, tgtVars>>
      BY <2>4 DEF RemoveFini
    <3> QED BY <3>1, <3>2, <3>3, <3>4, <3>5
  <2>5. CASE Detach(c)
    <3>1. life' \in [Core -> LifeStates]
      BY <2>5, LifeType DEF Detach, LifeStates
    <3>2. rpm' \in [Core -> {"suspended", "active", "suspending"}]
      BY <2>5 DEF Detach
    <3>3. UNCHANGED <<rate, dfVars, railVars, usage, job, dom, sys, tgtVars>>
      BY <2>5 DEF Detach
    <3> QED BY <3>1, <3>2, <3>3
  <2> QED BY <1>8, <2>2, <2>3, <2>4, <2>5 DEF RemoveStep
<1>9. ASSUME NEW c \in Core, SleepStep(c) PROVE TypeInv'
  BY <1>9, RatesAssumption DEF SleepStep, ForceSuspend, ForceResume, SuspendHook
<1>10. CASE Register
  <2>1. life' \in [Core -> LifeStates]
    BY <1>10, LifeType, OwnerIsCore DEF Register, LifeStates
  <2>2. registered' \in BOOLEAN /\ refsHeld' \in BOOLEAN
    BY <1>10 DEF Register
  <2>4. reg' \in BOOLEAN
    BY <1>10 DEF Register
  <2>3. reqRate' \in Rates
    BY <1>10, RatesAssumption DEF Register
  <2> QED BY <1>10, <2>1, <2>2, <2>3, <2>4 DEF Register
<1>11. CASE SleepAll
  BY <1>11 DEF SleepAll, SleepStart, SleepDown, SleepUp, SleepThaw, SleepEnd, SleepPhase
<1>12. ASSUME NEW r \in Foreign, ForeignSet(r) PROVE TypeInv'
  BY <1>12 DEF ForeignSet
<1>13. ASSUME NEW v \in Volts, RailMove(v) PROVE TypeInv'
  <2>1. lowered' \in BOOLEAN /\ rail' \in Volts
    BY <1>13 DEF RailMove
  <2> QED BY <1>13, <2>1 DEF RailMove
<1>14. CASE Shutdown
  BY <1>14, RatesAssumption DEF Shutdown, ShutdownHook, SetSafe
<1> QED
  BY <1>1, <1>2, <1>3, <1>4, <1>5, <1>6, <1>7, <1>8, <1>9, <1>10, <1>11,
     <1>12, <1>13, <1>14 DEF Next

\* Type correctness of the devfreq layer, whatever fails and whoever is
\* unbound: usage counts in particular never go below zero.
THEOREM TypeCorrect == Spec => []TypeOK
<1>1. TypeInv => TypeOK
  BY DEF TypeInv
<1> QED BY <1>1, TypeInit, TypeStep, PTL DEF Spec

----------------------------------------------------------------------------
(* NoSwitchAtSpeed.  Each part of SpeedInv gets its own step under every   *)
(* action that can disturb it.                                             *)

LEMMA SpeedInit == Init => SpeedInv
<1> SUFFICES ASSUME Init PROVE SpeedInv
  OBVIOUS
<1> USE DEF Init
<1>1. CallInv
  BY DEF CallInv, Calling, AllThere, Leaving
<1>2. BoostInv
  BY DEF BoostInv
<1>3. RefsSuffice
  BY DEF RefsSuffice, Ref, HeldByTarget
<1>4. ActiveInv
  BY DEF ActiveInv, HeldByTarget
<1>5. ArmedInv
  BY DEF ArmedInv, AllUp
<1> QED BY <1>1, <1>2, <1>3, <1>4, <1>5 DEF SpeedInv

LEMMA CoreFinite == IsFiniteSet(Core) /\ Cardinality(Core) = MaxCores
<1>1. 0 <= MaxCores - 1
  BY CoresAssumption
<1> QED BY <1>1, FS_Interval, CoresAssumption DEF Core

\* As many armed blocks as cores: every core has one.
LEMMA ArmedAll ==
    ASSUME armed \subseteq Core, Cardinality(armed) = MaxCores
    PROVE  armed = Core
  BY CoreFinite, FS_Subset

LEMMA RefNat == \A b \in BOOLEAN : Ref(b) \in 0 .. 1
  BY DEF Ref

\* Steps of target.
LEMMA TargetSpeed ==
    ASSUME CalmEnv, TypeInv, SpeedInv,
           TargetStep \/ \E f \in Rates : TargetCall(f)
    PROVE  SpeedInv'
<1> USE DEF TypeInv, TypeOK, SpeedInv, dfVars, pmVars, tgtVars
<1>1. ASSUME NEW f \in Rates, TargetCall(f) PROVE SpeedInv'
  <2> USE <1>1 DEF TargetCall
  <2>1. Leaving \subseteq {Owner}
    BY DEF CalmEnv, ArmedInv, AllUp, Leaving, Disturbed
  <2>2. CallInv'
    BY <2>1 DEF CallInv, Calling, AllThere, Leaving
  <2>3. BoostInv'
    BY DEF BoostInv, AllThere
  <2>4. RefsSuffice'
    BY DEF RefsSuffice, HeldByTarget
  <2>5. ActiveInv'
    BY DEF ActiveInv, HeldByTarget
  <2>6. ArmedInv'
    BY DEF ArmedInv, AllUp
  <2> QED BY <2>2, <2>3, <2>4, <2>5, <2>6
<1>2. CASE TargetCheck
  <2> USE <1>2 DEF TargetCheck, TargetReturn
  <2>1. tpc' = "hold" => AllThere /\ registered
    <3> SUFFICES ASSUME tpc' = "hold" PROVE AllThere /\ registered
      OBVIOUS
    <3>1. registered /\ ~AlreadyThere /\ ~BoostRefused
      OBVIOUS
    <3>2. CASE tfreq = Safe
      <4>1. reqRate # Safe \/ rate # Safe
        BY <3>1, <3>2 DEF AlreadyThere
      <4> QED BY <3>1, <4>1, RatesAssumption DEF BoostInv
    <3>3. CASE tfreq # Safe
      <4>1. tfreq > Safe
        BY <3>3, RatesAssumption
      <4>2. ~unsafe /\ Cardinality(armed) = MaxCores
        BY <3>1, <4>1 DEF BoostRefused, AllGuarded
      <4>3. armed = Core
        BY <4>2, ArmedAll
      <4>4. Leaving \subseteq {Owner}
        BY DEF CallInv
      <4>5. \A c \in Core : life[c] \in {"up", "disarm"}
        BY <4>2, <4>3 DEF ArmedInv
      <4> QED BY <3>1, <4>4, <4>5 DEF AllThere, Leaving
    <3> QED BY <3>2, <3>3
  <2>2. CallInv'
    BY <2>1 DEF CallInv, Calling, AllThere, Leaving
  <2>3. BoostInv'
    BY DEF BoostInv, AllThere
  <2>4. RefsSuffice'
    <3>1. \A c \in Core : ~HeldByTarget(c) /\ ~HeldByTarget(c)'
      BY CoresAssumption DEF HeldByTarget, Core
    <3> QED BY <3>1 DEF RefsSuffice, Ref
  <2>5. ActiveInv'
    BY CoresAssumption DEF ActiveInv, HeldByTarget, Core
  <2>6. ArmedInv'
    BY DEF ArmedInv, AllUp
  <2> QED BY <2>2, <2>3, <2>4, <2>5, <2>6
<1>3. CASE TargetHold
  <2> USE <1>3 DEF TargetHold
  <2>1. AllThere /\ Bound = Core
    BY DEF CallInv, Calling, AllThere, Bound
  <2>2. CallInv'
    BY <2>1, CoresAssumption DEF CallInv, Calling, AllThere, Leaving, Core
  <2>3. BoostInv'
    BY DEF BoostInv, AllThere
  <2>4. RefsSuffice'
    <3> SUFFICES ASSUME NEW c \in Core
                 PROVE usage'[c] >= Ref(job[c] # "none") + Ref(refsHeld)
                                      + Ref(HeldByTarget(c)')
      BY DEF RefsSuffice
    <3>1. usage[c] >= Ref(job[c] # "none") + Ref(refsHeld) + Ref(HeldByTarget(c))
      BY DEF RefsSuffice
    <3>2. CASE tidx < MaxCores /\ c = tidx
      <4>1. ~HeldByTarget(c) /\ usage'[c] = usage[c] + 1
        BY <2>1, <3>2 DEF HeldByTarget
      <4> QED BY <3>1, <4>1 DEF Ref
    <3>3. CASE ~(tidx < MaxCores /\ c = tidx)
      <4>1. HeldByTarget(c)' <=> HeldByTarget(c)
        BY <2>1, <3>3, CoresAssumption DEF HeldByTarget, Core
      <4>2. usage'[c] = usage[c]
        BY <2>1, <3>3
      <4> QED BY <3>1, <4>1, <4>2 DEF Ref
    <3> QED BY <3>2, <3>3
  <2>5. ActiveInv'
    BY <2>1, CoresAssumption DEF ActiveInv, HeldByTarget, Core
  <2>6. ArmedInv'
    BY DEF ArmedInv, AllUp
  <2> QED BY <2>2, <2>3, <2>4, <2>5, <2>6
<1>4. CASE TargetHeld
  <2> USE <1>4 DEF TargetHeld
  <2>2. CallInv'
    BY DEF CallInv, Calling, AllThere, Leaving
  <2>3. BoostInv'
    BY DEF BoostInv, AllThere
  <2>4. RefsSuffice'
    <3>1. \A c \in Core : HeldByTarget(c)' <=> HeldByTarget(c)
      BY CoresAssumption DEF HeldByTarget, Core
    <3> QED BY <3>1 DEF RefsSuffice, Ref
  <2>5. ActiveInv'
    BY CoresAssumption DEF ActiveInv, HeldByTarget, Core
  <2>6. ArmedInv'
    BY DEF ArmedInv, AllUp
  <2> QED BY <2>2, <2>3, <2>4, <2>5, <2>6
<1>5. CASE TargetHoldFails
  <2> USE <1>5 DEF TargetHoldFails, TargetReturn
  <2>0. AllThere /\ tidx \in Core
    BY CoresAssumption DEF CallInv, Calling, Core
  <2>1. AllThere /\ Bound = Core /\ tidx \in Core
    BY <2>0 DEF AllThere, Bound
  <2>2. CallInv'
    BY DEF CallInv, Calling, AllThere, Leaving
  <2>3. BoostInv'
    BY DEF BoostInv, AllThere
  <2>4. RefsSuffice'
    <3> SUFFICES ASSUME NEW c \in Core
                 PROVE usage'[c] >= Ref(job[c] # "none") + Ref(refsHeld)
                                      + Ref(HeldByTarget(c)')
      BY DEF RefsSuffice
    <3>0. Ref(HeldByTarget(c)') = 0
      BY DEF HeldByTarget, Ref
    <3>1. CASE c <= tidx
      <4>1. HeldByTarget(c) /\ usage'[c] = Put(usage[c])
        BY <2>1, <3>1 DEF HeldByTarget, PutAll, Core
      <4> QED BY <3>0, <4>1 DEF RefsSuffice, Put, Ref
    <3>2. CASE ~(c <= tidx)
      <4>1. usage'[c] = usage[c]
        BY <2>1, <3>2 DEF PutAll, Core
      <4> QED BY <3>0, <4>1 DEF RefsSuffice, Ref
    <3> QED BY <3>1, <3>2
  <2>5. ActiveInv'
    BY DEF ActiveInv, HeldByTarget
  <2>6. ArmedInv'
    BY DEF ArmedInv, AllUp
  <2> QED BY <2>2, <2>3, <2>4, <2>5, <2>6
<1>6. CASE TargetPublish
  <2> USE <1>6 DEF TargetPublish
  <2>2. CallInv'
    BY DEF CallInv, Calling, AllThere, Leaving
  <2>3. BoostInv'
    BY DEF BoostInv, AllThere
  <2>4. RefsSuffice'
    BY DEF RefsSuffice, HeldByTarget
  <2>5. ActiveInv'
    BY DEF ActiveInv, HeldByTarget
  <2>6. ArmedInv'
    BY DEF ArmedInv, AllUp
  <2> QED BY <2>2, <2>3, <2>4, <2>5, <2>6
<1>8. CASE TargetWrite
  <2> USE <1>8 DEF TargetWrite
  <2>2. CallInv'
    BY DEF CallInv, Calling, AllThere, Leaving
  <2>3. BoostInv'
    <3>1. reqRate = tfreq /\ (rate # Safe => Safe < told)
      BY DEF BoostInv
    <3>2. tret' = "ok" => rate' = Safe \/ Safe < reqRate'
      BY <3>1, RatesAssumption DEF Settles, BoostInv
    <3>3. rate' # Safe => Safe < reqRate'
      BY <3>1, <3>2
    <3> QED BY <3>1, <3>3 DEF BoostInv, AllThere
  <2>4. RefsSuffice'
    BY DEF RefsSuffice, HeldByTarget
  <2>5. ActiveInv'
    BY DEF ActiveInv, HeldByTarget
  <2>6. ArmedInv'
    BY DEF ArmedInv, AllUp
  <2> QED BY <2>2, <2>3, <2>4, <2>5, <2>6
<1>7. CASE TargetBook
  <2> USE <1>7 DEF TargetBook, TargetReturn
  <2>1. AllThere /\ Bound = Core /\ registered
    BY DEF CallInv, Calling, AllThere, Bound
  <2>2. CallInv'
    BY DEF CallInv, Calling, AllThere, Leaving
  <2>3. BoostInv'
    <3>1. Boosting <=> reqRate # Safe
      BY RatesAssumption DEF Boosting
    <3>2. refsHeld' <=> reqRate # Safe
      BY <3>1
    <3> QED BY <2>1, <3>2 DEF BoostInv, AllThere
  <2>4. RefsSuffice'
    <3> SUFFICES ASSUME NEW c \in Core
                 PROVE usage'[c] >= Ref(job[c] # "none") + Ref(refsHeld')
      BY DEF RefsSuffice, HeldByTarget, Ref
    <3>5. refsHeld' <=> Boosting
      OBVIOUS
    <3>1. usage[c] >= Ref(job[c] # "none") + Ref(refsHeld) + 1
      BY DEF RefsSuffice, HeldByTarget, Ref
    <3>2. \A u \in [Core -> Nat] : ReleaseAll(u)[c] = Put(u[c])
      BY <2>1 DEF ReleaseAll, PutAll
    <3>3. ReleaseAll(usage) \in [Core -> Nat]
      BY PutAllType DEF ReleaseAll
    <3>4. usage'[c] = IF Boosting
                      THEN IF refsHeld THEN Put(usage[c]) ELSE usage[c]
                      ELSE IF refsHeld THEN Put(Put(usage[c])) ELSE Put(usage[c])
      BY <3>2, <3>3 DEF BookedUsage
    <3> QED BY <3>1, <3>4, <3>5 DEF Put, Ref
  <2>5. ActiveInv'
    BY DEF ActiveInv, HeldByTarget
  <2>6. ArmedInv'
    BY DEF ArmedInv, AllUp
  <2> QED BY <2>2, <2>3, <2>4, <2>5, <2>6
<1> QED BY <1>1, <1>2, <1>3, <1>4, <1>5, <1>6, <1>7, <1>8 DEF TargetStep

\* Steps of a core's job and of its runtime PM.
LEMMA CoreSpeed ==
    ASSUME CalmEnv, TypeInv, SpeedInv,
           NEW c \in Core, JobStep(c) \/ PmStep(c) \/ SleepStep(c)
    PROVE  SpeedInv'
<1> USE DEF TypeInv, TypeOK, SpeedInv, dfVars, pmVars, tgtVars
<1>1. CASE JobStep(c)
  <2> USE <1>1 DEF JobStep, JobStart, JobRun, JobFails, JobEnd
  <2>1. CallInv'
    BY DEF CallInv, Calling, AllThere, Leaving
  <2>2. BoostInv'
    BY DEF BoostInv, AllThere
  <2>3. RefsSuffice'
    <3> SUFFICES ASSUME NEW d \in Core
                 PROVE usage'[d] >= Ref(job'[d] # "none") + Ref(refsHeld)
                                      + Ref(HeldByTarget(d))
      BY DEF RefsSuffice, HeldByTarget
    <3>1. usage[d] >= Ref(job[d] # "none") + Ref(refsHeld) + Ref(HeldByTarget(d))
      BY DEF RefsSuffice
    <3>2. CASE d # c
      BY <3>1, <3>2
    <3>3. CASE d = c
      <4>1. CASE JobStart(c)
        BY <3>1, <3>3, <4>1 DEF Ref
      <4>2. CASE JobRun(c) \/ JobFails(c)
        BY <3>1, <3>3, <4>2 DEF Ref
      <4>3. CASE JobEnd(c)
        BY <3>1, <3>3, <4>3 DEF Ref, Put
      <4> QED BY <4>1, <4>2, <4>3
    <3> QED BY <3>2, <3>3
  <2>4. ActiveInv'
    BY DEF ActiveInv, HeldByTarget
  <2>5. ArmedInv'
    BY DEF ArmedInv, AllUp
  <2> QED BY <2>1, <2>2, <2>3, <2>4, <2>5
<1>2. CASE PmStep(c) \/ SleepStep(c)
  <2>0. UNCHANGED <<dfVars, railVars, life, usage, job, dom, tgtVars>>
    BY <1>2 DEF PmStep, Resume, SuspendStart, SuspendFinish, SleepStep,
                ForceSuspend, ForceResume
  <2>1. CallInv'
    <3>1. SleepStep(c) => tpc = "idle"
      BY DEF CallInv, SleepStep, ForceSuspend, ForceResume
    <3>2. PmStep(c) => sys' = sys
      BY DEF PmStep, Resume, SuspendStart, SuspendFinish
    <3> QED BY <1>2, <2>0, <3>1, <3>2 DEF CallInv, Calling, AllThere, Leaving
  <2>2. rate' = rate \/ rate' = Safe
    BY <1>2 DEF PmStep, Resume, SuspendStart, SuspendFinish, SuspendHook,
                SleepStep, ForceSuspend, ForceResume
  <2>3. BoostInv'
    BY <2>0, <2>2 DEF BoostInv, AllThere
  <2>4. RefsSuffice'
    BY <2>0 DEF RefsSuffice, HeldByTarget
  <2>5. ArmedInv'
    BY <2>0 DEF ArmedInv, AllUp
  <2>6. ActiveInv'
    <3>1. rate' # Safe => registered /\ \A d \in Core : rpm[d] = "active"
      BY <2>2, RatesAssumption DEF ActiveInv, BoostInv, Calling, CallInv
    <3>2. HeldByTarget(c) /\ tpc # "wait" => rpm[c] = "active"
      BY DEF ActiveInv
    <3>3. \A d \in Core : HeldByTarget(d) => usage[d] > 0
      BY DEF RefsSuffice, Ref
    <3>4. rate' # Safe => \A d \in Core : usage[d] > 0
      BY <2>2, RatesAssumption DEF RefsSuffice, Ref, BoostInv, HeldByTarget
    <3>5. CASE Resume(c) \/ ForceResume(c)
      <4>1. dom[c] = "on" /\ rate' = rate /\ rpm' = [rpm EXCEPT ![c] = "active"]
        BY <3>5 DEF Resume, ForceResume
      <4> QED BY <2>0, <4>1, CoresAssumption DEF ActiveInv, HeldByTarget, Core
    <3>6. CASE SuspendStart(c)
      BY <3>6, <2>0, <3>2, <3>3, <3>4, CoresAssumption
      DEF ActiveInv, HeldByTarget, SuspendStart, Core
    <3>7. CASE SuspendFinish(c)
      <4>1. rpm[c] = "suspending" /\ rate = Safe
        BY <3>7 DEF SuspendFinish, ActiveInv
      <4>2. rate' = Safe
        BY <4>1, <2>2
      <4>3. /\ rpm' = [rpm EXCEPT ![c] = "suspended"]
               \/ rpm' = [rpm EXCEPT ![c] = "active"]
            /\ dom[c] = "on"
        BY <3>7, <4>1 DEF SuspendFinish, ActiveInv
      <4> QED BY <2>0, <3>2, <4>1, <4>2, <4>3, CoresAssumption
          DEF ActiveInv, HeldByTarget, Core
    <3>8. CASE ForceSuspend(c)
      <4>1. tpc = "idle"
        BY <3>8 DEF ForceSuspend, CallInv
      <4>2. \/ rpm' = rpm /\ rate' = rate
            \/ rpm' = [rpm EXCEPT ![c] = "suspended"] /\ rate' = Safe
        <5>1. registered \/ rate = Safe
          BY RatesAssumption DEF BoostInv, CallInv, Calling
        <5>2. CASE job[c] # "none"
          BY <3>8, <5>2 DEF ForceSuspend, SuspendHook
        <5>3. CASE job[c] = "none"
          <6>1. PICK ok \in BOOLEAN :
                   /\ SuspendHook(ok)
                   /\ IF ok THEN rpm' = [rpm EXCEPT ![c] = "suspended"]
                            ELSE rpm' = rpm
            BY <3>8, <5>3 DEF ForceSuspend, SuspendHook
          <6>2. CASE ok
            BY <5>1, <6>1, <6>2 DEF SuspendHook
          <6>3. CASE ~ok
            BY <6>1, <6>3 DEF SuspendHook
          <6> QED BY <6>2, <6>3
        <5> QED BY <5>2, <5>3
      <4> QED BY <2>0, <4>1, <4>2 DEF ActiveInv, HeldByTarget
    <3> QED BY <1>2, <3>5, <3>6, <3>7, <3>8 DEF PmStep, SleepStep
  <2> QED BY <2>1, <2>3, <2>4, <2>5, <2>6
<1> QED BY <1>1, <1>2

\* Steps of a power domain.
LEMMA DomSpeed ==
    ASSUME CalmEnv, TypeInv, SpeedInv, NEW c \in Core, DomStep(c)
    PROVE  SpeedInv'
<1> USE DEF TypeInv, TypeOK, SpeedInv, dfVars, pmVars, tgtVars
<1>1. dom[c] # "on" \/ rpm[c] = "suspended"
  BY DEF DomStep, PreOn, PreOff, Switch, MayGoOn, MayGoOff
<1>2. rpm[c] = "suspended"
  BY <1>1 DEF ActiveInv
<1>3. rate = Safe
  BY <1>2 DEF ActiveInv
<1>4. rate' = Safe
  BY <1>3 DEF DomStep, PreOn, PreOff, Switch, Notify
<1>5. reqRate' = reqRate \/ reqRate' = Safe
  BY DEF DomStep, PreOn, PreOff, Switch, Notify
<1>6. UNCHANGED <<registered, refsHeld, unsafe, reg, armed, railVars, pmVars, sys, tgtVars>>
  BY DEF DomStep, PreOn, PreOff, Switch
<1>7. \A d \in Core : d # c => dom'[d] = dom[d]
  BY DEF DomStep, PreOn, PreOff, Switch, Notify
<1>8. CallInv'
  BY <1>6 DEF CallInv, Calling, AllThere, Leaving
<1>9. BoostInv'
  <2>1. tpc # "write"
    BY <1>2 DEF ActiveInv, HeldByTarget
  <2> QED BY <1>4, <1>5, <1>6, <2>1 DEF BoostInv, AllThere
<1>10. RefsSuffice'
  BY <1>6 DEF RefsSuffice, HeldByTarget
<1>11. ActiveInv'
  BY <1>2, <1>4, <1>6, <1>7 DEF ActiveInv, HeldByTarget
<1>12. ArmedInv'
  BY <1>6 DEF ArmedInv, AllUp
<1> QED BY <1>8, <1>9, <1>10, <1>11, <1>12

\* While a core is missing or core 0 not registered there is no boost and no
\* request past its checks.
LEMMA QuietWhileMissing ==
    ASSUME TypeInv, SpeedInv, ~(AllThere /\ registered)
    PROVE  ~Calling /\ ~refsHeld /\ reqRate = Safe /\ rate = Safe
  BY RatesAssumption DEF SpeedInv, CallInv, BoostInv, Calling

\* A release lowers the count of a core by one at most.
LEMMA ReleaseCount ==
    ASSUME TypeInv
    PROVE  \A c \in Core : ReleaseAll(usage)[c] \in {usage[c], Put(usage[c])}
  BY DEF TypeInv, TypeOK, ReleaseAll, PutAll

\* ArmedInv says which core moves.
LEMMA OneMoves ==
    ASSUME TypeInv, SpeedInv, NEW c \in Core, life[c] \notin {"up", "free"}
    PROVE  \A d \in Core : d # c => life[d] \in {"up", "free"}
  BY DEF SpeedInv, ArmedInv

\* A core drops the boost before it leaves.
LEMMA DropSpeed ==
    ASSUME CalmEnv, TypeInv, SpeedInv, NEW c \in Core, RemoveDrop(c)
    PROVE  SpeedInv'
<1> USE DEF TypeInv, TypeOK, SpeedInv, dfVars, pmVars, tgtVars, RemoveDrop, Step
<1>1. Removable # {} /\ "clk_fail" \notin Events
  BY DEF CalmEnv
<1>2. rate' = Safe /\ refsHeld' = FALSE /\ reqRate' = Safe
  <2>1. CASE registered
    BY <1>1, <2>1
  <2>2. CASE ~registered
    BY <2>2, RatesAssumption DEF BoostInv, CallInv, Calling
  <2> QED BY <2>1, <2>2
<1>3. \A d \in Core : d # c => life[d] \in {"up", "free"} /\ life'[d] = life[d]
  BY <1>1 DEF BindingFree
<1>4. CallInv'
  BY DEF CallInv, Calling
<1>5. BoostInv'
  BY <1>2 DEF BoostInv
<1>6. RefsSuffice'
  <2> SUFFICES ASSUME NEW d \in Core PROVE usage'[d] >= Ref(job[d] # "none")
    BY <1>2 DEF RefsSuffice, HeldByTarget, Ref
  <2>1. usage[d] >= Ref(job[d] # "none") + Ref(refsHeld)
    BY DEF RefsSuffice, Ref
  <2>2. usage' = IF refsHeld THEN ReleaseAll(usage) ELSE usage
    BY DEF BoostInv
  <2> QED BY <2>1, <2>2, ReleaseCount DEF Put, Ref
<1>7. ActiveInv'
  BY <1>2 DEF ActiveInv, HeldByTarget
<1>8. ArmedInv'
  <2>1. ~unsafe' => ~unsafe
    BY <1>1
  <2> QED BY <1>1, <1>3, <2>1 DEF ArmedInv
<1> QED BY <1>4, <1>5, <1>6, <1>7, <1>8

\* Core 0 takes its notifier away, beside a request perhaps.
LEMMA DisarmSpeed ==
    ASSUME CalmEnv, TypeInv, SpeedInv, RemoveDisarm(Owner)
    PROVE  SpeedInv'
<1> USE OwnerIsCore DEF TypeInv, TypeOK, SpeedInv, dfVars, pmVars, tgtVars, RemoveDisarm, Step
<1>1. \A c \in Core : c # Owner => life'[c] = life[c]
  OBVIOUS
<1>2. life[Owner] = "disarm" /\ life'[Owner] = "fini"
  OBVIOUS
<1>3. (AllThere' <=> AllThere) /\ Leaving' = Leaving
  BY <1>1, <1>2 DEF AllThere, Leaving
<1>4. CallInv'
  BY <1>3 DEF CallInv, Calling
<1>5. BoostInv'
  BY <1>3 DEF BoostInv
<1>6. RefsSuffice'
  BY DEF RefsSuffice, HeldByTarget
<1>7. ActiveInv'
  BY DEF ActiveInv, HeldByTarget
<1>8. ArmedInv'
  <2>1. Removable # {}
    BY <1>2 DEF ArmedInv, AllUp
  <2>2. \A c \in Core : c # Owner => life[c] \in {"up", "free"}
    BY <1>2, OneMoves
  <2>3. ~unsafe' => ~unsafe /\ armed' = armed \ {Owner}
    OBVIOUS
  <2>4. ~unsafe' => \A c \in armed' : life'[c] \in {"up", "disarm"}
    BY <1>1, <2>3 DEF ArmedInv
  <2> QED BY <1>1, <2>1, <2>2, <2>4 DEF ArmedInv
<1> QED BY <1>4, <1>5, <1>6, <1>7, <1>8

\* The fini of a registered core 0 ends every boost.
LEMMA FiniSpeed ==
    ASSUME CalmEnv, TypeInv, SpeedInv, registered, RemoveFini(Owner)
    PROVE  SpeedInv'
<1> USE OwnerIsCore DEF TypeInv, TypeOK, SpeedInv, dfVars, pmVars, tgtVars, Step
<1>1. life[Owner] = "fini" /\ life' = [life EXCEPT ![Owner] = "detach"]
  BY DEF RemoveFini
<1>2. Removable # {} /\ "clk_fail" \notin Events
  BY <1>1 DEF ArmedInv, AllUp, CalmEnv
<1>3. Owns(Owner)
  BY <1>1 DEF Owns, Bound
<1>4. /\ tpc = "idle" /\ ~refsHeld' /\ reqRate' = Safe
      /\ rate' = IF refsHeld \/ rpm[Owner] # "suspended" THEN Safe ELSE rate
      /\ usage' = IF refsHeld THEN ReleaseAll(usage) ELSE usage
      /\ armed' \subseteq armed
      /\ UNCHANGED <<unsafe, reg, railVars, rpm, dom, sys, tgtVars>>
      /\ job' = [job EXCEPT ![Owner] = "none"]
  BY <1>2, <1>3 DEF RemoveFini, SetSafe, DisarmNotifiers
<1>5. rate' = Safe
  BY <1>4 DEF ActiveInv
<1>6. CallInv'
  BY <1>4 DEF CallInv, Calling
<1>7. BoostInv'
  BY <1>4, <1>5 DEF BoostInv
<1>8. RefsSuffice'
  <2> SUFFICES ASSUME NEW d \in Core PROVE usage'[d] >= Ref(job'[d] # "none")
    BY <1>4 DEF RefsSuffice, HeldByTarget, Ref
  <2>1. usage[d] >= Ref(job[d] # "none") + Ref(refsHeld)
    BY DEF RefsSuffice, Ref
  <2>2. Ref(job'[d] # "none") <= Ref(job[d] # "none")
    BY <1>4 DEF Ref
  <2>3. Ref(job[d] # "none") \in Nat /\ Ref(job'[d] # "none") \in Nat
    BY DEF Ref
  <2>4. CASE refsHeld
    <3>1. usage'[d] = usage[d] \/ usage'[d] = Put(usage[d])
      BY <1>4, <2>4, ReleaseCount
    <3>2. usage[d] >= Ref(job[d] # "none") + 1
      BY <2>1, <2>4 DEF Ref
    <3> QED BY <2>2, <2>3, <3>1, <3>2 DEF Put
  <2>5. CASE ~refsHeld
    <3>1. usage'[d] = usage[d] /\ usage[d] >= Ref(job[d] # "none")
      BY <1>4, <2>1, <2>3, <2>5 DEF Ref
    <3> QED BY <2>2, <2>3, <3>1
  <2> QED BY <2>4, <2>5
<1>9. ActiveInv'
  BY <1>4, <1>5 DEF ActiveInv, HeldByTarget
<1>10. ArmedInv'
  <2>1. \A c \in Core : c # Owner => life[c] \in {"up", "free"} /\ life'[c] = life[c]
    BY <1>1, OneMoves
  <2>2. ~unsafe' => \A c \in armed' : c # Owner /\ life[c] \in {"up", "disarm"}
    BY <1>1, <1>4 DEF ArmedInv
  <2>3. ~unsafe' => \A c \in armed' : life'[c] \in {"up", "disarm"}
    BY <1>4, <2>1, <2>2
  <2> QED BY <1>2, <2>1, <2>3 DEF ArmedInv
<1> QED BY <1>6, <1>7, <1>8, <1>9, <1>10

\* The steps of a core's way in and out, but for its drop.
BindStep(c) == \/ ProbeStep(c) \/ (c = Owner /\ Register)
               \/ RemoveDisarm(c) \/ RemoveFini(c) \/ Detach(c)

\* Where core 0 is about to leave only it takes a step, to disarm or to end.
LEMMA StepsOfOwner ==
    ASSUME TypeInv, AllThere, NEW c \in Core, life[c] # "up", BindStep(c)
    PROVE  c = Owner /\ (RemoveDisarm(Owner) \/ RemoveFini(Owner))
<1>1. c = Owner /\ life[c] \in {"disarm", "fini"}
  BY DEF AllThere
<1>2. ~ProbeStep(c) /\ ~Register /\ ~Detach(c)
  BY <1>1 DEF ProbeStep, ProbeAttach, ProbeClaim, ProbePm, Arm, Register, Detach, Step
<1> QED BY <1>1, <1>2 DEF BindStep

\* Every other step of binding happens where nothing is boosted.
LEMMA MissingSpeed ==
    ASSUME CalmEnv, TypeInv, SpeedInv, ~(AllThere /\ registered),
           NEW c \in Core, life[c] # "up", BindStep(c)
    PROVE  SpeedInv'
<1> USE DEF TypeInv, TypeOK, SpeedInv, dfVars, pmVars, tgtVars, BindStep
<1>1. ~Calling /\ ~refsHeld /\ reqRate = Safe /\ rate = Safe /\ ~AllUp
  BY QuietWhileMissing DEF AllUp
<1>2. Removable # {}
  BY <1>1 DEF ArmedInv
<1>3. ~refsHeld' /\ reqRate' = Safe /\ rate' = Safe
  BY <1>1 DEF ProbeStep, ProbeAttach, ProbeClaim, ProbePm, Arm, ArmNotifiers, Register,
                    RemoveDisarm, RemoveFini, Owns, Bound, DisarmNotifiers, Detach, SetSafe
<1>4. /\ UNCHANGED <<dom, sys, tgtVars>>
      /\ \A d \in Core : d # c => /\ life'[d] = life[d] /\ rpm'[d] = rpm[d]
                                 /\ job'[d] = job[d]
      /\ rpm'[c] # "suspended" => rpm[c] # "suspended" \/ dom[c] = "on"
      /\ job'[c] = job[c] \/ job'[c] = "none"
  BY DEF ProbeStep, ProbeAttach, ProbeClaim, ProbePm, Arm, ArmNotifiers, Register,
              RemoveDisarm, RemoveFini, Owns, Bound, DisarmNotifiers, Detach, Step
<1>5. usage' = usage
  BY <1>1 DEF ProbeStep, ProbeAttach, ProbeClaim, ProbePm, Arm, ArmNotifiers, Register,
              RemoveDisarm, RemoveFini, Owns, Bound, DisarmNotifiers, Detach
<1>6. \A d \in Core : d # c => life[d] \in {"up", "free"}
  <2>1. CASE ProbeAttach(c)
    BY <1>2, <2>1 DEF CalmEnv, ProbeAttach, BindingFree
  <2>2. CASE life[c] # "free"
    BY <2>2 DEF ArmedInv
  <2>3. life[c] = "free" => ProbeAttach(c)
    BY DEF ProbeStep, ProbeClaim, ProbePm, Arm, ArmNotifiers, Register,
                RemoveDisarm, RemoveFini, Owns, Bound, DisarmNotifiers, Detach, Step
  <2> QED BY <2>1, <2>2, <2>3
<1>7. life'[c] \in {"disarm", "fini"} => life[c] \in {"disarm", "fini"}
  BY DEF ProbeStep, ProbeAttach, ProbeClaim, ProbePm, Arm, ArmNotifiers, Register,
              RemoveDisarm, RemoveFini, Owns, Bound, DisarmNotifiers, Detach, Step
<1>8. CallInv'
  <2>1. Leaving' \subseteq Leaving
    BY <1>4, <1>7 DEF Leaving
  <2> QED BY <1>1, <1>4, <2>1 DEF CallInv, Calling
<1>9. BoostInv'
  BY <1>1, <1>3, <1>4 DEF BoostInv, Calling
<1>10. RefsSuffice'
  <2>1. \A d \in Core : ~HeldByTarget(d) /\ ~HeldByTarget(d)'
    BY <1>1, <1>4 DEF HeldByTarget, Calling
  <2>2. \A d \in Core : job'[d] = job[d] \/ job'[d] = "none"
    BY <1>4
  <2> QED BY <1>3, <1>5, <2>1, <2>2 DEF RefsSuffice, Ref
<1>11. ActiveInv'
  <2>1. \A d \in Core : ~HeldByTarget(d)' /\ tpc' # "wait"
    BY <1>1, <1>4 DEF HeldByTarget, Calling
  <2> QED BY <1>3, <1>4, <2>1 DEF ActiveInv
<1>12. ArmedInv'
  <2>1. ~unsafe' => ~unsafe
    BY DEF ProbeStep, ProbeAttach, ProbeClaim, ProbePm, Arm, ArmNotifiers, Register,
                RemoveDisarm, RemoveFini, Owns, Bound, DisarmNotifiers, Detach
  <2>2. ASSUME NEW d \in armed', ~unsafe' PROVE life'[d] \in {"up", "disarm"}
    <3>1. d \in armed => life[d] \in {"up", "disarm"}
      BY <2>1, <2>2 DEF ArmedInv
    <3>2. CASE Arm(c)
      <4>1. life'[c] = "up"
        BY <3>2 DEF Arm, ArmNotifiers, Step
      <4>2. d \in armed \/ d \in Bound
        BY <2>2, <3>2 DEF Arm, ArmNotifiers
      <4> QED BY <1>4, <1>6, <3>1, <4>1, <4>2 DEF Bound
    <3>3. CASE RemoveDisarm(c)
      BY <1>4, <2>2, <3>1, <3>3 DEF RemoveDisarm, Step
    <3>4. CASE ~Arm(c) /\ ~RemoveDisarm(c)
      <4>1. d \in armed
        BY <2>2, <3>4 DEF ProbeStep, ProbeAttach, ProbeClaim, ProbePm,
            Register, RemoveFini, Owns, Bound, DisarmNotifiers, Detach
      <4>2. life[c] # "disarm"
        BY <3>4 DEF ProbeStep, ProbeAttach, ProbeClaim, ProbePm,
            Register, RemoveFini, Owns, Bound, DisarmNotifiers, Detach, Step
      <4> QED BY <1>4, <3>1, <4>1, <4>2
    <3> QED BY <3>2, <3>3, <3>4
  <2> QED BY <1>2, <1>4, <1>6, <2>2 DEF ArmedInv
<1> QED BY <1>8, <1>9, <1>10, <1>11, <1>12

LEMMA BindSteps ==
    ASSUME Register \/ \E c \in Core : ProbeStep(c) \/ RemoveStep(c)
    PROVE  \E c \in Core : RemoveDrop(c) \/ (BindStep(c) /\ life[c] # "up")
<1>1. Register => Owner \in Core /\ life[Owner] # "up"
  BY OwnerIsCore DEF Register, Step
<1>2. ASSUME NEW c \in Core, ProbeStep(c) \/ RemoveDisarm(c) \/ RemoveFini(c) \/ Detach(c)
      PROVE  life[c] # "up"
  BY <1>2 DEF ProbeStep, ProbeAttach, ProbeClaim, ProbePm, Arm, RemoveDisarm, RemoveFini,
              Detach, Step
<1> QED BY <1>1, <1>2 DEF RemoveStep, BindStep

LEMMA BindSpeed ==
    ASSUME CalmEnv, TypeInv, SpeedInv,
           Register \/ \E c \in Core : ProbeStep(c) \/ RemoveStep(c)
    PROVE  SpeedInv'
<1>1. PICK c \in Core : RemoveDrop(c) \/ (BindStep(c) /\ life[c] # "up")
  BY BindSteps
<1>2. CASE RemoveDrop(c)
  BY <1>2, DropSpeed
<1>3. CASE BindStep(c) /\ life[c] # "up" /\ ~(AllThere /\ registered)
  BY <1>3, MissingSpeed
<1>4. CASE BindStep(c) /\ life[c] # "up" /\ AllThere /\ registered
  <2>1. RemoveDisarm(Owner) \/ RemoveFini(Owner)
    BY <1>4, StepsOfOwner
  <2> QED BY <1>4, <2>1, DisarmSpeed, FiniSpeed
<1> QED BY <1>1, <1>2, <1>3, <1>4

LEMMA SpeedStep == CalmEnv /\ TypeInv /\ SpeedInv /\ [Next]_vars => SpeedInv'
<1> SUFFICES ASSUME CalmEnv, TypeInv, SpeedInv, [Next]_vars PROVE SpeedInv'
  OBVIOUS
<1> USE DEF SpeedInv
<1>1. CASE TargetStep \/ \E f \in Rates : TargetCall(f)
  BY <1>1, TargetSpeed
<1>2. ASSUME NEW c \in Core, JobStep(c) \/ PmStep(c) \/ SleepStep(c) PROVE SpeedInv'
  BY <1>2, CoreSpeed
<1>3. ASSUME NEW c \in Core, DomStep(c) PROVE SpeedInv'
  BY <1>3, DomSpeed
<1>4. CASE Register \/ \E c \in Core : ProbeStep(c) \/ RemoveStep(c)
  BY <1>4, BindSpeed
<1>5. CASE SleepAll \/ (\E v \in Volts : RailMove(v)) \/ UNCHANGED vars
  <2>1. UNCHANGED <<rate, dfVars, pmVars, dom, tgtVars>>
    BY <1>5 DEF SleepAll, SleepStart, SleepDown, SleepUp, SleepThaw, SleepEnd,
                SleepPhase, RailMove, vars
  <2>2. tpc # "idle" => sys' = sys
    BY <1>5 DEF SleepAll, SleepStart, SleepDown, SleepUp, SleepThaw, SleepEnd,
                SleepPhase, RailMove, vars, CallInv
  <2> USE <2>1 DEF dfVars, pmVars, tgtVars
  <2>3. CallInv'
    BY <2>2 DEF CallInv, Calling, AllThere, Leaving
  <2>4. BoostInv'
    BY DEF BoostInv, AllThere
  <2>5. RefsSuffice'
    BY DEF RefsSuffice, HeldByTarget
  <2>6. ActiveInv'
    BY DEF ActiveInv, HeldByTarget
  <2>7. ArmedInv'
    BY DEF ArmedInv, AllUp
  <2> QED BY <2>3, <2>4, <2>5, <2>6, <2>7
<1>6. ASSUME NEW r \in Foreign PROVE FALSE
  BY <1>6 DEF CalmEnv
<1>7. CASE Shutdown
  <2>1. rate' \in {rate, Safe} /\ UNCHANGED <<dfVars, pmVars, dom, sys, tgtVars>>
    BY <1>7 DEF Shutdown, ShutdownHook, SetSafe
  <2> USE <2>1 DEF dfVars, pmVars, tgtVars
  <2>2. CallInv'
    BY DEF CallInv, Calling, AllThere, Leaving
  <2>3. BoostInv'
    BY DEF BoostInv, AllThere
  <2>4. RefsSuffice'
    BY DEF RefsSuffice, HeldByTarget
  <2>5. ActiveInv'
    BY DEF ActiveInv, HeldByTarget
  <2>6. ArmedInv'
    BY DEF ArmedInv, AllUp
  <2> QED BY <2>2, <2>3, <2>4, <2>5, <2>6
<1> QED BY <1>1, <1>2, <1>3, <1>4, <1>5, <1>6, <1>7 DEF Next

LEMMA SpeedAlways == CalmEnv => (Spec => [](TypeInv /\ SpeedInv))
<1> SUFFICES ASSUME CalmEnv PROVE Spec => [](TypeInv /\ SpeedInv)
  OBVIOUS
<1>1. TypeInv /\ SpeedInv /\ [Next]_vars => TypeInv' /\ SpeedInv'
  BY TypeStep, SpeedStep
<1> QED BY <1>1, TypeInit, SpeedInit, PTL DEF Spec

----------------------------------------------------------------------------
(* What target holds when cores stay bound.  This does not need the clock  *)
(* to be ours alone.                                                       *)

\* Cores stay bound; nothing else is assumed unless a theorem says so.
Fixed == Removable = {}

AnyStep(c) == JobStep(c) \/ PmStep(c) \/ DomStep(c) \/ SleepStep(c)

\* With cores that stay bound nothing is probed or removed.
LEMMA FixedSteps ==
    ASSUME Fixed, TypeInv, AllUp, registered, [Next]_vars
    PROVE  \/ \E f \in Rates : TargetCall(f)
           \/ TargetStep
           \/ \E c \in Core : AnyStep(c)
           \/ SleepAll \/ Shutdown
           \/ \E r \in Foreign : ForeignSet(r)
           \/ \E v \in Volts : RailMove(v)
           \/ UNCHANGED vars
<1>1. ASSUME NEW c \in Core PROVE ~ProbeStep(c) /\ ~RemoveStep(c)
  BY DEF AllUp, Fixed, ProbeStep, ProbeAttach, ProbeClaim, ProbePm, Arm, RemoveStep,
         RemoveDrop, RemoveDisarm, RemoveFini, Detach, Step
<1>2. ~Register
  BY DEF Register
<1> QED BY <1>1, <1>2 DEF Next, AnyStep

LEMMA HeldInit == Init => HeldInv
  BY DEF Init, HeldInv, AllUp, RefsSuffice, HeldByTarget, Ref

LEMMA HeldTarget ==
    ASSUME Fixed, TypeInv, HeldInv, TargetStep \/ \E f \in Rates : TargetCall(f)
    PROVE  HeldInv'
<1> USE DEF TypeInv, TypeOK, dfVars, pmVars, tgtVars
<1>0. /\ UNCHANGED <<life, registered, sys, rpm, dom, job>>
      /\ Bound = Core /\ PmOn = Core
      /\ tpc' # "idle" => sys = "awake"
  BY DEF HeldInv, AllUp, Bound, PmOn, TargetStep, TargetCall, TargetCheck, TargetHold,
         TargetHeld, TargetHoldFails, TargetPublish, TargetWrite, TargetBook, TargetReturn
<1>1. AllUp' /\ registered' /\ (tpc' # "idle" => sys' = "awake")
  BY <1>0 DEF HeldInv, AllUp
<1>2. \A c \in Core : rpm'[c] # "suspended" => dom'[c] = "on"
  BY <1>0 DEF HeldInv
<1>3. \A c \in Core : HeldByTarget(c)' /\ (tpc' # "wait" \/ c < tidx') => rpm'[c] = "active"
  BY <1>0, CoresAssumption
  DEF HeldInv, HeldByTarget, Core, TargetStep, TargetCall, TargetCheck, TargetHold,
      TargetHeld, TargetHoldFails, TargetPublish, TargetWrite, TargetBook, TargetReturn
<1>4. RefsSuffice'
  <2> SUFFICES ASSUME NEW c \in Core
               PROVE usage'[c] >= Ref(job'[c] # "none") + Ref(refsHeld') + Ref(HeldByTarget(c)')
    BY DEF RefsSuffice, HeldByTarget
  <2>1. usage[c] >= Ref(job[c] # "none") + Ref(refsHeld) + Ref(HeldByTarget(c))
    BY DEF HeldInv, RefsSuffice
  <2>2. CASE (\E f \in Rates : TargetCall(f)) \/ TargetCheck \/ TargetPublish \/ TargetWrite
    <3>1. UNCHANGED <<usage, job, refsHeld>>
      BY <2>2 DEF TargetCall, TargetCheck, TargetPublish, TargetWrite
    <3>2. HeldByTarget(c)' => HeldByTarget(c)
      BY <2>2, CoresAssumption DEF HeldByTarget, TargetCall, TargetCheck, TargetPublish, TargetWrite,
                      TargetReturn, Core
    <3> QED BY <2>1, <3>1, <3>2 DEF Ref
  <2>3. CASE TargetHold
    <3>1. job' = job /\ refsHeld' = refsHeld
      BY <2>3 DEF TargetHold
    <3>2. CASE HeldByTarget(c)' <=> HeldByTarget(c)
      BY <2>1, <2>3, <3>1, <3>2 DEF TargetHold, Ref
    <3>3. CASE ~(HeldByTarget(c)' <=> HeldByTarget(c))
      <4>1. ~HeldByTarget(c) /\ usage'[c] = usage[c] + 1
        BY <2>3, <1>0, <3>3, CoresAssumption DEF HeldByTarget, TargetHold, Core
      <4> QED BY <2>1, <3>1, <4>1 DEF Ref
    <3> QED BY <3>2, <3>3
  <2>4. CASE TargetHeld
    <3>1. UNCHANGED <<usage, job, refsHeld>>
      BY <2>4 DEF TargetHeld
    <3>2. HeldByTarget(c)' <=> HeldByTarget(c)
      BY <2>4, CoresAssumption DEF HeldByTarget, TargetHeld, Core
    <3> QED BY <2>1, <3>1, <3>2 DEF Ref
  <2>5. CASE TargetHoldFails
    <3>1. usage'[c] = IF c <= tidx THEN Put(usage[c]) ELSE usage[c]
      BY <2>5, <1>0, CoresAssumption DEF TargetHoldFails, PutAll, Core
    <3> QED BY <2>1, <2>5, <3>1, <1>0 DEF HeldByTarget, Ref, Put, TargetHoldFails, TargetReturn, Core
  <2>6. CASE TargetBook
    <3>1. BookedUsage[c] = IF Boosting
                           THEN IF refsHeld THEN Put(usage[c]) ELSE usage[c]
                           ELSE IF refsHeld THEN Put(Put(usage[c])) ELSE Put(usage[c])
      BY <1>0 DEF BookedUsage, ReleaseAll, PutAll
    <3>2. HeldByTarget(c) /\ ~HeldByTarget(c)' /\ refsHeld' = Boosting
      BY <2>6 DEF HeldByTarget, TargetBook, TargetReturn
    <3>3. usage'[c] = BookedUsage[c] /\ job' = job
      BY <2>6 DEF TargetBook
    <3>4. Boosting \in BOOLEAN /\ usage[c] \in Nat
      BY DEF Boosting
    <3> QED BY <2>1, <3>1, <3>2, <3>3, <3>4 DEF Ref, Put
  <2> QED BY <2>2, <2>3, <2>4, <2>5, <2>6 DEF TargetStep
<1> QED BY <1>1, <1>2, <1>3, <1>4 DEF HeldInv

LEMMA HeldCore ==
    ASSUME Fixed, TypeInv, HeldInv, NEW c \in Core, AnyStep(c)
    PROVE  HeldInv'
<1> USE DEF TypeInv, TypeOK, dfVars, pmVars, tgtVars
<1>1. UNCHANGED <<life, registered, refsHeld, tgtVars>> /\ (tpc # "idle" => sys' = sys)
  BY DEF HeldInv, AnyStep, JobStep, JobStart, JobRun, JobFails, JobEnd, PmStep, Resume, SuspendStart,
         SuspendFinish, DomStep, PreOn, PreOff, Switch, SleepStep, ForceSuspend, ForceResume
<1>2. AllUp' /\ registered' /\ (tpc' # "idle" => sys' = "awake")
  BY <1>1 DEF HeldInv, AllUp
<1>3. RefsSuffice'
  <2> SUFFICES ASSUME NEW d \in Core
               PROVE usage'[d] >= Ref(job'[d] # "none") + Ref(refsHeld) + Ref(HeldByTarget(d))
    BY <1>1 DEF RefsSuffice, HeldByTarget
  <2>1. usage[d] >= Ref(job[d] # "none") + Ref(refsHeld) + Ref(HeldByTarget(d))
    BY DEF HeldInv, RefsSuffice
  <2>2. CASE JobStart(c)
    BY <2>1, <2>2 DEF JobStart, Ref
  <2>3. CASE JobRun(c) \/ JobFails(c)
    BY <2>1, <2>3 DEF JobRun, JobFails, Ref
  <2>4. CASE JobEnd(c)
    BY <2>1, <2>4 DEF JobEnd, Put, Ref
  <2>5. CASE PmStep(c) \/ DomStep(c) \/ SleepStep(c)
    BY <2>1, <2>5 DEF PmStep, Resume, SuspendStart, SuspendFinish, DomStep, PreOn, PreOff, Switch,
                      SleepStep, ForceSuspend, ForceResume
  <2> QED BY <2>2, <2>3, <2>4, <2>5 DEF AnyStep, JobStep
<1>4. ASSUME NEW d \in Core, HeldByTarget(d), tpc # "wait" \/ d < tidx
      PROVE  rpm'[d] = "active"
  <2>1. rpm[d] = "active" /\ usage[d] > 0 /\ sys = "awake"
    BY <1>4 DEF HeldInv, RefsSuffice, Ref, HeldByTarget
  <2> QED BY <2>1 DEF AnyStep, JobStep, JobStart, JobRun, JobFails, JobEnd, PmStep, Resume,
                      SuspendStart, SuspendFinish, DomStep, PreOn, PreOff, Switch, SleepStep,
                      ForceSuspend, ForceResume
<1>5. ASSUME NEW d \in Core, rpm'[d] # "suspended" PROVE dom'[d] = "on"
  <2>1. rpm[d] # "suspended" => dom[d] = "on"
    BY DEF HeldInv
  <2>2. CASE JobStep(c)
    BY <1>5, <2>1, <2>2 DEF JobStep, JobStart, JobRun, JobFails, JobEnd
  <2>3. CASE PmStep(c) \/ SleepStep(c)
    BY <1>5, <2>1, <2>3 DEF PmStep, Resume, SuspendStart, SuspendFinish, SleepStep,
                            ForceSuspend, ForceResume
  <2>4. CASE DomStep(c)
    BY <1>5, <2>1, <2>4 DEF DomStep, PreOn, PreOff, Switch, MayGoOn, MayGoOff, Notify
  <2> QED BY <2>2, <2>3, <2>4 DEF AnyStep
<1> QED BY <1>1, <1>2, <1>3, <1>4, <1>5 DEF HeldInv, HeldByTarget

LEMMA HeldStep == Fixed /\ TypeInv /\ HeldInv /\ [Next]_vars => HeldInv'
<1> SUFFICES ASSUME Fixed, TypeInv, HeldInv, [Next]_vars PROVE HeldInv'
  OBVIOUS
<1>1. ASSUME \/ SleepAll \/ Shutdown \/ (\E r \in Foreign : ForeignSet(r))
             \/ (\E v \in Volts : RailMove(v)) \/ UNCHANGED vars
      PROVE  HeldInv'
  <2>1. UNCHANGED <<dfVars, pmVars, dom, tgtVars>> /\ (tpc # "idle" => sys' = sys)
    BY <1>1 DEF SleepAll, SleepStart, SleepDown, SleepUp, SleepThaw, SleepEnd, SleepPhase,
                Shutdown, ForeignSet, RailMove, vars, HeldInv
  <2> QED BY <2>1 DEF HeldInv, AllUp, RefsSuffice, HeldByTarget, dfVars, pmVars, tgtVars
<1>2. AllUp /\ registered
  BY DEF HeldInv
<1> QED BY <1>1, <1>2, FixedSteps, HeldTarget, HeldCore

LEMMA HeldAlways == Fixed => (Spec => [](TypeInv /\ HeldInv))
<1> SUFFICES ASSUME Fixed PROVE Spec => [](TypeInv /\ HeldInv)
  OBVIOUS
<1>1. TypeInv /\ HeldInv /\ [Next]_vars => TypeInv' /\ HeldInv'
  BY TypeStep, HeldStep
<1> QED BY <1>1, TypeInit, HeldInit, PTL DEF Spec

----------------------------------------------------------------------------
(* The refinement: rate and dom alone behave as ClockGate allows.  From    *)
(* here on it does not matter which environment gave GateInv.              *)

\* The clock is written with every domain on, no domain is switched at speed,
\* and none can begin to switch at speed unless its notifier acts.
GateInv ==
    /\ tpc = "write" => \A c \in Core : dom[c] = "on"
    /\ NoSwitchAtSpeed
    /\ \A c \in Core : MayGoOn(c) \/ MayGoOff(c) => rate = Safe \/ Guarded(c)

LEMMA SpeedGate == TypeInv /\ SpeedInv => GateInv
<1> SUFFICES ASSUME TypeInv, SpeedInv PROVE GateInv
  OBVIOUS
<1> USE DEF TypeInv, TypeOK, SpeedInv
<1>1. tpc = "write" => \A c \in Core : dom[c] = "on"
  BY DEF ActiveInv, HeldByTarget
<1>2. NoSwitchAtSpeed
  BY DEF ActiveInv, NoSwitchAtSpeed
<1>3. \A c \in Core : MayGoOn(c) \/ MayGoOff(c) => rate = Safe
  BY DEF ActiveInv, MayGoOn, MayGoOff
<1> QED BY <1>1, <1>2, <1>3 DEF GateInv

LEMMA GuardGate == TypeInv /\ HeldInv /\ GuardInv => GateInv
<1> SUFFICES ASSUME TypeInv, HeldInv, GuardInv PROVE GateInv
  OBVIOUS
<1>1. tpc = "write" => \A c \in Core : dom[c] = "on"
  BY DEF HeldInv, HeldByTarget
<1>2. \A c \in Core : Guarded(c)
  BY DEF HeldInv, GuardInv, AllUp, Guarded, Bound
<1> QED BY <1>1, <1>2 DEF GateInv, GuardInv

LEMMA GateStep ==
    TypeInv /\ GateInv /\ [Next]_vars => [Gate!Next]_<<rate, dom>>
<1> SUFFICES ASSUME TypeInv, GateInv, [Next]_vars, rate' # rate \/ dom' # dom
             PROVE  Gate!Next
  BY DEF Gate!Next
<1> USE DEF TypeInv, TypeOK
<1>1. CASE TargetWrite
  <2>1. rate' \in Rates \cup Rounded \cup Foreign /\ UNCHANGED dom
    BY <1>1 DEF TargetWrite, Settles
  <2>2. \A c \in Core : dom[c] = "on"
    BY <1>1 DEF TargetWrite, GateInv
  <2> QED BY <2>1, <2>2 DEF Gate!Next, Gate!Raise
<1>2. ASSUME NEW c \in Core, SuspendFinish(c) \/ ForceSuspend(c)
             \/ RemoveDrop(c) \/ RemoveFini(c)
      PROVE  Gate!Next
  <2>1. rate' \in {rate, Safe} /\ UNCHANGED dom
    BY <1>2 DEF SuspendFinish, ForceSuspend, SuspendHook, RemoveDrop, RemoveFini, Owns, Bound, DisarmNotifiers,
                SetSafe
  <2> QED BY <2>1 DEF Gate!Next, Gate!Lower
<1>3. ASSUME NEW c \in Core, PreOn(c) \/ PreOff(c) PROVE Gate!Next
  <2>1. rate = Safe \/ Guarded(c)
    BY <1>3 DEF PreOn, PreOff, GateInv
  <2>2. /\ rate' = Safe
        /\ \/ dom[c] = "off" /\ dom' = [dom EXCEPT ![c] = "pre_on"]
           \/ dom[c] = "on" /\ dom' = [dom EXCEPT ![c] = "pre_off"]
    BY <1>3, <2>1 DEF PreOn, PreOff, MayGoOn, MayGoOff, Notify
  <2> QED BY <2>2 DEF Gate!Next, Gate!Begin
<1>4. ASSUME NEW c \in Core, Switch(c) PROVE Gate!Next
  <2>1. rate = Safe /\ rate' = rate
    BY <1>4 DEF Switch, GateInv, NoSwitchAtSpeed
  <2>2. \/ dom[c] = "pre_on" /\ dom' = [dom EXCEPT ![c] = "on"]
        \/ dom[c] = "pre_off" /\ dom' = [dom EXCEPT ![c] = "off"]
    BY <1>4 DEF Switch
  <2> QED BY <2>1, <2>2 DEF Gate!Next, Gate!Finish
<1>6. CASE Shutdown
  BY <1>6 DEF Shutdown, ShutdownHook, SetSafe, Gate!Next, Gate!Lower
<1>7. ASSUME NEW r \in Foreign, ForeignSet(r) PROVE Gate!Next
  BY <1>7 DEF ForeignSet, Gate!Next, Gate!Raise
<1>5. \/ TargetWrite \/ Shutdown \/ (\E r \in Foreign : ForeignSet(r))
      \/ \E c \in Core : \/ SuspendFinish(c) \/ ForceSuspend(c)
                         \/ RemoveDrop(c) \/ RemoveFini(c)
                         \/ PreOn(c) \/ PreOff(c) \/ Switch(c)
  <2>1. UNCHANGED vars => UNCHANGED <<rate, dom>>
    BY DEF vars
  <2>2. (\E f \in Rates : TargetCall(f)) \/ (TargetStep /\ ~TargetWrite) \/ Register
          => UNCHANGED <<rate, dom>>
    BY DEF TargetCall, TargetStep, TargetCheck, TargetHold, TargetHeld,
           TargetHoldFails, TargetPublish, TargetBook, Register
  <2>3. ASSUME NEW c \in Core
        PROVE  (\/ JobStep(c) \/ Resume(c) \/ SuspendStart(c) \/ ProbeStep(c)
                \/ RemoveDisarm(c) \/ Detach(c) \/ ForceResume(c))
                  => UNCHANGED <<rate, dom>>
    BY DEF JobStep, JobStart, JobRun, JobFails, JobEnd, Resume, SuspendStart,
           ProbeStep, ProbeAttach, ProbeClaim, ProbePm, Arm, ArmNotifiers, RemoveDisarm, Detach,
           ForceResume
  <2>4. SleepAll \/ (\E v \in Volts : RailMove(v)) => UNCHANGED <<rate, dom>>
    BY DEF SleepAll, SleepStart, SleepDown, SleepUp, SleepThaw, SleepEnd,
           SleepPhase, RailMove
  <2> QED BY <2>1, <2>2, <2>3, <2>4
          DEF Next, PmStep, DomStep, RemoveStep, SleepStep
<1> QED BY <1>1, <1>2, <1>3, <1>4, <1>5, <1>6, <1>7

\* ClockGate by itself keeps every domain on while the clock is raised, and so
\* switches none.
LEMMA GateKeeps ==
    ASSUME Gate!AllOnAtSpeed, [Gate!Next]_<<rate, dom>>
    PROVE  Gate!AllOnAtSpeed'
  BY DEF Gate!AllOnAtSpeed, Gate!Next, Gate!Raise, Gate!Lower, Gate!Begin, Gate!Finish

LEMMA GuardInit == Init => GuardInv
  BY DEF Init, GuardInv, NoSwitchAtSpeed

\* With cores that stay bound every domain keeps its notifier for ever.
LEMMA GuardStep == Fixed /\ TypeInv /\ HeldInv /\ GuardInv /\ [Next]_vars => GuardInv'
<1> SUFFICES ASSUME Fixed, TypeInv, HeldInv, GuardInv, [Next]_vars PROVE GuardInv'
  OBVIOUS
<1>1. UNCHANGED <<armed, unsafe>>
  <2>1. AllUp /\ registered
    BY DEF HeldInv
  <2>2. CASE TargetStep \/ \E f \in Rates : TargetCall(f)
    BY <2>2 DEF TargetStep, TargetCall, TargetCheck, TargetHold, TargetHeld, TargetHoldFails,
                TargetPublish, TargetWrite, TargetBook, dfVars
  <2>3. ASSUME NEW c \in Core, AnyStep(c) PROVE UNCHANGED <<armed, unsafe>>
    BY <2>3 DEF AnyStep, JobStep, JobStart, JobRun, JobFails, JobEnd, PmStep, Resume, SuspendStart,
                SuspendFinish, DomStep, PreOn, PreOff, Switch, SleepStep, ForceSuspend,
                ForceResume, dfVars
  <2>4. CASE \/ SleepAll \/ Shutdown \/ (\E r \in Foreign : ForeignSet(r))
             \/ (\E v \in Volts : RailMove(v)) \/ UNCHANGED vars
    BY <2>4 DEF SleepAll, SleepStart, SleepDown, SleepUp, SleepThaw, SleepEnd, SleepPhase,
                Shutdown, ForeignSet, RailMove, vars, dfVars
  <2> QED BY <2>1, <2>2, <2>3, <2>4, FixedSteps
<1>2. [Gate!Next]_<<rate, dom>>
  BY GuardGate, GateStep
<1>3. NoSwitchAtSpeed'
  <2> SUFFICES ASSUME rate' # rate \/ dom' # dom PROVE NoSwitchAtSpeed'
    BY DEF GuardInv, NoSwitchAtSpeed
  <2> QED BY <1>2 DEF Gate!Next, Gate!Raise, Gate!Lower, Gate!Begin, Gate!Finish,
                      GuardInv, NoSwitchAtSpeed
<1> QED BY <1>1, <1>3 DEF GuardInv

LEMMA GuardAlways == Fixed => (Spec => [](TypeInv /\ HeldInv /\ GuardInv))
<1> SUFFICES ASSUME Fixed PROVE Spec => [](TypeInv /\ HeldInv /\ GuardInv)
  OBVIOUS
<1>1. TypeInv /\ HeldInv /\ GuardInv /\ [Next]_vars => TypeInv' /\ HeldInv' /\ GuardInv'
  BY TypeStep, HeldStep, GuardStep
<1> QED BY <1>1, TypeInit, HeldInit, GuardInit, PTL DEF Spec

LEMMA GateAlways == KeptEnv => (Spec => [](TypeInv /\ GateInv))
<1>1. ASSUME CalmEnv PROVE Spec => [](TypeInv /\ GateInv)
  BY <1>1, SpeedAlways, SpeedGate, PTL
<1>2. ASSUME Fixed PROVE Spec => [](TypeInv /\ GateInv)
  BY <1>2, GuardAlways, GuardGate, PTL
<1> QED BY <1>1, <1>2 DEF KeptEnv, Fixed

\* The hardware rule, for any number of cores and any table of rates: no power
\* domain is ever switched while the NPU clock is raised (rocket_devfreq.c:3-24),
\* whether by runtime PM, system sleep, probe or remove, and whichever resume,
\* clock or notifier call fails.  With cores that stay bound other modules may
\* raise the clock; with cores that come and go rates may be requested even as
\* core 0 leaves.
THEOREM ClockSafe == KeptEnv => (Spec => []NoSwitchAtSpeed)
<1> SUFFICES ASSUME KeptEnv PROVE Spec => []NoSwitchAtSpeed
  OBVIOUS
<1>1. GateInv => NoSwitchAtSpeed
  BY DEF GateInv
<1> QED BY <1>1, GateAlways, PTL

\* The devfreq layer implements the promise of ClockGate: the clock rises only
\* with every domain on, and every switch happens at the boot rate.
THEOREM ImplementsGate == KeptEnv => (Spec => GateSpec)
<1> SUFFICES ASSUME KeptEnv PROVE Spec => GateSpec
  OBVIOUS
<1>1. Init => Gate!Init
  BY DEF Init, Gate!Init
<1>2. TypeInv /\ GateInv /\ [Next]_vars => [Gate!Next]_<<rate, dom>>
  BY GateStep
<1>3. Spec => [](TypeInv /\ GateInv)
  BY GateAlways
<1> QED BY <1>1, <1>2, <1>3, PTL DEF Spec, GateSpec, Gate!Spec

\* While the clock is raised every domain is on and stays on: "there is no
\* transition and so no chance of the failure" (rocket_devfreq.c:21-22).
THEOREM AllOnWhileRaised == KeptEnv => (Spec => []Gate!AllOnAtSpeed)
<1> SUFFICES ASSUME KeptEnv PROVE Spec => []Gate!AllOnAtSpeed
  OBVIOUS
<1>1. Gate!Init => Gate!AllOnAtSpeed
  BY DEF Gate!Init, Gate!AllOnAtSpeed
<1>2. Gate!AllOnAtSpeed /\ [Gate!Next]_<<rate, dom>> => Gate!AllOnAtSpeed'
  BY GateKeeps
<1> QED BY <1>1, <1>2, ImplementsGate, PTL DEF GateSpec, Gate!Spec
=============================================================================
