--------------------------- MODULE RocketDevfreq ---------------------------
(***************************************************************************)
(* The devfreq part of the rocket NPU driver (npu/driver/rocket_devfreq.c) *)
(* together with the callers that reach it: probe and remove of a core     *)
(* (rocket_drv.c), runtime PM and system sleep, the jobs that keep a core  *)
(* awake (rocket_job.c), and the power domains the kernel switches.        *)
(*                                                                         *)
(* The hardware rule everything serves: no NPU power domain may be         *)
(* switched on or off while the shared compute clock is above its boot     *)
(* rate (rocket_devfreq.c:3-20).                                           *)
(*                                                                         *)
(* A definition whose name ends in _Something is a mutant of the one that  *)
(* follows it: the mistake the property named in PROJECT.json catches.     *)
(*                                                                         *)
(* Cores are the slots of rocket_device.cores.  Slot 0 carries the devfreq *)
(* device; Top is the slot whose device sits in the parent domain.         *)
(***************************************************************************)
EXTENDS Integers, FiniteSets

CONSTANTS
    MaxCores,      \* rdev->max_cores
    Top,           \* the slot in the parent power domain (nputop)
    Safe,          \* ROCKET_SAFE_RATE
    High,          \* ROCKET_HIGH_RATE: above it more voltage is needed
    VoltForHigh,   \* ROCKET_VOLT_FOR_HIGH
    Rates,         \* the OPP table
    Volts,         \* the levels the NPU rail may have
    Rounded,       \* rates the clock may settle on when asked for a raised one
    Foreign,       \* rates another module may set behind the driver's back
    Removable,     \* slots whose device may be unbound and bound again
    Events,        \* the failures and outside events that may happen
    MaxUsage       \* bound on the usage count of a core that leaks references

Core  == 0 .. MaxCores - 1
Owner == 0         \* only slot 0 calls rocket_devfreq_init (rocket_drv.c:222)

EventKinds == {"sleep", "clk_fail", "resume_fail", "notifier_fail",
               "init_fail", "shutdown", "call_in_remove",
               "call_in_owner_remove"}

MaxNb == 4         \* ROCKET_DF_MAX_NB

ASSUME CoresAssumption == /\ MaxCores \in Nat \ {0} /\ MaxCores <= MaxNb
                          /\ Top \in Core
ASSUME RatesAssumption == /\ Rates \subseteq Nat /\ Rounded \subseteq Nat
                          /\ Foreign \subseteq Nat
                          /\ Safe \in Rates /\ High \in Nat /\ Safe <= High
                          /\ \A r \in Rates : Safe <= r
ASSUME VoltsAssumption == /\ Volts \subseteq Nat /\ Volts # {}
                          /\ VoltForHigh \in Nat
ASSUME EnvAssumption   == /\ Removable \subseteq Core
                          /\ Events \subseteq EventKinds /\ MaxUsage \in Nat

VARIABLES
    rate,          \* what clk_get_rate reads from the shared NPU clock
    registered,    \* rocket_df.core # NULL
    reqRate,       \* rocket_df.req_rate
    refsHeld,      \* rocket_df.refs_held
    unsafe,        \* rocket_df.unsafe
    reg,           \* rocket_df.reg # NULL
    armed,         \* slots whose rocket_df_nb[i].armed is set
    rail,          \* voltage of the NPU rail
    lowered,       \* history: the rail went below VoltForHigh after target had
                   \*   last read it and let a rate above High through
    life,          \* per slot: where its device is between probe and remove
    rpm,           \* per slot: runtime PM status of its device
    usage,         \* per slot: runtime PM usage count of its device
    job,           \* per slot: the job of its scheduler (credit limit 1)
    dom,           \* per slot: state of the power domain of its device
    sys,           \* phase of system sleep
    tpc,           \* where rocket_devfreq_target is; it holds rocket_df.lock
                   \*   at every value but "idle"
    tfreq,         \* the rate target was asked for
    tidx,          \* the cursor i of hold_all
    told,          \* the request to come back to if the clock write fails
    tret           \* the last value target returned

dfVars  == <<registered, reqRate, refsHeld, unsafe, reg, armed>>
railVars == <<rail, lowered>>
pmVars  == <<life, rpm, usage, job>>
tgtVars == <<tpc, tfreq, tidx, told, tret>>
vars    == <<rate, dfVars, railVars, pmVars, dom, sys, tgtVars>>

LifeStates == {"free", "attach", "probe", "pm", "arm", "up",
               "disarm", "fini", "detach"}

Bound   == {c \in Core : life[c] \notin {"free", "attach", "detach"}}
PmOn    == {c \in Core : life[c] \in {"pm", "arm", "up", "disarm", "fini"}}

\* rocket_df_all_guarded
AllGuarded == Cardinality(armed) = MaxCores

\* rocket_devfreq_owns
Owns(c) == registered /\ c \in Bound

\* The notifier of a slot acts only while its block is in the domain's chain
\* and neither its core nor the owner is gone (rocket_devfreq.c:563).
Guarded_IfBoosted(c) == c \in armed /\ c \in Bound /\ registered /\ reqRate # Safe
Guarded(c) == c \in armed /\ c \in Bound /\ registered

\* pm_runtime_put; the PM core refuses to count below zero.
Put(u) == IF u = 0 THEN 0 ELSE u - 1
PutAll(u, S) == [c \in Core |-> IF c \in S THEN Put(u[c]) ELSE u[c]]
\* rocket_devfreq_release_all
ReleaseAll(u) == PutAll(u, Bound)

\* clk_set_rate(SAFE) by a caller that carries on if it fails.
SetSafe == \/ rate' = Safe
           \/ "clk_fail" \in Events /\ rate' = rate

----------------------------------------------------------------------------
(* The state after a complete probe of all cores on an idle machine.       *)

Init ==
    /\ rate = Safe
    /\ registered = TRUE /\ reqRate = Safe /\ refsHeld = FALSE
    /\ unsafe = FALSE /\ reg \in BOOLEAN
    /\ armed = Core
    /\ rail \in Volts /\ lowered = FALSE
    /\ life  = [c \in Core |-> "up"]
    /\ rpm   = [c \in Core |-> "suspended"]
    /\ usage = [c \in Core |-> 0]
    /\ job   = [c \in Core |-> "none"]
    /\ dom   = [c \in Core |-> "off"]
    /\ sys = "awake"
    /\ tpc = "idle" /\ tfreq = Safe /\ tidx = 0 /\ told = Safe /\ tret = "ok"

----------------------------------------------------------------------------
(* rocket_devfreq_target, from devfreq under rocket_df.lock.               *)

\* A slot whose core has dropped the boost but is not gone yet.
Leaving == {c \in Core : life[c] \in {"disarm", "fini"}}

\* The cores during whose departure somebody may ask for a rate.
Disturbed == IF "call_in_remove" \in Events THEN Core
             ELSE IF "call_in_owner_remove" \in Events THEN {Owner} ELSE {}

TargetCall(f) ==
    /\ tpc = "idle" /\ sys = "awake" /\ Leaving \subseteq Disturbed
    /\ tpc' = "check" /\ tfreq' = f
    /\ UNCHANGED <<rate, dfVars, railVars, pmVars, dom, sys, tidx, told, tret>>

TargetReturn(ret) ==
    /\ tpc' = "idle" /\ tret' = ret
    /\ UNCHANGED <<tfreq, tidx, told>>

\* The early exit: nothing to do, and the clock itself says so.
AlreadyThere == /\ tfreq = reqRate
                /\ tfreq = Safe \/ ~unsafe
                /\ rate = tfreq

BoostRefused_AnyArmed == tfreq > Safe /\ (unsafe \/ armed = {})
BoostRefused_NoLatch  == tfreq > Safe /\ ~AllGuarded
BoostRefused == tfreq > Safe /\ (unsafe \/ ~AllGuarded)

VoltRefused_FailsOpen == tfreq > High /\ reg /\ rail < VoltForHigh
VoltRefused  == tfreq > High /\ (~reg \/ rail < VoltForHigh)

TargetCheck ==
    /\ tpc = "check"
    /\ \/ ~registered /\ TargetReturn("ENODEV")
       \/ registered /\ AlreadyThere /\ TargetReturn("ok")
       \/ registered /\ ~AlreadyThere /\ BoostRefused /\ TargetReturn("EAGAIN")
       \/ /\ registered /\ ~AlreadyThere /\ ~BoostRefused /\ VoltRefused
          /\ TargetReturn("EPERM")
       \/ /\ registered /\ ~AlreadyThere /\ ~BoostRefused /\ ~VoltRefused
          /\ tpc' = "hold" /\ tidx' = 0
          /\ UNCHANGED <<tfreq, told, tret>>
    /\ lowered' = (lowered /\ ~(tfreq > High /\ tpc' = "hold"))
    /\ UNCHANGED <<rate, dfVars, rail, pmVars, dom, sys>>

\* hold_all takes one reference per bound core, in slot order, and waits for
\* each core to resume before it looks at the next.
TargetHold ==
    /\ tpc = "hold"
    /\ \/ /\ tidx = MaxCores
          /\ tpc' = "set" /\ UNCHANGED <<tidx, usage>>
       \/ /\ tidx < MaxCores /\ tidx \notin Bound
          /\ tidx' = tidx + 1 /\ UNCHANGED <<tpc, usage>>
       \/ /\ tidx < MaxCores /\ tidx \in Bound
          /\ usage' = [usage EXCEPT ![tidx] = @ + 1]
          /\ tpc' = "wait" /\ UNCHANGED tidx
    /\ UNCHANGED <<rate, dfVars, railVars, life, rpm, job, dom, sys, tfreq, told,
                   tret>>

TargetHeld_NoWait ==
    /\ tpc = "wait" /\ tidx \in PmOn
    /\ tpc' = "hold" /\ tidx' = tidx + 1
    /\ UNCHANGED <<rate, dfVars, railVars, pmVars, dom, sys, tfreq, told, tret>>

TargetHeld ==
    /\ tpc = "wait" /\ tidx \in PmOn /\ rpm[tidx] = "active"
    /\ tpc' = "hold" /\ tidx' = tidx + 1
    /\ UNCHANGED <<rate, dfVars, railVars, pmVars, dom, sys, tfreq, told, tret>>

\* A core that cannot resume: its own reference and all earlier ones go back.
TargetHoldFails_Ignored ==
    /\ tpc = "wait" /\ rpm[tidx] = "suspended" /\ "resume_fail" \in Events
    /\ tpc' = "hold" /\ tidx' = tidx + 1
    /\ UNCHANGED <<rate, dfVars, railVars, pmVars, dom, sys, tfreq, told, tret>>

TargetHoldFails_PutsAll ==
    /\ tpc = "wait" /\ (tidx \notin PmOn \/ (rpm[tidx] = "suspended" /\ "resume_fail" \in Events))
    /\ usage' = ReleaseAll(usage)
    /\ TargetReturn("EIO")
    /\ UNCHANGED <<rate, dfVars, railVars, life, rpm, job, dom, sys>>

TargetHoldFails ==
    /\ tpc = "wait"
    /\ \/ tidx \notin PmOn
       \/ rpm[tidx] = "suspended" /\ "resume_fail" \in Events
    /\ usage' = PutAll(usage, (Bound \cap 0 .. tidx - 1) \cup {tidx})
    /\ TargetReturn("EIO")
    /\ UNCHANGED <<rate, dfVars, railVars, life, rpm, job, dom, sys>>

\* The request is published before the clock changes ...
TargetPublish_RaiseOnly ==
    /\ tpc = "set"
    /\ told' = reqRate /\ reqRate' = IF tfreq > Safe THEN tfreq ELSE reqRate
    /\ tpc' = "write"
    /\ UNCHANGED <<rate, registered, refsHeld, unsafe, reg, armed, railVars, pmVars, dom,
                   sys, tfreq, tidx, tret>>
TargetPublish ==
    /\ tpc = "set"
    /\ told' = reqRate /\ reqRate' = tfreq
    /\ tpc' = "write"
    /\ UNCHANGED <<rate, registered, refsHeld, unsafe, reg, armed, railVars, pmVars, dom,
                   sys, tfreq, tidx, tret>>

\* ... and taken back if the clock, written under rate_lock, does not.  The
\* clock may settle on another raised rate than the one asked for: *freq then
\* follows it, the books do not.  Safe it makes exactly, or core 0 would not
\* have registered.
Settles(f) == {f} \cup (IF f > Safe THEN Rounded ELSE {})

TargetWrite_KeepsFreq ==
    /\ tpc = "write"
    /\ \/ rate' \in Settles(tfreq) /\ tret' = "ok" /\ UNCHANGED <<tfreq, reqRate>>
       \/ /\ "clk_fail" \in Events
          /\ reqRate' = told /\ tret' = "EIO" /\ UNCHANGED <<rate, tfreq>>
    /\ tpc' = "book" /\ told' = Safe
    /\ UNCHANGED <<registered, refsHeld, unsafe, reg, armed, railVars, pmVars, dom,
                   sys, tidx>>
TargetWrite ==
    /\ tpc = "write"
    /\ \/ /\ rate' \in Settles(tfreq) /\ tfreq' = rate'
          /\ tret' = "ok" /\ UNCHANGED reqRate
       \/ /\ "clk_fail" \in Events
          /\ reqRate' = told /\ tret' = "EIO" /\ UNCHANGED <<rate, tfreq>>
    /\ tpc' = "book" /\ told' = Safe
    /\ UNCHANGED <<registered, refsHeld, unsafe, reg, armed, railVars, pmVars, dom,
                   sys, tidx>>

\* The references just taken become the boost references, or go back; the
\* boost references of an earlier request go back in either case.
Boosting_Sticky == reqRate > Safe \/ refsHeld
Boosting == reqRate > Safe

BookedUsage_KeepOld == IF Boosting THEN usage ELSE ReleaseAll(usage)
BookedUsage ==
    LET old == IF refsHeld THEN ReleaseAll(usage) ELSE usage
    IN  IF Boosting THEN old ELSE ReleaseAll(old)

TargetBook ==
    /\ tpc = "book"
    /\ refsHeld' = Boosting
    /\ usage' = BookedUsage
    /\ TargetReturn(tret)
    /\ UNCHANGED <<rate, registered, reqRate, unsafe, reg, armed, railVars,
                   life, rpm, job, dom, sys>>

----------------------------------------------------------------------------
(* Jobs, as far as they hold a core awake (rocket_job.c).                  *)

\* The scheduler takes its credit and run_job its PM reference.
JobStart(c) ==
    /\ c \in PmOn /\ sys = "awake" /\ job[c] = "none"
    /\ job' = [job EXCEPT ![c] = "start"]
    /\ usage' = [usage EXCEPT ![c] = @ + 1]
    /\ UNCHANGED <<rate, dfVars, railVars, life, rpm, dom, sys, tgtVars>>

JobRun(c) ==
    /\ job[c] = "start" /\ c \in PmOn /\ rpm[c] = "active"
    /\ job' = [job EXCEPT ![c] = "run"]
    /\ UNCHANGED <<rate, dfVars, railVars, life, rpm, usage, dom, sys, tgtVars>>

\* run_job returns when its core does not resume, and keeps the reference.
JobFails(c) ==
    /\ job[c] = "start" /\ rpm[c] = "suspended" /\ usage[c] <= MaxUsage
    /\ "resume_fail" \in Events
    /\ job' = [job EXCEPT ![c] = "none"]
    /\ UNCHANGED <<rate, dfVars, railVars, life, rpm, usage, dom, sys, tgtVars>>

JobEnd(c) ==
    /\ job[c] = "run"
    /\ job' = [job EXCEPT ![c] = "none"]
    /\ usage' = [usage EXCEPT ![c] = Put(@)]
    /\ UNCHANGED <<rate, dfVars, railVars, life, rpm, dom, sys, tgtVars>>

----------------------------------------------------------------------------
(* Runtime PM of one core.                                                 *)

Resume(c) ==
    /\ c \in PmOn /\ sys = "awake"
    /\ rpm[c] = "suspended" /\ usage[c] > 0 /\ dom[c] = "on"
    /\ rpm' = [rpm EXCEPT ![c] = "active"]
    /\ UNCHANGED <<rate, dfVars, railVars, life, usage, job, dom, sys, tgtVars>>

\* The autosuspend timer of an unused core expires.
SuspendStart(c) ==
    /\ c \in PmOn /\ sys = "awake" /\ rpm[c] = "active" /\ usage[c] = 0
    /\ rpm' = [rpm EXCEPT ![c] = "suspending"]
    /\ UNCHANGED <<rate, dfVars, railVars, life, usage, job, dom, sys, tgtVars>>

\* rocket_devfreq_suspend, called without rocket_df.lock.
SuspendHook_WrongRate(ok) == ok /\ rate' = IF registered THEN High ELSE rate
SuspendHook(ok) ==
    \/ ~registered /\ ok /\ UNCHANGED rate
    \/ registered /\ ok /\ rate' = Safe
    \/ registered /\ ~ok /\ "clk_fail" \in Events /\ UNCHANGED rate

\* rocket_device_runtime_suspend: a core with a job refuses.
SuspendFinish_Locked(c) ==
    /\ rpm[c] = "suspending" /\ tpc = "idle"
    /\ SuspendHook(TRUE)
    /\ rpm' = [rpm EXCEPT ![c] = "suspended"]
    /\ UNCHANGED <<dfVars, railVars, life, usage, job, dom, sys, tgtVars>>

SuspendFinish(c) ==
    /\ rpm[c] = "suspending"
    /\ \/ /\ job[c] # "none"
          /\ rpm' = [rpm EXCEPT ![c] = "active"] /\ UNCHANGED rate
       \/ /\ job[c] = "none"
          /\ \E ok \in BOOLEAN :
                /\ SuspendHook(ok)
                /\ rpm' = [rpm EXCEPT ![c] = IF ok THEN "suspended" ELSE "active"]
    /\ UNCHANGED <<dfVars, railVars, life, usage, job, dom, sys, tgtVars>>

----------------------------------------------------------------------------
(* Power domains.  A switch is two steps: the notifiers run, then the      *)
(* hardware handshake follows; genpd holds only its own lock in between.   *)

Wants(c) == \/ c \in PmOn /\ rpm[c] = "suspended" /\ usage[c] > 0
            \/ life[c] \in {"attach", "probe"}
            \/ sys = "resume" /\ life[c] = "up"

MayGoOn(c) ==
    /\ dom[c] = "off" /\ sys \in {"awake", "resume", "thaw"}
    /\ IF c = Top THEN \E d \in Core : Wants(d)
                  ELSE Wants(c) /\ dom[Top] = "on"

MayGoOff(c) ==
    /\ dom[c] = "on" /\ rpm[c] = "suspended" /\ sys \in {"awake", "noirq"}
    /\ c = Top => \A d \in Core \ {Top} : dom[d] = "off"

\* rocket_df_notify: make the clock safe, drop the request, veto the switch
\* if the clock will not move.
Notify(c, go) ==
    IF ~Guarded(c)
    THEN dom' = [dom EXCEPT ![c] = go] /\ UNCHANGED <<rate, reqRate>>
    ELSE /\ reqRate' = Safe
         /\ \/ rate' = Safe /\ dom' = [dom EXCEPT ![c] = go]
            \/ /\ rate # Safe /\ "clk_fail" \in Events
               /\ UNCHANGED <<rate, dom>>

PreOn(c) ==
    /\ MayGoOn(c) /\ Notify(c, "pre_on")
    /\ UNCHANGED <<registered, refsHeld, unsafe, reg, armed, railVars, pmVars, sys,
                   tgtVars>>

PreOff(c) ==
    /\ MayGoOff(c) /\ Notify(c, "pre_off")
    /\ UNCHANGED <<registered, refsHeld, unsafe, reg, armed, railVars, pmVars, sys,
                   tgtVars>>

Switch(c) ==
    /\ dom[c] \in {"pre_on", "pre_off"}
    /\ dom' = [dom EXCEPT ![c] = IF @ = "pre_on" THEN "on" ELSE "off"]
    /\ UNCHANGED <<rate, dfVars, railVars, pmVars, sys, tgtVars>>

----------------------------------------------------------------------------
(* Probe of a core: attach to its domain, claim the slot, enable runtime   *)
(* PM, register devfreq (slot 0), arm the notifiers.                       *)

\* One core at a time is probed or removed, as when the module is loaded and
\* unloaded.
BindingFree == \A c \in Core : life[c] \in {"up", "free"}

Step(c, from, to) == life[c] = from /\ life' = [life EXCEPT ![c] = to]

ProbeAttach(c) ==
    /\ c \in Removable /\ BindingFree /\ sys = "awake" /\ usage[c] <= MaxUsage
    /\ Step(c, "free", "attach")
    /\ UNCHANGED <<rate, dfVars, railVars, rpm, usage, job, dom, sys, tgtVars>>

\* rocket_probe publishes the slot before rocket_core_init enables PM.
ProbeClaim(c) ==
    /\ dom[c] = "on" /\ Step(c, "attach", "probe")
    /\ UNCHANGED <<rate, dfVars, railVars, rpm, usage, job, dom, sys, tgtVars>>

\* rocket_core_init resumes the core and leaves it to autosuspend; the
\* domain may have gone off again since the attach.
ProbePm(c) ==
    /\ \/ /\ Step(c, "probe", "pm") /\ dom[c] = "on"
          /\ rpm' = [rpm EXCEPT ![c] = "active"]
       \/ /\ Step(c, "probe", "detach") /\ "resume_fail" \in Events
          /\ UNCHANGED rpm
    /\ UNCHANGED <<rate, dfVars, railVars, usage, job, dom, sys, tgtVars>>

\* rocket_devfreq_init up to the published owner: only at the safe rate.
Register ==
    /\ ~registered
    /\ \/ /\ rate = Safe /\ tpc = "idle" /\ Step(Owner, "pm", "arm")
          /\ registered' = TRUE /\ reqRate' = Safe /\ refsHeld' = FALSE
          /\ reg' \in BOOLEAN
       \/ /\ rate # Safe \/ "init_fail" \in Events
          /\ Step(Owner, "pm", "up")
          /\ UNCHANGED <<registered, reqRate, refsHeld, reg>>
    /\ UNCHANGED <<rate, unsafe, armed, railVars, rpm, usage, job, dom, sys, tgtVars>>

\* rocket_df_arm_notifiers over every bound core not armed yet.
ArmNotifiers ==
    \E bad \in SUBSET (Bound \ armed) :
        /\ bad # {} => "notifier_fail" \in Events
        /\ armed' = armed \cup (Bound \ bad)
        /\ unsafe' = (unsafe \/ bad # {})

\* The end of rocket_devfreq_init, and rocket_devfreq_core_added.
Arm(c) ==
    /\ IF c = Owner THEN Step(c, "arm", "up") ELSE Step(c, "pm", "up")
    /\ IF registered THEN ArmNotifiers ELSE UNCHANGED <<armed, unsafe>>
    /\ UNCHANGED <<rate, registered, reqRate, refsHeld, reg, railVars, rpm, usage,
                   job, dom, sys, tgtVars>>

----------------------------------------------------------------------------
(* Remove of a core: drop the boost, disarm, fini, detach.                 *)

\* The locked section of rocket_devfreq_core_removed.
RemoveDrop(c) ==
    /\ c \in Removable /\ BindingFree /\ sys = "awake" /\ tpc = "idle"
    /\ Step(c, "up", "disarm")
    /\ IF ~registered
       THEN UNCHANGED <<rate, reqRate, refsHeld, unsafe, usage>>
       ELSE /\ reqRate' = Safe /\ refsHeld' = FALSE
            /\ \/ rate' = Safe /\ UNCHANGED unsafe
               \/ /\ rate # Safe /\ "clk_fail" \in Events
                  /\ UNCHANGED rate /\ unsafe' = TRUE
            /\ usage' = IF refsHeld THEN ReleaseAll(usage) ELSE usage
    /\ UNCHANGED <<registered, reg, armed, railVars, rpm, job, dom, sys, tgtVars>>

\* ... and what follows after the unlock.
RemoveDisarm(c) ==
    /\ Step(c, "disarm", "fini")
    /\ \/ armed' = armed \ {c} /\ UNCHANGED unsafe
       \/ /\ c \in armed /\ "notifier_fail" \in Events
          /\ unsafe' = TRUE /\ UNCHANGED armed
    /\ UNCHANGED <<rate, registered, reqRate, refsHeld, reg, railVars, rpm, usage,
                   job, dom, sys, tgtVars>>

\* rocket_df_disarm_notifiers over what is armed and still bound.
DisarmNotifiers ==
    \E stuck \in SUBSET (armed \cap Bound) :
        /\ stuck # {} => "notifier_fail" \in Events
        /\ armed' = (armed \ Bound) \cup stuck

\* rocket_devfreq_fini for the owner, then rocket_core_fini, which disables
\* runtime PM (waiting for a suspend or resume under way) and stops the
\* scheduler, then the slot is cleared.
RemoveFini(c) ==
    /\ Step(c, "fini", "detach")
    /\ rpm[c] # "suspending" /\ dom[c] \in {"on", "off"}
    /\ IF c = Owner /\ Owns(c)
       THEN /\ tpc = "idle"
            /\ registered' = FALSE /\ reqRate' = Safe /\ refsHeld' = FALSE
            /\ IF refsHeld \/ rpm[c] # "suspended" THEN SetSafe ELSE UNCHANGED rate
            /\ usage' = IF refsHeld THEN ReleaseAll(usage) ELSE usage
            /\ DisarmNotifiers
       ELSE UNCHANGED <<rate, registered, reqRate, refsHeld, usage, armed>>
    /\ job' = [job EXCEPT ![c] = "none"]
    /\ UNCHANGED <<unsafe, reg, railVars, rpm, dom, sys, tgtVars>>

Detach(c) ==
    /\ Step(c, "detach", "free")
    /\ rpm' = [rpm EXCEPT ![c] = "suspended"]
    /\ UNCHANGED <<rate, dfVars, railVars, usage, job, dom, sys, tgtVars>>

----------------------------------------------------------------------------
(* System sleep: pm_runtime_force_suspend and _resume ignore the usage     *)
(* counts; genpd switches the domains in the noirq phases.                 *)

SleepStart ==
    /\ "sleep" \in Events /\ sys = "awake" /\ tpc = "idle"
    /\ \A c \in Core : /\ life[c] \in {"up", "free"}
                       /\ rpm[c] # "suspending" /\ dom[c] \in {"on", "off"}
                       /\ job[c] = "start" => rpm[c] = "active"
    /\ sys' = "suspend"
    /\ UNCHANGED <<rate, dfVars, railVars, pmVars, dom, tgtVars>>

\* One core goes down, or its refusal aborts the whole sleep.
ForceSuspend(c) ==
    /\ sys = "suspend" /\ life[c] = "up" /\ rpm[c] = "active"
    /\ \/ job[c] # "none" /\ sys' = "thaw" /\ UNCHANGED <<rate, rpm>>
       \/ /\ job[c] = "none"
          /\ \E ok \in BOOLEAN :
                /\ SuspendHook(ok)
                /\ IF ok THEN /\ rpm' = [rpm EXCEPT ![c] = "suspended"]
                              /\ UNCHANGED sys
                         ELSE sys' = "thaw" /\ UNCHANGED rpm
    /\ UNCHANGED <<dfVars, railVars, life, usage, job, dom, tgtVars>>

Settled == \A c \in Core : dom[c] \in {"on", "off"}

SleepPhase(from, to) ==
    /\ sys = from /\ sys' = to /\ Settled
    /\ UNCHANGED <<rate, dfVars, railVars, pmVars, dom, tgtVars>>

SleepDown == (\A c \in Core : rpm[c] = "suspended") /\ SleepPhase("suspend", "noirq")
SleepUp   == SleepPhase("noirq", "resume")
SleepThaw == (\A c \in Core : life[c] = "up" => dom[c] = "on")
             /\ SleepPhase("resume", "thaw")

NeedsResume(c) == life[c] = "up" /\ usage[c] > 0 /\ rpm[c] = "suspended"

ForceResume(c) ==
    /\ sys = "thaw" /\ NeedsResume(c) /\ dom[c] = "on"
    /\ rpm' = [rpm EXCEPT ![c] = "active"]
    /\ UNCHANGED <<rate, dfVars, railVars, life, usage, job, dom, sys, tgtVars>>

SleepEnd == (\A c \in Core : ~NeedsResume(c)) /\ SleepPhase("thaw", "awake")

\* rocket_devfreq_shutdown: the owner, without the lock, with nothing booked
\* and the result of the clock write dropped.
ShutdownHook(c) ==
    IF c = Owner /\ Owns(c) /\ rpm[c] # "suspended" THEN SetSafe ELSE UNCHANGED rate

\* Before a reboot or kexec, for each bound core.
Shutdown ==
    /\ "shutdown" \in Events /\ sys = "awake"
    /\ \E c \in Bound : ShutdownHook(c)
    /\ UNCHANGED <<dfVars, railVars, pmVars, dom, sys, tgtVars>>

----------------------------------------------------------------------------
(* What other modules do to the clock and the rail.                        *)

\* npu_clk_probe.ko and its like write the clock while every domain is on
\* (rocket_devfreq.c:20-24), whatever target is doing; user space, which loads
\* them, is frozen in system sleep.
ForeignSet(r) ==
    /\ sys = "awake" /\ \A c \in Core : dom[c] = "on"
    /\ rate' = r
    /\ UNCHANGED <<dfVars, railVars, pmVars, dom, sys, tgtVars>>

\* npu_volt_probe.ko moves the rail at any moment: it does not know the clock.
RailMove(v) ==
    /\ rail' = v
    /\ lowered' = (lowered \/ (rail >= VoltForHigh /\ v < VoltForHigh))
    /\ UNCHANGED <<rate, dfVars, pmVars, dom, sys, tgtVars>>

----------------------------------------------------------------------------
TargetStep == TargetCheck \/ TargetHold \/ TargetHeld \/ TargetHoldFails
              \/ TargetPublish \/ TargetWrite \/ TargetBook
JobStep(c)  == JobStart(c) \/ JobRun(c) \/ JobFails(c) \/ JobEnd(c)
PmStep(c)   == Resume(c) \/ SuspendStart(c) \/ SuspendFinish(c)
DomStep(c)  == PreOn(c) \/ PreOff(c) \/ Switch(c)
ProbeStep(c) == ProbeAttach(c) \/ ProbeClaim(c) \/ ProbePm(c) \/ Arm(c)
RemoveStep(c) == RemoveDrop(c) \/ RemoveDisarm(c) \/ RemoveFini(c) \/ Detach(c)
SleepStep(c) == ForceSuspend(c) \/ ForceResume(c)
SleepAll == SleepStart \/ SleepDown \/ SleepUp \/ SleepThaw \/ SleepEnd

Next ==
    \/ \E f \in Rates : TargetCall(f)
    \/ TargetStep
    \/ \E c \in Core : \/ JobStep(c) \/ PmStep(c) \/ DomStep(c)
                       \/ ProbeStep(c) \/ RemoveStep(c) \/ SleepStep(c)
    \/ Register
    \/ SleepAll
    \/ Shutdown
    \/ \E r \in Foreign : ForeignSet(r)
    \/ \E v \in Volts : RailMove(v)

Spec == Init /\ [][Next]_vars

\* Every thread that has started something carries on: devfreq's worker in
\* target, the PM core in a resume or suspend, genpd in a switch, the job's
\* hardware.  Resume is strong: genpd powers a domain off at most once per
\* suspend, so a domain that flickers cannot keep a waiting core out.
Fairness ==
    /\ WF_vars(TargetStep)
    /\ \A c \in Core : /\ SF_vars(Resume(c)) /\ WF_vars(SuspendFinish(c))
                       /\ SF_vars(PreOn(c)) /\ WF_vars(Switch(c))
                       /\ WF_vars(JobRun(c)) /\ WF_vars(JobEnd(c))

FairSpec == Spec /\ Fairness

----------------------------------------------------------------------------
(* Properties.                                                             *)

TypeOK ==
    /\ rate \in Rates \cup Rounded \cup Foreign /\ reqRate \in Rates
    /\ registered \in BOOLEAN /\ refsHeld \in BOOLEAN
    /\ unsafe \in BOOLEAN /\ reg \in BOOLEAN
    /\ armed \subseteq Core /\ rail \in Volts /\ lowered \in BOOLEAN
    /\ life \in [Core -> LifeStates]
    /\ rpm \in [Core -> {"suspended", "active", "suspending"}]
    /\ usage \in [Core -> Nat]
    /\ job \in [Core -> {"none", "start", "run"}]
    /\ dom \in [Core -> {"off", "pre_on", "on", "pre_off"}]
    /\ sys \in {"awake", "suspend", "noirq", "resume", "thaw"}
    /\ tpc \in {"idle", "check", "hold", "wait", "set", "write", "book"}
    /\ tfreq \in Rates \cup Rounded /\ told \in Rates /\ tidx \in 0 .. MaxCores
    /\ tret \in {"ok", "ENODEV", "EAGAIN", "EPERM", "EIO"}

\* The hardware rule of rocket_devfreq.c:3-20: while a domain is being
\* switched on or off, by whatever path, the NPU clock is at the boot rate.
NoSwitchAtSpeed ==
    \A c \in Core : dom[c] \in {"pre_on", "pre_off"} => rate = Safe

\* Each runtime PM reference on a core is held by somebody who will give it
\* back: its job, the boost, or the request that hold_all is serving.
HeldByTarget(c) == \/ tpc \in {"hold", "wait"} /\ c < tidx
                   \/ tpc = "wait" /\ c = tidx
                   \/ tpc \in {"set", "write", "book"}
Ref(b) == IF b THEN 1 ELSE 0
RefsBalanced ==
    \A c \in Core :
        usage[c] = Ref(job[c] # "none") + Ref(refsHeld) + Ref(HeldByTarget(c))

\* Where resumes fail a reference may stay behind, but none that a job, the boost
\* or a request relies on is ever missing, so no core suspends under them
\* (rocket_devfreq.c:242-275).
RefsSuffice ==
    \A c \in Core :
        usage[c] >= Ref(job[c] # "none") + Ref(refsHeld) + Ref(HeldByTarget(c))

\* rocket_devfreq_get_cur_freq answers from the books.
CurFreq == reqRate

\* What get_cur_freq reports to user space is what the hardware runs
\* (rocket_devfreq.c:374-377, 587-592), outside target and sleep; where the
\* clock rounded, it is the raised rate that was asked for, since line 427
\* answers from the books.
ReportIsTrue ==
    tpc = "idle" /\ sys = "awake" =>
        CurFreq = rate \/ (CurFreq > Safe /\ rate \in Rounded)

\* The price of the boost is paid only while there is one
\* (rocket_devfreq.c:21-28): references kept on all cores mean that a raised
\* rate was requested and is in force.
BoostRefsOnlyWhileBoosted ==
    tpc = "idle" /\ sys = "awake" /\ refsHeld => reqRate > Safe

\* Above ROCKET_HIGH_RATE the rail carries ROCKET_VOLT_FOR_HIGH, unless the
\* voltage module has lowered it after target read it: no path reaches such a
\* rate on a rail that was too low all along, or unread
\* (rocket_devfreq.c:340-344).
HighNeedsVolts == rate > High => rail >= VoltForHigh \/ lowered

\* target answers "ok" only with *freq the rate of the clock, also when the
\* clock rounded or another module had changed it since the last request
\* (rocket_devfreq.c:305-310, 389), unless another module has written the
\* clock after target did.
HonestAnswer ==
    [][(tpc # "idle" /\ tpc' = "idle" /\ tret' = "ok") =>
          rate' = tfreq \/ (tpc = "book" /\ rate' \in Foreign)]_vars

\* Fail closed (rocket_devfreq.c:649-652): once a notifier could not be armed
\* or removed, no boost is in force on a fully probed machine, ever again.
UnsafeMeansNoBoost ==
    unsafe /\ tpc = "idle" /\ (\A c \in Core : life[c] = "up") => rate = Safe

\* A request comes back.  In particular target, which waits for cores under
\* rocket_df.lock, and their suspend hook never wait for each other
\* (rocket_devfreq.c:473-477).
TargetReturns == tpc # "idle" ~> tpc = "idle"

----------------------------------------------------------------------------
(* Why NoSwitchAtSpeed holds: the inductive invariants behind it.          *)

Calling == tpc \in {"hold", "wait", "set", "write", "book"}
AllUp   == \A c \in Core : life[c] = "up"

\* No core is missing: each is up, or is core 0 on its way to the fini that
\* ends the boost.
AllThere == \A c \in Core :
    life[c] = "up" \/ (c = Owner /\ life[c] \in {"disarm", "fini"})

\* A request past its checks runs on a machine that is awake and misses no
\* core, and it keeps every core but core 0 from leaving.
CallInv == /\ Calling => AllThere /\ registered
           /\ tpc # "idle" => sys = "awake" /\ Leaving \subseteq {Owner}
           /\ tpc = "wait" => tidx < MaxCores

\* A boost, requested or held, only exists where no core is missing, and a
\* raised clock was requested, or is that of the request before.
BoostInv == /\ reqRate # Safe => refsHeld \/ tpc \in {"write", "book"}
            /\ refsHeld => AllThere /\ registered
            /\ rate # Safe => Safe < IF tpc = "write" THEN told ELSE reqRate
            /\ tpc = "write" => reqRate = tfreq

\* A raised clock finds every core active, a core that has been waited for
\* is active, and a core that is not suspended has its domain on.
ActiveInv ==
    /\ rate # Safe => \A c \in Core : rpm[c] = "active"
    /\ \A c \in Core : HeldByTarget(c) /\ tpc # "wait" => rpm[c] = "active"
    /\ tpc = "wait" => \A c \in 0 .. tidx - 1 : rpm[c] = "active"
    /\ \A c \in Core : rpm[c] # "suspended" => dom[c] = "on"

\* Unless boosting is off for good, an armed block belongs to a core that is
\* probed and not yet past its own disarming; one core at a time moves.
ArmedInv ==
    /\ ~unsafe => \A c \in armed : life[c] \in {"up", "disarm"}
    /\ \A c, d \in Core : c = d \/ life[c] \in {"up", "free"}
                               \/ life[d] \in {"up", "free"}
    /\ Removable = {} => AllUp

SpeedInv == CallInv /\ BoostInv /\ RefsSuffice /\ ActiveInv /\ ArmedInv

\* Once boosting is off for good, nothing is raised and no request on its way
\* would raise anything, except until the fini of core 0.
UnsafeInv == unsafe /\ life[Owner] # "fini"
                => rate = Safe /\ (Calling => tfreq = Safe)

\* The environments these are inductive in: nobody else moves the clock; cores
\* stay bound, or they come and go one at a time while the clock obeys and no
\* rate is requested as a core other than core 0 leaves.
CalmEnv == /\ Foreign = {}
           /\ \/ Removable = {}
              \/ Events \cap {"clk_fail", "call_in_remove"} = {}

\* With cores that stay bound others may move the clock too: what a request
\* holds needs nothing of the clock, and every domain keeps its notifier.
HeldInv ==
    /\ AllUp /\ registered
    /\ tpc # "idle" => sys = "awake"
    /\ RefsSuffice
    /\ \A c \in Core : HeldByTarget(c) /\ (tpc # "wait" \/ c < tidx) => rpm[c] = "active"
    /\ \A c \in Core : rpm[c] # "suspended" => dom[c] = "on"

GuardInv == armed = Core /\ ~unsafe /\ NoSwitchAtSpeed

KeptEnv == CalmEnv \/ Removable = {}

\* The abstract promise: see ClockGate.
Gate == INSTANCE ClockGate WITH rates <- Rates \cup Rounded \cup Foreign
GateSpec == Gate!Spec
=============================================================================
