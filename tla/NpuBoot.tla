------------------------------ MODULE NpuBoot -------------------------------
(***************************************************************************)
(* The boot script (npu/boot/npu-fast-boot.sh) with the two modules it     *)
(* loads: it swaps the stock rocket driver for the one with devfreq        *)
(* (RocketDrv), raises the rail (VoltProbe), and lets the governor raise   *)
(* the clock.  It may be run again on a running system.                    *)
(*                                                                         *)
(* Of the clock only the ceiling of rocket_devfreq_target is here: above   *)
(* High it wants VoltForHigh on the rail when it is asked.  Pinning of the *)
(* interrupt and the CPU settings of the script touch none of this state.  *)
(* A start that ends at the script's version check changes nothing, either.*)
(***************************************************************************)
EXTENDS Integers, FiniteSets

CONSTANTS
    Devs, Files, None, Events,         \* see RocketDrv
    Found, Floor, Cap, Steps,          \* see VoltProbe
    Uv,            \* the voltage the script asks for
    ByHand,        \* voltages somebody may load the module with by hand
    Safe, High, VoltForHigh, Rates     \* see RocketDevfreq

ASSUME DevsAssumption   == IsFiniteSet(Devs) /\ Devs # {} /\ None \notin Devs
ASSUME FilesAssumption  == IsFiniteSet(Files)
ASSUME EventsAssumption == Events \subseteq {"open_in_probe", "unbind_open"}
ASSUME VoltAssumption   == /\ {Found, Floor, Cap, Uv} \subseteq Nat
                           /\ Steps \subseteq Nat /\ Found \in Steps
ASSUME ByHandAssumption == ByHand \subseteq Nat
ASSUME RatesAssumption  == /\ Rates \cup {Safe, High, VoltForHigh} \subseteq Nat
                           /\ Safe <= High

VARIABLES
    module, modRefs, drmDev, rdev, slot, numCores, held, irq, bpc, bdev, bound,
    fst, list, room,                   \* RocketDrv
    rail, volt, uv, origUv, stuck,     \* VoltProbe
    stock,         \* the stock rocket module is loaded
    sh,            \* the script: its next command
    governor,      \* of the devfreq device, if there is one
    rate,          \* the NPU clock
    lowered        \* history: somebody took the rail below VoltForHigh by hand
                   \*   after target had last read it

Drv  == INSTANCE RocketDrv
Volt == INSTANCE VoltProbe

clockVars  == <<governor, rate, lowered>>
scriptVars == <<stock, sh, clockVars>>
drvVars    == <<module, modRefs, drmDev, rdev, slot, numCores, held, irq, bpc, bdev,
                bound, fst, list, room>>
voltVars   == <<rail, volt, uv, origUv, stuck>>
vars       == <<drvVars, voltVars, scriptVars>>

Init ==
    /\ Drv!Init /\ Volt!Init
    /\ stock \in BOOLEAN /\ sh = "start"
    /\ governor = "userspace" /\ rate = Safe /\ lowered = FALSE

\* /sys/class/devfreq/fdab0000.npu: slot 0 has its devfreq device.
HasDevfreq == "devfreq" \in held[0]

\* The clock and the governor go back when the devfreq device goes, and a new
\* one starts there (rocket_devfreq.c:845).
Follow == /\ rate' = IF "devfreq" \in held'[0] THEN rate ELSE Safe
          /\ governor' = IF "devfreq" \in held'[0] THEN governor ELSE "userspace"

Script(from, to) == sh = from /\ sh' = to
Quietly == UNCHANGED <<drvVars, voltVars>>

----------------------------------------------------------------------------
(* The script.                                                             *)

\* Started, at boot or again; it waits for udev to load stock, but not for ever.
Start ==
    /\ sh \in {"start", "done", "lost"} /\ sh' = "rmmod"
    /\ Quietly /\ UNCHANGED <<stock, clockVars>>

\* rmmod rocket: stock or ours, if nobody uses it.
RmmodStock ==
    /\ Script("rmmod", "insmod") /\ stock /\ stock' = FALSE
    /\ Quietly /\ UNCHANGED clockVars

RmmodOurs ==
    /\ sh = "rmmod" /\ Drv!Rmmod
    /\ UNCHANGED <<voltVars, scriptVars>>

RmmodDone ==
    /\ Script("rmmod", "insmod") /\ ~stock
    /\ module = "out" \/ (module = "in" /\ modRefs > 0)
    /\ Quietly /\ UNCHANGED <<stock, clockVars>>

RmmodBusy ==
    /\ Script("rmmod", "insmod") /\ stock
    /\ Quietly /\ UNCHANGED <<stock, clockVars>>

\* insmod of our module: refused while a rocket is loaded.
InsmodOurs ==
    /\ sh = "insmod" /\ ~stock /\ Drv!Insmod
    /\ sh' = IF module' = "in" THEN "unvolt" ELSE "modprobe"
    /\ UNCHANGED <<voltVars, stock, clockVars>>

InsmodFails_GoesOn ==
    /\ Script("insmod", "unvolt")
    /\ Quietly /\ UNCHANGED <<stock, clockVars>>
InsmodFails ==
    /\ Script("insmod", "modprobe")
    /\ Quietly /\ UNCHANGED <<stock, clockVars>>

\* modprobe rocket: nothing to do if one is loaded; the stock module makes the
\* same platform device as ours.  It may fail for reasons of its own, too.
Modprobe_Skipped ==
    /\ Script("modprobe", "done") /\ UNCHANGED stock
    /\ Quietly /\ UNCHANGED clockVars
Modprobe ==
    /\ \/ /\ Script("modprobe", "done")
          /\ stock' = (stock \/ (module = "out" /\ ~drmDev))
       \/ Script("modprobe", "lost") /\ ~stock /\ module = "out" /\ UNCHANGED stock
    /\ Quietly /\ UNCHANGED clockVars

\* The voltage module is taken out, unless somebody else is loading it, and put
\* in with uv=850000, or not.
Unvolt ==
    /\ Script("unvolt", "volt")
    /\ \/ Volt!Unload
       \/ volt # "in" /\ UNCHANGED voltVars
    /\ UNCHANGED <<drvVars, stock, clockVars>>

VoltLoad ==
    /\ Script("volt", "check") /\ Volt!LoadSets(Uv)
    /\ UNCHANGED <<drvVars, stock, clockVars>>

VoltRefused ==
    /\ Script("volt", "governor")
    /\ Quietly /\ UNCHANGED <<stock, clockVars>>

VoltCheck ==
    /\ Script("check", "governor") /\ Volt!ReadBack
    /\ UNCHANGED <<drvVars, stock, clockVars>>

\* The governor, if there is a device to write to.
SetGovernor ==
    /\ Script("governor", "done")
    /\ governor' = IF HasDevfreq THEN "simple_ondemand" ELSE governor
    /\ Quietly /\ UNCHANGED <<stock, rate, lowered>>

----------------------------------------------------------------------------
(* Beside the script.                                                      *)

\* Probes and removes, and programs that use our module.
DrvStep ==
    /\ Drv!BindStep \/ Drv!FileStep \/ Drv!Unregister
    /\ Follow /\ UNCHANGED <<voltVars, stock, sh, lowered>>

\* udev loads the stock module, in time or not, or somebody does.
StockLoads ==
    /\ ~stock /\ module = "out" /\ ~drmDev /\ stock' = TRUE
    /\ Quietly /\ UNCHANGED <<sh, clockVars>>

\* The governor asks for a rate (see RocketDevfreq for all of target).
AskRate(r) ==
    /\ HasDevfreq /\ governor = "simple_ondemand"
    /\ r > High => rail >= VoltForHigh
    /\ rate' = r /\ lowered' = FALSE
    /\ Quietly /\ UNCHANGED <<stock, sh, governor>>

\* Somebody loads and unloads the voltage module by hand, at any moment.
HandLoad ==
    /\ \/ Volt!LoadReads \/ Volt!Unload
       \/ sh # "check" /\ Volt!ReadBack
       \/ \E u \in ByHand : Volt!LoadSets(u)
    /\ lowered' = (lowered \/ (rail >= VoltForHigh /\ rail' < VoltForHigh))
    /\ UNCHANGED <<drvVars, stock, sh, governor, rate>>

----------------------------------------------------------------------------
ScriptStep ==
    \/ Start \/ RmmodStock \/ RmmodOurs \/ RmmodDone \/ RmmodBusy
    \/ InsmodOurs \/ InsmodFails \/ Modprobe
    \/ Unvolt \/ VoltLoad \/ VoltRefused \/ VoltCheck \/ SetGovernor

Next == ScriptStep \/ DrvStep \/ StockLoads \/ HandLoad \/ \E r \in Rates : AskRate(r)

Spec == Init /\ [][Next]_vars

----------------------------------------------------------------------------
(* Properties.                                                             *)

TypeOK ==
    /\ Drv!DrvTypeOK
    /\ rail \in Nat /\ volt \in {"out", "check", "in"} /\ stock \in BOOLEAN
    /\ rate \in Rates \cup {Safe} /\ governor \in {"userspace", "simple_ondemand"}
    /\ sh \in {"start", "rmmod", "insmod", "modprobe", "unvolt", "volt", "check",
               "governor", "done", "lost"} /\ lowered \in BOOLEAN

\* Clock and rail keep the voltage rule of rocket_devfreq.c:342-345, at boot and
\* when the script is run again on a raised clock (npu-fast-boot.sh:24-40,
\* 56-58): the script lowers the rail only while the clock is where a fresh
\* driver leaves it.  Only a hand on the voltage module can take the voltage from
\* under a clock above High (npu_volt_probe.c:46), until the next rate is asked.
HighNeedsVolts == rate > High => rail >= VoltForHigh \/ lowered

\* The script leaves a rocket driver behind (npu-fast-boot.sh:25: "vrati stock
\* da /dev/accel postoji"), unless a failed registration of ours has left its
\* platform device in the way of every other, or modprobe has failed (`lost`).
DriverLeft == sh = "done" => stock \/ module = "in" \/ drmDev

\* Without the voltage module the rail is as it was found, however many loads
\* failed or were refused (npu_volt_probe.c:167-168, 180-187), unless the
\* regulator would not go back.
RailRestored == volt = "out" /\ ~stuck => rail = Found

\* Between probes and removes the driver's slots are right, nothing is left of
\* a core that is gone, and open files are served: see RocketDrv.
SlotsRight  == Drv!SlotsRight
NothingLeft == Drv!NothingLeft
FilesServed == Drv!FilesServed
=============================================================================
