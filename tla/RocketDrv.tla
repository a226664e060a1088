----------------------------- MODULE RocketDrv ------------------------------
(***************************************************************************)
(* The life of the driver: loading and unloading of the module, probe and  *)
(* remove of each core, the DRM device made by the first core and undone   *)
(* with the last, and the files that keep the module in memory             *)
(* (npu/driver/rocket_drv.c, rocket_device.c, rocket_core.c, and the       *)
(* init, fini and open of rocket_job.c).                                   *)
(*                                                                         *)
(* One thread at a time binds or unbinds a device, as the comment at       *)
(* rocket_drv.c:203 relies on; every probe may fail at every step, and be  *)
(* tried again.  What the cores do once they are bound is in RocketDevfreq *)
(* and RocketJob, what a file does once it is open in RocketSubmit.        *)
(***************************************************************************)
EXTENDS Integers, FiniteSets

CONSTANTS
    Devs,          \* the NPU cores of the device tree
    Files,         \* files user space may have open
    None,          \* no device
    Events         \* what may happen besides: "open_in_probe", a file opened
                   \* while a core is being bound or unbound, "unbind_open", a
                   \* core unbound by hand while files are open

MaxCores == Cardinality(Devs)
Slots    == 0 .. MaxCores - 1

VARIABLES
    module,        \* out, in, or going: try_module_get fails
    modRefs,       \* its references, one for each open file
    drmDev,        \* the "rknn" platform device is registered
    rdev,          \* the DRM device and its array of cores are there
    slot,          \* rdev->cores[i].dev
    numCores,      \* rdev->num_cores
    held,          \* per slot: what the driver has set up for the core
    irq,           \* devices whose interrupt is requested, until devres frees it
    bpc,           \* the binding thread: its next step
    bdev,          \* the device it binds or unbinds
    bound,         \* devices whose probe has succeeded
    fst,           \* per file: closed, sizing its scheduler list, open
    list,          \* per file: the slots whose schedulers are on its list
    room           \* per file: how many the list has room for

moduleVars == <<module, modRefs, drmDev>>
coreVars   == <<rdev, slot, numCores, held>>
binderVars == <<bpc, bdev>>
fileVars   == <<fst, list, room>>
vars       == <<moduleVars, coreVars, irq, binderVars, bound, fileVars>>

Resources == {"group", "wq", "sched", "pm", "devfreq", "cooling"}

Init ==
    /\ module = "out" /\ modRefs = 0 /\ drmDev = FALSE
    /\ rdev = FALSE /\ slot = [i \in Slots |-> None] /\ numCores = 0
    /\ held = [i \in Slots |-> {}] /\ irq = {}
    /\ bpc = "idle" /\ bdev = None /\ bound = {}
    /\ fst = [f \in Files |-> "closed"] /\ list = [f \in Files |-> {}]
    /\ room = [f \in Files |-> 0]

OpenFiles == {f \in Files : fst[f] # "closed"}

\* find_core_for_dev
SlotOf(d) == CHOOSE i \in Slots : slot[i] = d
Mine == SlotOf(bdev)

BindFree == /\ bpc = "idle"
            /\ (\A f \in Files : fst[f] # "sizing") \/ "open_in_probe" \in Events

Go(from, to) == bpc = from /\ bpc' = to /\ UNCHANGED bdev
Finish(from) == bpc = from /\ bpc' = "idle" /\ bdev' = None

----------------------------------------------------------------------------
(* The module.                                                             *)

\* rocket_register; without a driver the device it has made stays.
Insmod ==
    /\ module = "out" /\ ~drmDev
    /\ drmDev' = TRUE /\ module' \in {"in", "out"}
    /\ UNCHANGED <<modRefs, coreVars, irq, binderVars, bound, fileVars>>

\* Not while somebody has a reference.
Rmmod ==
    /\ module = "in" /\ modRefs = 0 /\ BindFree
    /\ module' = "going"
    /\ UNCHANGED <<modRefs, drmDev, coreVars, irq, binderVars, bound, fileVars>>

\* rocket_unregister, after the driver core has removed every device.
Unregister ==
    /\ module = "going" /\ bpc = "idle" /\ bound = {}
    /\ module' = "out" /\ drmDev' = FALSE
    /\ UNCHANGED <<modRefs, coreVars, irq, binderVars, bound, fileVars>>

----------------------------------------------------------------------------
(* rocket_probe.                                                           *)

\* rocket_device_init: the DRM device and a slot for every core of the device
\* tree, registered last; where it fails, nothing of it is left.
DeviceInit(ok) == rdev' = ok

\* rocket_device_fini, and the release of what the DRM device owned.
DeviceFini == rdev' = FALSE

\* The first core makes the DRM device.
Probe(d) ==
    /\ module = "in" /\ BindFree /\ d \notin bound
    /\ \/ /\ bpc' = "claim" /\ bdev' = d
          /\ IF rdev THEN UNCHANGED rdev ELSE DeviceInit(TRUE)
       \/ ~rdev /\ DeviceInit(FALSE) /\ UNCHANGED binderVars
    /\ UNCHANGED <<moduleVars, slot, numCores, held, irq, bound, fileVars>>

\* The first free slot; WARN and -ENXIO if there is none.
Free == {i \in Slots : slot[i] = None}
Claim ==
    /\ Free # {} /\ Go("claim", "group")
    /\ LET i == CHOOSE m \in Free : \A n \in Free : m <= n
       IN  slot' = [slot EXCEPT ![i] = bdev]
    /\ numCores' = numCores + 1
    /\ UNCHANGED <<moduleVars, rdev, held, irq, bound, fileVars>>

Hold(R)    == held' = [held EXCEPT ![Mine] = @ \cup R]
LetGo(R)   == held' = [held EXCEPT ![Mine] = @ \ R]

\* rocket_core_init: clocks, resets and registers belong to the device and go
\* back by themselves; the IOMMU group does not.
CoreInit ==
    /\ \/ Go("group", "irq") /\ Hold({"group"})
       \/ Go("group", "unclaim") /\ UNCHANGED held
    /\ UNCHANGED <<moduleVars, rdev, slot, numCores, irq, bound, fileVars>>

\* rocket_job_init: interrupt, reset queue, scheduler; if one fails the group
\* is put.  The interrupt stays requested until the probe has failed.
JobInitIrq ==
    /\ \/ Go("irq", "queue") /\ irq' = irq \cup {bdev} /\ UNCHANGED held
       \/ Go("irq", "unclaim") /\ LetGo({"group"}) /\ UNCHANGED irq
    /\ UNCHANGED <<moduleVars, rdev, slot, numCores, bound, fileVars>>

JobInitSched_KeepsGroup ==
    /\ \/ Go("queue", "pm") /\ Hold({"wq", "sched"})
       \/ Go("queue", "unclaim") /\ UNCHANGED held
    /\ UNCHANGED <<moduleVars, rdev, slot, numCores, irq, bound, fileVars>>
JobInitSched ==
    /\ \/ Go("queue", "pm") /\ Hold({"wq", "sched"})
       \/ Go("queue", "unclaim") /\ LetGo({"group"})
    /\ UNCHANGED <<moduleVars, rdev, slot, numCores, irq, bound, fileVars>>

\* rocket_job_fini, given what the core has.
JobFini(R) == R \ {"sched", "wq"}

\* rocket_core_fini
CoreFini == held' = [held EXCEPT ![Mine] = JobFini(@ \ {"pm", "group"})]

\* Runtime PM.
CoreResume ==
    /\ \/ Go("pm", "devfreq") /\ Hold({"pm"})
       \/ Go("pm", "unclaim") /\ CoreFini
    /\ UNCHANGED <<moduleVars, rdev, slot, numCores, irq, bound, fileVars>>

\* A registered devfreq device becomes a cooling device, if it can.
Cooled(R) == {R, R \cup {"cooling"}}

\* The devfreq part, which in slot 0 may fail without failing the probe.
ProbeDone ==
    /\ Finish("devfreq")
    /\ IF Mine = 0 THEN \E R \in {{}} \cup Cooled({"devfreq"}) : Hold(R)
                   ELSE Hold({"devfreq"})
    /\ bound' = bound \cup {bdev}
    /\ UNCHANGED <<moduleVars, rdev, slot, numCores, irq, fileVars>>

\* The end of a failed probe and of rocket_remove: the slot is free again, and
\* the last core takes the DRM device along (rocket_device_fini).
Unclaim_KeepsCount ==
    /\ Go("unclaim", "devres")
    /\ slot' = [slot EXCEPT ![Mine] = None] /\ UNCHANGED numCores
    /\ IF numCores = 1 THEN DeviceFini ELSE UNCHANGED rdev
    /\ UNCHANGED <<moduleVars, held, irq, bound, fileVars>>
Unclaim ==
    /\ Go("unclaim", "devres")
    /\ slot' = [slot EXCEPT ![Mine] = None] /\ numCores' = numCores - 1
    /\ IF numCores = 1 THEN DeviceFini ELSE UNCHANGED rdev
    /\ UNCHANGED <<moduleVars, held, irq, bound, fileVars>>

\* The driver core frees what the device owns, the interrupt among it.
Devres ==
    /\ Finish("devres") /\ irq' = irq \ {bdev}
    /\ UNCHANGED <<moduleVars, coreVars, bound, fileVars>>

----------------------------------------------------------------------------
(* rocket_remove, for every device when the module goes, for one when it   *)
(* is unbound by hand.                                                     *)

Remove(d) ==
    /\ d \in bound /\ BindFree
    /\ \/ module = "going"
       \/ module = "in" /\ (OpenFiles = {} \/ "unbind_open" \in Events)
    /\ bpc' = "fini" /\ bdev' = d /\ bound' = bound \ {d}
    /\ held' = [held EXCEPT ![SlotOf(d)] = @ \ {"devfreq", "cooling"}]
    /\ UNCHANGED <<moduleVars, rdev, slot, numCores, irq, fileVars>>

RemoveCore ==
    /\ Go("fini", "unclaim") /\ CoreFini
    /\ UNCHANGED <<moduleVars, rdev, slot, numCores, irq, bound, fileVars>>

----------------------------------------------------------------------------
(* rocket_open and rocket_postclose.                                       *)

Live == {i \in Slots : slot[i] # None}

\* A reference to the module, a live core, a domain on it, and the array of
\* rocket_job_open, sized by num_cores.
Open_NoModule(f) ==
    /\ module = "in" /\ rdev /\ Live # {} /\ fst[f] = "closed"
    /\ bpc = "idle" \/ "open_in_probe" \in Events
    /\ fst' = [fst EXCEPT ![f] = "sizing"] /\ room' = [room EXCEPT ![f] = numCores]
    /\ UNCHANGED <<list, moduleVars, coreVars, irq, binderVars, bound>>
Open(f) ==
    /\ module = "in" /\ rdev /\ Live # {} /\ fst[f] = "closed"
    /\ bpc = "idle" \/ "open_in_probe" \in Events
    /\ modRefs' = modRefs + 1
    /\ fst' = [fst EXCEPT ![f] = "sizing"] /\ room' = [room EXCEPT ![f] = numCores]
    /\ UNCHANGED <<list, module, drmDev, coreVars, irq, binderVars, bound>>

\* rocket_job_close
JobClose(f) == /\ list' = [list EXCEPT ![f] = {}] /\ room' = [room EXCEPT ![f] = 0]

Leave(f) == JobClose(f) /\ fst' = [fst EXCEPT ![f] = "closed"] /\ modRefs' = modRefs - 1

\* ... and filled with the cores there are now; or the open fails.
OpenDone(f) ==
    /\ fst[f] = "sizing"
    /\ \/ /\ fst' = [fst EXCEPT ![f] = "open"] /\ list' = [list EXCEPT ![f] = Live]
          /\ UNCHANGED <<room, modRefs>>
       \/ Leave(f)
    /\ UNCHANGED <<module, drmDev, coreVars, irq, binderVars, bound>>

Close(f) ==
    /\ fst[f] = "open" /\ Leave(f)
    /\ UNCHANGED <<module, drmDev, coreVars, irq, binderVars, bound>>

----------------------------------------------------------------------------
ModuleStep == Insmod \/ Rmmod \/ Unregister
BindStep   == \/ \E d \in Devs : Probe(d) \/ Remove(d)
              \/ Claim \/ CoreInit \/ JobInitIrq \/ JobInitSched \/ CoreResume
              \/ ProbeDone \/ Unclaim \/ Devres \/ RemoveCore
FileStep   == \E f \in Files : Open(f) \/ OpenDone(f) \/ Close(f)

DrvNext == ModuleStep \/ BindStep \/ FileStep

----------------------------------------------------------------------------
(* Properties.                                                             *)

DrvTypeOK ==
    /\ module \in {"out", "in", "going"} /\ modRefs \in Nat /\ drmDev \in BOOLEAN
    /\ rdev \in BOOLEAN /\ slot \in [Slots -> Devs \cup {None}]
    /\ numCores \in Nat /\ held \in [Slots -> SUBSET Resources]
    /\ irq \subseteq Devs /\ bound \subseteq Devs /\ bdev \in Devs \cup {None}
    /\ bpc \in {"idle", "claim", "group", "irq", "queue", "pm", "devfreq",
               "fini", "unclaim", "devres"}
    /\ fst \in [Files -> {"closed", "sizing", "open"}]
    /\ list \in [Files -> SUBSET Slots] /\ room \in [Files -> Nat]

\* Between probes and removes, in whatever order cores came, failed and went
\* (rocket_drv.c:202-206, 227-236, 257-265): the slots in use are those of
\* the bound cores, one each, and they are complete.
SlotsRight ==
    bpc = "idle" =>
        /\ bound = {slot[i] : i \in Live} /\ numCores = Cardinality(bound)
        /\ \A i, k \in Live : slot[i] = slot[k] => i = k
        /\ irq = bound
        /\ \A i \in Live : held[i] \cup {"devfreq", "cooling"} = Resources

\* A core that is gone leaves nothing, the last one not even the DRM device
\* (rocket_drv.c:227-236, 259-265; rocket_core.c:65-70, 84-88).
NothingLeft ==
    bpc = "idle" =>
        /\ \A i \in Slots \ Live : held[i] = {}
        /\ bound = {} => ~rdev
        /\ module = "out" => bound = {}

\* An open file keeps the module, the DRM device and the schedulers on its
\* list, and the list has room for them (rocket_drv.c:91, rocket_job.c:508-519).
FilesServed ==
    \A f \in Files : fst[f] = "open" =>
        /\ module = "in" /\ rdev /\ Cardinality(list[f]) <= room[f]
        /\ \A i \in list[f] : "sched" \in held[i]
=============================================================================
