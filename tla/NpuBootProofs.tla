--------------------------- MODULE NpuBootProofs ----------------------------
(***************************************************************************)
(* Proofs about the boot script, the driver's life and the voltage module. *)
(***************************************************************************)
EXTENDS NpuBoot, FiniteSetTheorems, TLAPS

\* Steps of the binding thread in which its device has a slot.
Claimed == {"group", "irq", "queue", "pm", "devfreq", "fini", "unclaim"}

\* What the driver has set up for the device that is bound or unbound.
SetUp == [p \in Claimed |->
            CASE p \in {"group", "unclaim"} -> {}
              [] p \in {"irq", "queue"}     -> {"group"}
              [] p = "pm"                   -> {"group", "wq", "sched"}
              [] p \in {"devfreq", "fini"}  -> {"group", "wq", "sched", "pm"}]

\* The slots in use are those of the bound cores and of the device at hand, one
\* each.
SlotInv ==
    /\ \A i, k \in Drv!Slots : slot[i] = slot[k] /\ slot[i] # None => i = k
    /\ \A d \in bound : \E i \in Drv!Slots : slot[i] = d
    /\ bpc \in Claimed => \E i \in Drv!Slots : slot[i] = bdev
    /\ \A i \in Drv!Slots : slot[i] \in bound \cup {None, bdev}
    /\ bpc \in {"claim", "devres"} => \A i \in Drv!Slots : slot[i] # bdev
    /\ IF bpc = "idle" THEN bdev = None ELSE bdev \in Devs \ bound
    /\ module = "out" => bpc = "idle" /\ bound = {}

\* Every slot has what its device's state says.
HeldInv ==
    /\ \A i \in Drv!Slots :
         /\ slot[i] = None => held[i] = {}
         /\ slot[i] \in bound => held[i] \cup {"devfreq", "cooling"} = Drv!Resources
         /\ bpc \in Claimed /\ slot[i] = bdev => held[i] = SetUp[bpc]
    /\ irq \ {bdev} = bound
    /\ bpc \in {"queue", "pm", "devfreq"} => bdev \in irq

\* The DRM device lives from the first probe to the last slot.
CountInv ==
    /\ numCores = Cardinality(Drv!Live)
    /\ rdev <=> Drv!Live # {} \/ bpc = "claim"

DrvInv == Drv!DrvTypeOK /\ SlotInv /\ HeldInv /\ CountInv

----------------------------------------------------------------------------

\* The instance has a name of its own for what it counts with.
LEMMA SameCardinality == \A S : Drv!Cardinality(S) = Cardinality(S)
  BY DEF Drv!Cardinality, Cardinality

LEMMA DevsFacts ==
    /\ Drv!MaxCores \in Nat \ {0} /\ Drv!Slots \subseteq Nat /\ 0 \in Drv!Slots
    /\ IsFiniteSet(Drv!Slots)
<1>1. Drv!MaxCores \in Nat \ {0}
  <2>1. Cardinality(Devs) \in Nat /\ Cardinality(Devs) # 0
    BY DevsAssumption, FS_CardinalityType, FS_EmptySet
  <2> QED BY <2>1, SameCardinality DEF Drv!MaxCores
<1>2. IsFiniteSet(0 .. Drv!MaxCores - 1)
  BY <1>1, FS_Interval
<1> QED BY <1>1, <1>2 DEF Drv!Slots

LEMMA LiveFinite == IsFiniteSet(Drv!Live) /\ Cardinality(Drv!Live) \in Nat
<1>1. Drv!Live \in SUBSET Drv!Slots
  BY DEF Drv!Live
<1>2. IsFiniteSet(Drv!Live)
  BY <1>1, DevsFacts, FS_Subset
<1> QED BY <1>2, FS_CardinalityType

\* SlotOf finds the slot of a device that has one.
LEMMA SlotFound ==
    ASSUME NEW d, d # None, SlotInv, \E i \in Drv!Slots : slot[i] = d
    PROVE  Drv!SlotOf(d) \in Drv!Slots /\ slot[Drv!SlotOf(d)] = d
  BY DEF Drv!SlotOf

LEMMA DrvInit == Init => DrvInv
<1> SUFFICES ASSUME Init PROVE DrvInv
  OBVIOUS
<1> USE DEF Init, Drv!Init
<1>1. Drv!DrvTypeOK
  BY DEF Drv!DrvTypeOK
<1>2. SlotInv /\ HeldInv
  BY DEF SlotInv, HeldInv, Claimed
<1>3. Drv!Live = {}
  BY DEF Drv!Live
<1>4. CountInv
  BY <1>3, FS_EmptySet DEF CountInv
<1> QED BY <1>1, <1>2, <1>4 DEF DrvInv

LEMMA DrvSame == DrvInv /\ UNCHANGED drvVars => DrvInv'
  BY DEF DrvInv, drvVars, Drv!DrvTypeOK, SlotInv, HeldInv, CountInv, Drv!Live

LEMMA ModuleKeeps == DrvInv /\ Drv!ModuleStep => DrvInv'
<1> SUFFICES ASSUME DrvInv, Drv!ModuleStep PROVE DrvInv'
  OBVIOUS
<1>1. UNCHANGED <<slot, numCores, held, rdev, irq, bpc, bdev, bound, Drv!fileVars, modRefs>>
  BY DEF Drv!ModuleStep, Drv!Insmod, Drv!Rmmod, Drv!Unregister, Drv!coreVars, Drv!binderVars
<1>2. /\ module' \in {"out", "in", "going"} /\ drmDev' \in BOOLEAN
      /\ module' = "out" => bpc = "idle" /\ bound = {}
  BY DEF Drv!ModuleStep, Drv!Insmod, Drv!Rmmod, Drv!Unregister, DrvInv, SlotInv, Drv!DrvTypeOK
<1>3. Drv!DrvTypeOK'
  BY <1>1, <1>2 DEF Drv!DrvTypeOK, DrvInv, Drv!fileVars
<1>4. SlotInv' /\ HeldInv' /\ CountInv'
  BY <1>1, <1>2 DEF DrvInv, SlotInv, HeldInv, CountInv, Drv!Live
<1> QED BY <1>3, <1>4 DEF DrvInv

LEMMA ProbeKeeps == ASSUME NEW d \in Devs, DrvInv, Drv!Probe(d) PROVE DrvInv'
<1> USE DEF Drv!Probe, DrvInv, Drv!binderVars, Drv!moduleVars, Drv!BindFree, Drv!DeviceInit
<1>1. Drv!DrvTypeOK'
  BY DEF Drv!DrvTypeOK, Drv!fileVars
<1>2. SlotInv'
  BY DevsAssumption DEF SlotInv, Claimed
<1>3. irq \ {d} = bound /\ bdev' \in {d, None} /\ irq = bound
  <2>1. bdev = None /\ bdev' \in {d, None} /\ irq \ {bdev} = bound /\ irq \subseteq Devs
    BY DEF SlotInv, HeldInv, Drv!DrvTypeOK
  <2>2. irq = bound
    BY <2>1, DevsAssumption, Zenon
  <2> QED BY <2>1, <2>2
<1>4. HeldInv'
  BY <1>3 DEF HeldInv, Claimed
<1>5. CountInv'
  BY DEF CountInv, Drv!Live, SlotInv
<1> QED BY <1>1, <1>2, <1>4, <1>5

Less == {p \in Nat \X Nat : p[1] < p[2]}

LEMMA LessWellFounded == IsWellFoundedOn(Less, Nat)
  BY NatLessThanWellFounded DEF OpToRel, Less

LEMMA LessPair == \A x, y \in Nat : <<x, y>> \in Less <=> x < y
  BY DEF Less

\* The first free slot.
LEMMA FirstFree ==
    Drv!Free # {} => \E i \in Drv!Free : \A n \in Drv!Free : i <= n
<1> SUFFICES ASSUME Drv!Free # {}
             PROVE  \E i \in Drv!Free : \A n \in Drv!Free : i <= n
  OBVIOUS
<1>1. Drv!Free \subseteq Nat
  BY DevsFacts DEF Drv!Free
<1>2. PICK i \in Drv!Free : \A n \in Drv!Free : ~(<<n, i>> \in Less)
  BY <1>1, LessWellFounded, WFMin
<1>3. ASSUME NEW n \in Drv!Free PROVE i <= n
  <2>1. n \in Nat /\ i \in Nat /\ ~(n < i)
    BY <1>1, <1>2, LessPair
  <2> QED BY <2>1
<1> QED BY <1>3

LEMMA ClaimKeeps == DrvInv /\ Drv!Claim => DrvInv'
<1> SUFFICES ASSUME DrvInv, Drv!Claim PROVE DrvInv'
  OBVIOUS
<1> USE DEF DrvInv
<1>1. PICK i \in Drv!Free : slot' = [slot EXCEPT ![i] = bdev]
  BY FirstFree DEF Drv!Claim
<1>2. /\ i \in Drv!Slots /\ slot[i] = None
      /\ slot \in [Drv!Slots -> Devs \cup {None}] /\ slot' \in [Drv!Slots -> Devs \cup {None}]
      /\ slot'[i] = bdev /\ \A k \in Drv!Slots \ {i} : slot'[k] = slot[k]
      /\ bdev \in Devs \ bound /\ bdev # None
      /\ \A k \in Drv!Slots : slot[k] # bdev
  <2>1. bdev \in Devs \ bound /\ bdev # None /\ \A k \in Drv!Slots : slot[k] # bdev
    BY DevsAssumption DEF SlotInv, Drv!Claim, Drv!Go
  <2>2. i \in Drv!Slots /\ slot[i] = None /\ slot \in [Drv!Slots -> Devs \cup {None}]
    BY DEF Drv!Free, Drv!DrvTypeOK
  <2> QED BY <1>1, <2>1, <2>2
<1>3. /\ bpc = "claim" /\ bpc' = "group" /\ bdev' = bdev /\ numCores' = numCores + 1
      /\ UNCHANGED <<Drv!moduleVars, rdev, held, irq, bound, Drv!fileVars>>
  BY DEF Drv!Claim, Drv!Go
<1>4. Drv!DrvTypeOK'
  BY <1>2, <1>3 DEF Drv!DrvTypeOK, Drv!moduleVars, Drv!fileVars
<1>5. SlotInv'
  <2>1. \A j, k \in Drv!Slots : slot'[j] = slot'[k] /\ slot'[j] # None => j = k
    BY <1>2 DEF SlotInv
  <2>2. ASSUME NEW d \in bound PROVE \E j \in Drv!Slots : slot'[j] = d
    <3>1. d # None
      BY DevsAssumption DEF Drv!DrvTypeOK
    <3>2. PICK j \in Drv!Slots : slot[j] = d
      BY DEF SlotInv
    <3> QED BY <1>2, <3>1, <3>2
  <2>3. \A j \in Drv!Slots : slot'[j] \in bound \cup {None, bdev}
    BY <1>2 DEF SlotInv
  <2>4. bpc' = "group" /\ bdev' = bdev /\ bound' = bound /\ module' = module
        /\ bpc = "claim"
    BY <1>3 DEF Drv!moduleVars
  <2> QED BY <1>2, <2>1, <2>2, <2>3, <2>4 DEF SlotInv
<1>6. HeldInv'
  BY <1>2, <1>3 DEF HeldInv, SlotInv, Claimed, SetUp
<1>7. Drv!Live' = Drv!Live \cup {i} /\ i \notin Drv!Live
  BY <1>2 DEF Drv!Live
<1>8. CountInv'
  BY <1>3, <1>7, LiveFinite, FS_AddElement DEF CountInv
<1> QED BY <1>4, <1>5, <1>6, <1>8

\* The slot of the device at hand.
LEMMA MineFound ==
    ASSUME DrvInv, bpc \in Claimed
    PROVE  /\ Drv!Mine \in Drv!Slots /\ slot[Drv!Mine] = bdev
           /\ held[Drv!Mine] = SetUp[bpc] /\ bdev \in Devs \ bound
           /\ \A k \in Drv!Slots : slot[k] = bdev => k = Drv!Mine
<1>1. bdev \in Devs \ bound /\ bdev # None
  BY DevsAssumption DEF DrvInv, SlotInv, Claimed
<1>2. Drv!Mine \in Drv!Slots /\ slot[Drv!Mine] = bdev
  BY <1>1, SlotFound DEF DrvInv, SlotInv, Drv!Mine
<1> QED BY <1>1, <1>2 DEF DrvInv, SlotInv, HeldInv

\* A step that changes what the device's slot has, and perhaps its interrupt.
LEMMA SetUpStep ==
    ASSUME DrvInv, bpc \in Claimed, bpc' \in Claimed,
           held' = [held EXCEPT ![Drv!Mine] = SetUp[bpc']],
           irq' \in {irq, irq \cup {bdev}},
           bpc' \in {"queue", "pm", "devfreq"} => bdev \in irq',
           UNCHANGED <<Drv!moduleVars, rdev, slot, numCores, bdev, bound, Drv!fileVars>>
    PROVE  DrvInv'
<1> USE MineFound DEF DrvInv
<1>1. SetUp[bpc'] \subseteq Drv!Resources
  BY DEF SetUp, Claimed, Drv!Resources
<1>2. bpc' \in {"group", "irq", "queue", "pm", "devfreq", "fini", "unclaim"}
  BY DEF Claimed
<1>3. Drv!DrvTypeOK'
  BY <1>1, <1>2 DEF Drv!DrvTypeOK, Drv!moduleVars, Drv!fileVars
<1>4. SlotInv'
  BY <1>2 DEF SlotInv, Drv!moduleVars, Claimed
<1>5. held \in [Drv!Slots -> SUBSET Drv!Resources]
  BY DEF Drv!DrvTypeOK
<1>6. HeldInv'
  BY <1>5, DevsAssumption DEF HeldInv
<1>7. CountInv'
  BY DEF CountInv, Drv!Live, Claimed
<1> QED BY <1>3, <1>4, <1>6, <1>7

LEMMA SetUpSame ==
    ASSUME DrvInv, bpc \in Claimed, NEW R, R = SetUp[bpc]
    PROVE  held = [held EXCEPT ![Drv!Mine] = R]
<1>1. held \in [Drv!Slots -> SUBSET Drv!Resources] /\ held[Drv!Mine] = R
  BY MineFound DEF DrvInv, Drv!DrvTypeOK
<1> QED BY <1>1, MineFound

LEMMA SetUpKeeps ==
    DrvInv /\ (Drv!CoreInit \/ Drv!JobInitIrq \/ Drv!JobInitSched \/ Drv!CoreResume
               \/ Drv!RemoveCore) => DrvInv'
<1> USE DEF Drv!Go, Claimed
<1>1. ASSUME DrvInv, Drv!CoreInit PROVE DrvInv'
  <2> USE <1>1
  <2>1. held' = [held EXCEPT ![Drv!Mine] = SetUp[bpc']]
    BY MineFound, SetUpSame DEF Drv!CoreInit, Drv!Hold, SetUp
  <2>2. /\ bpc = "group" /\ bpc' \in {"irq", "unclaim"} /\ irq' = irq
        /\ UNCHANGED <<Drv!moduleVars, rdev, slot, numCores, bdev, bound, Drv!fileVars>>
    BY DEF Drv!CoreInit
  <2> QED BY <2>1, <2>2, SetUpStep
<1>2. ASSUME DrvInv, Drv!JobInitIrq PROVE DrvInv'
  <2> USE <1>2
  <2>1. held' = [held EXCEPT ![Drv!Mine] = SetUp[bpc']]
    BY MineFound, SetUpSame DEF Drv!JobInitIrq, Drv!LetGo, SetUp
  <2>2. /\ bpc = "irq" /\ bpc' \in {"queue", "unclaim"} /\ irq' \in {irq, irq \cup {bdev}}
        /\ bpc' = "queue" => bdev \in irq'
        /\ UNCHANGED <<Drv!moduleVars, rdev, slot, numCores, bdev, bound, Drv!fileVars>>
    BY DEF Drv!JobInitIrq
  <2> QED BY <2>1, <2>2, SetUpStep
<1>3. ASSUME DrvInv, Drv!JobInitSched PROVE DrvInv'
  <2> USE <1>3
  <2>1. held' = [held EXCEPT ![Drv!Mine] = SetUp[bpc']]
    BY MineFound DEF Drv!JobInitSched, Drv!Hold, Drv!LetGo, SetUp
  <2>2. /\ bpc = "queue" /\ bpc' \in {"pm", "unclaim"} /\ irq' = irq /\ bdev \in irq
        /\ UNCHANGED <<Drv!moduleVars, rdev, slot, numCores, bdev, bound, Drv!fileVars>>
    BY DEF Drv!JobInitSched, DrvInv, HeldInv
  <2> QED BY <2>1, <2>2, SetUpStep
<1>4. ASSUME DrvInv, Drv!CoreResume PROVE DrvInv'
  <2> USE <1>4
  <2>1. held' = [held EXCEPT ![Drv!Mine] = SetUp[bpc']]
    BY MineFound DEF Drv!CoreResume, Drv!Hold, Drv!CoreFini, Drv!JobFini, SetUp
  <2>2. /\ bpc = "pm" /\ bpc' \in {"devfreq", "unclaim"} /\ irq' = irq /\ bdev \in irq
        /\ UNCHANGED <<Drv!moduleVars, rdev, slot, numCores, bdev, bound, Drv!fileVars>>
    BY DEF Drv!CoreResume, DrvInv, HeldInv
  <2> QED BY <2>1, <2>2, SetUpStep
<1>5. ASSUME DrvInv, Drv!RemoveCore PROVE DrvInv'
  <2> USE <1>5
  <2>1. held' = [held EXCEPT ![Drv!Mine] = SetUp[bpc']]
    BY MineFound DEF Drv!RemoveCore, Drv!CoreFini, Drv!JobFini, SetUp
  <2>2. /\ bpc = "fini" /\ bpc' = "unclaim" /\ irq' = irq
        /\ UNCHANGED <<Drv!moduleVars, rdev, slot, numCores, bdev, bound, Drv!fileVars>>
    BY DEF Drv!RemoveCore
  <2> QED BY <2>1, <2>2, SetUpStep
<1> QED BY <1>1, <1>2, <1>3, <1>4, <1>5

LEMMA ProbeDoneKeeps == DrvInv /\ Drv!ProbeDone => DrvInv'
<1> SUFFICES ASSUME DrvInv, Drv!ProbeDone PROVE DrvInv'
  OBVIOUS
<1>1. bpc = "devfreq" /\ bpc' = "idle" /\ bdev' = None /\ bound' = bound \cup {bdev}
      /\ UNCHANGED <<Drv!moduleVars, rdev, slot, numCores, irq, Drv!fileVars>>
  BY DEF Drv!ProbeDone, Drv!Finish
<1>2. PICK R \in SUBSET {"devfreq", "cooling"} :
        held' = [held EXCEPT ![Drv!Mine] = @ \cup R]
  BY DEF Drv!ProbeDone, Drv!Hold, Drv!Cooled
<1>3. /\ Drv!Mine \in Drv!Slots /\ slot[Drv!Mine] = bdev /\ bdev \in Devs \ bound
      /\ held[Drv!Mine] = {"group", "wq", "sched", "pm"}
      /\ \A k \in Drv!Slots : slot[k] = bdev => k = Drv!Mine
  BY <1>1, MineFound DEF Claimed, SetUp
<1>4. held \in [Drv!Slots -> SUBSET Drv!Resources] /\ None \notin Devs
      /\ irq \subseteq Devs /\ bound \subseteq Devs
  BY DevsAssumption DEF DrvInv, Drv!DrvTypeOK
<1>5. /\ held' \in [Drv!Slots -> SUBSET Drv!Resources]
      /\ held'[Drv!Mine] \cup {"devfreq", "cooling"} = Drv!Resources
      /\ \A k \in Drv!Slots \ {Drv!Mine} : held'[k] = held[k]
  BY <1>2, <1>3, <1>4 DEF Drv!Resources
<1>6. Drv!DrvTypeOK'
  BY <1>1, <1>3, <1>5 DEF DrvInv, Drv!DrvTypeOK, Drv!moduleVars, Drv!fileVars
<1>7. SlotInv'
  <2>1. \A j, k \in Drv!Slots : slot'[j] = slot'[k] /\ slot'[j] # None => j = k
    BY <1>1 DEF DrvInv, SlotInv
  <2>2. \A d \in bound' : \E j \in Drv!Slots : slot'[j] = d
    BY <1>1, <1>3 DEF DrvInv, SlotInv
  <2>3. \A j \in Drv!Slots : slot'[j] \in bound' \cup {None, bdev'}
    BY <1>1 DEF DrvInv, SlotInv
  <2>4. module' # "out"
    BY <1>1 DEF DrvInv, SlotInv, Drv!moduleVars
  <2> QED BY <1>1, <2>1, <2>2, <2>3, <2>4 DEF SlotInv, Claimed
<1>8. HeldInv'
  <2>1. irq = bound \cup {bdev}
    BY <1>1 DEF DrvInv, HeldInv
  <2> QED BY <1>1, <1>3, <1>4, <1>5, <2>1 DEF DrvInv, HeldInv, Claimed
<1>9. CountInv'
  BY <1>1 DEF DrvInv, CountInv, Drv!Live
<1> QED BY <1>6, <1>7, <1>8, <1>9 DEF DrvInv

LEMMA UnclaimKeeps == DrvInv /\ Drv!Unclaim => DrvInv'
<1> SUFFICES ASSUME DrvInv, Drv!Unclaim PROVE DrvInv'
  OBVIOUS
<1>1. /\ bpc = "unclaim" /\ bpc' = "devres" /\ bdev' = bdev /\ numCores' = numCores - 1
      /\ slot' = [slot EXCEPT ![Drv!Mine] = None]
      /\ rdev' = (rdev /\ numCores # 1)
      /\ UNCHANGED <<Drv!moduleVars, held, irq, bound, Drv!fileVars>>
  BY DEF Drv!Unclaim, Drv!Go, Drv!DeviceFini, DrvInv, Drv!DrvTypeOK
<1>2. /\ Drv!Mine \in Drv!Slots /\ slot[Drv!Mine] = bdev /\ bdev \in Devs \ bound
      /\ held[Drv!Mine] = {}
      /\ \A k \in Drv!Slots : slot[k] = bdev => k = Drv!Mine
  BY <1>1, MineFound DEF Claimed, SetUp
<1>3. slot \in [Drv!Slots -> Devs \cup {None}] /\ None \notin Devs
      /\ bound \subseteq Devs
  BY DevsAssumption DEF DrvInv, Drv!DrvTypeOK
<1>4. /\ slot' \in [Drv!Slots -> Devs \cup {None}] /\ slot'[Drv!Mine] = None
      /\ \A k \in Drv!Slots \ {Drv!Mine} : slot'[k] = slot[k]
  BY <1>1, <1>2, <1>3
<1>5. Drv!Live' = Drv!Live \ {Drv!Mine} /\ Drv!Mine \in Drv!Live
  BY <1>2, <1>3, <1>4 DEF Drv!Live
<1>6. numCores' = Cardinality(Drv!Live') /\ numCores' \in Nat
  <2>1. numCores' = Cardinality(Drv!Live')
    BY <1>1, <1>5, LiveFinite, FS_RemoveElement DEF DrvInv, CountInv
  <2> QED BY <2>1, <1>5, LiveFinite, FS_RemoveElement, FS_CardinalityType
<1>7. rdev' <=> Drv!Live' # {}
  <2>1. IsFiniteSet(Drv!Live') /\ rdev /\ numCores \in Nat
    BY <1>5, LiveFinite, FS_RemoveElement DEF DrvInv, CountInv
  <2>2. numCores' = 0 <=> Drv!Live' = {}
    BY <1>6, <2>1, FS_EmptySet
  <2>3. numCores' = 0 <=> numCores = 1
    BY <1>1, <2>1
  <2>4. rdev' <=> numCores # 1
    BY <1>1, <2>1, Zenon
  <2> QED BY <2>2, <2>3, <2>4, Zenon
<1>8. Drv!DrvTypeOK'
  BY <1>1, <1>4, <1>6 DEF DrvInv, Drv!DrvTypeOK, Drv!moduleVars, Drv!fileVars
<1>9. SlotInv'
  <2>1. \A j, k \in Drv!Slots : slot'[j] = slot'[k] /\ slot'[j] # None => j = k
    BY <1>4 DEF DrvInv, SlotInv
  <2>2. ASSUME NEW d \in bound PROVE \E j \in Drv!Slots : slot'[j] = d
    <3>1. PICK j \in Drv!Slots : slot[j] = d
      BY DEF DrvInv, SlotInv
    <3> QED BY <1>2, <1>4, <3>1
  <2>3. \A j \in Drv!Slots : slot'[j] \in bound \cup {None, bdev} /\ slot'[j] # bdev
    BY <1>2, <1>3, <1>4 DEF DrvInv, SlotInv
  <2>4. bpc' = "devres" /\ bdev' = bdev /\ bound' = bound /\ module' = module
        /\ bpc = "unclaim"
    BY <1>1 DEF Drv!moduleVars
  <2> QED BY <1>2, <2>1, <2>2, <2>3, <2>4 DEF DrvInv, SlotInv, Claimed
<1>10. HeldInv'
  BY <1>1, <1>2, <1>3, <1>4 DEF DrvInv, HeldInv, Claimed
<1>11. CountInv'
  BY <1>1, <1>6, <1>7 DEF CountInv
<1> QED BY <1>8, <1>9, <1>10, <1>11 DEF DrvInv

LEMMA DevresKeeps == DrvInv /\ Drv!Devres => DrvInv'
<1> SUFFICES ASSUME DrvInv, Drv!Devres PROVE DrvInv'
  OBVIOUS
<1> USE DEF DrvInv
<1>1. /\ bpc = "devres" /\ bpc' = "idle" /\ bdev' = None /\ irq' = irq \ {bdev}
      /\ UNCHANGED <<Drv!moduleVars, Drv!coreVars, bound, Drv!fileVars>>
  BY DEF Drv!Devres, Drv!Finish
<1>2. Drv!DrvTypeOK'
  BY <1>1 DEF Drv!DrvTypeOK, Drv!moduleVars, Drv!coreVars, Drv!fileVars
<1>3. SlotInv'
  BY <1>1 DEF SlotInv, Claimed, Drv!moduleVars, Drv!coreVars
<1>4. HeldInv'
  <2>1. irq' = bound /\ irq' \ {None} = bound
    BY <1>1, DevsAssumption DEF HeldInv, Drv!DrvTypeOK
  <2> QED BY <1>1, <2>1 DEF HeldInv, Claimed, Drv!coreVars
<1>5. CountInv'
  BY <1>1 DEF CountInv, Drv!Live, Drv!coreVars
<1> QED BY <1>2, <1>3, <1>4, <1>5

LEMMA RemoveKeeps == ASSUME NEW d \in Devs, DrvInv, Drv!Remove(d) PROVE DrvInv'
<1>1. /\ d \in bound /\ bpc = "idle" /\ bpc' = "fini" /\ bdev' = d /\ bound' = bound \ {d}
      /\ held' = [held EXCEPT ![Drv!SlotOf(d)] = @ \ {"devfreq", "cooling"}]
      /\ UNCHANGED <<Drv!moduleVars, rdev, slot, numCores, irq, Drv!fileVars>>
  BY DEF Drv!Remove, Drv!BindFree
<1> DEFINE m == Drv!SlotOf(d)
<1>2. m \in Drv!Slots /\ slot[m] = d /\ d # None
  BY <1>1, DevsAssumption, SlotFound DEF DrvInv, SlotInv
<1>3. \A k \in Drv!Slots : slot[k] = d => k = m
  BY <1>2 DEF DrvInv, SlotInv
<1> HIDE DEF m
<1>4. held \in [Drv!Slots -> SUBSET Drv!Resources] /\ None \notin Devs
      /\ irq \subseteq Devs /\ bound \subseteq Devs
  BY DevsAssumption DEF DrvInv, Drv!DrvTypeOK
<1>5. held' \in [Drv!Slots -> SUBSET Drv!Resources]
      /\ held'[m] = {"group", "wq", "sched", "pm"}
      /\ \A k \in Drv!Slots \ {m} : held'[k] = held[k]
  <2>1. held[m] \cup {"devfreq", "cooling"} = Drv!Resources
    BY <1>1, <1>2 DEF DrvInv, HeldInv
  <2>2. held' = [held EXCEPT ![m] = @ \ {"devfreq", "cooling"}]
    BY <1>1 DEF m
  <2>3. held[m] \ {"devfreq", "cooling"} = {"group", "wq", "sched", "pm"}
    BY <2>1 DEF Drv!Resources
  <2> QED BY <1>2, <1>4, <2>2, <2>3 DEF Drv!Resources
<1>6. Drv!DrvTypeOK'
  BY <1>1, <1>5 DEF DrvInv, Drv!DrvTypeOK, Drv!moduleVars, Drv!fileVars
<1>7. SlotInv'
  BY <1>1, <1>2, <1>3 DEF DrvInv, SlotInv, Drv!moduleVars, Claimed
<1>8. HeldInv'
  <2>1. irq \ {d} = bound \ {d}
    BY <1>1, <1>4 DEF DrvInv, SlotInv, HeldInv
  <2> QED BY <1>1, <1>2, <1>3, <1>4, <1>5, <2>1 DEF DrvInv, HeldInv, Claimed, SetUp
<1>9. CountInv'
  BY <1>1 DEF DrvInv, CountInv, Drv!Live
<1> QED BY <1>6, <1>7, <1>8, <1>9 DEF DrvInv

LEMMA DrvKeeps ==
    DrvInv /\ (Drv!BindStep \/ Drv!ModuleStep) => DrvInv'
  BY ProbeKeeps, RemoveKeeps, ClaimKeeps, SetUpKeeps, ProbeDoneKeeps, UnclaimKeeps,
     DevresKeeps, ModuleKeeps DEF Drv!BindStep

LEMMA FileKeeps == DrvInv /\ modRefs' \in Nat /\ Drv!FileStep => DrvInv'
<1> SUFFICES ASSUME DrvInv, modRefs' \in Nat, Drv!FileStep PROVE DrvInv'
  OBVIOUS
<1> USE DEF Drv!FileStep, Drv!Open, Drv!OpenDone, Drv!Close, Drv!Leave, Drv!JobClose
<1>1. UNCHANGED <<module, drmDev, Drv!coreVars, irq, Drv!binderVars, bound>>
  OBVIOUS
<1>2. /\ fst' \in [Files -> {"closed", "sizing", "open"}]
      /\ list' \in [Files -> SUBSET Drv!Slots] /\ room' \in [Files -> Nat]
  BY DEF DrvInv, Drv!DrvTypeOK, Drv!Live
<1>3. Drv!DrvTypeOK'
  BY <1>1, <1>2 DEF DrvInv, Drv!DrvTypeOK, Drv!coreVars, Drv!binderVars
<1>4. SlotInv' /\ HeldInv' /\ CountInv'
  BY <1>1 DEF DrvInv, SlotInv, HeldInv, CountInv, Drv!Live, Drv!coreVars, Drv!binderVars
<1> QED BY <1>3, <1>4 DEF DrvInv

----------------------------------------------------------------------------
(* The files.                                                              *)

Calm == Events = {}

\* One reference on the module for each open file.
RefsInv == modRefs = Cardinality(Drv!OpenFiles)

\* Open files keep the module, and what they have on their lists is there.
FilesInv ==
    /\ Drv!OpenFiles # {} => module = "in"
    /\ \A f \in Files :
         /\ fst[f] = "sizing" => bpc = "idle" /\ room[f] = numCores /\ Drv!Live # {}
         /\ fst[f] = "open" =>
              /\ list[f] # {} /\ Cardinality(list[f]) <= room[f]
              /\ \A i \in list[f] : slot[i] \in bound

LEMMA OpenFinite == IsFiniteSet(Drv!OpenFiles)
<1>1. Drv!OpenFiles \in SUBSET Files
  BY DEF Drv!OpenFiles
<1> QED BY <1>1, FilesAssumption, FS_Subset

LEMMA FilesInit == Init => RefsInv /\ FilesInv
<1> SUFFICES ASSUME Init PROVE RefsInv /\ FilesInv
  OBVIOUS
<1>1. /\ \A f \in Files : fst[f] = "closed"
      /\ Drv!OpenFiles = {} /\ modRefs = 0
  BY DEF Init, Drv!Init, Drv!OpenFiles
<1> QED BY <1>1, FS_EmptySet DEF FilesInv, RefsInv

LEMMA FilesSame == FilesInv /\ UNCHANGED drvVars => FilesInv'
  BY DEF FilesInv, drvVars, Drv!OpenFiles, Drv!Live

LEMMA FilesModule == RefsInv /\ FilesInv /\ Drv!ModuleStep => FilesInv'
<1> SUFFICES ASSUME RefsInv, FilesInv, Drv!ModuleStep PROVE FilesInv'
  OBVIOUS
<1>1. UNCHANGED <<slot, numCores, bpc, bound, fst, list, room, modRefs>>
  BY DEF Drv!ModuleStep, Drv!Insmod, Drv!Rmmod, Drv!Unregister, Drv!coreVars, Drv!binderVars,
         Drv!fileVars
<1>2. Drv!OpenFiles # {} => module' = "in"
  <2>1. Drv!OpenFiles # {} => modRefs # 0
    BY OpenFinite, FS_EmptySet DEF RefsInv
  <2> QED BY <2>1 DEF Drv!ModuleStep, Drv!Insmod, Drv!Rmmod, Drv!Unregister, FilesInv
<1> QED BY <1>1, <1>2 DEF FilesInv, Drv!OpenFiles, Drv!Live

LEMMA FilesBind == Calm /\ DrvInv /\ FilesInv /\ Drv!BindStep => FilesInv'
<1> SUFFICES ASSUME Calm, DrvInv, FilesInv, Drv!BindStep PROVE FilesInv'
  OBVIOUS
<1>1. UNCHANGED <<module, modRefs, fst, list, room>>
  BY DEF Drv!BindStep, Drv!Probe, Drv!Remove, Drv!Claim, Drv!CoreInit, Drv!JobInitIrq,
         Drv!JobInitSched, Drv!CoreResume, Drv!ProbeDone, Drv!Unclaim, Drv!Devres,
         Drv!RemoveCore, Drv!moduleVars, Drv!fileVars
<1>2. Drv!OpenFiles' = Drv!OpenFiles
  BY <1>1 DEF Drv!OpenFiles
<1>3. \A f \in Files : fst[f] # "sizing"
  BY DEF Drv!BindStep, Drv!Probe, Drv!Remove, Drv!Claim, Drv!CoreInit, Drv!JobInitIrq,
         Drv!JobInitSched, Drv!CoreResume, Drv!ProbeDone, Drv!Unclaim, Drv!Devres,
         Drv!RemoveCore, Drv!BindFree, Drv!Go, Drv!Finish, Calm, FilesInv
<1>4. ASSUME NEW f \in Files, fst[f] = "open", NEW i \in list[f]
      PROVE  slot'[i] \in bound'
  <2>1. /\ i \in Drv!Slots /\ slot[i] \in bound /\ slot[i] # None
        /\ slot \in [Drv!Slots -> Devs \cup {None}]
    BY <1>4, DevsAssumption DEF FilesInv, DrvInv, Drv!DrvTypeOK
  <2>2. \A d \in Devs : ~Drv!Remove(d)
    <3>1. f \in Drv!OpenFiles /\ module = "in"
      BY <1>4 DEF FilesInv, Drv!OpenFiles
    <3> QED BY <3>1 DEF Drv!Remove, Calm
  <2>3. CASE \E d \in Devs : Drv!Probe(d)
    BY <2>1, <2>3 DEF Drv!Probe
  <2>4. CASE Drv!Claim
    <3>1. PICK k \in Drv!Free : slot' = [slot EXCEPT ![k] = bdev]
      BY <2>4, FirstFree DEF Drv!Claim
    <3>2. k # i
      BY <2>1 DEF Drv!Free
    <3> QED BY <2>1, <2>4, <3>1, <3>2 DEF Drv!Claim
  <2>5. CASE Drv!ProbeDone
    BY <2>1, <2>5 DEF Drv!ProbeDone
  <2>6. CASE Drv!Unclaim
    <3>1. slot[Drv!Mine] = bdev /\ bdev \notin bound
      BY <2>6, MineFound DEF Drv!Unclaim, Drv!Go, Claimed
    <3>2. Drv!Mine # i
      BY <2>1, <3>1
    <3> QED BY <2>1, <2>6, <3>2 DEF Drv!Unclaim
  <2>7. CASE Drv!CoreInit \/ Drv!JobInitIrq \/ Drv!JobInitSched \/ Drv!CoreResume
             \/ Drv!RemoveCore \/ Drv!Devres
    BY <2>1, <2>7 DEF Drv!CoreInit, Drv!JobInitIrq, Drv!JobInitSched, Drv!CoreResume,
         Drv!RemoveCore, Drv!Devres, Drv!coreVars
  <2> QED BY <2>2, <2>3, <2>4, <2>5, <2>6, <2>7 DEF Drv!BindStep
<1> QED BY <1>1, <1>2, <1>3, <1>4 DEF FilesInv

LEMMA RefsFile == DrvInv /\ RefsInv /\ Drv!FileStep => RefsInv' /\ modRefs' \in Nat
<1> SUFFICES ASSUME DrvInv, RefsInv, NEW f \in Files,
                    Drv!Open(f) \/ Drv!OpenDone(f) \/ Drv!Close(f)
             PROVE  RefsInv' /\ modRefs' \in Nat
  BY DEF Drv!FileStep
<1>1. fst \in [Files -> {"closed", "sizing", "open"}] /\ modRefs \in Nat
  BY DEF DrvInv, Drv!DrvTypeOK
<1>2. CASE Drv!Open(f)
  <2>1. fst[f] = "closed" /\ fst' = [fst EXCEPT ![f] = "sizing"] /\ modRefs' = modRefs + 1
    BY <1>2 DEF Drv!Open
  <2>2. Drv!OpenFiles' = Drv!OpenFiles \cup {f} /\ f \notin Drv!OpenFiles
    BY <1>1, <2>1 DEF Drv!OpenFiles
  <2>3. Cardinality(Drv!OpenFiles') = Cardinality(Drv!OpenFiles) + 1
    BY <2>2, OpenFinite, FS_AddElement
  <2> QED BY <1>1, <2>1, <2>3 DEF RefsInv
<1>3. CASE fst[f] # "closed" /\ Drv!Leave(f)
  <2>1. fst' = [fst EXCEPT ![f] = "closed"] /\ modRefs' = modRefs - 1
    BY <1>3 DEF Drv!Leave
  <2>2. Drv!OpenFiles' = Drv!OpenFiles \ {f} /\ f \in Drv!OpenFiles
    BY <1>1, <1>3, <2>1 DEF Drv!OpenFiles
  <2>3. /\ IsFiniteSet(Drv!OpenFiles')
        /\ Cardinality(Drv!OpenFiles') = Cardinality(Drv!OpenFiles) - 1
    BY <2>2, OpenFinite, FS_RemoveElement
  <2> QED BY <2>1, <2>3, FS_CardinalityType DEF RefsInv
<1>4. CASE Drv!OpenDone(f) /\ ~Drv!Leave(f)
  <2>1. fst[f] = "sizing" /\ fst' = [fst EXCEPT ![f] = "open"] /\ modRefs' = modRefs
    BY <1>4 DEF Drv!OpenDone
  <2>2. Drv!OpenFiles' = Drv!OpenFiles
    BY <1>1, <2>1 DEF Drv!OpenFiles
  <2> QED BY <1>1, <2>1, <2>2 DEF RefsInv
<1> QED BY <1>2, <1>3, <1>4 DEF Drv!OpenDone, Drv!Close

LEMMA FilesFile == Calm /\ DrvInv /\ FilesInv /\ Drv!FileStep => FilesInv'
<1> SUFFICES ASSUME Calm, DrvInv, FilesInv, NEW f \in Files,
                    Drv!Open(f) \/ Drv!OpenDone(f) \/ Drv!Close(f)
             PROVE  FilesInv'
  BY DEF Drv!FileStep
<1>1. /\ fst \in [Files -> {"closed", "sizing", "open"}]
      /\ list \in [Files -> SUBSET Drv!Slots] /\ room \in [Files -> Nat]
      /\ numCores \in Nat
  BY DEF DrvInv, Drv!DrvTypeOK
<1>2. UNCHANGED <<module, slot, numCores, bpc, bdev, bound>>
  BY DEF Drv!Open, Drv!OpenDone, Drv!Close, Drv!coreVars, Drv!binderVars
<1>3. Drv!Live' = Drv!Live
  BY <1>2 DEF Drv!Live
<1>4. CASE Drv!Open(f)
  <2>1. /\ fst' = [fst EXCEPT ![f] = "sizing"] /\ room' = [room EXCEPT ![f] = numCores]
        /\ module = "in" /\ Drv!Live # {} /\ bpc = "idle" /\ list' = list
    BY <1>4 DEF Drv!Open, Calm
  <2>2. \A g \in Files \ {f} : fst'[g] = fst[g] /\ list'[g] = list[g] /\ room'[g] = room[g]
    BY <1>1, <2>1
  <2>3. fst'[f] = "sizing" /\ room'[f] = numCores
    BY <1>1, <2>1
  <2> QED BY <1>2, <1>3, <2>1, <2>2, <2>3 DEF FilesInv
<1>5. CASE Drv!OpenDone(f) /\ ~Drv!Leave(f)
  <2>1. /\ fst[f] = "sizing" /\ fst' = [fst EXCEPT ![f] = "open"]
        /\ list' = [list EXCEPT ![f] = Drv!Live] /\ room' = room
    BY <1>5 DEF Drv!OpenDone
  <2>2. Drv!OpenFiles' = Drv!OpenFiles
    BY <1>1, <2>1 DEF Drv!OpenFiles
  <2>3. \A g \in Files \ {f} : fst'[g] = fst[g] /\ list'[g] = list[g] /\ room'[g] = room[g]
    BY <1>1, <2>1
  <2>4. fst'[f] = "open" /\ list'[f] = Drv!Live /\ room'[f] = numCores /\ Drv!Live # {}
    BY <1>1, <2>1 DEF FilesInv
  <2>5. Cardinality(Drv!Live) <= numCores
    BY LiveFinite DEF DrvInv, CountInv
  <2>6. \A i \in Drv!Live : slot[i] \in bound
    BY <2>1 DEF Drv!Live, FilesInv, DrvInv, SlotInv
  <2> QED BY <1>1, <1>2, <1>3, <2>1, <2>2, <2>3, <2>4, <2>5, <2>6 DEF FilesInv
<1>6. CASE fst[f] # "closed" /\ Drv!Leave(f)
  <2>1. /\ fst' = [fst EXCEPT ![f] = "closed"]
        /\ list' = [list EXCEPT ![f] = {}] /\ room' = [room EXCEPT ![f] = 0]
    BY <1>6 DEF Drv!Leave, Drv!JobClose
  <2>2. Drv!OpenFiles' \subseteq Drv!OpenFiles
    BY <1>1, <2>1 DEF Drv!OpenFiles
  <2>3. \A g \in Files \ {f} : fst'[g] = fst[g] /\ list'[g] = list[g] /\ room'[g] = room[g]
    BY <1>1, <2>1
  <2>4. fst'[f] = "closed"
    BY <1>1, <2>1
  <2> QED BY <1>2, <1>3, <2>2, <2>3, <2>4 DEF FilesInv
<1> QED BY <1>4, <1>5, <1>6 DEF Drv!OpenDone, Drv!Close

----------------------------------------------------------------------------
(* The script, the rail and the clock.                                     *)

\* A rocket driver is there, or its platform device is in everybody's way.
LeftInv ==
    /\ module # "out" => drmDev /\ ~stock
    /\ module = "going" => sh = "rmmod"
    /\ sh \in {"unvolt", "volt", "check", "governor", "done"} => stock \/ drmDev

\* The script moves the rail under a slow clock.
CalmRailInv ==
    /\ governor = "userspace" => rate = Safe
    /\ ~HasDevfreq => governor = "userspace"
    /\ sh \in {"unvolt", "volt", "check"} => governor = "userspace"
    /\ HighNeedsVolts

\* The voltage module knows where the rail was.
OrigInv ==
    /\ volt = "out" /\ ~stuck => rail = Found
    /\ volt # "out" /\ ~stuck => origUv = Found
    /\ volt # "out" /\ uv = 0 => rail = origUv

ScriptTypes ==
    /\ rail \in Nat /\ origUv \in Nat /\ volt \in {"out", "check", "in"}
    /\ stock \in BOOLEAN /\ stuck \in BOOLEAN
    /\ rate \in Rates \cup {Safe} /\ governor \in {"userspace", "simple_ondemand"}
    /\ sh \in {"start", "rmmod", "insmod", "modprobe", "unvolt", "volt", "check",
               "governor", "done", "lost"}
    /\ lowered \in BOOLEAN

BootInv == ScriptTypes /\ LeftInv /\ CalmRailInv /\ OrigInv

LEMMA BootInit == Init => BootInv
<1> SUFFICES ASSUME Init PROVE BootInv
  OBVIOUS
<1> USE DEF Init, Drv!Init, Volt!Init
<1>1. ScriptTypes
  BY VoltAssumption DEF ScriptTypes
<1>2. LeftInv /\ OrigInv
  BY DEF LeftInv, OrigInv
<1>3. ~HasDevfreq
  BY DevsFacts DEF HasDevfreq
<1>4. HighNeedsVolts
  BY RatesAssumption DEF HighNeedsVolts
<1> QED BY <1>1, <1>2, <1>3, <1>4 DEF BootInv, CalmRailInv

\* What the voltage module does to the rail and to what it knows.
VoltMoves == Volt!LoadReads \/ Volt!ReadBack \/ Volt!Unload \/ \E u \in Nat : Volt!LoadSets(u)

LEMMA VoltKeeps ==
    ASSUME ScriptTypes, OrigInv, VoltMoves
    PROVE  /\ rail' \in Nat /\ origUv' \in Nat /\ volt' \in {"out", "check", "in"}
           /\ stuck' \in BOOLEAN /\ OrigInv'
<1> USE DEF ScriptTypes, OrigInv
<1>1. CASE Volt!LoadReads
  BY <1>1 DEF Volt!LoadReads
<1>2. CASE Volt!ReadBack
  BY <1>2 DEF Volt!ReadBack, Volt!Restore
<1>3. CASE Volt!Unload
  BY <1>3 DEF Volt!Unload, Volt!Restore
<1>4. ASSUME NEW u \in Nat, Volt!LoadSets(u)
      PROVE  /\ rail' \in Nat /\ origUv' \in Nat /\ volt' \in {"out", "check", "in"}
             /\ stuck' \in BOOLEAN /\ OrigInv'
  BY <1>4 DEF Volt!LoadSets, Volt!Allowed
<1> QED BY <1>1, <1>2, <1>3, <1>4 DEF VoltMoves

\* A driver that is out has no devfreq device.
LEMMA OutHasNone == DrvInv /\ module = "out" => ~HasDevfreq
<1> SUFFICES ASSUME DrvInv, module = "out" PROVE ~HasDevfreq
  OBVIOUS
<1>1. 0 \in Drv!Slots /\ bpc = "idle" /\ bound = {} /\ bdev = None
  BY DevsFacts DEF DrvInv, SlotInv
<1>2. slot[0] = None
  BY <1>1 DEF DrvInv, SlotInv
<1>3. held[0] = {}
  BY <1>1, <1>2 DEF DrvInv, HeldInv
<1> QED BY <1>3 DEF HasDevfreq

LEMMA BootKeeps == DrvInv /\ BootInv /\ [Next]_vars => BootInv'
<1> SUFFICES ASSUME DrvInv, BootInv, [Next]_vars PROVE BootInv'
  OBVIOUS
<1> USE DEF BootInv, drvVars, voltVars, clockVars, scriptVars, Quietly, Script
<1> DEFINE Plain == Start \/ RmmodStock \/ RmmodDone \/ RmmodBusy \/ InsmodFails \/ Modprobe
                    \/ VoltRefused \/ StockLoads
<1>1. CASE Plain
  <2>1. /\ UNCHANGED <<module, drmDev, held, rail, volt, uv, origUv, stuck, clockVars>>
        /\ stock' \in BOOLEAN
        /\ sh' \in {"rmmod", "insmod", "modprobe", "done", "lost", "governor", sh}
        /\ sh' \in {"unvolt", "volt", "check"} => sh' = sh
    BY <1>1 DEF Start, RmmodStock, RmmodDone, RmmodBusy, InsmodFails, Modprobe, VoltRefused,
         StockLoads, ScriptTypes
  <2>2. ScriptTypes' /\ OrigInv'
    BY <2>1 DEF ScriptTypes, OrigInv
  <2>3. LeftInv'
    <3>1. CASE Start
      BY <2>1, <3>1 DEF Start, LeftInv
    <3>2. CASE RmmodStock \/ RmmodDone \/ RmmodBusy \/ InsmodFails
      BY <2>1, <3>2 DEF RmmodStock, RmmodDone, RmmodBusy, InsmodFails, LeftInv
    <3>3. CASE Modprobe
      <4>1. /\ module' = module /\ drmDev' = drmDev
            /\ \/ sh' = "done" /\ stock' = (stock \/ (module = "out" /\ ~drmDev))
               \/ sh' = "lost" /\ stock' = stock
            /\ (module # "out" => drmDev /\ ~stock)
            /\ (module = "going" => sh = "rmmod") /\ sh = "modprobe"
        BY <2>1, <3>3 DEF Modprobe, LeftInv
      <4>2. CASE sh' = "lost" /\ stock' = stock
        BY <4>1, <4>2 DEF LeftInv
      <4>3. CASE sh' = "done" /\ stock' = (stock \/ (module = "out" /\ ~drmDev))
        <5>1. /\ module # "out" => drmDev /\ ~stock'
              /\ stock' \/ drmDev
              /\ module # "going"
          BY <4>1, <4>3, Zenon
        <5> QED BY <4>1, <4>3, <5>1 DEF LeftInv
      <4> QED BY <4>1, <4>2, <4>3
    <3>4. CASE VoltRefused \/ StockLoads
      BY <2>1, <3>4 DEF VoltRefused, StockLoads, LeftInv
    <3> QED BY <1>1, <3>1, <3>2, <3>3, <3>4
  <2>4. CalmRailInv'
    BY <2>1 DEF CalmRailInv, HasDevfreq, HighNeedsVolts
  <2> QED BY <2>2, <2>3, <2>4
<1>2. CASE RmmodOurs \/ InsmodOurs
  <2>1. /\ UNCHANGED <<held, rail, volt, uv, origUv, stuck, clockVars, stock>>
        /\ sh' \in {"rmmod", "unvolt", "modprobe"} /\ sh \in {"rmmod", "insmod"}
    BY <1>2 DEF RmmodOurs, InsmodOurs, Drv!Rmmod, Drv!Insmod, Drv!coreVars
  <2>2. ScriptTypes' /\ OrigInv'
    BY <2>1 DEF ScriptTypes, OrigInv
  <2>3. LeftInv'
    BY <1>2 DEF RmmodOurs, InsmodOurs, Drv!Rmmod, Drv!Insmod, LeftInv
  <2>4. sh' = "unvolt" => governor = "userspace"
    BY <1>2, OutHasNone DEF RmmodOurs, InsmodOurs, Drv!Insmod, CalmRailInv
  <2>5. CalmRailInv'
    BY <2>1, <2>4 DEF CalmRailInv, HasDevfreq, HighNeedsVolts
  <2> QED BY <2>2, <2>3, <2>5
<1>3. CASE Unvolt \/ VoltLoad \/ VoltCheck \/ HandLoad
  <2>1. /\ UNCHANGED <<module, drmDev, held, governor, rate, stock>>
        /\ sh' \in {"volt", "check", "governor", sh}
        /\ sh' # sh => sh \in {"unvolt", "volt", "check"}
        /\ lowered' \in BOOLEAN
        /\ \/ governor = "userspace"
           \/ lowered' = (lowered \/ (rail >= VoltForHigh /\ rail' < VoltForHigh))
    BY <1>3 DEF Unvolt, VoltLoad, VoltCheck, HandLoad, CalmRailInv, ScriptTypes
  <2>2. VoltMoves \/ UNCHANGED voltVars
    BY <1>3, VoltAssumption, ByHandAssumption
       DEF Unvolt, VoltLoad, VoltCheck, HandLoad, VoltMoves
  <2>3. /\ rail' \in Nat /\ origUv' \in Nat /\ volt' \in {"out", "check", "in"}
        /\ stuck' \in BOOLEAN /\ OrigInv'
    <3>1. CASE VoltMoves
      BY <3>1, VoltKeeps
    <3>2. CASE UNCHANGED voltVars
      BY <3>2 DEF ScriptTypes, OrigInv
    <3> QED BY <2>2, <3>1, <3>2
  <2>4. ScriptTypes'
    BY <2>1, <2>3 DEF ScriptTypes
  <2>5. LeftInv'
    BY <2>1 DEF LeftInv
  <2>6. HighNeedsVolts'
    <3>1. CASE governor = "userspace"
      BY <2>1, <3>1, RatesAssumption DEF HighNeedsVolts, CalmRailInv
    <3>2. CASE lowered' = (lowered \/ (rail >= VoltForHigh /\ rail' < VoltForHigh))
      <4>1. rate' = rate /\ rail \in Nat /\ rail' \in Nat
        BY <2>1, <2>3 DEF ScriptTypes
      <4>2. ASSUME rate > High PROVE rail' >= VoltForHigh \/ lowered'
        <5>1. CASE lowered
          BY <3>2, <5>1, Zenon
        <5>2. CASE rail >= VoltForHigh /\ rail' < VoltForHigh
          BY <3>2, <5>2, Zenon
        <5>3. CASE ~lowered /\ ~(rail' < VoltForHigh)
          BY <4>1, <5>3, RatesAssumption
        <5>4. CASE ~lowered /\ ~(rail >= VoltForHigh)
          BY <4>2, <5>4 DEF HighNeedsVolts, CalmRailInv
        <5> QED BY <5>1, <5>2, <5>3, <5>4
      <4> QED BY <4>1, <4>2 DEF HighNeedsVolts
    <3> QED BY <2>1, <3>1, <3>2
  <2>7. CalmRailInv'
    BY <2>1, <2>6 DEF CalmRailInv, HasDevfreq
  <2> QED BY <2>3, <2>4, <2>5, <2>7
<1>4. CASE SetGovernor
  <2>1. ScriptTypes' /\ OrigInv'
    BY <1>4 DEF SetGovernor, ScriptTypes, OrigInv
  <2>2. LeftInv'
    BY <1>4 DEF SetGovernor, LeftInv
  <2>3. CalmRailInv'
    BY <1>4 DEF SetGovernor, CalmRailInv, HasDevfreq, HighNeedsVolts
  <2> QED BY <2>1, <2>2, <2>3
<1>5. CASE DrvStep
  <2>1. UNCHANGED <<rail, volt, uv, origUv, stuck, stock, sh, lowered>> /\ Follow
    BY <1>5 DEF DrvStep
  <2>2. ScriptTypes' /\ OrigInv'
    BY <2>1 DEF ScriptTypes, OrigInv, Follow
  <2>3. LeftInv'
    <3>1. \/ module' = module /\ drmDev' = drmDev
          \/ module = "going" /\ module' = "out"
      BY <1>5 DEF DrvStep, Drv!BindStep, Drv!FileStep, Drv!Unregister, Drv!Probe, Drv!Remove,
         Drv!Claim, Drv!CoreInit, Drv!JobInitIrq, Drv!JobInitSched, Drv!CoreResume,
         Drv!ProbeDone, Drv!Unclaim, Drv!Devres, Drv!RemoveCore, Drv!Open, Drv!OpenDone,
         Drv!Close, Drv!moduleVars
    <3> QED BY <2>1, <3>1 DEF LeftInv
  <2>4. CalmRailInv'
    BY <2>1, RatesAssumption DEF CalmRailInv, HasDevfreq, HighNeedsVolts, Follow
  <2> QED BY <2>2, <2>3, <2>4
<1>6. ASSUME NEW r \in Rates, AskRate(r) PROVE BootInv'
  <2>1. ScriptTypes' /\ OrigInv' /\ LeftInv'
    BY <1>6 DEF AskRate, ScriptTypes, OrigInv, LeftInv
  <2>2. CalmRailInv'
    BY <1>6 DEF AskRate, CalmRailInv, HasDevfreq, HighNeedsVolts
  <2> QED BY <2>1, <2>2
<1>7. CASE UNCHANGED vars
  BY <1>7 DEF vars, ScriptTypes, OrigInv, LeftInv, CalmRailInv, HasDevfreq, HighNeedsVolts
<1> QED BY <1>1, <1>2, <1>3, <1>4, <1>5, <1>6, <1>7 DEF Next, ScriptStep

----------------------------------------------------------------------------

\* What every step of the whole is to the driver.
LEMMA StepIsDrv ==
    Next => Drv!BindStep \/ Drv!ModuleStep \/ Drv!FileStep \/ UNCHANGED drvVars
  BY DEF Next, ScriptStep, DrvStep, Start, RmmodStock, RmmodOurs, RmmodDone, RmmodBusy,
     InsmodOurs, InsmodFails, Modprobe, Unvolt, VoltLoad, VoltRefused, VoltCheck,
     SetGovernor, StockLoads, HandLoad, AskRate, Quietly, Drv!ModuleStep

LEMMA RefsSame ==
    RefsInv /\ (Drv!BindStep \/ Drv!ModuleStep \/ UNCHANGED drvVars) => RefsInv'
<1> SUFFICES ASSUME RefsInv, Drv!BindStep \/ Drv!ModuleStep \/ UNCHANGED drvVars
             PROVE  RefsInv'
  OBVIOUS
<1>1. UNCHANGED <<modRefs, fst>>
  BY DEF Drv!BindStep, Drv!Probe, Drv!Remove, Drv!Claim, Drv!CoreInit, Drv!JobInitIrq,
         Drv!JobInitSched, Drv!CoreResume, Drv!ProbeDone, Drv!Unclaim, Drv!Devres,
         Drv!RemoveCore, Drv!ModuleStep, Drv!Insmod, Drv!Rmmod, Drv!Unregister,
         Drv!moduleVars, Drv!fileVars, drvVars
<1> QED BY <1>1 DEF RefsInv, Drv!OpenFiles

LEMMA DrvAlways == Spec => [](DrvInv /\ RefsInv)
<1>1. DrvInv /\ RefsInv /\ [Next]_vars => DrvInv' /\ RefsInv'
  <2> SUFFICES ASSUME DrvInv, RefsInv, [Next]_vars PROVE DrvInv' /\ RefsInv'
    OBVIOUS
  <2>1. CASE Drv!BindStep \/ Drv!ModuleStep
    BY <2>1, DrvKeeps, RefsSame
  <2>2. CASE Drv!FileStep
    BY <2>2, FileKeeps, RefsFile
  <2>3. CASE UNCHANGED drvVars
    BY <2>3, DrvSame, RefsSame
  <2> QED BY <2>1, <2>2, <2>3, StepIsDrv DEF vars
<1> QED BY <1>1, DrvInit, FilesInit, PTL DEF Spec

LEMMA FilesAlways == Calm => (Spec => []FilesInv)
<1> SUFFICES ASSUME Calm PROVE Spec => []FilesInv
  OBVIOUS
<1>1. DrvInv /\ RefsInv /\ FilesInv /\ [Next]_vars => FilesInv'
  <2> SUFFICES ASSUME DrvInv, RefsInv, FilesInv, [Next]_vars PROVE FilesInv'
    OBVIOUS
  <2>1. CASE Drv!BindStep
    BY <2>1, FilesBind
  <2>2. CASE Drv!ModuleStep
    BY <2>2, FilesModule
  <2>3. CASE Drv!FileStep
    BY <2>3, FilesFile
  <2>4. CASE UNCHANGED drvVars
    BY <2>4, FilesSame
  <2> QED BY <2>1, <2>2, <2>3, <2>4, StepIsDrv DEF vars
<1> QED BY <1>1, DrvAlways, FilesInit, PTL DEF Spec

LEMMA BootAlways == Spec => []BootInv
<1> QED BY BootKeeps, BootInit, DrvAlways, PTL DEF Spec

\* Types of the script, the driver and the rail, whatever fails.
THEOREM BootTypes == Spec => []TypeOK
<1>1. DrvInv /\ BootInv => TypeOK
  BY DEF DrvInv, BootInv, ScriptTypes, TypeOK
<1> QED BY <1>1, DrvAlways, BootAlways, PTL

\* The script lowers the rail only under a slow clock, at boot and when it is run
\* again (npu-fast-boot.sh:24-40, 56-58), so a clock above High has its voltage
\* unless somebody has taken that by hand (npu_volt_probe.c:46).
THEOREM VoltsForHigh == Spec => []HighNeedsVolts
<1>1. BootInv => HighNeedsVolts
  BY DEF BootInv, CalmRailInv
<1> QED BY <1>1, BootAlways, PTL

\* Unless modprobe fails, the script leaves a rocket driver behind
\* (npu-fast-boot.sh:25), or the platform device of ours.
THEOREM LeavesDriver == Spec => []DriverLeft
<1>1. BootInv => DriverLeft
  BY DEF BootInv, LeftInv, DriverLeft
<1> QED BY <1>1, BootAlways, PTL

\* Without the voltage module the rail is as it was found
\* (npu_volt_probe.c:167-168, 180-187).
THEOREM RailPutBack == Spec => []RailRestored
<1>1. BootInv => RailRestored
  BY DEF BootInv, OrigInv, RailRestored
<1> QED BY <1>1, BootAlways, PTL

\* As many devices as slots in use.
LEMMA BoundIsLive ==
    ASSUME DrvInv, bpc = "idle"
    PROVE  /\ bound = {slot[i] : i \in Drv!Live} /\ numCores = Cardinality(bound)
           /\ \A i, k \in Drv!Live : slot[i] = slot[k] => i = k
<1>1. /\ slot \in [Drv!Slots -> Devs \cup {None}] /\ None \notin Devs /\ bound \subseteq Devs
      /\ bdev = None
  BY DevsAssumption DEF DrvInv, Drv!DrvTypeOK, SlotInv
<1>2. \A i \in Drv!Live : i \in Drv!Slots /\ slot[i] \in bound
  BY <1>1 DEF DrvInv, SlotInv, Drv!Live
<1>3. ASSUME NEW d \in bound PROVE \E i \in Drv!Live : slot[i] = d
  <2>1. PICK i \in Drv!Slots : slot[i] = d
    BY DEF DrvInv, SlotInv
  <2> QED BY <1>1, <2>1 DEF Drv!Live
<1>4. \A i, k \in Drv!Live : slot[i] = slot[k] => i = k
  BY DEF DrvInv, SlotInv, Drv!Live
<1>5. bound = {slot[i] : i \in Drv!Live}
  BY <1>2, <1>3
<1>6. Cardinality(bound) = Cardinality(Drv!Live)
  <2> DEFINE g == [i \in Drv!Live |-> slot[i]]
  <2>1. g \in Bijection(Drv!Live, bound)
    BY <1>2, <1>3, <1>4 DEF Bijection, Injection, Surjection, IsInjective
  <2>2. ExistsBijection(Drv!Live, bound)
    BY <2>1, Zenon DEF ExistsBijection
  <2> QED BY <2>2, LiveFinite, FS_Bijection
<1> QED BY <1>4, <1>5, <1>6 DEF DrvInv, CountInv

\* In whatever order cores come, fail and go, the slots in use are those of the
\* bound cores (rocket_drv.c:202-206, 227-236, 257-265).
THEOREM SlotsAlwaysRight == Spec => []SlotsRight
<1>1. DrvInv => SlotsRight
  <2> SUFFICES ASSUME DrvInv, bpc = "idle" PROVE SlotsRight
    BY DEF SlotsRight, Drv!SlotsRight
  <2>1. irq = bound
    <3>1. bdev = None /\ irq \ {bdev} = bound /\ irq \subseteq Devs
      BY DEF DrvInv, SlotInv, HeldInv, Drv!DrvTypeOK
    <3> QED BY <3>1, DevsAssumption, Zenon
  <2>2. \A i \in Drv!Live : held[i] \cup {"devfreq", "cooling"} = Drv!Resources
    BY BoundIsLive DEF DrvInv, HeldInv, Drv!Live
  <2> QED BY <2>1, <2>2, BoundIsLive, SameCardinality DEF SlotsRight, Drv!SlotsRight
<1> QED BY <1>1, DrvAlways, PTL

\* A core that is gone leaves nothing, the last one not even the DRM device
\* (rocket_drv.c:227-236, 259-265; rocket_core.c:65-70, 84-88).
THEOREM GoneIsGone == Spec => []NothingLeft
<1>1. DrvInv => NothingLeft
  <2> SUFFICES ASSUME DrvInv, bpc = "idle" PROVE NothingLeft
    BY DEF NothingLeft, Drv!NothingLeft
  <2>1. \A i \in Drv!Slots \ Drv!Live : held[i] = {}
    BY DEF DrvInv, HeldInv, Drv!Live
  <2>2. bound = {} => ~rdev
    BY BoundIsLive DEF DrvInv, CountInv
  <2>3. module = "out" => bound = {}
    BY DEF DrvInv, SlotInv
  <2> QED BY <2>1, <2>2, <2>3 DEF NothingLeft, Drv!NothingLeft
<1> QED BY <1>1, DrvAlways, PTL

\* An open file keeps the module, the DRM device and its schedulers
\* (rocket_drv.c:91, rocket_job.c:508-519), if nobody unbinds a core by hand
\* under it or opens it while one is being bound.
THEOREM OpenFilesServed == Calm => (Spec => []FilesServed)
<1> SUFFICES ASSUME Calm PROVE Spec => []FilesServed
  OBVIOUS
<1>1. DrvInv /\ FilesInv => FilesServed
  <2> SUFFICES ASSUME DrvInv, FilesInv, NEW f \in Files, fst[f] = "open"
               PROVE  /\ module = "in" /\ rdev /\ Cardinality(list[f]) <= room[f]
                      /\ \A i \in list[f] : "sched" \in held[i]
    BY SameCardinality DEF FilesServed, Drv!FilesServed
  <2>1. f \in Drv!OpenFiles /\ list[f] # {} /\ Cardinality(list[f]) <= room[f]
        /\ module = "in"
    BY DEF FilesInv, Drv!OpenFiles
  <2>2. ASSUME NEW i \in list[f] PROVE "sched" \in held[i] /\ i \in Drv!Live
    <3>1. i \in Drv!Slots /\ slot[i] \in bound /\ bound \subseteq Devs
      BY DEF FilesInv, DrvInv, Drv!DrvTypeOK
    <3>2. held[i] \cup {"devfreq", "cooling"} = Drv!Resources
      BY <3>1 DEF DrvInv, HeldInv
    <3> QED BY <3>1, <3>2, DevsAssumption DEF Drv!Resources, Drv!Live
  <2>3. rdev
    BY <2>1, <2>2 DEF DrvInv, CountInv
  <2> QED BY <2>1, <2>2, <2>3
<1> QED BY <1>1, DrvAlways, FilesAlways, PTL
=============================================================================
