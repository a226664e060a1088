------------------------------ MODULE BusyTime ------------------------------
(***************************************************************************)
(* The busy-time meter of rocket_devfreq.c (lines 105-223): the calls that *)
(* open and close a core's busy period from rocket_job.c, and the reader   *)
(* get_dev_status, which a load-driven governor polls.                     *)
(*                                                                         *)
(* record_idle and get_dev_status read the clock before they take          *)
(* rocket_df_busy_lock, so each is two steps here; record_busy reads it    *)
(* under the lock and is one.  All arithmetic on busy times is u64.        *)
(*                                                                         *)
(* spent, truth and prompt are history variables: what really happened,    *)
(* for the properties to compare with.  A definition whose name ends in    *)
(* _Something is a mutant of the one after it.                             *)
(***************************************************************************)
EXTENDS Integers, FiniteSetsExt

CONSTANTS
    Core,          \* the slots that are counted: below max_cores and MAX_NB
    Mod,           \* 2^64 of the implementation
    MaxTime,       \* bound on the clock
    Events         \* "late": time passes between reading the clock and the lock;
                   \*   "reload": core 0 is unbound and bound again

ASSUME CoreAssumption == IsFiniteSet(Core) /\ Core # {}
ASSUME TimeAssumption == /\ MaxTime \in Nat \ {0} /\ Mod \in Nat /\ MaxTime < Mod
ASSUME EventsAssumption == Events \subseteq {"late", "reload"}

VARIABLES
    clock,         \* ktime_get()
    inFlight,      \* per core: core->in_flight_job # NULL
    start,         \* per core: rocket_df_busy[i].start, 0 = not busy
    busyNs,        \* per core: rocket_df_busy[i].busy_ns
    lastRead,      \* rocket_df_busy_last_read
    ipc,           \* per core: record_idle has read the clock ("book") or not
    inow,          \* per core: its local now
    rpc,           \* get_dev_status has read the clock ("book") or not
    rnow,          \* its local now
    status,        \* what it returned last: total_time and busy_time
    registered,    \* the devfreq device exists
    spent,         \* per core: time with a job since the previous read
    truth,         \* what status should have been
    prompt         \* so far no time passed between a reading and its lock, and
                   \*   core 0 stayed bound

jobVars  == <<inFlight, start, ipc, inow>>
readVars == <<lastRead, rpc, rnow, status, registered, truth>>
vars     == <<clock, jobVars, busyNs, readVars, spent, prompt>>

Wrap_Signed(x) == x
Wrap(x) == x % Mod

\* total_time is never zero, busy_time never above it.
Reported_NoFloor(busy, window) ==
    [total |-> window, busy |-> IF busy > window THEN window ELSE busy]
Reported(busy, window) ==
    LET total == IF window = 0 THEN 1 ELSE window
    IN  [total |-> total, busy |-> IF busy > total THEN total ELSE busy]

Init ==
    /\ clock = 1 /\ lastRead = 1
    /\ inFlight = [c \in Core |-> FALSE]
    /\ start = [c \in Core |-> 0] /\ busyNs = [c \in Core |-> 0]
    /\ ipc = [c \in Core |-> "none"] /\ inow = [c \in Core |-> 0]
    /\ rpc = "none" /\ rnow = 0 /\ registered = TRUE
    /\ status = [total |-> 1, busy |-> 0] /\ truth = status
    /\ spent = [c \in Core |-> 0] /\ prompt = TRUE

\* Nobody is between its ktime_get and the lock.
NobodyWaits == rpc = "none" /\ \A c \in Core : ipc[c] = "none"

Tick ==
    /\ clock < MaxTime
    /\ "late" \in Events \/ NobodyWaits
    /\ clock' = clock + 1 /\ prompt' = (prompt /\ NobodyWaits)
    /\ spent' = [c \in Core |-> IF inFlight[c] THEN spent[c] + 1 ELSE spent[c]]
    /\ UNCHANGED <<jobVars, busyNs, readVars>>

----------------------------------------------------------------------------
(* The three places of rocket_job.c that touch in_flight_job, each under   *)
(* the core's job_lock.                                                    *)

\* rocket_job_run: record_busy keeps a start that is already there.
Run(c) ==
    /\ ~inFlight[c] /\ ipc[c] = "none"
    /\ inFlight' = [inFlight EXCEPT ![c] = TRUE]
    /\ start' = [start EXCEPT ![c] = IF @ = 0 THEN clock ELSE @]
    /\ UNCHANGED <<clock, ipc, inow, busyNs, readVars, spent, prompt>>

\* The IRQ thread ends the job; record_idle reads the clock.
End(c) ==
    /\ inFlight[c] /\ ipc[c] = "none"
    /\ inFlight' = [inFlight EXCEPT ![c] = FALSE]
    /\ ipc' = [ipc EXCEPT ![c] = "book"] /\ inow' = [inow EXCEPT ![c] = clock]
    /\ UNCHANGED <<clock, start, busyNs, readVars, spent, prompt>>

\* rocket_reset calls record_idle whether or not there was a job.
Reset_Forgets(c) ==
    /\ ipc[c] = "none"
    /\ inFlight' = [inFlight EXCEPT ![c] = FALSE]
    /\ UNCHANGED <<clock, start, ipc, inow, busyNs, readVars, spent, prompt>>
Reset(c) ==
    /\ ipc[c] = "none"
    /\ inFlight' = [inFlight EXCEPT ![c] = FALSE]
    /\ ipc' = [ipc EXCEPT ![c] = "book"] /\ inow' = [inow EXCEPT ![c] = clock]
    /\ UNCHANGED <<clock, start, busyNs, readVars, spent, prompt>>

\* record_idle under the lock; a second call finds start = 0.
IdleBook(c) ==
    /\ ipc[c] = "book"
    /\ busyNs' = [busyNs EXCEPT ![c] =
                    IF start[c] = 0 THEN @ ELSE Wrap(@ + inow[c] - start[c])]
    /\ start' = [start EXCEPT ![c] = 0]
    /\ ipc' = [ipc EXCEPT ![c] = "none"] /\ inow' = [inow EXCEPT ![c] = 0]
    /\ UNCHANGED <<clock, inFlight, readVars, spent, prompt>>

----------------------------------------------------------------------------
(* rocket_devfreq_get_dev_status; devfreq calls it for one reader at a     *)
(* time.                                                                   *)

ReadNow ==
    /\ registered /\ rpc = "none"
    /\ rpc' = "book" /\ rnow' = clock
    /\ UNCHANGED <<clock, jobVars, busyNs, lastRead, status, registered, truth,
                   spent, prompt>>

BusyOf_ClosedOnly(c) == busyNs[c]
BusyOf(c) == IF start[c] = 0 THEN busyNs[c] ELSE Wrap(busyNs[c] + rnow - start[c])

\* A core that is busy right now goes on from the moment of this read.
ReadBook ==
    /\ rpc = "book"
    /\ status' = Reported(Max({BusyOf(c) : c \in Core}), Wrap(rnow - lastRead))
    /\ truth'  = Reported(Max({spent[c] : c \in Core}), rnow - lastRead)
    /\ start'  = [c \in Core |-> IF start[c] = 0 THEN 0 ELSE rnow]
    /\ busyNs' = [c \in Core |-> 0]
    /\ lastRead' = rnow
    /\ rpc' = "none" /\ rnow' = 0
    /\ spent' = [c \in Core |-> 0]
    /\ UNCHANGED <<clock, inFlight, ipc, inow, registered, prompt>>

\* rocket_devfreq_fini and a later rocket_devfreq_init of core 0: a new first
\* window begins, and nothing else of the meter changes.
Unregister ==
    /\ "reload" \in Events /\ registered /\ rpc = "none"
    /\ registered' = FALSE /\ prompt' = FALSE
    /\ UNCHANGED <<clock, jobVars, busyNs, lastRead, rpc, rnow, status, truth,
                   spent>>

Register ==
    /\ ~registered
    /\ registered' = TRUE /\ lastRead' = clock
    /\ spent' = [c \in Core |-> 0]
    /\ UNCHANGED <<clock, jobVars, busyNs, rpc, rnow, status, truth, prompt>>

Next == \/ Tick
        \/ \E c \in Core : Run(c) \/ End(c) \/ Reset(c) \/ IdleBook(c)
        \/ ReadNow \/ ReadBook
        \/ Unregister \/ Register

Spec == Init /\ [][Next]_vars

----------------------------------------------------------------------------
(* Properties.                                                             *)

Time == 0 .. MaxTime

TypeOK ==
    /\ clock \in Time /\ lastRead \in Time /\ rnow \in Time
    /\ inFlight \in [Core -> BOOLEAN]
    /\ start \in [Core -> Time] /\ busyNs \in [Core -> 0 .. Mod - 1]
    /\ ipc \in [Core -> {"none", "book"}] /\ inow \in [Core -> Time]
    /\ rpc \in {"none", "book"} /\ registered \in BOOLEAN
    /\ spent \in [Core -> Nat] /\ prompt \in BOOLEAN
    /\ {status, truth} \subseteq [total : Nat, busy : Nat]

\* What the governor is told is the busiest core's time with a job and the
\* length of the window (rocket_devfreq.c:105-115), as long as no time has
\* passed between reading the clock and taking the lock.
ExactLoad == prompt => status = truth

\* The two values simple_ondemand must never see (rocket_devfreq.c:209-213):
\* a zero total, which makes it ask for the maximum, and a load above 100 %.
LoadInRange == 1 <= status.total /\ status.busy <= status.total

\* No core stays "busy for ever", and none with a job goes uncounted
\* (rocket_devfreq.c:113-118): a period is open exactly while the core has a
\* job, up to the booking of its end.
NotBusyForever ==
    \A c \in Core : /\ inFlight[c] => start[c] # 0
                    /\ start[c] # 0 => inFlight[c] \/ ipc[c] = "book"
=============================================================================
