----------------------------- MODULE RocketJob ------------------------------
(***************************************************************************)
(* Jobs on one NPU core (npu/driver/rocket_job.c): the scheduler's worker  *)
(* in rocket_job_run, the interrupt and its thread, and the timeout that   *)
(* resets the core.  The three run concurrently and meet in                *)
(* core->in_flight_job, under core->job_lock, and in the atomic            *)
(* reset.pending.                                                          *)
(*                                                                         *)
(* The DRM scheduler is modelled from how this file uses it: credit limit  *)
(* 1, a list of jobs not yet freed, one timeout worker, and stop/start     *)
(* around a reset.  Cores have a scheduler, locks and registers each; no   *)
(* state here is shared between them.                                      *)
(*                                                                         *)
(* A definition whose name ends in _Something is a mutant of the one that  *)
(* follows it.                                                             *)
(***************************************************************************)
EXTENDS Integers, FiniteSets

CONSTANTS
    Jobs,          \* the jobs submitted to this core
    None,          \* no job
    TaskCount,     \* tasks of each job
    Events         \* what may go wrong

EventKinds == {"nomem", "resume_fail", "attach_fail", "timeout", "slow_thread",
               "shared_irq"}

ASSUME JobsAssumption   == IsFiniteSet(Jobs) /\ None \notin Jobs
ASSUME TasksAssumption  == TaskCount \in Nat \ {0}
ASSUME EventsAssumption == Events \subseteq EventKinds

VARIABLES
    jst,           \* per job: new, queued in its entity, pending, done
    result,        \* per job: how it finished
    fence,         \* per job: its done_fence, and whether the scheduler listens
    nextTask,      \* per job: next_task_idx
    ran,           \* per job, history: tasks the hardware has finished
    listed,        \* the scheduler's pending list: jobs taken and not freed
    credit,        \* sched.credit_count
    wpc,           \* the worker in rocket_job_run: its next step
    wjob,          \* the job it runs
    tpc,           \* the timeout worker: its next step
    bad,           \* the job it was called for
    resetPending,  \* core->reset.pending
    inFlight,      \* core->in_flight_job
    hw,            \* the job whose task the hardware works on
    raw,           \* INTERRUPT_RAW_STATUS has a DPU bit
    mask,          \* INTERRUPT_MASK lets it through
    seen,          \* the hard handler, run for another device on the line, has
                   \*   read the status and not yet acted on it
    woken,         \* the hard handler has woken the thread
    thpc,          \* the interrupt thread: its next step
    usage,         \* runtime PM usage count of the core
    attached       \* the job whose IOMMU domain the core is attached to

jobVars   == <<jst, result, fence, nextTask, ran>>
schedVars == <<listed, credit, wpc, wjob>>
tdrVars   == <<tpc, bad, resetPending>>
hwVars    == <<hw, raw, mask>>
irqVars   == <<seen, woken, thpc>>
coreVars  == <<inFlight, usage, attached>>
vars      == <<jobVars, schedVars, tdrVars, hwVars, irqVars, coreVars>>

Init ==
    /\ jst = [j \in Jobs |-> "new"] /\ result = [j \in Jobs |-> "none"]
    /\ fence = [j \in Jobs |-> "none"]
    /\ nextTask = [j \in Jobs |-> 0] /\ ran = [j \in Jobs |-> 0]
    /\ listed = {} /\ credit = 0 /\ wpc = "idle" /\ wjob = None
    /\ tpc = "idle" /\ bad = None /\ resetPending = FALSE
    /\ hw = None /\ raw = FALSE /\ mask = FALSE
    /\ seen = FALSE /\ woken = FALSE /\ thpc = "idle"
    /\ inFlight = None /\ usage = 0 /\ attached = None

\* drm_sched_job_done: the credit comes back, the finished fence is signalled.
Done(S, r) ==
    /\ jst' = [j \in Jobs |-> IF j \in S THEN "done" ELSE jst[j]]
    /\ result' = [j \in Jobs |-> IF j \in S THEN r ELSE result[j]]

\* rocket_job_hw_submit: nothing is started while a reset is pending.
HwSubmit_AnyTime(j) ==
    /\ nextTask' = [nextTask EXCEPT ![j] = @ + 1]
    /\ hw' = j /\ raw' = FALSE /\ mask' = TRUE
HwSubmit(j) ==
    IF resetPending THEN UNCHANGED <<nextTask, hwVars>>
    ELSE /\ nextTask' = [nextTask EXCEPT ![j] = @ + 1]
         /\ hw' = j /\ raw' = FALSE /\ mask' = TRUE

----------------------------------------------------------------------------
(* Submission and the scheduler's worker.                                  *)

\* rocket_job_push
Push(j) ==
    /\ jst[j] = "new"
    /\ jst' = [jst EXCEPT ![j] = "queued"]
    /\ UNCHANGED <<result, fence, nextTask, ran, schedVars, tdrVars, hwVars,
                   irqVars, coreVars>>

\* Between drm_sched_stop and drm_sched_start no worker runs.
Stopped == tpc \in {"clear", "reset"}

RunTake(j) ==
    /\ ~Stopped /\ wpc = "idle" /\ credit = 0 /\ jst[j] = "queued"
    /\ jst' = [jst EXCEPT ![j] = "pending"]
    /\ listed' = listed \cup {j} /\ credit' = 1
    /\ wpc' = "get" /\ wjob' = j
    /\ UNCHANGED <<result, fence, nextTask, ran, tdrVars, hwVars, irqVars, coreVars>>

\* Without memory for a fence the job ends with the error.
RunNoFence ==
    /\ wpc = "get" /\ "nomem" \in Events
    /\ Done({wjob}, "error") /\ credit' = credit - 1
    /\ wpc' = "idle" /\ wjob' = None
    /\ UNCHANGED <<fence, nextTask, ran, listed, tdrVars, hwVars, irqVars, coreVars>>

\* rocket_fence_create
NewFence(j) == fence' = [fence EXCEPT ![j] = "made"]

\* pm_runtime_get_sync counts its reference even when it fails.
RunGet_NoAttach ==
    /\ wpc = "get" /\ wpc' = "submit"
    /\ NewFence(wjob) /\ usage' = usage + 1
    /\ UNCHANGED <<jst, result, nextTask, ran, listed, credit, wjob, tdrVars, hwVars,
                   irqVars, inFlight, attached>>
RunGet ==
    /\ wpc = "get"
    /\ NewFence(wjob) /\ usage' = usage + 1
    /\ \/ wpc' = "attach"
       \/ "resume_fail" \in Events /\ wpc' = "return"
    /\ UNCHANGED <<jst, result, nextTask, ran, listed, credit, wjob, tdrVars, hwVars,
                   irqVars, inFlight, attached>>

RunAttach ==
    /\ wpc = "attach"
    /\ \/ attached' = wjob /\ wpc' = "submit"
       \/ "attach_fail" \in Events /\ UNCHANGED attached /\ wpc' = "return"
    /\ UNCHANGED <<jobVars, listed, credit, wjob, tdrVars, hwVars, irqVars,
                   inFlight, usage>>

\* core->job_lock: the interrupt thread is inside it while thpc = "ended"; all
\* other sections under it are one step.
JobLockFree == thpc # "ended"

RunSubmit ==
    /\ wpc = "submit" /\ JobLockFree
    /\ inFlight' = wjob /\ HwSubmit(wjob)
    /\ wpc' = "return"
    /\ UNCHANGED <<jst, result, fence, ran, listed, credit, wjob, tdrVars, irqVars,
                   usage, attached>>

\* The scheduler listens to the fence it got; it may be signalled by now.
RunReturn ==
    /\ wpc = "return"
    /\ wpc' = "idle" /\ wjob' = None
    /\ \/ /\ fence[wjob] = "signalled"
          /\ Done({wjob}, "ok") /\ credit' = credit - 1 /\ UNCHANGED fence
       \/ /\ fence[wjob] = "made"
          /\ fence' = [fence EXCEPT ![wjob] = "heard"]
          /\ UNCHANGED <<jst, result, credit>>
    /\ UNCHANGED <<nextTask, ran, listed, tdrVars, hwVars, irqVars, coreVars>>

\* The free worker takes a finished job off the list.
Free(j) ==
    /\ ~Stopped /\ j \in listed /\ jst[j] = "done"
    /\ listed' = listed \ {j}
    /\ UNCHANGED <<jobVars, credit, wpc, wjob, tdrVars, hwVars, irqVars, coreVars>>

----------------------------------------------------------------------------
(* The hardware and its interrupt.                                         *)

HwDone ==
    /\ hw # None
    /\ ran' = [ran EXCEPT ![hw] = @ + 1]
    /\ hw' = None /\ raw' = TRUE
    /\ UNCHANGED <<jst, result, fence, nextTask, schedVars, tdrVars, mask, irqVars,
                   coreVars>>

\* The line is up: a raised cause that INTERRUPT_MASK lets through.  Of the
\* causes there are, only that of the DPU is ever let through.
IrqOut == raw /\ mask

\* rocket_job_irq_handler
HardIrq ==
    /\ IrqOut
    /\ mask' = FALSE /\ woken' = TRUE
    /\ UNCHANGED <<jobVars, schedVars, tdrVars, hw, raw, seen, thpc, coreVars>>

\* The IOMMU raises the shared line: the same handler runs, masked or not, on
\* another CPU than the thread, which may overtake it.
SharedIrqReads ==
    /\ "shared_irq" \in Events /\ raw /\ ~seen
    /\ seen' = TRUE
    /\ UNCHANGED <<jobVars, schedVars, tdrVars, hwVars, woken, thpc, coreVars>>

SharedIrqActs ==
    /\ seen /\ seen' = FALSE
    /\ mask' = FALSE /\ woken' = TRUE
    /\ UNCHANGED <<jobVars, schedVars, tdrVars, hw, raw, thpc, coreVars>>

\* rocket_job_handle_irq up to the lock: stop the core and clear the cause.
ThreadAck ==
    /\ woken /\ thpc = "idle"
    /\ woken' = FALSE /\ thpc' = "handle"
    /\ hw' = None /\ raw' = FALSE
    /\ UNCHANGED <<jobVars, schedVars, tdrVars, mask, seen, coreVars>>

\* ... and under it: the next task, or the end of the job.
MoreTasks_Inclusive(j) == nextTask[j] <= TaskCount
MoreTasks_OffByOne(j) == nextTask[j] + 1 < TaskCount
MoreTasks(j) == nextTask[j] < TaskCount

ThreadNext ==
    /\ thpc = "handle" /\ inFlight # None /\ MoreTasks(inFlight)
    /\ thpc' = "idle"
    /\ HwSubmit(inFlight)
    /\ UNCHANGED <<jst, result, fence, ran, schedVars, tdrVars, seen, woken,
                   coreVars>>

\* The end of a job: dma_fence_signal runs the scheduler's callback before it
\* returns, and the lock does not keep the scheduler out.
ThreadSignal ==
    /\ thpc = "handle" /\ inFlight # None /\ ~MoreTasks(inFlight)
    /\ thpc' = "ended" /\ attached' = None
    /\ fence' = [fence EXCEPT ![inFlight] = "signalled"]
    /\ IF fence[inFlight] = "heard"
       THEN Done({inFlight}, "ok") /\ credit' = credit - 1
       ELSE UNCHANGED <<jst, result, credit>>
    /\ UNCHANGED <<nextTask, ran, listed, wpc, wjob, tdrVars, hwVars, seen, woken,
                   inFlight, usage>>

\* ... then the reference and the job in flight go.
ThreadEnd ==
    /\ thpc = "ended" /\ thpc' = "idle"
    /\ usage' = usage - 1 /\ inFlight' = None
    /\ UNCHANGED <<jobVars, schedVars, tdrVars, hwVars, seen, woken, attached>>

ThreadNothing ==
    /\ thpc = "handle" /\ inFlight = None
    /\ thpc' = "idle"
    /\ UNCHANGED <<jobVars, schedVars, tdrVars, hwVars, seen, woken, coreVars>>

----------------------------------------------------------------------------
(* Timeout and reset.                                                      *)

\* The timer of a job that is not done runs out ...
TimerFires ==
    /\ "timeout" \in Events /\ tpc = "idle"
    /\ \E j \in listed : jst[j] = "pending"
    /\ tpc' = "fired"
    /\ UNCHANGED <<jobVars, schedVars, bad, resetPending, hwVars, irqVars, coreVars>>

\* ... and its worker takes the oldest job of the list, done by now or not.
\* rocket_job_timedout marks the reset.
TimedOut_NoMark(j) ==
    /\ tpc = "fired" /\ j \in listed
    /\ jst[j] = "pending" => \A d \in listed : jst[d] = "pending"
    /\ tpc' = "idle" /\ listed' = listed \ {j}
    /\ UNCHANGED <<jobVars, credit, wpc, wjob, bad, resetPending, hwVars, irqVars,
                   coreVars>>
TimedOut(j) ==
    /\ tpc = "fired" /\ j \in listed
    /\ jst[j] = "pending" => \A d \in listed : jst[d] = "pending"
    /\ tpc' = "stop" /\ bad' = j /\ listed' = listed \ {j}
    /\ resetPending' = TRUE
    /\ UNCHANGED <<jobVars, credit, wpc, wjob, hwVars, irqVars, coreVars>>

NothingTimedOut ==
    /\ tpc = "fired" /\ listed = {}
    /\ tpc' = "idle"
    /\ UNCHANGED <<jobVars, schedVars, bad, resetPending, hwVars, irqVars, coreVars>>

\* drm_sched_stop waits for the worker; then it stops listening to the fences
\* of unfinished jobs, takes their credit back, and frees the finished ones.
ResetStop_KeepsDone ==
    /\ tpc = "stop" /\ wpc = "idle" /\ tpc' = "clear"
    /\ listed' = listed \cup {bad}
    /\ credit' = 0
    /\ UNCHANGED <<jobVars, wpc, wjob, bad, resetPending, hwVars, irqVars, coreVars>>
ResetStop ==
    LET open == {j \in listed \cup {bad} : jst[j] = "pending"}
    IN  /\ tpc = "stop" /\ wpc = "idle"
        /\ tpc' = "clear"
        /\ listed' = open
        /\ fence' = [j \in Jobs |-> IF j \in open THEN "none" ELSE fence[j]]
        /\ credit' = credit - Cardinality(open)
        /\ UNCHANGED <<jst, result, nextTask, ran, wpc, wjob, bad, resetPending,
                       hwVars, irqVars, coreVars>>

\* The locked section of rocket_reset.
ResetClear_PutAlways ==
    /\ tpc = "clear" /\ tpc' = "reset" /\ JobLockFree
    /\ usage' = usage - 1
    /\ inFlight' = None /\ attached' = None
    /\ UNCHANGED <<jobVars, schedVars, bad, resetPending, hwVars, irqVars>>
ResetClear_KeepsJob ==
    /\ tpc = "clear" /\ tpc' = "reset" /\ JobLockFree
    /\ usage' = IF inFlight # None THEN usage - 1 ELSE usage
    /\ attached' = None
    /\ UNCHANGED <<jobVars, schedVars, bad, resetPending, hwVars, irqVars, inFlight>>
ResetClear ==
    /\ tpc = "clear" /\ tpc' = "reset" /\ JobLockFree
    /\ usage' = IF inFlight # None THEN usage - 1 ELSE usage
    /\ inFlight' = None /\ attached' = None
    /\ UNCHANGED <<jobVars, schedVars, bad, resetPending, hwVars, irqVars>>

\* Interrupts raised so far have been handled, thread included.
Handled == ~woken /\ thpc = "idle" /\ ~IrqOut

\* rocket_core_reset: what the hardware was doing is gone, its registers are
\* as after power-on, no interrupt raised and none enabled.
CoreReset == hw' = None /\ raw' = FALSE /\ mask' = FALSE

\* ... the end of the reset, and drm_sched_start, which ends every job still
\* listed with -ECANCELED.
ResetDone ==
    /\ tpc = "reset"
    /\ "slow_thread" \notin Events => Handled
    /\ CoreReset
    /\ tpc' = "idle" /\ bad' = None /\ resetPending' = FALSE
    /\ Done(listed, "cancelled")
    /\ UNCHANGED <<fence, nextTask, ran, schedVars, irqVars, coreVars>>

----------------------------------------------------------------------------
WorkerStep == RunNoFence \/ RunGet \/ RunAttach \/ RunSubmit \/ RunReturn
IrqStep    == HardIrq \/ SharedIrqReads \/ SharedIrqActs
ThreadStep == ThreadAck \/ ThreadNext \/ ThreadSignal \/ ThreadEnd \/ ThreadNothing
ResetStep  == \/ \E j \in Jobs : TimedOut(j)
              \/ NothingTimedOut \/ ResetStop \/ ResetClear \/ ResetDone

Next == \/ \E j \in Jobs : Push(j) \/ RunTake(j) \/ Free(j)
        \/ WorkerStep \/ HwDone \/ IrqStep \/ ThreadStep
        \/ TimerFires \/ ResetStep

Spec == Init /\ [][Next]_vars

\* Work items, the interrupt thread and timers run; the hardware may hang.
Fairness == /\ \A j \in Jobs : WF_vars(RunTake(j))
            /\ WF_vars(WorkerStep) /\ WF_vars(ThreadStep)
            /\ WF_vars(HardIrq \/ SharedIrqActs)
            /\ WF_vars(TimerFires) /\ WF_vars(ResetStep)

FairSpec == Spec /\ Fairness

----------------------------------------------------------------------------
(* Properties.                                                             *)

JobOrNone == Jobs \cup {None}

TypeOK ==
    /\ jst \in [Jobs -> {"new", "queued", "pending", "done"}]
    /\ result \in [Jobs -> {"none", "ok", "error", "cancelled"}]
    /\ fence \in [Jobs -> {"none", "made", "heard", "signalled"}]
    /\ nextTask \in [Jobs -> 0 .. TaskCount] /\ ran \in [Jobs -> 0 .. TaskCount]
    /\ listed \subseteq Jobs /\ credit \in {0, 1}
    /\ wpc \in {"idle", "get", "attach", "submit", "return"}
    /\ wjob \in JobOrNone
    /\ tpc \in {"idle", "fired", "stop", "clear", "reset"}
    /\ bad \in JobOrNone /\ resetPending \in BOOLEAN
    /\ inFlight \in JobOrNone /\ hw \in JobOrNone
    /\ raw \in BOOLEAN /\ mask \in BOOLEAN /\ woken \in BOOLEAN /\ seen \in BOOLEAN
    /\ thpc \in {"idle", "handle", "ended"}
    /\ usage \in Nat /\ attached \in JobOrNone

\* A job that ends without an error has had every task run by the hardware:
\* no interrupt of one job is taken for another's
\* (rocket_job.c:363-364: "Remaining interrupts have been handled").
CompletedRan == \A j \in Jobs : result[j] = "ok" => ran[j] = TaskCount

\* The PM counters stay balanced through resets (rocket_job.c:363-366): each
\* reference belongs to the job in flight or to the worker about to start one.
Ref(b) == IF b THEN 1 ELSE 0
UsageBalanced ==
    usage = Ref(inFlight # None) + Ref(wpc \in {"attach", "submit"})

\* The job in flight keeps the core powered as long as it is in flight, and its
\* own address space attached until it is over (rocket_job.c:314-328, 346-349).
InFlightServed ==
    inFlight # None => /\ usage > 0
                       /\ attached = inFlight \/ fence[inFlight] = "signalled"

\* rocket_job_is_idle
IsIdle == credit = 0

\* The suspend callback is told that the core is idle only if every job handed
\* to the core is over (rocket_job.c:534: "If there are any jobs in this HW
\* queue, we're not idle"): the worker has none, and the one in flight, if
\* there is one still, has signalled.  Inside a reset the scheduler has taken
\* the credit back from a job that is not over.
IdleMeansNoJob ==
    IsIdle /\ ~Stopped =>
        wjob = None /\ (inFlight # None => fence[inFlight] = "signalled")

\* The hardware works on a job only while the core is attached to that job's
\* address space (rocket_job.c:318-328, 346), up to a reset, which detaches
\* first and stops the hardware after.
HwHasItsDomain == hw # None /\ tpc # "reset" => attached = hw

\* A task is started only on hardware that has stopped: never on top of
\* another job, and never between a reset's mark and the reset
\* (rocket_job.c:114-116).
StartsOnQuietHw ==
    [][hw' # None /\ hw' # hw => hw = None /\ ~resetPending]_vars

\* A job has one outcome.
OneOutcome ==
    [][\A j \in Jobs : result[j] # "none" => result'[j] = result[j]]_vars

\* The abstract promise, where the interrupt thread is prompt: see JobPromise.
Promise == INSTANCE JobPromise
PromiseSpec == Promise!Spec

\* Every job submitted ends, whatever hangs or fails: the timeout is there for
\* the ones nobody completes.
EveryJobEnds == \A j \in Jobs : jst[j] = "queued" ~> jst[j] = "done"

----------------------------------------------------------------------------
(* Why the safety properties hold: the inductive invariants behind them.   *)

Pend == {j \in Jobs : jst[j] = "pending"}

\* What the job in flight or the worker relies on; references of jobs that did
\* not resume or attach may be there too.
UsageSuffices == usage >= Ref(inFlight # None) + Ref(wpc \in {"attach", "submit"})

\* The worker's job is pending, and what its steps so far have set up for it
\* is still there.
WorkerInv ==
    /\ wpc = "idle" <=> wjob = None
    /\ wpc # "idle" => wjob \in Pend
    /\ wpc \in {"get", "attach", "submit"} =>
          (inFlight = None \/ thpc = "ended") /\ nextTask[wjob] = 0
    /\ wpc \in {"attach", "submit"} => fence[wjob] = "made"
    /\ wpc = "submit" => attached = wjob
    /\ wpc = "return" => fence[wjob] \in {"made", "signalled"}

\* One job at a time is pending and has the credit, except while a reset has
\* taken it back; the scheduler listens to it unless the worker or a reset is
\* at it.
CreditInv ==
    /\ \A i, j \in Pend : i = j
    /\ credit = IF Pend # {} /\ ~Stopped THEN 1 ELSE 0
    /\ Pend \subseteq listed \cup (IF tpc = "stop" THEN {bad} ELSE {})
    /\ \A j \in listed : jst[j] \in {"pending", "done"}
    /\ tpc = "stop" => bad \in Jobs
    /\ Stopped => wpc = "idle" /\ listed \subseteq Pend
    /\ \A j \in Pend : /\ Stopped => fence[j] \in {"none", "signalled"}
                       /\ wpc = "idle" /\ ~Stopped => fence[j] = "heard"

\* The job in flight is the pending one, served, and its fence is open; or it
\* has just signalled, and the worker may have its successor.
FlightInv ==
    /\ thpc = "ended" => inFlight # None
    /\ inFlight # None =>
        /\ tpc # "reset"
        /\ IF thpc = "ended"
           THEN /\ fence[inFlight] = "signalled"
                /\ wjob = inFlight => wpc = "return"
           ELSE /\ inFlight \in Pend /\ attached = inFlight
                /\ fence[inFlight] # "signalled"
                /\ wpc \in {"idle", "return"}

\* What a job has been through.
HistoryInv ==
    /\ \A j \in Jobs : jst[j] \in {"new", "queued"} =>
                          nextTask[j] = 0 /\ fence[j] = "none"
    /\ \A j \in Jobs : result[j] # "none" => jst[j] = "done"
    /\ \A j \in Jobs : ran[j] + Ref(hw = j) <= nextTask[j]
    /\ resetPending <=> tpc \in {"stop", "clear", "reset"}

JobInv == UsageSuffices /\ WorkerInv /\ CreditInv /\ FlightInv /\ HistoryInv

\* With a prompt thread an interrupt under way is the one of the job in
\* flight, for its latest task.
Interrupting == seen \/ woken \/ thpc # "idle" \/ IrqOut
IrqInv ==
    /\ ~seen /\ ~(woken /\ mask) /\ (thpc # "idle" => ~woken /\ ~raw)
    /\ hw # None => ~Interrupting /\ hw \in Pend
    /\ inFlight # None => /\ hw \in {None, inFlight}
                          /\ ran[inFlight] + Ref(hw # None) = nextTask[inFlight]
    /\ inFlight = None /\ tpc # "reset" => hw = None /\ ~Interrupting
    /\ \A j \in Jobs : fence[j] = "signalled" => ran[j] = TaskCount
    /\ CompletedRan
=============================================================================
