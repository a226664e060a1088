--------------------------- MODULE RocketJobProofs ---------------------------
(***************************************************************************)
(* Proofs about RocketJob for any set of jobs, any number of tasks and any *)
(* combination of the modelled failures.                                   *)
(***************************************************************************)
EXTENDS RocketJob, FiniteSetTheorems, TLAPS

IInv == TypeOK /\ JobInv

LEMMA RefNat == \A b \in BOOLEAN : Ref(b) \in 0 .. 1
  BY DEF Ref

\* One pending job or none.
LEMMA PendCount ==
    ASSUME \A i, j \in Pend : i = j
    PROVE  Cardinality(Pend) = IF Pend = {} THEN 0 ELSE 1
<1>1. CASE Pend = {}
  BY <1>1, FS_EmptySet
<1>2. CASE Pend # {}
  <2>1. PICK j \in Pend : TRUE
    BY <1>2
  <2>2. Pend = {j}
    BY <2>1
  <2> QED BY <1>2, <2>2, FS_Singleton
<1> QED BY <1>1, <1>2

LEMMA InvInit == Init => IInv
<1> SUFFICES ASSUME Init PROVE IInv
  OBVIOUS
<1> USE DEF Init
<1>1. TypeOK
  <2>1. 0 \in 0 .. TaskCount
    BY TasksAssumption
  <2> QED BY <2>1 DEF TypeOK, JobOrNone
<1>2. Pend = {}
  BY DEF Pend
<1>3. WorkerInv
  BY DEF WorkerInv
<1>4. CreditInv /\ UsageSuffices
  BY <1>2 DEF CreditInv, Stopped, UsageSuffices, Ref
<1>5. FlightInv
  BY DEF FlightInv
<1>6. HistoryInv
  BY JobsAssumption DEF HistoryInv, Ref
<1> QED BY <1>1, <1>3, <1>4, <1>5, <1>6 DEF IInv, JobInv

\* A step of the interrupt moves only the registers and its own state.
LEMMA IrqTypes ==
    ASSUME TypeOK, UNCHANGED <<jobVars, schedVars, tdrVars, coreVars>>,
           hw' \in JobOrNone, raw' \in BOOLEAN, mask' \in BOOLEAN,
           seen' \in BOOLEAN, woken' \in BOOLEAN, thpc' \in {"idle", "handle", "ended"}
    PROVE  TypeOK'
  BY DEF TypeOK, JobOrNone, jobVars, schedVars, tdrVars, coreVars

\* Each action keeps types and JobInv.
LEMMA InvStep == IInv /\ [Next]_vars => IInv'
<1> SUFFICES ASSUME IInv, [Next]_vars PROVE IInv'
  OBVIOUS
<1> USE JobsAssumption, TasksAssumption
    DEF IInv, TypeOK, JobOrNone, JobInv, UsageSuffices, WorkerInv, CreditInv,
        FlightInv, HistoryInv, Pend, Stopped, Ref, JobLockFree,
        jobVars, schedVars, tdrVars, hwVars, irqVars, coreVars
<1>1. ASSUME NEW j \in Jobs, Push(j) PROVE IInv'
  BY <1>1 DEF Push
<1>2. ASSUME NEW j \in Jobs, RunTake(j) PROVE IInv'
  BY <1>2 DEF RunTake
<1>3. ASSUME NEW j \in Jobs, Free(j) PROVE IInv'
  BY <1>3 DEF Free
<1>4. ASSUME NEW j \in Jobs, TimedOut(j) PROVE IInv'
  BY <1>4 DEF TimedOut
<1>5. CASE RunNoFence
  BY <1>5 DEF RunNoFence, Done
<1>6. CASE RunGet
  BY <1>6 DEF RunGet, NewFence
<1>7. CASE RunAttach
  BY <1>7 DEF RunAttach
<1>8. CASE RunSubmit
  <2>1. wjob \in Jobs /\ nextTask[wjob] = 0
    BY <1>8 DEF RunSubmit
  <2>2. nextTask' \in [Jobs -> 0 .. TaskCount]
    BY <1>8, <2>1 DEF RunSubmit, HwSubmit
  <2>3. TypeOK'
    BY <1>8, <2>1, <2>2 DEF RunSubmit, HwSubmit
  <2>4. UsageSuffices' /\ WorkerInv' /\ CreditInv' /\ FlightInv' /\ HistoryInv'
    BY <1>8 DEF RunSubmit, HwSubmit
  <2> QED BY <2>3, <2>4
<1>9. CASE RunReturn
  BY <1>9 DEF RunReturn, Done
<1>10. CASE HwDone
  BY <1>10 DEF HwDone
<1>11. CASE HardIrq
  <2>1. TypeOK'
    <3>1. /\ hw' \in JobOrNone /\ raw' \in BOOLEAN /\ mask' \in BOOLEAN
          /\ seen' \in BOOLEAN /\ woken' \in BOOLEAN /\ thpc' \in {"idle", "handle", "ended"}
      BY <1>11 DEF HardIrq, IrqOut
    <3>2. UNCHANGED <<jobVars, schedVars, tdrVars, coreVars>>
      BY <1>11 DEF HardIrq, IrqOut
    <3> HIDE DEF TypeOK, JobOrNone, jobVars, schedVars, tdrVars, coreVars
    <3> QED BY <3>1, <3>2, IrqTypes DEF IInv
  <2>2. UsageSuffices' /\ WorkerInv' /\ CreditInv' /\ FlightInv' /\ HistoryInv'
    BY <1>11 DEF HardIrq, IrqOut
  <2> QED BY <2>1, <2>2
<1>12. CASE ThreadAck
  <2>1. TypeOK'
    <3>1. /\ hw' \in JobOrNone /\ raw' \in BOOLEAN /\ mask' \in BOOLEAN
          /\ seen' \in BOOLEAN /\ woken' \in BOOLEAN /\ thpc' \in {"idle", "handle", "ended"}
      BY <1>12 DEF ThreadAck
    <3>2. UNCHANGED <<jobVars, schedVars, tdrVars, coreVars>>
      BY <1>12 DEF ThreadAck
    <3> HIDE DEF TypeOK, JobOrNone, jobVars, schedVars, tdrVars, coreVars
    <3> QED BY <3>1, <3>2, IrqTypes DEF IInv
  <2>2. UsageSuffices' /\ WorkerInv' /\ CreditInv' /\ FlightInv'
    BY <1>12 DEF ThreadAck
  <2>3. HistoryInv'
    BY <1>12 DEF ThreadAck
  <2> QED BY <2>1, <2>2, <2>3
<1>13. CASE ThreadNext
  <2>1. inFlight \in Jobs /\ nextTask[inFlight] + 1 \in 0 .. TaskCount
    BY <1>13 DEF ThreadNext, MoreTasks
  <2>2. nextTask' \in [Jobs -> 0 .. TaskCount]
    BY <1>13, <2>1 DEF ThreadNext, HwSubmit
  <2>3. hw' \in JobOrNone /\ raw' \in BOOLEAN /\ mask' \in BOOLEAN
    BY <1>13, <2>1 DEF ThreadNext, HwSubmit
  <2>4. TypeOK'
    BY <1>13, <2>2, <2>3 DEF ThreadNext
  <2>5. UsageSuffices' /\ WorkerInv' /\ CreditInv' /\ FlightInv' /\ HistoryInv'
    BY <1>13 DEF ThreadNext, HwSubmit
  <2> QED BY <2>4, <2>5
<1>14. CASE ThreadSignal
  BY <1>14 DEF ThreadSignal, Done, MoreTasks
<1>23. CASE ThreadEnd
  BY <1>23 DEF ThreadEnd
<1>15. CASE ThreadNothing
  BY <1>15 DEF ThreadNothing
<1>16. CASE TimerFires
  BY <1>16 DEF TimerFires
<1>17. CASE NothingTimedOut
  BY <1>17 DEF NothingTimedOut
<1>18. CASE ResetStop
  <2>1. {j \in listed \cup {bad} : jst[j] = "pending"} = Pend
    BY <1>18 DEF ResetStop
  <2>2. credit' = 0
    BY <1>18, <2>1, PendCount DEF ResetStop
  <2>3. TypeOK'
    BY <1>18, <2>1, <2>2 DEF ResetStop
  <2>4. UsageSuffices' /\ WorkerInv' /\ FlightInv' /\ HistoryInv'
    BY <1>18 DEF ResetStop
  <2>5. CreditInv'
    BY <1>18, <2>1, <2>2 DEF ResetStop
  <2> QED BY <2>3, <2>4, <2>5
<1>19. CASE ResetClear
  BY <1>19 DEF ResetClear
<1>20. CASE ResetDone
  <2>1. TypeOK'
    BY <1>20 DEF ResetDone, CoreReset, Done
  <2>2. UsageSuffices' /\ WorkerInv' /\ FlightInv'
    BY <1>20 DEF ResetDone, CoreReset, Done
  <2>3. CreditInv'
    BY <1>20 DEF ResetDone, CoreReset, Done
  <2>4. HistoryInv'
    BY <1>20 DEF ResetDone, CoreReset, Done
  <2> QED BY <2>1, <2>2, <2>3, <2>4
<1>21. CASE UNCHANGED vars
  BY <1>21 DEF vars
<1>22. CASE SharedIrqReads \/ SharedIrqActs
  <2>1. TypeOK'
    <3>1. /\ hw' \in JobOrNone /\ raw' \in BOOLEAN /\ mask' \in BOOLEAN
          /\ seen' \in BOOLEAN /\ woken' \in BOOLEAN /\ thpc' \in {"idle", "handle", "ended"}
      BY <1>22 DEF SharedIrqReads, SharedIrqActs
    <3>2. UNCHANGED <<jobVars, schedVars, tdrVars, coreVars>>
      BY <1>22 DEF SharedIrqReads, SharedIrqActs
    <3> HIDE DEF TypeOK, JobOrNone, jobVars, schedVars, tdrVars, coreVars
    <3> QED BY <3>1, <3>2, IrqTypes DEF IInv
  <2>2. UsageSuffices' /\ WorkerInv' /\ CreditInv' /\ FlightInv' /\ HistoryInv'
    BY <1>22 DEF SharedIrqReads, SharedIrqActs
  <2> QED BY <2>1, <2>2
<1> QED
  BY <1>1, <1>2, <1>3, <1>4, <1>5, <1>6, <1>7, <1>8, <1>9, <1>10,
     <1>11, <1>12, <1>13, <1>14, <1>15, <1>16, <1>17, <1>18, <1>19, <1>20, <1>21,
     <1>22, <1>23
  DEF Next, WorkerStep, IrqStep, ThreadStep, ResetStep

\* What the interrupt part rules out: a thread that is slow while a job may time
\* out, and a shared line.
Prompt == /\ "shared_irq" \notin Events
          /\ "slow_thread" \notin Events \/ "timeout" \notin Events

\* Without timeouts there is no reset.
TimerInv == "timeout" \notin Events => tpc = "idle"

LEMMA TimerAlways == Spec => []TimerInv
<1>1. Init => TimerInv
  BY DEF Init, TimerInv
<1>2. TimerInv /\ [Next]_vars => TimerInv'
  BY DEF TimerInv, Next, WorkerStep, ThreadStep, ResetStep, Push, RunTake, Free,
         RunNoFence, RunGet, RunAttach, RunSubmit, RunReturn, HwDone, IrqStep, HardIrq,
         SharedIrqReads, SharedIrqActs, ThreadAck, ThreadNext, ThreadSignal,
         ThreadEnd, ThreadNothing, TimerFires, TimedOut, NothingTimedOut, ResetStop,
         ResetClear, ResetDone, vars, tdrVars
<1> QED BY <1>1, <1>2, PTL DEF Spec

\* With a prompt thread each action keeps IrqInv.
LEMMA IrqInvStep == Prompt /\ IInv /\ TimerInv /\ IrqInv /\ [Next]_vars => IrqInv'
<1> SUFFICES ASSUME Prompt, IInv, TimerInv, IrqInv, [Next]_vars PROVE IrqInv'
  OBVIOUS
<1> USE JobsAssumption, TasksAssumption
    DEF IInv, TypeOK, JobOrNone, JobInv, UsageSuffices, WorkerInv, CreditInv,
        FlightInv, HistoryInv, JobLockFree, IrqInv, Interrupting, IrqOut, CompletedRan, Pend, Stopped, Ref,
        jobVars, schedVars, tdrVars, hwVars, irqVars, coreVars
<1>1. ASSUME NEW j \in Jobs, Push(j) PROVE IrqInv'
  BY <1>1 DEF Push
<1>2. ASSUME NEW j \in Jobs, RunTake(j) PROVE IrqInv'
  BY <1>2 DEF RunTake
<1>3. ASSUME NEW j \in Jobs, Free(j) PROVE IrqInv'
  BY <1>3 DEF Free
<1>4. ASSUME NEW j \in Jobs, TimedOut(j) PROVE IrqInv'
  BY <1>4 DEF TimedOut
<1>5. CASE RunNoFence
  BY <1>5 DEF RunNoFence, Done
<1>6. CASE RunGet
  BY <1>6 DEF RunGet, NewFence
<1>7. CASE RunAttach
  BY <1>7 DEF RunAttach
<1>8. CASE RunSubmit
  BY <1>8 DEF RunSubmit, HwSubmit
<1>9. CASE RunReturn
  BY <1>9 DEF RunReturn, Done
<1>10. CASE HwDone
  BY <1>10 DEF HwDone
<1>11. CASE HardIrq
  BY <1>11 DEF HardIrq, IrqOut
<1>12. CASE ThreadAck
  BY <1>12 DEF ThreadAck
<1>13. CASE ThreadNext
  BY <1>13 DEF ThreadNext, HwSubmit, MoreTasks
<1>14. CASE ThreadSignal
  BY <1>14 DEF ThreadSignal, Done, MoreTasks
<1>23. CASE ThreadEnd
  BY <1>23 DEF ThreadEnd
<1>15. CASE ThreadNothing
  BY <1>15 DEF ThreadNothing
<1>16. CASE TimerFires
  BY <1>16 DEF TimerFires
<1>17. CASE NothingTimedOut
  BY <1>17 DEF NothingTimedOut
<1>18. CASE ResetStop
  BY <1>18 DEF ResetStop
<1>19. CASE ResetClear
  BY <1>19 DEF ResetClear
<1>20. CASE ResetDone
  <2>1. Handled
    BY <1>20 DEF ResetDone, Prompt, TimerInv
  <2> QED BY <1>20, <2>1 DEF ResetDone, CoreReset, Done, Handled, IrqOut
<1>21. CASE UNCHANGED vars
  BY <1>21 DEF vars
<1>22. CASE SharedIrqReads \/ SharedIrqActs
  BY <1>22 DEF SharedIrqReads, SharedIrqActs, Prompt
<1> QED
  BY <1>1, <1>2, <1>3, <1>4, <1>5, <1>6, <1>7, <1>8, <1>9, <1>10,
     <1>11, <1>12, <1>13, <1>14, <1>15, <1>16, <1>17, <1>18, <1>19, <1>20, <1>21,
     <1>22, <1>23
  DEF Next, WorkerStep, IrqStep, ThreadStep, ResetStep

----------------------------------------------------------------------------
(* Theorems for every environment.                                         *)

LEMMA InvAlways == Spec => []IInv
  BY InvInit, InvStep, PTL DEF Spec

\* Types of one core's job machinery, whatever fails: no task index runs past
\* the last task, no count goes below zero, no second credit is taken.
THEOREM JobTypeCorrect == Spec => []TypeOK
<1>1. IInv => TypeOK
  BY DEF IInv
<1> QED BY <1>1, InvAlways, PTL

\* The job in flight is powered and attached, in every interleaving of worker,
\* interrupt thread and reset (rocket_job.c:314-328, 346-380).
THEOREM FlightServed == Spec => []InFlightServed
<1>1. IInv => InFlightServed
  BY DEF IInv, TypeOK, JobInv, UsageSuffices, Ref, FlightInv, InFlightServed
<1> QED BY <1>1, InvAlways, PTL

\* Outside a reset the core counts as idle only once every job handed to it is
\* over, although the credit returns before in_flight_job is cleared
\* (rocket_job.c:347-349, 532-541).
THEOREM IdleIsIdle == Spec => []IdleMeansNoJob
<1>1. IInv => IdleMeansNoJob
  BY DEF IInv, JobInv, FlightInv, CreditInv, WorkerInv, IdleMeansNoJob, IsIdle, Pend
<1> QED BY <1>1, InvAlways, PTL

\* A finished job is never finished again: neither the interrupt thread, the
\* worker nor a reset ends a job that another of them has ended.
THEOREM JobsEndOnce == Spec => OneOutcome
<1>1. ASSUME IInv, [Next]_vars
      PROVE  [\A j \in Jobs : result[j] # "none" => result'[j] = result[j]]_vars
  <2> USE <1>1 DEF IInv, TypeOK, JobInv, HistoryInv, Pend, jobVars, schedVars,
                   tdrVars, hwVars, irqVars, coreVars
  <2>1. CASE RunNoFence \/ RunReturn
    BY <2>1 DEF RunNoFence, RunReturn, Done, WorkerInv
  <2>2. CASE ThreadSignal
    BY <2>2 DEF ThreadSignal, Done, FlightInv
  <2>3. CASE ResetDone
    BY <2>3 DEF ResetDone, CoreReset, Done, CreditInv, Stopped
  <2>4. CASE UNCHANGED result
    BY <2>4
  <2>5. RunNoFence \/ RunReturn \/ ThreadSignal \/ ResetDone \/ UNCHANGED result
    BY DEF Next, WorkerStep, ThreadStep, ResetStep, vars, Push, RunTake, Free,
           RunGet, NewFence, RunAttach, RunSubmit, HwDone, IrqStep, HardIrq,
           SharedIrqReads, SharedIrqActs, ThreadAck, ThreadNext, ThreadEnd,
           ThreadNothing, TimerFires, TimedOut, NothingTimedOut, ResetStop,
           ResetClear
  <2> QED BY <2>1, <2>2, <2>3, <2>4, <2>5
<1> QED BY <1>1, InvAlways, PTL DEF Spec, OneOutcome

----------------------------------------------------------------------------
(* Theorems for a prompt interrupt thread.                                 *)

LEMMA IrqInit == Init => IrqInv
<1> SUFFICES ASSUME Init PROVE IrqInv
  OBVIOUS
<1> QED BY DEF Init, IrqInv, Interrupting, IrqOut, CompletedRan

LEMMA IrqAlways == Prompt => (Spec => []IrqInv)
<1> SUFFICES ASSUME Prompt PROVE Spec => []IrqInv
  OBVIOUS
<1>1. IInv /\ TimerInv /\ IrqInv /\ [Next]_vars => IrqInv'
  BY IrqInvStep
<1> QED BY <1>1, IrqInit, InvAlways, TimerAlways, PTL DEF Spec

\* With a prompt interrupt thread a job that ends without an error has had
\* every task run by the hardware, through any number of resets
\* (rocket_job.c:363-364).
THEOREM CompletedJobsRan == Prompt => (Spec => []CompletedRan)
<1> SUFFICES ASSUME Prompt PROVE Spec => []CompletedRan
  OBVIOUS
<1>1. IrqInv => CompletedRan
  BY DEF IrqInv
<1> QED BY <1>1, IrqAlways, PTL

\* With a prompt interrupt thread the hardware works in the address space of
\* its job up to the detach of a reset (rocket_job.c:318-328, 346, 372).
THEOREM HwInItsDomain == Prompt => (Spec => []HwHasItsDomain)
<1> SUFFICES ASSUME Prompt PROVE Spec => []HwHasItsDomain
  OBVIOUS
<1>1. IInv /\ IrqInv => HwHasItsDomain
  BY DEF IInv, JobInv, FlightInv, IrqInv, Interrupting, HwHasItsDomain
<1> QED BY <1>1, IrqAlways, InvAlways, PTL

\* With a prompt interrupt thread no task is started on hardware that still
\* works, nor between the mark of a reset and the reset (rocket_job.c:114-116).
THEOREM QuietStarts == Prompt => (Spec => StartsOnQuietHw)
<1> SUFFICES ASSUME Prompt PROVE Spec => StartsOnQuietHw
  OBVIOUS
<1>1. ASSUME IInv, IrqInv, [Next]_vars
      PROVE  [hw' # None /\ hw' # hw => hw = None /\ ~resetPending]_vars
  <2> USE <1>1 DEF IInv, TypeOK, JobInv, hwVars, vars
  <2>1. CASE RunSubmit
    BY <2>1 DEF RunSubmit, HwSubmit, WorkerInv, IrqInv, HistoryInv, CreditInv,
                Stopped, JobLockFree
  <2>2. CASE ThreadNext
    BY <2>2 DEF ThreadNext, HwSubmit, IrqInv, Interrupting, IrqOut
  <2>3. hw' = hw \/ hw' = None \/ RunSubmit \/ ThreadNext
    BY DEF Next, WorkerStep, ThreadStep, ResetStep, Push, RunTake, Free,
           RunNoFence, RunGet, NewFence, RunAttach, RunReturn, HwDone, IrqStep, HardIrq,
           SharedIrqReads, SharedIrqActs, ThreadAck,
           ThreadSignal, ThreadEnd, ThreadNothing, TimerFires, TimedOut,
           NothingTimedOut, ResetStop, ResetClear, ResetDone, CoreReset
  <2> QED BY <2>1, <2>2, <2>3
<1> QED BY <1>1, IrqAlways, InvAlways, PTL DEF Spec, StartsOnQuietHw

----------------------------------------------------------------------------
(* The refinement: jst, result and ran alone behave as JobPromise allows.  *)

\* A job that ends does so from pending, and alone.
LEMMA EndStep ==
    ASSUME jst \in [Jobs -> {"new", "queued", "pending", "done"}],
           result \in [Jobs -> {"none", "ok", "error", "cancelled"}],
           NEW j \in Jobs, NEW r \in {"ok", "error", "cancelled"},
           jst[j] = "pending", Done({j}, r), UNCHANGED ran,
           r = "ok" => ran[j] = TaskCount
    PROVE  Promise!Next
<1>1. jst' = [jst EXCEPT ![j] = "done"] /\ result' = [result EXCEPT ![j] = r]
  BY DEF Done
<1>2. Promise!End(j, r)
  BY <1>1 DEF Promise!End, Promise!Move
<1> QED BY <1>2 DEF Promise!Next

LEMMA PromiseStep ==
    ASSUME Prompt, IInv, IrqInv, IrqInv', [Next]_vars
    PROVE  [Promise!Next]_<<jst, result, ran>>
<1> USE DEF IInv, TypeOK, JobInv, Pend, jobVars, schedVars, tdrVars, hwVars,
            irqVars, coreVars
<1>1. ASSUME NEW j \in Jobs, Push(j) PROVE Promise!Next
  BY <1>1 DEF Push, Promise!Next, Promise!Submit, Promise!Move
<1>2. ASSUME NEW j \in Jobs, RunTake(j) PROVE Promise!Next
  <2>1. \A i \in Jobs : jst[i] # "pending"
    BY <1>2 DEF RunTake, CreditInv
  <2> QED BY <1>2, <2>1 DEF RunTake, Promise!Next, Promise!Begin, Promise!Move
<1>3. CASE HwDone
  <2>1. hw \in Jobs /\ jst[hw] = "pending"
    BY <1>3 DEF HwDone, IrqInv
  <2>2. ran[hw] < TaskCount
    BY <1>3, <2>1, TasksAssumption DEF HwDone, HistoryInv, Ref
  <2> QED BY <1>3, <2>1, <2>2 DEF HwDone, Promise!Next, Promise!Work
<1>4. CASE RunNoFence
  BY <1>4, EndStep DEF RunNoFence, WorkerInv
<1>5. CASE RunReturn /\ fence[wjob] = "signalled"
  BY <1>5, EndStep DEF RunReturn, WorkerInv, IrqInv
<1>6. CASE ThreadSignal /\ fence[inFlight] = "heard"
  <2>1. ran[inFlight] = TaskCount
    BY <1>6, JobsAssumption DEF ThreadSignal, FlightInv, IrqInv
  <2> QED BY <1>6, <2>1, EndStep DEF ThreadSignal, FlightInv
<1>7. CASE ResetDone
  <2>1. UNCHANGED ran /\ Done(listed, "cancelled") /\ listed \subseteq Pend
    BY <1>7 DEF ResetDone, CoreReset, CreditInv, Stopped
  <2>2. CASE listed = {}
    BY <2>1, <2>2 DEF Done
  <2>3. CASE listed # {}
    <3>1. PICK j \in Jobs : listed = {j} /\ jst[j] = "pending"
      BY <2>1, <2>3 DEF CreditInv
    <3> QED BY <2>1, <3>1, EndStep
  <2> QED BY <2>2, <2>3
<1>8. CASE UNCHANGED <<jst, result, ran>>
  BY <1>8
<1>9. \/ \E j \in Jobs : Push(j) \/ RunTake(j)
      \/ HwDone \/ RunNoFence \/ ResetDone
      \/ RunReturn /\ fence[wjob] = "signalled"
      \/ ThreadSignal /\ fence[inFlight] = "heard"
      \/ UNCHANGED <<jst, result, ran>>
  BY DEF Next, WorkerStep, IrqStep, ThreadStep, ResetStep, vars, Free, RunGet, NewFence,
         RunAttach, RunSubmit, RunReturn, HardIrq, SharedIrqReads,
         SharedIrqActs, ThreadAck, ThreadNext, ThreadSignal, ThreadEnd, ThreadNothing,
         TimerFires, TimedOut, NothingTimedOut, ResetStop, ResetClear
<1> QED BY <1>1, <1>2, <1>3, <1>4, <1>5, <1>6, <1>7, <1>8, <1>9

\* With a prompt interrupt thread a core keeps JobPromise through timeouts,
\* resets and every failure of resuming, attaching and allocating: one job at
\* a time, the hardware on no other, one outcome, success only after the last
\* task (rocket_job.c:288-397).
THEOREM ImplementsPromise == Prompt => (Spec => PromiseSpec)
<1> SUFFICES ASSUME Prompt PROVE Spec => PromiseSpec
  OBVIOUS
<1>1. Init => Promise!Init
  BY DEF Init, Promise!Init
<1>2. IInv /\ IrqInv /\ IrqInv' /\ [Next]_vars => [Promise!Next]_<<jst, result, ran>>
  BY PromiseStep
<1> QED BY <1>1, <1>2, IrqAlways, InvAlways, PTL DEF Spec, PromiseSpec, Promise!Spec

----------------------------------------------------------------------------
(* References, when every core resumes and attaches.                       *)

Reliable == Events \cap {"resume_fail", "attach_fail"} = {}

\* The runtime PM count is exact through jobs, interrupts and resets
\* (rocket_job.c:363-366) as long as resuming and attaching do not fail;
\* rocket_job_run keeps its reference when they do.
THEOREM UsageExact == Reliable => (Spec => []UsageBalanced)
<1> SUFFICES ASSUME Reliable PROVE Spec => []UsageBalanced
  OBVIOUS
<1>1. Init => UsageBalanced
  BY DEF Init, UsageBalanced, Ref
<1>2. ASSUME IInv, UsageBalanced, [Next]_vars PROVE UsageBalanced'
  <2> USE <1>2 DEF IInv, TypeOK, JobInv, UsageBalanced, Ref, schedVars, coreVars
  <2>1. CASE \E j \in Jobs : RunTake(j)
    BY <2>1 DEF RunTake
  <2>2. CASE WorkerStep
    BY <2>2, JobsAssumption DEF WorkerStep, RunNoFence, RunGet, NewFence, RunAttach,
       RunSubmit, RunReturn, WorkerInv, Pend, Reliable, JobLockFree
  <2>3. CASE ThreadEnd
    BY <2>3 DEF ThreadEnd, FlightInv
  <2>4. CASE ResetClear
    BY <2>4 DEF ResetClear
  <2>5. CASE UNCHANGED <<usage, inFlight, wpc>>
    BY <2>5
  <2>6. \/ \E j \in Jobs : RunTake(j)
        \/ WorkerStep \/ ThreadEnd \/ ResetClear
        \/ UNCHANGED <<usage, inFlight, wpc>>
    BY DEF Next, ThreadStep, ResetStep, vars, Push, Free, HwDone, IrqStep, HardIrq,
           SharedIrqReads, SharedIrqActs,
           ThreadAck, ThreadNext, ThreadSignal, ThreadNothing, TimerFires, TimedOut,
           NothingTimedOut, ResetStop, ResetDone, CoreReset
  <2> QED BY <2>1, <2>2, <2>3, <2>4, <2>5, <2>6
<1> QED BY <1>1, <1>2, InvAlways, PTL DEF Spec

\* In every environment no reference is missing: whatever fails, a reset gives
\* back no more than the job in flight had (rocket_job.c:314-320, 363-371).
THEOREM NoUsageMissing == Spec => []UsageSuffices
<1>1. IInv => UsageSuffices
  BY DEF IInv, JobInv
<1> QED BY <1>1, InvAlways, PTL
=============================================================================
