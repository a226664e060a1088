------------------------- MODULE RocketSubmitProofs -------------------------
(***************************************************************************)
(* Proofs about RocketSubmit for any number of threads, buffers and jobs   *)
(* and any combination of the modelled failures.                           *)
(***************************************************************************)
EXTENDS RocketSubmit, TLAPS

\* The parts of the state a job's references depend on.
SubTypes ==
    /\ jst \in [Jobs -> {"free", "init", "queued", "running", "killed", "signalled",
                         "dropped"}]
    /\ refs \in [Jobs -> Nat] /\ fenced \in [Jobs -> BOOLEAN]
    /\ outs \in [Jobs -> SUBSET BOs]
    /\ DOMAIN pc = Threads
    /\ myJob \in [Threads -> Jobs \cup {None}]
    /\ myBo \in [Threads -> BOs \cup {None}]
    /\ owed \in [Threads -> SUBSET Jobs]

\* The scheduler's reference, and the submitter's.
Sched(j) == jst[j] \in {"queued", "running", "killed", "signalled"}
Mine(j)  == \E t \in Threads : myJob[t] = j

\* A thread has a job exactly while it submits, and nobody else has that one.
OwnInv ==
    /\ \A t \in Threads : pc[t] \in Submitting <=> myJob[t] # None
    /\ \A t, u \in Threads : myJob[t] # None /\ myJob[t] = myJob[u] => t = u

\* The count is the references there are, and says when the job is free.
CountInv ==
    /\ \A j \in Jobs : refs[j] = Ref(Mine(j)) + Ref(Sched(j))
    /\ \A j \in Jobs : jst[j] = "free" => ~Mine(j)
    /\ \A j \in Jobs : jst[j] \in {"init", "dropped"} => Mine(j)

\* How far a submitter is tells where its job can be.
StageInv ==
    \A t \in Threads :
        /\ pc[t] \in {"in", "out", "push"} => jst[myJob[t]] = "init"
        /\ pc[t] = "attach" => jst[myJob[t]] # "init"

\* The write fence of a job is missing only while its submitter is about to
\* attach it; what prep_bo is owed is among what it waits for.
FenceInv ==
    /\ \A j \in Jobs : Sched(j) => \/ fenced[j]
                                   \/ \E t \in Threads : myJob[t] = j /\ pc[t] = "attach"
    /\ \A t \in Threads : pc[t] = "wait" =>
           \A j \in owed[t] : j \in Writing(myBo[t]) /\ fenced[j]

SubInv == SubTypes /\ OwnInv /\ CountInv /\ StageInv /\ FenceInv /\ PrepSeesWrites

LEMMA SubInit == Init => SubInv
<1> SUFFICES ASSUME Init PROVE SubInv
  OBVIOUS
<1> USE SetsAssumption DEF Init
<1>1. SubTypes
  BY DEF SubTypes
<1>2. OwnInv
  BY DEF OwnInv, Submitting
<1>3. CountInv
  BY DEF CountInv, Mine, Sched, Ref
<1>4. StageInv /\ FenceInv /\ PrepSeesWrites
  BY DEF StageInv, FenceInv, PrepSeesWrites, Sched
<1> QED BY <1>1, <1>2, <1>3, <1>4 DEF SubInv

\* Steps that change no job and leave every thread out of the submit path.
LEMMA OtherStep ==
    ASSUME SubInv, UNCHANGED <<jst, refs, outs, fenced, myJob>>,
           NEW t \in Threads,
           \A u \in Threads \ {t} : pc'[u] = pc[u] /\ owed'[u] = owed[u]
                                    /\ myBo'[u] = myBo[u],
           DOMAIN pc' = Threads,
           owed' \in [Threads -> SUBSET Jobs],
           myBo' \in [Threads -> BOs \cup {None}],
           pc[t] \notin Submitting, pc'[t] \notin Submitting,
           pc'[t] = "wait" => \A j \in owed'[t] : j \in Writing(myBo'[t]) /\ fenced[j],
           pc'[t] = "ready" => owed'[t] = {}
    PROVE  SubInv'
<1> USE DEF SubInv, SubTypes
<1>1. SubTypes'
  OBVIOUS
<1>2. OwnInv'
  BY DEF OwnInv
<1>3. CountInv'
  BY DEF CountInv, Mine, Sched, Ref
<1>4. StageInv'
  BY DEF StageInv, Submitting
<1>5. FenceInv'
  <2>1. \A j \in Jobs : Sched(j)' = Sched(j)
    BY DEF Sched
  <2>2. \A b \in BOs \cup {None} : Writing(b)' = Writing(b)
    BY DEF Writing
  <2>3. \A j \in Jobs : (\E u \in Threads : myJob[u] = j /\ pc[u] = "attach")
          => (\E u \in Threads : myJob'[u] = j /\ pc'[u] = "attach")
    BY DEF Submitting
  <2>4. ASSUME NEW u \in Threads, pc'[u] = "wait", NEW j \in owed'[u]
        PROVE  j \in Writing(myBo'[u]) /\ fenced[j]
    BY <2>4 DEF FenceInv
  <2> QED BY <2>1, <2>2, <2>3, <2>4 DEF FenceInv, Writing
<1>6. PrepSeesWrites'
  BY DEF PrepSeesWrites
<1> QED BY <1>1, <1>2, <1>3, <1>4, <1>5, <1>6

\* A step that only shows where memory was used wrongly.
LEMMA SubSame ==
    ASSUME SubInv, UNCHANGED <<jobVars, threadVars>>
    PROVE  SubInv'
<1> USE DEF SubInv, jobVars, threadVars
<1>1. SubTypes' /\ OwnInv' /\ StageInv' /\ PrepSeesWrites'
  BY DEF SubTypes, OwnInv, StageInv, PrepSeesWrites
<1>2. CountInv'
  BY DEF CountInv, Mine, Sched
<1>3. FenceInv'
  BY DEF FenceInv, Sched, Writing
<1> QED BY <1>1, <1>2, <1>3

\* Buffer ioctls: none of them touches a job.
LEMMA BufferStep ==
    ASSUME SubInv, NEW t \in Threads, CreateStep(t) \/ BoStep(t)
    PROVE  SubInv'
<1> USE DEF SubInv, SubTypes, jobVars, threadVars, boVars
<1>1. ASSUME NEW b \in BOs, CreateBegin(t, b) PROVE SubInv'
  BY <1>1, OtherStep DEF CreateBegin, Enter, Submitting
<1>2. CASE CreateHandle(t)
  BY <1>2, OtherStep, SetsAssumption DEF CreateHandle, Go, Return, Drop, Submitting
<1>3. CASE CreatePages(t)
  BY <1>3, OtherStep DEF CreatePages, Go, Return, Unwind, Submitting
<1>4. CASE CreateInsert(t)
  BY <1>4, OtherStep DEF CreateInsert, Go, Submitting
<1>5. CASE CreateMap(t)
  BY <1>5, OtherStep DEF CreateMap, Go, Return, Unwind, Submitting
<1>6. ASSUME NEW b \in BOs, CloseHandle(t, b) PROVE SubInv'
  BY <1>6, OtherStep DEF CloseHandle, Drop, Submitting
<1>7. ASSUME NEW b \in BOs, PrepBegin(t, b) PROVE SubInv'
  <2>1. pc[t] = "idle" /\ pc' = [pc EXCEPT ![t] = "wait"]
        /\ myBo' = [myBo EXCEPT ![t] = b]
    BY <1>7 DEF PrepBegin, Enter
  <2>2. owed' = [owed EXCEPT ![t] = {j \in Writing(b) : Returned(j)}]
        /\ UNCHANGED <<jst, refs, outs, fenced, myJob>>
    BY <1>7 DEF PrepBegin
  <2>3. \A j \in Writing(b) : Returned(j) => fenced[j]
    BY DEF FenceInv, Writing, Returned, Sched
  <2> QED BY <2>1, <2>2, <2>3, OtherStep DEF Submitting, Writing
<1>8. CASE PrepWait(t)
  <2>1. pc[t] = "wait" /\ UNCHANGED <<jst, refs, outs, fenced, myJob, owed, myBo>>
    BY <1>8 DEF PrepWait, Go
  <2>2. \/ pc' = [pc EXCEPT ![t] = "late"]
        \/ pc' = [pc EXCEPT ![t] = "ready"] /\ owed[t] = {}
    <3>1. {j \in Writing(myBo[t]) : fenced[j]} = {} => owed[t] = {}
      BY <2>1 DEF FenceInv
    <3> QED BY <1>8, <3>1 DEF PrepWait, Go
  <2> QED BY <2>1, <2>2, OtherStep DEF Submitting
<1>9. ASSUME NEW b \in BOs, FiniBegin(t, b) PROVE SubInv'
  BY <1>9, OtherStep DEF FiniBegin, Enter, Submitting
<1>10. CASE PutLookup(t)
  BY <1>10, OtherStep DEF PutLookup, Return, Submitting
<1>11. CASE NoPages(t) \/ UseStale(t)
  BY <1>11, SubSame DEF NoPages, UseStale
<1> QED BY <1>1, <1>2, <1>3, <1>4, <1>5, <1>6, <1>7, <1>8, <1>9, <1>10, <1>11
        DEF CreateStep, BoStep

\* The scheduler has a job and keeps it, or the file is closed: its reference
\* stays, and so do the threads.
LEMMA SchedMove ==
    ASSUME SubInv, UNCHANGED <<refs, outs, fenced, pc, myJob, myBo>>,
           jst' \in [Jobs -> {"free", "init", "queued", "running", "killed",
                              "signalled", "dropped"}],
           \A j \in Jobs : jst'[j] = jst[j] \/ (Sched(j) /\ Sched(j)'),
           owed' \in [Threads -> SUBSET Jobs],
           \A u \in Threads : \A j \in owed'[u] :
               /\ j \in owed[u]
               /\ jst[j] \in {"queued", "running", "killed"}
                     => jst'[j] \in {"queued", "running", "killed"}
    PROVE  SubInv'
<1> USE DEF SubInv, SubTypes
<1>1. SubTypes'
  OBVIOUS
<1>2. OwnInv'
  BY DEF OwnInv
<1>3. \A j \in Jobs : Sched(j)' = Sched(j) /\ Mine(j)' = Mine(j)
  BY DEF Sched, Mine
<1>4. CountInv'
  BY <1>3 DEF CountInv, Sched, Ref
<1>5. StageInv'
  BY SetsAssumption DEF StageInv, Sched, OwnInv, Submitting
<1>6. FenceInv'
  BY <1>3 DEF FenceInv, Writing
<1>7. PrepSeesWrites'
  BY DEF PrepSeesWrites
<1> QED BY <1>1, <1>2, <1>4, <1>5, <1>6, <1>7

\* A job loses one reference: the last, or not.
LEMMA PutJob ==
    ASSUME SubInv, NEW j \in Jobs, NEW s, JobPut(j, s), refs[j] > 0
    PROVE  /\ refs[j] = 1 => /\ refs' = [refs EXCEPT ![j] = 0]
                             /\ jst' = [jst EXCEPT ![j] = "free"]
                             /\ outs' = [outs EXCEPT ![j] = {}]
                             /\ fenced' = [fenced EXCEPT ![j] = FALSE]
           /\ refs[j] # 1 => /\ refs' = [refs EXCEPT ![j] = refs[j] - 1]
                             /\ jst' = [jst EXCEPT ![j] = s]
                             /\ UNCHANGED <<outs, fenced>>
  BY DEF JobPut, Cleanup, SubInv, SubTypes

\* Opening, closing and the scheduler.
LEMMA FileSchedStep ==
    ASSUME SubInv, FileStep \/ SchedStep
    PROVE  SubInv'
<1> USE DEF SubInv, SubTypes, jobVars, threadVars, boVars
<1>1. CASE Open \/ Release
  <2>1. UNCHANGED <<jobVars, threadVars>>
    BY <1>1 DEF Open, Release
  <2> QED BY <2>1, SchedMove DEF Sched
<1>2. CASE PostClose
  BY <1>2, SchedMove DEF PostClose, Sched
<1>3. ASSUME NEW j \in Jobs, Run(j) PROVE SubInv'
  BY <1>3, SchedMove DEF Run, Sched
<1>4. ASSUME NEW j \in Jobs, Finish(j) PROVE SubInv'
  BY <1>4, SchedMove DEF Finish, Sched
<1>5. ASSUME NEW j \in Jobs, JobFree(j) PROVE SubInv'
  <2>1. jst[j] = "signalled" /\ JobPut(j, "dropped") /\ UNCHANGED threadVars
    BY <1>5 DEF JobFree
  <2>2. refs[j] = Ref(Mine(j)) + 1
    BY <2>1 DEF CountInv, Sched, Ref
  <2>3. IF Mine(j)
        THEN /\ refs' = [refs EXCEPT ![j] = 1] /\ jst' = [jst EXCEPT ![j] = "dropped"]
             /\ UNCHANGED <<outs, fenced>>
        ELSE /\ refs' = [refs EXCEPT ![j] = 0] /\ jst' = [jst EXCEPT ![j] = "free"]
             /\ outs' = [outs EXCEPT ![j] = {}]
             /\ fenced' = [fenced EXCEPT ![j] = FALSE]
    BY <2>1, <2>2, PutJob DEF Ref
  <2>4. SubTypes'
    <3>1. CASE Mine(j)
      BY <2>1, <2>3, <3>1
    <3>2. CASE ~Mine(j)
      <4>1. outs' \in [Jobs -> SUBSET BOs]
        BY <2>3, <3>2
      <4>2. refs' \in [Jobs -> Nat]
        BY <2>3, <3>2
      <4>3. fenced' \in [Jobs -> BOOLEAN]
        <5>1. fenced \in [Jobs -> BOOLEAN]
          OBVIOUS
        <5>2. fenced' = [fenced EXCEPT ![j] = FALSE]
          BY <2>3, <3>2
        <5> HIDE DEF SubTypes, SubInv
        <5> QED BY <5>1, <5>2, Zenon
      <4> QED BY <2>1, <2>3, <3>2, <4>1, <4>2, <4>3
    <3> QED BY <3>1, <3>2
  <2>5. OwnInv'
    BY <2>1 DEF OwnInv
  <2>6. CountInv'
    BY <2>1, <2>3 DEF CountInv, Sched, Ref, Mine
  <2>7. StageInv'
    BY <2>1, <2>3 DEF StageInv, OwnInv, Submitting, Mine
  <2>8. FenceInv'
    BY <2>1, <2>3 DEF FenceInv, Sched, Writing
  <2>9. PrepSeesWrites'
    BY <2>1 DEF PrepSeesWrites
  <2> QED BY <2>4, <2>5, <2>6, <2>7, <2>8, <2>9
<1> QED BY <1>1, <1>2, <1>3, <1>4, <1>5 DEF FileStep, SchedStep

\* The submit ioctl.
LEMMA SubmitJobStep ==
    ASSUME SubInv, NEW t \in Threads, SubmitStep(t)
    PROVE  SubInv'
<1> USE SetsAssumption DEF SubInv, SubTypes, jobVars, threadVars, boVars
<1>1. ASSUME NEW j \in Jobs, SubmitBegin(t, j) PROVE SubInv'
  <2> USE <1>1 DEF SubmitBegin, Enter
  <2>1. SubTypes' /\ PrepSeesWrites'
    BY DEF PrepSeesWrites
  <2>2. ~Mine(j) /\ myJob[t] = None
    BY DEF CountInv, OwnInv, Submitting
  <2>3. OwnInv'
    BY <2>2 DEF OwnInv, Submitting, Mine
  <2>4. \A i \in Jobs : Mine(i)' <=> Mine(i) \/ i = j
    BY <2>2 DEF Mine
  <2>5. CountInv'
    BY <2>2, <2>4 DEF CountInv, Sched, Ref
  <2>6. StageInv'
    BY <2>2 DEF StageInv, Mine, OwnInv, Submitting
  <2>7. FenceInv'
    BY <2>2 DEF FenceInv, Sched, Writing, Mine
  <2> QED BY <2>1, <2>3, <2>5, <2>6, <2>7
<1>2. ASSUME NEW S \in SUBSET BOs, LookUpIns(t, S) \/ LookUpOuts(t, S) PROVE SubInv'
  <2>1. myJob[t] \in Jobs /\ jst[myJob[t]] = "init"
    BY <1>2 DEF LookUpIns, LookUpOuts, Go, OwnInv, Submitting, StageInv
  <2>2. /\ pc[t] \in {"in", "out"}
        /\ pc' = [pc EXCEPT ![t] = IF pc[t] = "in" THEN "out" ELSE "push"]
        /\ UNCHANGED <<jst, refs, fenced, myJob, myBo, owed>>
    BY <1>2 DEF LookUpIns, LookUpOuts, Go
  <2>3. outs' = outs \/ outs' = [outs EXCEPT ![myJob[t]] = S]
    BY <1>2 DEF LookUpIns, LookUpOuts
  <2>4. SubTypes' /\ PrepSeesWrites'
    BY <2>1, <2>2, <2>3 DEF PrepSeesWrites
  <2>5. OwnInv'
    BY <2>2 DEF OwnInv, Submitting
  <2>6. CountInv'
    BY <2>2 DEF CountInv, Sched, Ref, Mine
  <2>7. StageInv'
    BY <2>1, <2>2 DEF StageInv
  <2>8. FenceInv'
    BY <2>1, <2>2, <2>3 DEF FenceInv, Sched, Writing
  <2> QED BY <2>4, <2>5, <2>6, <2>7, <2>8
<1>3. CASE SubmitFails(t)
  BY <1>3, SchedMove DEF SubmitFails
<1>4. CASE Push(t)
  <2>1. pc[t] = "push" /\ myJob[t] \in Jobs /\ jst[myJob[t]] = "init"
    BY <1>4 DEF Push, Go, OwnInv, Submitting, StageInv
  <2>2. /\ pc' = [pc EXCEPT ![t] = "attach"]
        /\ refs' = [refs EXCEPT ![myJob[t]] = refs[myJob[t]] + 1]
        /\ jst' = [jst EXCEPT ![myJob[t]] = "queued"]
        /\ UNCHANGED <<outs, fenced, myJob, myBo, owed>>
    BY <1>4 DEF Push, Go
  <2>3. SubTypes' /\ PrepSeesWrites'
    BY <2>1, <2>2 DEF PrepSeesWrites
  <2>4. OwnInv'
    BY <2>1, <2>2 DEF OwnInv, Submitting
  <2>5. CountInv'
    BY <2>1, <2>2 DEF CountInv, Sched, Ref, Mine
  <2>6. StageInv'
    BY <2>1, <2>2 DEF StageInv, OwnInv, Submitting
  <2>7. FenceInv'
    BY <2>1, <2>2 DEF FenceInv, Sched, Writing
  <2> QED BY <2>3, <2>4, <2>5, <2>6, <2>7
<1>5. CASE PushFails(t)
  <2>1. /\ pc[t] = "push" /\ pc' = [pc EXCEPT ![t] = "put"]
        /\ UNCHANGED <<jobVars, myJob, myBo, owed>>
    BY <1>5 DEF PushFails, Go
  <2>2. SubTypes' /\ PrepSeesWrites' /\ OwnInv' /\ StageInv'
    BY <2>1 DEF PrepSeesWrites, OwnInv, Submitting, StageInv
  <2>3. CountInv' /\ FenceInv'
    BY <2>1 DEF CountInv, Mine, Sched, Ref, FenceInv, Writing
  <2> QED BY <2>2, <2>3
<1>6. CASE Attach(t)
  <2>1. pc[t] = "attach" /\ myJob[t] \in Jobs
    BY <1>6 DEF Attach, Go, OwnInv, Submitting
  <2>2. /\ pc' = [pc EXCEPT ![t] = "put"]
        /\ fenced' = [fenced EXCEPT ![myJob[t]] = TRUE]
        /\ UNCHANGED <<jst, refs, outs, myJob, myBo, owed>>
    BY <1>6 DEF Attach, Go
  <2>3. SubTypes' /\ PrepSeesWrites' /\ OwnInv' /\ StageInv'
    BY <2>1, <2>2 DEF PrepSeesWrites, OwnInv, Submitting, StageInv
  <2>4. CountInv'
    BY <2>2 DEF CountInv, Mine, Sched, Ref
  <2>5. FenceInv'
    BY <2>1, <2>2 DEF FenceInv, Sched, Writing
  <2> QED BY <2>3, <2>4, <2>5
<1>7. CASE SubmitEnd(t)
  <2> DEFINE j == myJob[t]
  <2>1. j \in Jobs /\ pc[t] = "put" /\ Mine(j) /\ jst[j] # "free"
    BY <1>7 DEF SubmitEnd, Return, OwnInv, Submitting, Mine, CountInv
  <2>2. /\ pc' = [pc EXCEPT ![t] = "idle"] /\ myJob' = [myJob EXCEPT ![t] = None]
        /\ myBo' = [myBo EXCEPT ![t] = None] /\ owed' = owed
    BY <1>7 DEF SubmitEnd, Return
  <2>3. refs[j] = 1 + Ref(Sched(j))
    BY <2>1 DEF CountInv, Ref
  <2>4. IF Sched(j)
        THEN /\ refs' = [refs EXCEPT ![j] = 1] /\ jst' = jst
             /\ UNCHANGED <<outs, fenced>>
        ELSE /\ refs' = [refs EXCEPT ![j] = 0] /\ jst' = [jst EXCEPT ![j] = "free"]
             /\ outs' = [outs EXCEPT ![j] = {}]
             /\ fenced' = [fenced EXCEPT ![j] = FALSE]
    <3>1. JobPut(j, jst[j])
      BY <1>7 DEF SubmitEnd
    <3> QED BY <2>1, <2>3, <3>1, PutJob DEF Ref
  <2>5. SubTypes' /\ PrepSeesWrites'
    <3>1. CASE Sched(j)
      BY <2>1, <2>2, <2>4, <3>1 DEF PrepSeesWrites
    <3>2. CASE ~Sched(j)
      <4>1. outs' \in [Jobs -> SUBSET BOs]
        BY <2>4, <3>2
      <4>2. refs' \in [Jobs -> Nat]
        BY <2>4, <3>2
      <4>3. fenced' \in [Jobs -> BOOLEAN]
        <5>1. fenced \in [Jobs -> BOOLEAN]
          OBVIOUS
        <5>2. fenced' = [fenced EXCEPT ![j] = FALSE]
          BY <2>4, <3>2
        <5> HIDE DEF SubTypes, SubInv
        <5> QED BY <5>1, <5>2, Zenon
      <4> QED BY <2>1, <2>2, <2>4, <3>2, <4>1, <4>2, <4>3 DEF PrepSeesWrites
    <3> QED BY <3>1, <3>2
  <2>6. OwnInv'
    BY <2>1, <2>2 DEF OwnInv, Submitting
  <2>7. \A i \in Jobs : Mine(i)' <=> Mine(i) /\ i # j
    BY <2>1, <2>2 DEF Mine, OwnInv
  <2>8. CountInv'
    BY <2>1, <2>4, <2>7 DEF CountInv, Sched, Ref
  <2>9. StageInv'
    BY <2>1, <2>2, <2>4 DEF StageInv, OwnInv, Submitting
  <2>10. FenceInv'
    BY <2>1, <2>2, <2>4 DEF FenceInv, Sched, Writing
  <2> QED BY <2>5, <2>6, <2>8, <2>9, <2>10
<1> QED BY <1>1, <1>2, <1>3, <1>4, <1>5, <1>6, <1>7 DEF SubmitStep

LEMMA SubStep == SubInv /\ [Next]_vars => SubInv'
<1> SUFFICES ASSUME SubInv, [Next]_vars PROVE SubInv'
  OBVIOUS
<1>1. CASE UNCHANGED vars
  <2>1. UNCHANGED <<jobVars, threadVars>>
    BY <1>1 DEF vars
  <2> QED BY <2>1, SchedMove DEF jobVars, threadVars, SubInv, SubTypes
<1>2. CASE FileStep \/ SchedStep
  BY <1>2, FileSchedStep
<1>3. ASSUME NEW t \in Threads, CreateStep(t) \/ BoStep(t) PROVE SubInv'
  BY <1>3, BufferStep
<1>4. ASSUME NEW t \in Threads, SubmitStep(t) PROVE SubInv'
  BY <1>4, SubmitJobStep
<1> QED BY <1>1, <1>2, <1>3, <1>4 DEF Next, Oops

LEMMA SubAlways == Spec => []SubInv
  BY SubInit, SubStep, PTL DEF Spec

\* No job is freed under its submitter, nor taken by another thread while the
\* first still works on it, whatever fails and however early the scheduler
\* finishes (rocket_job.c:221, 226, 600).
THEOREM SubmitterIsSafe == Spec => []SubmitterSafe
<1>1. SubInv => SubmitterSafe
  BY SetsAssumption DEF SubInv, SubTypes, OwnInv, CountInv, Sched, Mine, Ref,
     SubmitterSafe
<1> QED BY <1>1, SubAlways, PTL

\* prep_bo that has waited has waited for every write submitted before it
\* (rocket_gem.c:145-151, rocket_job.c:226).
THEOREM PrepIsEnough == Spec => []PrepSeesWrites
<1>1. SubInv => PrepSeesWrites
  BY DEF SubInv
<1> QED BY <1>1, SubAlways, PTL
=============================================================================
