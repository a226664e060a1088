---------------------------- MODULE RocketSubmit ----------------------------
(***************************************************************************)
(* One open file of the accelerator: its IOMMU domain, its buffer objects  *)
(* (npu/driver/rocket_gem.c), its jobs from the submit ioctl to the last   *)
(* reference (npu/driver/rocket_job.c), and its release                    *)
(* (npu/driver/rocket_drv.c).  Threads of the process run ioctls side by   *)
(* side with each other and with the scheduler's workers.                  *)
(*                                                                         *)
(* A domain is shared by the file, its buffers and its jobs, a buffer by   *)
(* its handle, its jobs and the ioctls that looked it up, a job by its     *)
(* submitter and the scheduler: the counters here are those references.    *)
(*                                                                         *)
(* The first use of memory that is freed, or was never set up, sets        *)
(* `broken` to the place, and the behaviour ends there: what the kernel    *)
(* does afterwards is undefined.  What a job does between Run and Finish   *)
(* is in RocketJob.                                                        *)
(***************************************************************************)
EXTENDS Integers, FiniteSets

CONSTANTS
    Threads,       \* threads of the process that has the file open
    BOs,           \* buffer objects, reused once they are freed
    Jobs,          \* jobs, reused once they are freed
    None,          \* no buffer, no job
    Events         \* what may go wrong

EventKinds == {"handle_fail", "pages_fail", "insert_fail", "map_fail",
               "bad_submit", "push_fail", "wait_timeout", "early_use"}

ASSUME SetsAssumption   == /\ IsFiniteSet(Threads) /\ IsFiniteSet(BOs) /\ IsFiniteSet(Jobs)
                           /\ None \notin BOs \cup Jobs
ASSUME EventsAssumption == Events \subseteq EventKinds

VARIABLES
    file,          \* open; released: its handles are gone; closed
    domRefs,       \* domain->kref; the domain is freed with the last one
    bst,           \* per buffer: how far it is set up
    brefs,         \* per buffer: the GEM object's refcount
    handle,        \* per buffer: the file has a handle to it
    jst,           \* per job: who has it, how far it is
    refs,          \* per job: job->refcount
    ins, outs,     \* per job: in_bos and out_bos
    fenced,        \* per job: its finished fence is attached to its out_bos
    pc,            \* per thread: its next step in an ioctl
    myJob, myBo,   \* per thread: what the ioctl is about
    owed,          \* per thread, history: writes submitted before its prep_bo
    broken         \* where memory was used wrongly, or "no"

boVars     == <<bst, brefs, handle>>
jobVars    == <<jst, refs, ins, outs, fenced>>
threadVars == <<pc, myJob, myBo, owed>>
vars       == <<file, domRefs, boVars, jobVars, threadVars, broken>>

Init ==
    /\ file = "closed" /\ domRefs = 0 /\ broken = "no"
    /\ bst = [b \in BOs |-> "none"] /\ brefs = [b \in BOs |-> 0]
    /\ handle = [b \in BOs |-> FALSE]
    /\ jst = [j \in Jobs |-> "free"] /\ refs = [j \in Jobs |-> 0]
    /\ ins = [j \in Jobs |-> {}] /\ outs = [j \in Jobs |-> {}]
    /\ fenced = [j \in Jobs |-> FALSE]
    /\ pc = [t \in Threads |-> "idle"]
    /\ myJob = [t \in Threads |-> None] /\ myBo = [t \in Threads |-> None]
    /\ owed = [t \in Threads |-> {}]

Ref(b) == IF b THEN 1 ELSE 0

----------------------------------------------------------------------------
(* References.                                                             *)

\* struct rocket_file_priv, with its mm and mm_lock, is there.
PrivLives == file # "closed"

\* rocket_iommu_domain_create, _get, _put; the last put frees the domain.
DomainCreate == domRefs' = 1
DomainGet    == domRefs' = domRefs + 1
DomainPut(n) == domRefs' = domRefs - n
DomainFreed  == domRefs = 0

\* A buffer whose create ioctl has come to its end, and one whose handle is
\* there already while the ioctl goes on.
Usable(b)   == bst[b] \in {"mapped", "adrift"}
HalfMade(b) == bst[b] \in {"handled", "paged"}

\* The handle of a buffer names it.  A thread that does not wait for the create
\* ioctl of another to return finds the half-made buffer under its handle, too.
Found(b) == handle[b] /\ (Usable(b) \/ (HalfMade(b) /\ "early_use" \in Events))

\* rocket_gem_bo_free unmaps, then takes the lock in the file's data, then
\* removes the address range.
FreeFault(b) ==
    IF ~Usable(b) THEN "not_mapped"
    ELSE IF ~PrivLives THEN "late_free"
    ELSE IF bst[b] = "adrift" THEN "no_node" ELSE "no"

\* n[b] references to each buffer are put, and d to the domain; a buffer is
\* freed with its last one, and puts the domain.
Drop_KeepsDomain(n, d) ==
    LET gone   == {b \in BOs : n[b] > 0 /\ brefs[b] = n[b]}
        faults == {FreeFault(b) : b \in gone} \ {"no"}
    IN  /\ brefs' = [b \in BOs |-> brefs[b] - n[b]]
        /\ bst' = [b \in BOs |-> IF b \in gone THEN "none" ELSE bst[b]]
        /\ DomainPut(d)
        /\ broken' \in IF faults = {} THEN {"no"} ELSE faults
Drop(n, d) ==
    LET gone   == {b \in BOs : n[b] > 0 /\ brefs[b] = n[b]}
        faults == {FreeFault(b) : b \in gone} \ {"no"}
    IN  /\ brefs' = [b \in BOs |-> brefs[b] - n[b]]
        /\ bst' = [b \in BOs |-> IF b \in gone THEN "none" ELSE bst[b]]
        /\ DomainPut(Cardinality(gone) + d)
        /\ broken' \in IF faults = {} THEN {"no"} ELSE faults

One(c) == [b \in BOs |-> Ref(b = c)]

\* rocket_job_cleanup
Cleanup(j) ==
    /\ Drop([b \in BOs |-> Ref(b \in ins[j]) + Ref(b \in outs[j])], 1)
    /\ refs' = [refs EXCEPT ![j] = 0] /\ jst' = [jst EXCEPT ![j] = "free"]
    /\ ins' = [ins EXCEPT ![j] = {}] /\ outs' = [outs EXCEPT ![j] = {}]
    /\ fenced' = [fenced EXCEPT ![j] = FALSE]

\* rocket_job_put; the job goes to state s if this was not the last reference.
JobPut(j, s) ==
    \/ refs[j] = 1 /\ Cleanup(j)
    \/ /\ refs[j] > 1 /\ refs' = [refs EXCEPT ![j] = @ - 1]
       /\ jst' = [jst EXCEPT ![j] = s]
       /\ UNCHANGED <<domRefs, bst, brefs, ins, outs, fenced, broken>>

----------------------------------------------------------------------------
(* Opening and closing the file.                                           *)

Quiet == /\ \A t \in Threads : pc[t] = "idle"
         /\ \A j \in Jobs : jst[j] = "free"

\* rocket_open; its failures leave nothing behind.  The next file is opened
\* when nothing of the last one is left.
Open ==
    /\ file = "closed" /\ Quiet /\ \A b \in BOs : bst[b] = "none"
    /\ file' = "open" /\ DomainCreate
    /\ UNCHANGED <<boVars, jobVars, threadVars, broken>>

\* The last close of the file: drm_gem_release drops every handle ...
Release ==
    /\ file = "open" /\ \A t \in Threads : pc[t] = "idle"
    /\ file' = "released" /\ handle' = [b \in BOs |-> FALSE]
    /\ IF \E b \in BOs : bst[b] = "stale"
       THEN broken' = "stale_handle" /\ UNCHANGED <<domRefs, bst, brefs>>
       ELSE Drop([b \in BOs |-> Ref(handle[b])], 0)
    /\ UNCHANGED <<jobVars, threadVars>>

\* ... and rocket_postclose destroys the entity, which waits for its queue to
\* drain, for a while, and kills what is left of it; then the file's data go.
\* A job that runs is not waited for.
PostClose ==
    /\ file = "released"
    /\ jst' = [j \in Jobs |-> IF jst[j] = "queued" THEN "killed" ELSE jst[j]]
    /\ DomainPut(1) /\ file' = "closed"
    /\ UNCHANGED <<boVars, refs, ins, outs, fenced, threadVars, broken>>

----------------------------------------------------------------------------
(* Buffer objects.                                                         *)

Go(t, at, to) == pc[t] = at /\ pc' = [pc EXCEPT ![t] = to] /\ UNCHANGED myBo
Enter(t, to, b) == /\ file = "open" /\ pc[t] = "idle"
                   /\ pc' = [pc EXCEPT ![t] = to] /\ myBo' = [myBo EXCEPT ![t] = b]
Return(t, at) == /\ pc[t] = at /\ pc' = [pc EXCEPT ![t] = "idle"]
                 /\ myBo' = [myBo EXCEPT ![t] = None]

\* rocket_ioctl_create_bo: the object, with a reference to the domain, ...
CreateBegin(t, b) ==
    /\ bst[b] = "none" /\ Enter(t, "handle", b)
    /\ bst' = [bst EXCEPT ![b] = "new"] /\ brefs' = [brefs EXCEPT ![b] = 1]
    /\ DomainGet
    /\ UNCHANGED <<file, handle, jobVars, myJob, owed, broken>>

\* ... its handle, which keeps the only reference and is in everybody's reach
\* from here on, ...  The creator's own reference goes with this step: closed
\* in between, the handle leaves the same half-made buffer to be freed by it.
CreateHandle(t) ==
    /\ \/ /\ Go(t, "handle", "pages")
          /\ handle' = [handle EXCEPT ![myBo[t]] = TRUE]
          /\ bst' = [bst EXCEPT ![myBo[t]] = "handled"]
          /\ UNCHANGED <<domRefs, brefs, broken>>
       \/ /\ "handle_fail" \in Events /\ Return(t, "handle")
          /\ Drop(One(myBo[t]), 0) /\ UNCHANGED handle
    /\ UNCHANGED <<file, jobVars, myJob, owed>>

\* The unwinding frees the object, whoever else has it, and leaves its handle
\* and its domain reference as they are.
Unwind(b) == IF handle[b] /\ brefs[b] = 1
             THEN bst' = [bst EXCEPT ![b] = "stale"] /\ UNCHANGED broken
             ELSE broken' = "freed_in_use" /\ UNCHANGED bst

\* ... its pages, ...
CreatePages(t) ==
    /\ \/ /\ Go(t, "pages", "insert")
          /\ bst' = [bst EXCEPT ![myBo[t]] = "paged"] /\ UNCHANGED broken
       \/ "pages_fail" \in Events /\ Return(t, "pages") /\ Unwind(myBo[t])
    /\ UNCHANGED <<file, domRefs, brefs, handle, jobVars, myJob, owed>>

\* ... an address, whether there is one or not, ...
CreateInsert(t) ==
    /\ \/ Go(t, "insert", "map")
       \/ "insert_fail" \in Events /\ Go(t, "insert", "map_nowhere")
    /\ UNCHANGED <<file, domRefs, boVars, jobVars, myJob, owed, broken>>

\* ... and the mapping.
CreateMap(t) ==
    /\ \/ /\ Return(t, "map")
          /\ bst' = [bst EXCEPT ![myBo[t]] = "mapped"] /\ UNCHANGED broken
       \/ /\ Return(t, "map_nowhere")
          /\ bst' = [bst EXCEPT ![myBo[t]] = "adrift"] /\ UNCHANGED broken
       \/ "map_fail" \in Events /\ Return(t, "map") /\ Unwind(myBo[t])
       \/ /\ "map_fail" \in Events /\ Go(t, "map_nowhere", "map_nowhere")
          /\ broken' = "no_node" /\ UNCHANGED bst
    /\ UNCHANGED <<file, domRefs, brefs, handle, jobVars, myJob, owed>>

\* The process closes a handle.
CloseHandle(t, b) ==
    /\ file = "open" /\ pc[t] = "idle" /\ Found(b)
    /\ handle' = [handle EXCEPT ![b] = FALSE] /\ Drop(One(b), 0)
    /\ UNCHANGED <<file, jobVars, threadVars>>

\* A handle whose object is gone is closed or looked up.
UseStale(t) ==
    /\ file = "open" /\ pc[t] \in {"idle", "in", "out"}
    /\ \E b \in BOs : bst[b] = "stale"
    /\ broken' = "stale_handle"
    /\ UNCHANGED <<file, domRefs, boVars, jobVars, threadVars>>

\* drm_gem_object_lookup
LookUp(n) ==
    /\ \A b \in BOs : n[b] > 0 => Found(b)
    /\ brefs' = [b \in BOs |-> brefs[b] + n[b]]

\* A thread has submitted the job and returned.
Returned(j) == jst[j] # "free" /\ \A t \in Threads : myJob[t] # j

Writing(b) == {j \in Jobs : b \in outs[j]
                            /\ jst[j] \in {"queued", "running", "killed"}}

\* rocket_ioctl_prep_bo: find the buffer, wait for its write fences, sync it
\* for the CPU whatever the wait said, put it.
PrepBegin(t, b) ==
    /\ Enter(t, "wait", b) /\ LookUp(One(b))
    /\ owed' = [owed EXCEPT ![t] = {j \in Writing(b) : Returned(j)}]
    /\ UNCHANGED <<file, domRefs, bst, handle, jobVars, myJob, broken>>

PrepWait(t) ==
    /\ \/ {j \in Writing(myBo[t]) : fenced[j]} = {} /\ Go(t, "wait", "ready")
       \/ "wait_timeout" \in Events /\ Go(t, "wait", "late")
    /\ UNCHANGED <<file, domRefs, boVars, jobVars, myJob, owed, broken>>

\* rocket_ioctl_fini_bo: find the buffer, sync it for the device, put it.
FiniBegin(t, b) ==
    /\ Enter(t, "fini", b) /\ LookUp(One(b))
    /\ UNCHANGED <<file, domRefs, bst, handle, jobVars, myJob, owed, broken>>

\* The sync needs the pages.
NoPages(t) == /\ pc[t] \in {"ready", "late", "fini"} /\ bst[myBo[t]] = "handled"
              /\ broken' = "no_pages"
              /\ UNCHANGED <<file, domRefs, boVars, jobVars, threadVars>>

PutLookup_KeepsLate(t) ==
    /\ \E at \in {"ready", "late", "fini"} : Return(t, at)
    /\ bst[myBo[t]] # "handled"
    /\ Drop([b \in BOs |-> Ref(b = myBo[t] /\ pc[t] # "late")], 0)
    /\ owed' = [owed EXCEPT ![t] = {}]
    /\ UNCHANGED <<file, handle, jobVars, myJob>>
PutLookup(t) ==
    /\ \E at \in {"ready", "late", "fini"} : Return(t, at)
    /\ bst[myBo[t]] # "handled"
    /\ Drop(One(myBo[t]), 0) /\ owed' = [owed EXCEPT ![t] = {}]
    /\ UNCHANGED <<file, handle, jobVars, myJob>>

----------------------------------------------------------------------------
(* Jobs, as rocket_ioctl_submit_job makes them and the scheduler sees them. *)

\* The job and its tasks.
SubmitBegin(t, j) ==
    /\ jst[j] = "free" /\ Enter(t, "in", None)
    /\ jst' = [jst EXCEPT ![j] = "init"] /\ refs' = [refs EXCEPT ![j] = 1]
    /\ myJob' = [myJob EXCEPT ![t] = j]
    /\ UNCHANGED <<file, domRefs, boVars, ins, outs, fenced, owed, broken>>

\* drm_gem_objects_lookup, for the buffers read and for those written; then
\* the domain.
LookUpIns(t, S) ==
    /\ Go(t, "in", "out") /\ LookUp([b \in BOs |-> Ref(b \in S)])
    /\ ins' = [ins EXCEPT ![myJob[t]] = S]
    /\ UNCHANGED <<file, domRefs, bst, handle, jst, refs, outs, fenced, myJob,
                   owed, broken>>

LookUpOuts_NoDomain(t, S) ==
    /\ Go(t, "out", "push") /\ LookUp([b \in BOs |-> Ref(b \in S)])
    /\ outs' = [outs EXCEPT ![myJob[t]] = S] /\ UNCHANGED domRefs
    /\ UNCHANGED <<file, bst, handle, jst, refs, ins, fenced, myJob, owed, broken>>
LookUpOuts(t, S) ==
    /\ Go(t, "out", "push") /\ LookUp([b \in BOs |-> Ref(b \in S)])
    /\ outs' = [outs EXCEPT ![myJob[t]] = S] /\ DomainGet
    /\ UNCHANGED <<file, bst, handle, jst, refs, ins, fenced, myJob, owed, broken>>

\* Failing before that, the cleanup puts a domain the job does not have.
SubmitFails(t) ==
    /\ "bad_submit" \in Events /\ pc[t] \in {"in", "out"}
    /\ broken' = "no_domain"
    /\ UNCHANGED <<file, domRefs, boVars, jobVars, threadVars>>

\* rocket_job_push: the reservation locks of all its buffers, held until the
\* fences are attached; a buffer read and written cannot be locked twice.
BosOf(j) == ins[j] \cup outs[j]
Locked(b) == \E u \in Threads : pc[u] = "attach" /\ b \in BosOf(myJob[u])

Push_NoRef(t) ==
    LET j == myJob[t]
    IN  /\ Go(t, "push", "attach") /\ ins[j] \cap outs[j] = {}
        /\ \A b \in BosOf(j) : ~Locked(b)
        /\ UNCHANGED refs /\ jst' = [jst EXCEPT ![j] = "queued"]
        /\ UNCHANGED <<file, domRefs, boVars, ins, outs, fenced, myJob, owed, broken>>
Push(t) ==
    LET j == myJob[t]
    IN  /\ Go(t, "push", "attach") /\ ins[j] \cap outs[j] = {}
        /\ \A b \in BosOf(j) : ~Locked(b)
        /\ refs' = [refs EXCEPT ![j] = @ + 1] /\ jst' = [jst EXCEPT ![j] = "queued"]
        /\ UNCHANGED <<file, domRefs, boVars, ins, outs, fenced, myJob, owed, broken>>

\* A signal, no memory for the fences, or a buffer on both lists.
PushFails(t) ==
    /\ Go(t, "push", "put")
    /\ "push_fail" \in Events \/ ins[myJob[t]] \cap outs[myJob[t]] # {}
    /\ UNCHANGED <<file, domRefs, boVars, jobVars, myJob, owed, broken>>

\* rocket_attach_object_fences, which reads the job after others have it.
Attach_IfQueued(t) ==
    /\ Go(t, "attach", "put")
    /\ fenced' = [fenced EXCEPT ![myJob[t]] = (jst[myJob[t]] = "queued")]
    /\ UNCHANGED <<file, domRefs, boVars, jst, refs, ins, outs, myJob, owed, broken>>
Attach(t) ==
    /\ Go(t, "attach", "put")
    /\ fenced' = [fenced EXCEPT ![myJob[t]] = TRUE]
    /\ UNCHANGED <<file, domRefs, boVars, jst, refs, ins, outs, myJob, owed, broken>>

SubmitEnd(t) ==
    /\ Return(t, "put") /\ JobPut(myJob[t], jst[myJob[t]])
    /\ myJob' = [myJob EXCEPT ![t] = None]
    /\ UNCHANGED <<file, handle, owed>>

\* The scheduler runs one job of the file's entity at a time, ...
Run(j) ==
    /\ jst[j] = "queued" /\ \A k \in Jobs : jst[k] # "running"
    /\ jst' = [jst EXCEPT ![j] = "running"]
    /\ UNCHANGED <<file, domRefs, boVars, refs, ins, outs, fenced, threadVars, broken>>

\* ... signals the finished fence of one that ends or was killed, ...
Finish(j) ==
    /\ jst[j] \in {"running", "killed"}
    /\ jst' = [jst EXCEPT ![j] = "signalled"]
    /\ owed' = [t \in Threads |-> owed[t] \ {j}]
    /\ UNCHANGED <<file, domRefs, boVars, refs, ins, outs, fenced, pc, myJob, myBo, broken>>

\* ... and frees it: rocket_job_free.
JobFree(j) ==
    /\ jst[j] = "signalled" /\ JobPut(j, "dropped")
    /\ UNCHANGED <<file, handle, threadVars>>

----------------------------------------------------------------------------
\* The behaviour ends where memory was used wrongly.
Oops == broken # "no" /\ UNCHANGED vars

FileStep   == Open \/ Release \/ PostClose
CreateStep(t) == \/ \E b \in BOs : CreateBegin(t, b)
                 \/ CreateHandle(t) \/ CreatePages(t) \/ CreateInsert(t) \/ CreateMap(t)
BoStep(t)  == \/ \E b \in BOs : CloseHandle(t, b) \/ PrepBegin(t, b) \/ FiniBegin(t, b)
              \/ PrepWait(t) \/ NoPages(t) \/ PutLookup(t) \/ UseStale(t)
SubmitStep(t) ==
    \/ \E j \in Jobs : SubmitBegin(t, j)
    \/ \E S \in SUBSET BOs : LookUpIns(t, S) \/ LookUpOuts(t, S)
    \/ SubmitFails(t) \/ Push(t) \/ PushFails(t) \/ Attach(t) \/ SubmitEnd(t)
SchedStep  == \E j \in Jobs : Run(j) \/ Finish(j) \/ JobFree(j)

Next ==
    \/ Oops
    \/ /\ broken = "no"
       /\ \/ FileStep \/ SchedStep
          \/ \E t \in Threads : CreateStep(t) \/ BoStep(t) \/ SubmitStep(t)

Spec == Init /\ [][Next]_vars

----------------------------------------------------------------------------
(* Properties.                                                             *)

TypeOK ==
    /\ file \in {"open", "released", "closed"} /\ domRefs \in Nat
    /\ bst \in [BOs -> {"none", "new", "handled", "paged", "mapped", "adrift", "stale"}]
    /\ brefs \in [BOs -> Nat] /\ handle \in [BOs -> BOOLEAN]
    /\ jst \in [Jobs -> {"free", "init", "queued", "running", "killed", "signalled",
                         "dropped"}]
    /\ refs \in [Jobs -> Nat] /\ fenced \in [Jobs -> BOOLEAN]
    /\ ins \in [Jobs -> SUBSET BOs] /\ outs \in [Jobs -> SUBSET BOs]
    /\ pc \in [Threads -> {"idle", "handle", "pages", "insert", "map", "map_nowhere",
                           "wait", "ready", "late", "fini",
                           "in", "out", "push", "attach", "put"}]
    /\ myJob \in [Threads -> Jobs \cup {None}] /\ myBo \in [Threads -> BOs \cup {None}]
    /\ owed \in [Threads -> SUBSET Jobs]
    /\ broken \in {"no", "not_mapped", "late_free", "no_node", "stale_handle",
                   "freed_in_use", "no_pages", "no_domain"}

\* What a job works with stays until its last reference is gone, whatever
\* handles are closed meanwhile and even if the file is (rocket_job.c:221,
\* rocket_drv.c:137-147): the job, its buffers' mappings, and a domain.  Only a
\* job submitted with a handle whose create has not returned may lack a mapping,
\* and only until then (rocket_gem.c:82, 99), unless that create fails.
Creating(b) == \E t \in Threads :
                   myBo[t] = b /\ pc[t] \in {"pages", "insert", "map", "map_nowhere"}
JobServed ==
    \A j \in Jobs : jst[j] # "free" =>
        /\ refs[j] > 0 /\ ~DomainFreed
        /\ \A b \in BosOf(j) : Usable(b) \/ broken = "freed_in_use"
                                 \/ ("early_use" \in Events /\ Creating(b))

\* A submitter still works on its job after the scheduler has it, and may be
\* the last to (rocket_job.c:221, 226, 600): the job is not freed under it,
\* nor another thread's by then.
Submitting == {"in", "out", "push", "attach", "put"}
SubmitterSafe ==
    \A t \in Threads : pc[t] \in Submitting =>
        /\ jst[myJob[t]] # "free" /\ refs[myJob[t]] > 0
        /\ \A u \in Threads : myJob[u] = myJob[t] => u = t

\* When prep_bo has waited, every job that writes the buffer and whose submit
\* had returned before is over (rocket_gem.c:145-151, rocket_job.c:226): the
\* CPU reads what the NPU wrote.
PrepSeesWrites == \A t \in Threads : pc[t] = "ready" => owed[t] = {}

\* Once the file is closed, its jobs are over and nobody is in an ioctl, no
\* buffer is left and the domain is freed, with every handle closed or not,
\* every submit pushed or failed (rocket_drv.c:137-147, rocket_job.c:235-262).
AllReleased ==
    file = "closed" /\ Quiet /\ broken = "no" =>
        DomainFreed /\ \A b \in BOs : bst[b] = "none" /\ brefs[b] = 0

\* Until memory is used wrongly, a buffer, the domain and a job are there as long
\* as somebody has them, and no longer: what a failing ioctl, a closed handle, a
\* closed file or the other holder of a job gives back is not lost, and what a
\* thread in an ioctl works on is there, though a creator has no reference of its
\* own once its buffer has a handle.  A create that failed leaves a `stale`
\* buffer, which its handle has
\* (rocket_job.c:221, 235-262, rocket_gem.c:14-40, 82-83, 136-180, rocket_drv.c:137-147).
Held(b) == \/ handle[b] \/ \E j \in Jobs : b \in BosOf(j)
           \/ \E t \in Threads :
                myBo[t] = b /\ pc[t] \in {"handle", "wait", "ready", "late", "fini"}
HasDomain(j) == /\ jst[j] # "free"
                /\ ~\E t \in Threads : myJob[t] = j /\ pc[t] \in {"in", "out"}
LivesAsHeld ==
    broken = "no" =>
        /\ \A b \in BOs : bst[b] # "none" <=> Held(b)
        /\ \A t \in Threads : myBo[t] # None => bst[myBo[t]] \notin {"none", "stale"}
        /\ ~DomainFreed <=> \/ file # "closed" \/ \E b \in BOs : bst[b] # "none"
                            \/ \E j \in Jobs : HasDomain(j)
        /\ \A j \in Jobs : jst[j] # "free" <=>
               \/ \E t \in Threads : myJob[t] = j
               \/ jst[j] \in {"queued", "running", "killed", "signalled"}

\* A buffer that is freed has been mapped, all of it
\* (rocket_gem.c:23: drm_WARN_ON(obj->dev, unmapped != bo->size)).
UnmapsWhatItMapped == broken # "not_mapped"
=============================================================================
