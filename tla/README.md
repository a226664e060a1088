# Verification of the RK3588 NPU driver with devfreq

This directory holds TLA+ models of the `rocket` NPU driver of this repository
(`npu/driver/`), its voltage module (`npu/volt/`) and its boot script (`npu/boot/`), the TLC
configurations that check them, and TLAPS proofs of what matters most. File and line references are to the repository's sources.

## The system

The repository takes the NPU of the RK3588 from 200 MHz to 1 GHz. The driver is the
mainline `rocket` driver plus `rocket_devfreq.c`. Its one hard rule: **no NPU power
domain may be switched on or off while the shared NPU clock is above its boot rate**;
the domain's handshake then never answers and the machine hangs
(`rocket_devfreq.c:3-20`, `README.md` of the repository, item 1).

| part | state it keeps | operations | talks to |
|---|---|---|---|
| clock guard, `rocket_devfreq.c` | `rocket_df` (owner core, requested rate, boost references, `unsafe`, regulator), one notifier block per slot | `target`, `suspend`, `notify`, `arm`/`disarm`, `init`, `core_added`, `core_removed`, `fini`, `shutdown` | devfreq core, genpd (notifier chain), runtime PM of every core, clock, regulator |
| busy-time meter, `rocket_devfreq.c:105-223` | start and sum of busy time per slot, time of the last reading | `record_busy`, `record_idle`, `get_dev_status` | called by the job code under `job_lock`; polled by the governor |
| jobs of a core, `rocket_job.c` | `in_flight_job`, `reset.pending`, `next_task_idx` of a job, the scheduler's credit and pending list | `run_job`, hard interrupt handler and its thread, `timedout_job`, `rocket_reset` | DRM scheduler, registers, runtime PM, IOMMU, the meter |
| submit ioctl, `rocket_job.c` | a job's reference count, its tasks, buffers, domain | `submit`, `copy_tasks`, `push`, `cleanup` | buffers, IOMMU domain, DRM scheduler |
| probe and remove, `rocket_drv.c`, `rocket_core.c`, `rocket_device.c` | slots of `rocket_device.cores`, `num_cores`, the DRM device, what each core owns | module load and unload, `probe`, `remove`, runtime suspend and resume, `shutdown` | all of the above |
| open and close, `rocket_drv.c` | a file's address space, its reference on the IOMMU domain, its list of schedulers | `open`, `postclose` | slots, schedulers |
| buffers, `rocket_gem.c` | place in the address space, pages, domain reference | `create`, `free`, `prep`, `fini` | IOMMU domain, the file's `drm_mm` |
| voltage module, `npu_volt_probe.c` | the rail's former voltage | load, unload | regulator |
| boot script, `npu-fast-boot.sh` | its next command | swap of the driver, load of the voltage module, governor | module loader, sysfs |
| sweep and benchmark tools | none | | sysfs, an open file |
| device tree and GPU patches | declarative, or diffs of other drivers | | |

What is hard here:

* *Interleaving.* Rate requests run under `rocket_df.lock`; the suspend hook and the
  notifiers must not take it, because a request waits for cores to resume while it
  holds it. So four kinds of thread move one clock with no common lock.
* *Failure.* A clock write, a resume, the adding of a notifier and an IOMMU attach can
  fail, each half-way through something.
* *System sleep* suspends cores whatever their usage counts, and may be aborted.
* *Binding.* Cores come and go in any order, core 0 carries the devfreq device.
* *Timeouts.* A reset races the interrupt of the job it resets.
* *Time.* Clock readings taken before a lock are used after it, in unsigned
  arithmetic.
* *Shared objects.* A job belongs to its submitter and the scheduler at once; a
  domain to the file, its buffers and its jobs; and any of them may be the last.

What makes each part correct: for the guard, the hardware rule, balanced references,
an honest report and a request that returns; for the meter, the load of the busiest
core and no phantom load; for jobs, that a job ends exactly once, without an error only
if the hardware ran all of it, and that nobody's reference or credit is lost; for the
submit ioctl and the buffers, that nothing is freed under a user and everything is freed
in the end; for probe and remove, that a failure leaves nothing behind; for the boot
script, that clock and rail keep their rule and some driver is left.
`PROJECT.json` lists the hazards line by line.

## Modules

| module | models |
|---|---|
| `ClockGate` | the promise to the hardware, with a clock and domains only |
| `RocketDevfreq`, `MCRocketDevfreq`, `RocketDevfreqProofs`, `RocketDevfreqBooksProofs` | the clock guard with runtime PM, genpd, jobs, probe, remove, system sleep, shutdown; implements `ClockGate` |
| `BusyTime`, `MCBusyTime`, `BusyTimeProofs` | the meter |
| `JobPromise` | what a core promises to the jobs given to it |
| `RocketJob`, `MCRocketJob`, `RocketJobProofs` | one core's worker, interrupt and reset; implements `JobPromise` |
| `RocketSubmit`, `MCRocketSubmit`, `RocketSubmitProofs`, `RocketSubmitRefsProofs` | one open file: its buffers, its jobs from submit to the last put, its domain, its close |
| `RocketDrv` | the module, probe and remove of every core, the DRM device, open files |
| `VoltProbe` | the voltage module |
| `NpuBoot`, `MCNpuBoot`, `NpuBootProofs` | the boot script, composing `RocketDrv` and `VoltProbe` |

`MC` modules hold values for TLC. A definition `X_Something` just before `X` is a mutant
of `X`: a mistake that the property named with it in `PROJECT.json` catches. The parts meet
at narrow places, so they are not one model: `RocketDevfreq` sees of a job only that its core
is kept awake; `RocketJob` sees of a submit only that a job arrives; `RocketSubmit` sees of
`RocketJob` only that a job runs and ends (`JobPromise`); `RocketDrv` sees of
`RocketDevfreq` only whether it is there; `NpuBoot` sees of it only the voltage check of `target`.

### RocketDevfreq

The variables are those of `rocket_df`, plus what surrounds it: `rate` is what the
shared clock runs at, `rpm` and `usage` are the runtime PM status and count of each core,
`dom` its power domain, `life` how far probe or remove has come, `job` whether the core
has a job, `sys` the phase of system sleep. `target` is split where it can be overtaken:
call, checks, one step per reference and one per awaited core (`hold_all`), publishing
the rate, writing the clock, and the booking of references. A domain switch is two steps, notifier and
handshake, because the clock must be safe during both. `SuspendHook`, `ShutdownHook` and
`Notify` take no lock, as in the code.

`Events` names what may go wrong, and each run picks from it: `sleep`, `clk_fail`,
`resume_fail`, `notifier_fail`, `init_fail`, `shutdown` (the shutdown callbacks of all bound
cores, at any moment), and `call_in_remove` and `call_in_owner_remove` (a rate request while any
core, or core 0, is leaving). `Foreign` holds rates another module may set, whatever `target` is doing, while
all domains are on. `Rounded` holds rates the clock may settle on instead of a raised one it was asked
for (lines 384-391): `*freq` then follows the clock, `req_rate` does not. The rail moves at any moment
(`RailMove`), since the voltage module does not look at the clock; `lowered` is history and says that it
has gone below `ROCKET_VOLT_FOR_HIGH` after `target` last read it for a rate that needs it. One
restriction holds in every run: one core at a time is probed or removed.

The kernel's part is external: genpd switches a domain on when a member wants it and off
when all are suspended, parent last; the PM core resumes a core whose domain is on.

### BusyTime

`record_idle` and `get_dev_status` read the clock before they take the lock, so each is a
reading and a booking. `Mod` is 2^64 of the code.
`spent`, `truth` and `prompt` are history:
what the next poll should say, and whether every reading so far was fresh. `late` lets
time pass between reading and booking, `reload` unbinds and binds core 0.

### RocketJob

One core: cores share nothing in this file except the meter. The worker's steps are the calls of
`rocket_job_run` that may sleep or fail; the interrupt thread acknowledges without
`job_lock` and handles under it; the end of a job is two steps, `dma_fence_signal`, which gives the credit
back before it returns (line 347), and what follows it (348-349), since the scheduler and `rocket_job_is_idle`
do not take that lock; the put and the clearing of `in_flight_job` are one, because nobody reads
`in_flight_job` without it. The reset is stop, locked section, and hardware reset with
restart. Of the registers there are a running job, a raised cause and the mask; the line is
up when a raised cause is let through (`IrqOut`). The DRM scheduler is external: credit limit 1,
a list of jobs not freed, a timeout worker that takes the oldest of them, stop and start.
`Events` names the failures; without `slow_thread` a reset ends only after interrupts raised
before have been handled, which is what its comment says; `shared_irq` lets the IOMMU raise the
line, and the hard handler then reads a cause it may act on later.

`JobPromise` has only the jobs: one at a time is begun, its tasks are run one by one, it ends
once, and without an error only after the last. `jst`, `result` and `ran` map to themselves.

### RocketSubmit

One file, as many threads as wanted. `domRefs`, `brefs` and `refs` are the reference counts of
the domain, the buffers and the jobs; `bst` and `jst` say how far each is set up or who has it. An
ioctl is split where it drops a lock or may fail: `create_bo` into object, handle, pages, address,
mapping; `prep_bo` into lookup, wait, put; a submit into job, input buffers, output buffers with
the domain, push, fences, put. The scheduler's worker runs, finishes and frees a job between any two
of them. `Release` and `PostClose` are the two halves of closing the file.

A buffer is in reach of every thread from the moment its handle is made, before it has pages, an address
and a mapping, and its creator has no reference of its own any more (`rocket_gem.c:82-83`, `HalfMade`). With
the event `early_use` threads use such a handle: submit the buffer, prepare it, or close it. Line 83 is one step with line
82: closed between the two, the handle leaves the same half-made buffer, freed by the put of line 83.

The code frees or uses memory it must not in a few places; what a kernel does after that
cannot be said, so the behaviour ends there: `broken` names the place (`not_mapped`, `stale_handle`,
`no_node`, `late_free`, `no_domain`, `no_pages`, `freed_in_use`), and the properties speak of behaviours that have
not come to one.

### RocketDrv, VoltProbe and NpuBoot

`RocketDrv`: `bpc` is the next step of the one thread that binds or unbinds a device, as
`rocket_drv.c:203` relies on; every probe may fail at every step and be tried again. `held` is what
the driver has set up for a slot (IOMMU group, reset queue, scheduler, runtime PM, devfreq and cooling device),
`irq` the interrupts that devres frees only after the failed probe or the remove. A file is opened in two
steps, since its list of schedulers is first sized and then filled. `open_in_probe` and `unbind_open` let a file be
opened while a core is being bound, and a core be unbound by hand under an open file.

`VoltProbe`: load is write and read-back, the rail can only be set to what the regulator makes
exactly, and putting the old value back may fail (`stuck`).

`NpuBoot`: `sh` is the script's next command; any command may fail as the script allows, `modprobe`
included, after which the script ends as `lost`. Stock may be there when the script starts, or be loaded later, as the script's
wait for udev ends after 30 seconds. Beside the script cores are probed and removed, files opened and closed, the
governor asks for rates, and somebody may load and unload the voltage module by hand at any moment;
`lowered` is history and says that a hand has taken the rail below `VoltForHigh` since a rate was last asked for.

## Runs

| run | shows |
|---|---|
| `devfreq_core` | requests, jobs, suspends and switches on three cores, a clock that rounds, a rail that moves at any moment: types, the hardware rule, references balanced, the report true up to rounding, references kept only with a boost, a fast clock only on a rail that carried it when it was read |
| `devfreq_faults` | with sleep, failing clock writes, failing resumes and shutdown the guard implements `ClockGate`, and no reference somebody relies on is missing |
| `devfreq_rebind` | any core is rebound, one at a time, while resumes, notifiers and the registration may fail and rates are requested, also while core 0 leaves: the rule, and no boost after a notifier failed |
| `devfreq_foreign` | another module moves the clock, which rounds besides: the rule holds, `target` does not trust its books and answers with the rate of the clock, and a request returns |
| `busy_load` | with delays and rebinding: types, load within range, nobody busy for ever; the load exact until the first delay or rebind |
| `job_reset` | with timeouts and a prompt interrupt thread: the core implements `JobPromise`, completed jobs ran, references balanced, the hardware has its job's address space, tasks start on quiet hardware |
| `job_faults` | with every failure and a shared interrupt: the job in flight is served, outside a reset the core counts as idle only once its jobs are over, a job ends once, and every queued job ends |
| `submit` | two threads with every failure, and with handles used before their create has returned: a job's buffers and domain stay while it works, a submitter keeps its job, `prep_bo` waits for the writes before it, buffers, domain and jobs are there exactly while somebody has them, and after the close everything is released |
| `boot` | the script run once or again, probes failing at every step, an open file, failing loads, a hand on the voltage module: types, the script keeps the voltage rule, a driver left, the rail restored, the slots right, nothing left of a core that is gone, open files served |

Runs expected to fail show where the code does not do what its comments say
(`findings` in `PROJECT.json` has the quotations):

| run | what happens |
|---|---|
| `devfreq_remove_race` | a request between the two halves of `core_removed` boosts, and the core's domain is switched at speed |
| `job_stale_irq` | an interrupt thread woken before a reset ends the next job |
| `gem_unwind` | a buffer whose handle cannot be made is unmapped though it was never mapped |

Further places where the code departs from its comments, or frees what it does not have, were
seen while modelling. They have no run of their own; each bounds a property named here.

| where | what | effect on the properties |
|---|---|---|
| `rocket_devfreq.c:593` | after system sleep `PRE_OFF` has cancelled the request and `refs_held` stays set; later safe requests take the early exit (318-321) | `BoostRefsOnlyWhileBoosted` is checked without sleep |
| `rocket_devfreq.c:483` | a sleep aborted by a busy core leaves the clock low and the report high, against lines 590-591 | `ReportIsTrue` is checked without sleep |
| `rocket_devfreq.c:318` | the early exit grants a rate above `ROCKET_HIGH_RATE` without reading the rail, against lines 342-343; and the voltage module may lower the rail after the reading of line 345, or under a running boost | `HighNeedsVolts` excuses a rail lowered after `target` last read it, and nothing else |
| `rocket_devfreq.c:384-391, 427` | where the clock settles on another rate, `*freq` follows it ("report the truth, not the wish"), and `req_rate` and with it `get_cur_freq` do not | `ReportIsTrue` names the case, `HonestAnswer` covers it |
| `rocket_devfreq.c:154` | a booking later than the next poll starts that poll's window busy, and an idle window is reported fully busy, against line 112 | `ExactLoad` ends at the first late booking |
| `rocket_devfreq.c:641` | a probe beside a remove arms the slot of a core that has just disarmed itself | one core at a time is bound |
| `rocket_devfreq.c:831` | `busy_ns` is not cleared when core 0 is bound again | `ExactLoad` ends at a rebind |
| `rocket_job.c:314-320` | a job whose core does not resume or attach keeps its PM reference through the reset | `UsageBalanced` is checked and proved without those failures |
| `rocket_job.c:433` | on a shared line the hard handler may act on a cause the thread has cleared, so the thread runs once too often | `CompletedRan` and `JobPromise` are checked and proved without `shared_irq` |
| `rocket_job.c:540` | between `drm_sched_stop` and the locked section of a reset the core counts as idle with a job in flight that is not over | `IdleMeansNoJob` excludes a reset |
| `rocket_job.c:347-349` | the fence is signalled, and the credit returned, with `in_flight_job` still set: the core counts as idle, and the next job may resume and attach it, before the old one has given its reference back | `IdleMeansNoJob` speaks of jobs that are over, and `InFlightServed` of an address space only until then |
| `rocket_job.c:237` | a submit that fails before line 591 puts a domain it never took | the behaviour ends at `no_domain` |
| `rocket_gem.c:18-27` | a buffer freed by a job that outlives the file uses the freed file | the behaviour ends at `late_free` |
| `rocket_gem.c:94-99` | the result of the insertion into `drm_mm` is overwritten; such a buffer is removed from where it is not | the behaviour ends at `no_node` |
| `rocket_gem.c:122-123` | a failing create frees the object, whoever else has it, and leaves its handle | the behaviour ends at `freed_in_use`, or at `stale_handle` |
| `rocket_gem.c:82-113` | the handle is published before the buffer is set up, and without a reference of the creator's: another thread may submit it unmapped, sync it without pages, or close it and free it under its creator | `JobServed` allows the missing mapping while the create goes on; the behaviour ends at `no_pages` or `not_mapped` |
| `rocket_job.c:510` | a file opened during a probe fills its list with more cores than it has room for; a core unbound by hand leaves its scheduler on the list | `FilesServed` is checked without `open_in_probe` and `unbind_open` |
| `npu-fast-boot.sh:29` | a `modprobe` that fails leaves no driver at all, against line 25 | `DriverLeft` excludes it (`lost`) |
| `npu_volt_probe.c:178-187` | unloaded by hand, the module takes the voltage from under a fast clock | `HighNeedsVolts` of `NpuBoot` excuses a hand, not the script |
| `rocket_drv.c:350` | when the driver cannot be registered, the `rknn` device it made stays, and no rocket driver loads again | `DriverLeft` names the exception |
| `rocket_drv.c:258` | the last remove frees the array of cores before devres frees the interrupts that look into it | none covers it |
| `npu_volt_probe.c:64` | the cap is 950 mV, the comment in lines 15-19 says 850 | `Cap` is the code's |

### Bounds

Three cores is the hardware; `devfreq_rebind` uses two, since every step there concerns
the owner and one other core, and `MaxUsage = 1` there, which allows one leaked reference per core
beside those in use. Rates are one of each class the code tells apart: safe,
raised, raised above `ROCKET_HIGH_RATE`, and one the clock settles on that is in no table; voltages too: too low, enough, above the cap, and one the
regulator cannot make. `MaxUsage` bounds references leaked by failing
resumes and by removals. The clock of `BusyTime` runs to 5 and `Mod` is 64, so a
wrapped difference is far from any real time. Three jobs of two tasks in `job_reset` cover a job before,
a job in and a job after a reset, with a task boundary in each; `job_faults`, which has every event and
liveness, has two of them. Two threads, buffers and jobs in `submit` give every pair of ioctls, a job that reads one
buffer and writes the other, and a job queued behind one that runs; threads, buffers and jobs are
interchangeable, so symmetry is used. `boot` has one open file, since files do not meet each other.

`CHECK_DEADLOCK FALSE` in the job runs: when all jobs are done the core rests. In `submit` a broken
behaviour stutters on purpose (`Oops`); any other deadlock would be reported.

### Fairness

`RocketDevfreq`: weak fairness for the steps of a request, for a suspend under way, for a
domain handshake and for the steps of a job, since each belongs to a thread that has
started and waits for nothing else. Strong fairness for resuming and for powering on a
domain: genpd powers a domain off at most once per suspend of a member, and a waiting
reference stops further suspends, so a domain cannot flicker for ever under a waiting core.
`RocketJob`: weak fairness for work items, the hard handler, the thread and the timer, none for the
hardware, which may hang, and none for the IOMMU.
`RocketSubmit`, `BusyTime` and `NpuBoot` have safety properties only.

## Proofs

`RocketDevfreqProofs` proves, for any number of cores up to the four of `ROCKET_DF_MAX_NB`,
any rate table and any set of events named:

* `TypeCorrect`: types, in every environment;
* `ClockSafe`: `NoSwitchAtSpeed`, under `KeptEnv`;
* `AllOnWhileRaised`: `AllOnAtSpeed` of `ClockGate`, read through the refinement mapping: no domain is
  off while the clock is raised, under `KeptEnv`;
* `ImplementsGate`: the refinement of `ClockGate`, under `KeptEnv`.

`KeptEnv` is every environment the passing runs use, and more. Either the cores stay bound: then others may
move the clock and everything may fail, shutdown included. Or they are rebound one at a time, `CalmEnv`: then
nobody else moves the clock, writes of the clock succeed, and rates may be requested at any time except inside the
remove of a core other than core 0. Outside of it the rule is false: `devfreq_remove_race` has the request
inside the remove; where a write of the clock fails or another module raises it again, the safe requests of a remove leave it
high, and the core leaves at speed.

The rule is not inductive, and it holds for two different reasons.

* Where nobody else moves the clock, `SpeedInv` follows the code's own argument. A request past
  its checks runs on a machine with every core there (`CallInv`); a raised clock is the requested
  one and the boost references are held or about to be booked (`BoostInv`); no reference that
  somebody relies on is missing (`RefsSuffice`); so every core is active and its domain on while
  the clock is raised (`ActiveInv`), and nothing can begin to switch. `ArmedInv` makes it survive rebinding:
  an armed slot is a bound core's, so "all guarded" means all bound. "Every core there" (`AllThere`) includes a core 0
  that has disarmed itself and not yet dropped its references: a request answered in that window may still
  boost, and `fini` then lowers the clock before the references go.
* Where others move it, no reference is behind a raised clock. There the notifiers are the guard: `HeldInv` says
  what a request on its way has (the system is awake, its references are there, the cores it has waited for are
  active), and `GuardInv` that all slots are armed and no notifier failed, so a switch finds the clock low
  or lowers it.

Either one gives `GateInv`, the rule together with what a raised clock means for the domains, and the step
of the refinement is proved from `GateInv` once.

`RocketDevfreqBooksProofs` proves the other properties of the guard, each where the code keeps it:

| theorem | where it holds |
|---|---|
| `BalancedBooks`: no reference leaks or is given back twice | cores stay bound and resume |
| `AnswersHonestly`: success only with `*freq` the rate of the clock, rounded or not | `KeptEnv`, no shutdown |
| `ReportsTruly`, `RefsMeanBoost`: the report is the clock, or the rate asked for where the clock rounded; references mean a boost | `CalmEnv`, no sleep, no shutdown |
| `NoReferenceMissing`: every reference somebody relies on is counted (`RefsSuffice`) | `KeptEnv` |
| `VoltageSuffices`: a fast clock has its voltage, or the rail was lowered after it was read | nobody else moves the clock, and it rounds nothing past `High` (`NoneAboveHigh`); the rail moves at any moment |
| `FailsClosed`: no boost after a notifier failed | `KeptEnv` |

`NoReferenceMissing` is the half of `BalancedBooks` that remains when resumes fail and cores leave: references
may leak, but none is given back that is still needed.
`ReportInv` follows the published rate from the request to the clock; `VoltInv` carries the voltage check
to the write of the clock; `UnsafeInv` says that no request is on its way to a raised clock when the flag is
set, until `fini` of core 0 clears the way for the next one.

`RocketJobProofs` proves, for any set of jobs and any number of tasks:

* in every environment: `JobTypeCorrect`, `FlightServed` (the job in flight is powered and
  attached until it is over), `IdleIsIdle` (outside a reset the core counts as idle only when its jobs are over, also
  in the window between the return of the credit and the end of `in_flight_job`), `JobsEndOnce`, `NoUsageMissing` (references may stay behind, none is given back that is needed);
* when the line is the core's own, and the interrupt thread is prompt or no job times out (`Prompt`): `CompletedJobsRan`,
  `HwInItsDomain`, `QuietStarts`, and `ImplementsPromise`, the refinement of `JobPromise`. Without it `CompletedRan` is false (`job_stale_irq`);
* when cores resume and attach (`Reliable`): `UsageExact`.

`JobInv` is the inductive invariant: no reference that the job in flight or the worker relies on is missing
(`UsageSuffices`), what the worker has set up for its job is still there
(`WorkerInv`), one job is pending and has the credit unless a reset took it (`CreditInv`), the job
in flight is that one, served, its fence open, or it has just signalled, and the worker may already be at its
successor (`FlightInv`), and a job's history is consistent (`HistoryInv`). `IrqInv` adds that an interrupt under way belongs to the latest task of the
job in flight; only a reset that waits for the thread keeps that.

`BusyTimeProofs` proves, for any set of cores and any word width, `MeterTypes`, `LoadAlwaysInRange`,
`LoadExact` and `NobodyBusyForever`. The load is the largest of a set of readings below the window's length;
that a bounded set of numbers has a largest follows from the well-foundedness of the naturals. The invariant says that closed and open busy time of a core
add up to the time it had a job as long as every reading was fresh, so that
unsigned subtraction never wraps.

`RocketSubmitProofs` proves, for any number of threads, buffers and jobs and under every failure:

* `SubmitterIsSafe`: a job is not freed, nor another thread's, while its submitter uses it;
* `PrepIsEnough`: when `prep_bo` has waited, every write submitted before it is over.

Neither is inductive. `SubInv` adds that a job has one submitter (`OwnInv`), that its count is one
for the submitter and one for the scheduler (`CountInv`), which step of the submit goes with which
state of the job (`StageInv`), and that a job whose submit has returned has its fence on its
buffers (`FenceInv`).

`RocketSubmitRefsProofs` proves, in the same generality:

* `SubmitTypes`: types, so no count goes below zero;
* `JobsServed`: a job's memory, its buffers' mappings and a domain stay until its last reference; only of a
  buffer found under its handle while its create goes on may the mapping still be missing;
* `EverythingReleased`: after the close nothing is left;
* `NothingLostOrEarly`: at every moment a buffer, the domain and a job are there exactly as long as somebody has
  them (`LivesAsHeld`), until memory is used wrongly;
* `OnlyFreedLate`: where no create and no submit fails before its push and no thread uses a handle before its
  create has returned, the one wrong use of memory is `late_free`;
* `UnmapsTheMapped`: a buffer that was never mapped is unmapped only after `handle_fail`, the failure
  `gem_unwind` shows, or after `early_use`, whatever else fails.

The argument is that every count is the number of those that hold one. `RefInv` says it of a buffer: its
handle, the jobs that read it, the jobs that write it, the threads that looked it up. `DomInv` says it of
the domain: the file, the buffers there are, and the jobs whose submitter has come that far. Each is a sum
of cardinalities, and a step changes one element of one set, so no induction over the sets is needed. `LinkInv` and
`BufInv` tie the threads, handles and jobs to how far a buffer is set up: a half-made one
has a creator at work on it, who holds no reference, so that only its handle or another thread keeps it. The step that breaks something
ends the good state (`Strong`), but takes nothing from a job, so `JobServed` holds in its result too.
`CauseInv` names for each wrong use of memory, and for each half-made buffer that leads to one, the failure it
comes from; its steps need `Strong`, which says that whoever puts a reference puts it to a buffer that is set up.

`NpuBootProofs` proves all seven properties of the run `boot`, for any set of cores, files and rates.
`DrvInv` is the driver's part: the slots (`SlotInv`), what each core has set up at each step of its probe
and remove (`HeldInv`), and `num_cores` against both (`CountInv`). On it rest

* in every environment: `BootTypes`, `SlotsAlwaysRight`, `GoneIsGone`, `LeavesDriver`, `RailPutBack`,
  `VoltsForHigh`;
* when no file is opened during a probe and no core unbound by hand under one (`Calm`): `OpenFilesServed`.

`LeftInv` follows the script's commands to the driver it leaves, `OrigInv` the rail's former voltage through
failed loads, and `CalmRailInv` says that the script touches the rail only while the governor is held low; a hand that
lowers it at another moment is what `lowered` remembers.

Only model-checked: liveness (`TargetReturns`, `EveryJobEnds`; fairness and `ENABLED` are
out of the prover's reach). Every safety property a passing run checks has its theorem, and the theorem's
environment covers the run's.

## Not modelled

* Registers beyond running, raised and let through: `rocket_registers.h` is generated constants, and
  what the hardware does with a task is behind them.
* The wait for reservation fences between jobs: the DRM scheduler's, before a job is queued here.
* The removal of a core with a job in flight, and two threads that bind at once: either needs two of
  the models in one, and the state space of their product is out of TLC's reach.
* The autosuspend timer beside the job machinery; `RocketDevfreq` suspends a core at any moment its
  count allows, which includes every timer.
* Thresholds of the governor, which may ask for any rate at any moment, and the order in which OPPs are
  registered inside `init`, which succeeds or fails as one step.
* Pinning of the interrupt and the CPU settings of the boot script, which touch no state of the driver.
* The sweep and benchmark tools: single processes that meet the driver only through rate requests
  and an open file.
* Device tree patches, build files and measured data: declarative. GPU clock patches: diffs of drivers
  whose code is not in this repository.
