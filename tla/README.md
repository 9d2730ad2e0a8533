# LifeSim in TLA+

LifeSim is a fork of the Sniper multicore simulator. It runs multithreaded
workloads on a simulated many-core chip, maps threads to cores as an external
algorithm asks, and estimates temperature and aging at the end of each
*hyper-period*. This directory holds TLA+ models of the simulator, part by part.
TLC checks them on small instances; TLAPS proves, for every number of threads,
cores, mutexes and barrier users, what matters most about the pinned scheduler,
the synchronisation server and the barrier that keeps the cores' clocks together.

## The system

| part | state | operations | meets |
|---|---|---|---|
| `ThreadManager`, `Thread` | status and stall reason of each thread, its waiter, its core | create, start, stall, resume, join, move, exit | scheduler and barrier, through hooks; host threads asleep in `Thread::wait()` |
| `SchedulerPinnedBase` (on `SchedulerDynamic`, `SchedulerPinned`) | who runs where (two maps), affinities, quanta, times of the last switch | create, start, stall, resume, yield, set affinity, exit, `reschedule`, `periodic` | called by the thread manager, calls `moveThread` back |
| its periodic-workload and runtime-intervention builds | hyper-period number, exit count, deferred threads; mapping, frequencies | deferral, change of hyper-period at the last exit; `changeMapping`, `updateDVFS` | trace manager, mapping files, RMU, HotSpot |
| `BarrierSyncServer`/`Client` | local clocks, who is in the barrier, who is to be released, next barrier time | synchronize, release, advance, abort, disable, fast-forward | `ConditionVariable`, thread manager, `HOOK_PERIODIC` |
| `SyscallServer`, `SyscallMdl` | futex queues, sleepers and their timeouts | futex calls, sleep, expiry at each barrier | thread manager |
| `SyncServer` | mutexes, condition variables, barriers of the simulated program | lock, unlock, wait, signal, broadcast, barrier | thread manager |
| `CacheCntlr`, tag directory, DRAM controller | lines, directory entries, requests in progress | accesses, coherence messages, evictions | user threads and network threads, under the set locks |
| core models, predictors, caches, queue models, networks, prefetchers | timing | per instruction, access or packet | one core at a time |
| trace front end, SIFT, simulation threads | applications, pipes, packets | create, spawn, end, restart; records; send, receive | thread manager |
| statistics, routine tracer, spin-loop detector | counters, call stacks, loop tables | hooks and instrumentation callbacks | thread manager, front ends |
| HotSpot | floorplans, grids, heat networks | annealing, mapping to cells, solvers | run at the end of an interval |

The thread manager, the scheduler, the barrier, the syscall server and the
synchronisation server run under one lock, `ThreadManager::m_thread_lock`. What
makes them hard is not that two handlers overlap but that one handler calls
another: `stallThread` signals the barrier, the barrier runs `periodic()`, which
moves threads, which resumes them, which calls the scheduler again; and that a
host thread, once told to go on, gets to do so arbitrarily late.

The builds differ: without `MODIFIED_CODE` the scheduler is Sniper's
(PinnedScheduler, BarrierSync); `MODIFIED_CODE` + `PERIODIC_WORKLOAD` + `USE_RMU`
is the default of LifeSim (HyperPeriod); `MODIFIED_CODE` alone is the
runtime-intervention build (RuntimeRemap).

## The modules

`PROJECT.json` maps every definition to the lines it models.

### Threads, time and synchronisation

**PinnedScheduler** - threads, cores, scheduler. One action for each call that
takes the lock (`CreateThread`, `OnThreadStart`, `StallSync`, `BlockingSyscall`,
`SyscallReturn`, `ResumeOther`, `JoinThread`, `ThreadYield`, `ThreadSetAffinity`,
`OnThreadExit`, `ThreadReschedule`, `Periodic`). A handler that reschedules more
than one core goes on in steps of the lock holder (the barrier server's `signal()`
and `advance()` included, when they lead to a pass): `call` is its program counter
and `m_resumed` the pending callback of `HOOK_THREAD_RESUME`; no other handler
starts until it is done. `host` is where each host thread is, so that a wakeup
given before the thread sleeps can be told from one given after. Simulated times
are relative to the last `periodic()` and ages beyond `MaxAge` are not told apart.
Whether a program joins threads that have not started yet is the constant
`EarlyJoin`, since it breaks a property (see Findings).

**CoreAssignment** - what the barrier and the cores rely on: one thread per core,
one core at a time changes hands, nobody goes from one core straight to another,
and only a thread that is starting or runnable is given a core.

**BarrierSync** - the barrier server with its clients and their condition
variables. `ConditionVariable::wait()` is two steps (`WaitOn` clears the futex
word; `Block` is the system call that checks it). `barrierRelease()` is a chain of
steps: timeouts, the scheduler's pass, then the release. The scheduler is
abstract: at each pass it may give any core to any ready thread or to nobody. The
`threadResume()` inside its moves is therefore not modelled again. Threads stopped
by futexes are resumed by an action `Wake` that anyone may take. Waiters on one
futex word are woken first come first served. `PromptFutex` says that a host thread
reaches its system call before others go on; without it a signal can be lost (see
Findings). `m_core_group` is unused (no simultaneous multithreading).

**HyperPeriod** - the periodic-workload build. Main threads of all applications
are created at the start; `threadCreate` puts those of later hyper-periods aside.
`OnThreadExit` counts, and the last exit of a hyper-period (`Flip`) evaluates,
reads the next mapping and places the waiting threads behind `reschedule()`'s
back. The score in `reschedule()` is abstracted to any eligible thread, affinities
are single cores, mapping files name every thread, applications create the threads
they are configured with and do not restart. Of temperature and aging, the model
keeps which cores count as active and under which number the RMU is evaluated.

**RuntimeRemap** - the runtime-intervention build: placement by the mapping file,
and at every interval the energy report, `changeMapping()`, `updateDVFS()` and
`setFrequency()` with its transition latency.

**SyscallServer** - entry and exit of system calls, the futex calls with bit sets,
wake-op and requeue, sleeps, timeouts at the barrier, and `stallThread()` advancing
time while nobody runs.

**SyncServer** - mutexes, condition variables and the barrier of the simulated
program. One action per server call; a call that must wait stalls its thread
(`stalled`) and `Return` takes it back to the application when it has been resumed.
`broadcast()` is a loop of the lock holder. `holds`, `pending`, `arrived` and `left`
are the program's view; a program may do anything but unlock, or wait with, a mutex
it does not hold. A lock, or a trylock, of a mutex the thread itself owns waits for
itself, as in the code.

**Monitor** - what the program relies on: mutexes with one holder, waiting that gives
up the mutex and takes it again, a barrier with separate rounds.

**SimThreads** - the simulation threads, the transport between cores, `netRecv` and
the futex word under `ConditionVariable`. **TraceManager** - which threads of which
applications are simulated, and when the simulation ends. **Sift** - one recorder and
one `TraceThread` over two pipes with their buffers and requests. **Sampling** -
detailed, fast-forward and warm-up phases, with the clocks and instruction counts they
must account for. **SmtTimer** - the barrier between hardware contexts of one core.

### The memory hierarchy

**Coherence** - one line in first-level caches, shared last-level caches, the tag
directory and the DRAM controller, under MSI, MESI and MESIF. A step is what a user
or network thread does between taking the set lock and giving it up; messages queue
per node. Other lines appear as evictions and nullified entries. A copy carries
whether it has seen every write, not its bytes.

**Directory** (entries and request queues), **CacheSets** (one set under every
replacement policy), **MemorySide** (NUCA slice, DRAM cache, accounting of latency),
**DramTiming** and **ContentionModel** (queue models, with unsigned times that wrap),
**MeshNetwork** (routing, broadcast, contention, bus), **Prefetchers**,
**CoreAccess** (accesses cut at lines, the lock of atomic pairs).

### Cores, statistics, HotSpot

**MicroOps** (splitting, squashing, dependencies), **BranchPredictors** (Pentium M),
**IntervalTimer** (the two windows), **RobCore** with **RobTimer** and
**RobSmtTimer** (dispatch, issue, commit, skipping of idle cycles);
**RoutineTracer**, **ThreadStats**, **SpinLoops**; **ThermalGrid** (the heat network
as it is written three times in the code), **GridMap** (blocks to cells and back),
**SlicingTree** and **Floorplanner**.

### Instances and proofs

**MCMachine** and **MCSupport** put small instances of these parts into one
specification each: `kind` selects the part a behaviour is about, `v1`, `v2`, ... are
its variables. A part's properties are checked under one name per part, whose
definition lists them. **MCCoherence** holds the machines of the coherence runs.
**PinnedSchedulerLemmas**, **-Invariance**, **-Theorems**, **SyncServerLemmas**,
**-Theorems** and **BarrierSyncLemmas**, **-Steps**, **-Theorems** hold the theorems;
each extends the one before it.

## The runs

| run | instance | checks |
|---|---|---|
| `pinned` | 3 threads, 2 cores; stalls, wakeups, timeouts, joins, blocking system calls, exits | `MapsAgree` inside every chain of callbacks, `NoCoreForStalled`, `NoLostWakeup`, `PreemptedOnlyAtBarrier`, `ImplementsCoreAssignment` |
| `pinned_live` | 2 threads, 2 cores; yields, any affinity mask | `NoStarvation` |
| `barrier` | 3 threads, 3 cores, 1 host core, prompt host threads; preemption, or region of interest with scripts and exits, or fast-forward, or computing with one thread released at a time | `AssertionsHold` (of the server), `NobodyForgotten` (no release is lost when cores change hands inside the barrier, or the mode is switched while released cores are queued for their signal), `ClockSkewBounded` |
| `barrier_live` | 2 threads, 2 cores, slow host threads; stalls and sleeps, or fast-forward | `EveryoneGoesOn`: every waiter is released, sleepers wake, also when nobody runs |
| `coherence` | 4 cores, 3 last-level caches, one of them shared; MSI, MESI, MESIF; atomic pairs; prefetches | `Coherent` (assertions, single owner, inclusion, directory covers all copies, nothing waits when all is quiet), `UpdatesKept` |
| `coherence_live` | 3 cores, 2 last-level caches | `Served`: who waits for the directory is woken |
| `sync` | 3 threads, 2 mutexes, 1 condition variable, a barrier of 3 used twice | `LocksSound`, `RoundsSeparate`, `ImplementsMonitor`, `LockGranted` |
| `hyper` | 2 hyper-periods, 2 applications each, 3 threads, 2 cores | `PeriodsApart` (deferral, ranks, placement, one evaluation per hyper-period), `AllPeriodsFinish` |
| `machine` | one small instance of each part of the simulated machine | one property per part, e.g. `ReorderBufferSound`, `ReplacementSound`, `PacketsDelivered` |
| `support` | one small instance of each part beside it | one property per part, e.g. `SyscallsAnswered`, `TracesReplayed`, `HeatBalances` |
| `barrier_exit_sleep`, `hyper_last` | as above | violated, see Findings |

*Bounds.* Two cores and three threads give every relation the scheduler
distinguishes: free core, contended core, a thread displaced by another, one that
waits while a core it may not use is free. In `pinned` the quantum is one
interval, so that a thread is displaced at every second pass (`periodic()` compares
with `>`); in `pinned_live` it is half of one, and every pass is a switch. One local time between barriers suffices because times are compared,
never counted. `pinned` has no affinity calls and `pinned_live` no stalls: the two
together with three threads are out of reach, and the proofs cover the combination.
In BarrierSync `MaxTime` is two or three intervals: enough for cores to overshoot a
barrier, be skipped by it and meet the next one; `Setups` lists the configurations of
a run, one of which is fixed in each behaviour. In Coherence three last-level caches
are what it takes for a request to meet an owner and a sharer that are both somebody
else; `DramLag` lets one answer of the DRAM be overtaken. Two hyper-periods have a
first, whose end starts another, and a last one, which take different branches. In
`sync` two rounds are what it takes for an early thread to meet a late one. The
instances in MCMachine and MCSupport name their bounds where they are given.
Deadlock is not checked where the system may stop: in PinnedScheduler when all
threads have exited, in BarrierSync at the bound on time, in BarrierSync and
SyncServer when the application itself has deadlocked, and in `machine` and `support`
when the inputs of a part are used up.

*Fairness.* The holder of the lock goes on (weak fairness of its steps): no handler
waits for anything while it holds it. A thread that asks for the lock again and
again gets it (strong fairness of starting, rescheduling and of returning from the
barrier): the host scheduler is fair to host threads. Barriers keep coming as long
as threads run. In `coherence_live` threads that have a message, or have been woken,
go on. Nothing is assumed of what applications do, except in `hyper`, where they must
come to their end and some stalled thread must be resumed, and in `sync`, where a
thread that is not itself blocked gives up its mutexes; `LockGranted` excuses a wait
only by an owner of that mutex who is stalled for good. `pinned_live` has no blocking
system calls: a thread that waits for a core while all others are in native system
calls waits for the host, of which nothing is assumed.

## The proofs

### The scheduler

For all positive numbers of threads and cores, any masks, times and calls
(`SizesAssumption`, `TimesAssumption`, `AppAssumption`: there is a thread and a core,
masks are non-empty sets of cores, times are natural numbers):

| theorem | says |
|---|---|
| `TypeCorrect`, `MapsAlwaysAgree`, `PlacementAlwaysAgrees`, `CoreStateAlwaysMatches`, `DisplacedAlwaysSoon` | the scheduler's maps, the threads and the cores fit together at every step of every handler |
| `StalledNeverOnCore`, `WakeupNeverLost` | once the lock is free, stalled threads have no core, and nobody sleeps in `Thread::wait()` who has been resumed |
| `NobodyForgottenLateJoin` | if programs join only threads that have started: UNSCHEDULED threads are candidates for `reschedule()`, and joiners are remembered |
| `PreemptionOnlyAtBarrier`, `ResumeChainsEnd` | what a step may never do: take the core of a thread that can run, elsewhere than at the barrier; cause another resume callback without filling a free core |
| `SchedulerImplementsCoreAssignment` | every step is a step or a stutter of CoreAssignment |

None of the invariants is inductive alone. The first half of the inductive
invariant, `IInv`, is about the scheduler. `MapsAgree` needs `Placement`, since a
core taken for free must have no thread that `setCore` would trip over. `Placement`
has an exception, an exiting thread between `onThreadExit` and `threadExit`, so the
lock holder's position must be known: `CallInv` says what each program counter
implies of the thread it works for. A core is given to a runnable thread only, and
a thread resumed inside a chain must be one that waits, which `RunnableInv` and
`HostInv` state; `JoinInv` relates joiners to stalls. `RescheduleInv` carries the
weight: whatever core `reschedule()` is called for, and whomever it picks,
`SchedInv` is kept and nothing else is touched (`Settled`). The other lemmas reduce
each handler to it, to a resume, to a stall or to a frame.

The second half, `SafeInv`, is about the threads. `NoCoreForStalled` and
`NoLostWakeup` speak of the moments when the lock is free; in between, exactly one
thread may be on a core although it has stalled or ended, the one the lock holder is
about to reschedule (`CoreInv`), and the arguments in `call` name its own core
(`ArgsInv`). `Outcome(c)` is what `reschedule()` leaves behind on core `c`: nothing,
or the old thread off the core and a waiting one on it. `LateJoinInv` is the part
that holds only without early joins; with them `StartStep` wakes the joiner, and TLC
finds both conjuncts violated when `EarlyJoin` is TRUE.

The refinement uses the invariant to show that a reschedule is one `Switch`, a resume
an `Admit`, a stall a `Withdraw` and an exit a `Retire`. `ResumeChainsEnd` counts the
free cores (chains of two callbacks and more need a thread that changes its mask), with the library's theorems about cardinality.

### The synchronisation server

For any sets of threads, mutexes and condition variables, any finite set of barrier
users and any number of rounds (`SyncAssumption`):

| theorem | says |
|---|---|
| `LocksAlwaysSound` | who believes to hold a mutex owns it, an owner holds it or is on its way back with it, nobody waits for a free mutex, and a stalled thread is in exactly the queue that will resume it |
| `RoundsAlwaysSeparate` | nobody is through a round of the barrier before all have come to it |
| `ServerImplementsMonitor` | every step is a step or a stutter of Monitor |

`LocksSound` does not say enough of the calls in progress to be inductive. `IInv` adds
what a call looks like (`PendingInv`); that a thread resumed in a lock call owns the
mutex and did not hold it before (`ResumedOwns`), which is what makes its return an
`Acquire`; and that all users have been let through the barrier equally often
(`Passed`, the arrivals less the one that still waits). The last one is the heart of
the barrier: when `m_count - 1` threads wait, all different, they are all the others
(`EverybodyElse`, by counting an injection), so clearing the queue lets everybody
through exactly once more. `Handed` is what `unlock()` does to the first in the queue,
`SignalTakes` what `signal()` does to the first waiter; the handlers are cut along
them.

### The barrier

For any numbers of cores, threads (at least as many) and host cores, any interval and
any steps of simulated time between two `synchronize()` calls (`BarrierAssumption`), and
whether or not a host thread gets to its futex call before others go on:

| theorem | says |
|---|---|
| `InvHolds` | in detailed simulation without preemption (`InScope`): the server's lists, the condition variables and the threads agree about every core |
| `BarrierAsserts` | in the same simulations: no core enters the barrier twice, and the barrier is not found reached while cores released before are still queued |
| `BarrierForgetsNobody` | in the same simulations: a thread blocked in the barrier is waited for, queued for release or has its signal in the futex word, and some thread that runs can go on |
| `ClocksTogether` | while threads keep their cores, a core that simulates is at or after `m_global_time` and before `m_next_barrier_time`; this is `ClockSkewBounded` as the run checks it |

In scope are stalls, sleeps with timeouts, exits and resumes, between any two steps of a
release and between a signal and the futex call it overtakes; scripts have an effect in
the other modes only. `NobodyForgotten` says nothing of a thread that has entered the
barrier and makes the release itself, nor of what the server believes of a core whose
thread has gone. The inductive invariant `Inv` says it in six parts. `Placed` and
`KeepsCore`: a thread has one core at most, and whoever is `Inside` `synchronize()`
still has the core it entered for - which is where preemption is excluded. `CallShape`:
where the holder of the lock may be, and that a caller of `synchronize()` who carries
out the release is registered in `m_barrier_acquire_list` itself. `Seat(c)`: a core is
registered or queued for release only for the thread on it; exactly the thread that is
asleep there is in the futex queue; a blocked thread is registered, queued or signalled,
and never signalled together with one of the others. `Moves` is the progress part; it is
stated also for the moment before `stallThread()` lets go of the lock.

`Kept` and `OthersKept` say what a step does to everybody but its actor, `Leaves` and
`Resumes` what the scheduler may do for a thread that gives up or gets a core; every
handler is reduced to one of them. Progress has two sources. A step that leaves the
queue empty and the barrier unreached leaves a running core that is not registered
(`BehindMoves`). A step that finds the queue non-empty signals at least one of its cores
(`ReleasedMoves`), because `doRelease()` never picks zero. That `m_to_release` is empty
when the barrier is reached follows from `Seat`: a queued core runs and its clock is
behind the barrier, so the barrier is not reached.

`ClocksTogether` needs the exact times, `Clock(c)`: a registered core has reached
`m_next_barrier_time` and its local clock is its elapsed time, any other has not;
`m_next_sync_time` is never after the barrier, since both are multiples of the interval
(`NextSyncBound`), so no core overshoots without calling `synchronize()`. When all have
arrived, every core is at or after the barrier time that becomes `m_global_time`.

### Model-checked only

The liveness properties (`NoStarvation`, `EveryoneGoesOn`, `Served`, `LockGranted`,
`AllPeriodsFinish` and the temporal parts of `machine` and `support`): TLAPS does not
prove liveness under fairness. The barrier with preemption, and its mode switches:
`AssertionsHold` and `NobodyForgotten` then rest on how many threads may share a core's
condition variable, and with preemption `NobodyForgotten` holds only for prompt host
threads (see Findings); the run `barrier` checks these cases. Coherence and HyperPeriod:
their invariants hold on the instances above; their inductive invariants are not written.
The modules behind MCMachine and MCSupport are computations over sequences and tables;
what their recursive definitions compute for every input is induction over data, which
the provers at hand do not do.

## Findings

Two runs end in a violation, each against a comment of the source:

- `barrier_exit_sleep`: when the last running thread exits, sleeping threads hang
  (`thread_manager.cc:174`, comment at line 353).
- `hyper_last`: the last hyper-period is evaluated under the number of the one before
  (`scheduler_pinned_base.cc:652`, `setHyperPeriodNumber` is called at line 396 only).
  With the two hyper-periods of the run the RMU weighs both numbers alike; its mean is
  off from three hyper-periods on.

Met while modelling; the models contain the behaviour, the runs leave it out or the
properties allow for it:

- Scheduler and threads: a join before the joined thread has started is forgotten
  (`thread_manager.cc:141`, `EarlyJoin`). The "small extra penalty" does not keep a
  displaced thread from getting another core in the same `periodic()` call when it is
  the only one eligible there. A mapping that gives two main threads of a later
  hyper-period one core fails an assertion; in the first hyper-period it is legal.
  `end_times` is indexed with -1 (`scheduler_pinned_base.cc:320`; never read).
- Barrier: two threads of one core share a futex word, and the second wait can erase
  the signal that `doRelease()` gave the first (`barrier_sync_server.cc:139`,
  `PromptFutex`). A mode switch does not wake cores that are queued for their signal;
  while the barrier is disabled only stalls, exits and migrations wake them. With the
  barrier disabled a lone sleeper loops in `stallThread()` and time does not move.
- Runtime remapping: `setFrequency(0)` stalls the thread whose id is the core's number
  (`magic_server.cc:217`); threads missing from a mapping go to core 0; exited threads
  stay in `threads_on_core`.
- System calls: a relative timeout of `FUTEX_WAIT` is used as an absolute time
  (`syscall_server.cc:62`); `FUTEX_WAKE_BITSET` ignores its mask; `CMP_REQUEUE` ignores
  its second count. `mutexTrylock()` by the thread that owns the mutex waits for itself.
- Trace front end: an `exit_group` racing a new thread can leave the simulation waiting
  (`trace_manager.cc:213`).
- Coherence: a limited directory without broadcast can invalidate a line that is being
  upgraded (`cache_cntlr.cc:1907`); a write-back answer's data does not reach the DRAM.
- Prefetchers: the queue takes one entry more than its limit; the simple prefetcher
  predicts the current address first.
- Statistics: waiting costs are charged with the state after the event
  (`thread_stats_manager.cc:77`); the routine tracer attributes to the wrong parent
  when the region of interest ends in code outside every routine; a register that
  toggles is counted as a spin every second iteration.
- HotSpot: the transient solver omits the coupling of the solder ring to the substrate
  that the steady solver has.

## Not modelled

The RMU formulas, HotSpot's iterations to convergence and McPAT are floating-point
arithmetic. Configuration, logging, statistics files, scripting and the decoding of
x86 are input and output. Translation buffers, auxiliary tags and the memory tracker
are tables of one core without a protocol. Write-through, pass-through and perfect
caches, more than two levels in Coherence, and the big-small, roaming and static
schedulers are not selected by LifeSim's configurations. Of the thread manager,
`spawnThread()` is used by the Pin front end only.
