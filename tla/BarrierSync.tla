----------------------------- MODULE BarrierSync -----------------------------
(***************************************************************************)
(* The barrier that keeps the simulated cores' clocks together:            *)
(* BarrierSyncServer, BarrierSyncClient and the ConditionVariable on which *)
(* a core waits, with the parts of ThreadManager that enter the barrier    *)
(* server (stall, resume, exit, migration) and the mode switches of        *)
(* FastForwardPerformanceManager and Simulator::setInstrumentationMode.    *)
(*                                                                         *)
(* Every handler holds ThreadManager::m_thread_lock; "call" is where the   *)
(* holder is in barrierRelease() or stallThread().  The scheduler is       *)
(* abstract: whenever the code calls it, it may give a core to any thread  *)
(* that is ready, one core at a time (CoreAssignment).  No SMT: every      *)
(* m_core_group entry is INVALID_CORE_ID.                                  *)
(***************************************************************************)
EXTENDS Integers, Sequences, FiniteSets

CONSTANTS
    NumCores, NumThreads,
    HostCores,        \* getNumHostCores()
    Interval,         \* m_barrier_interval
    Steps,            \* simulated time a core may advance between two synchronize() calls
    MaxTime,          \* bound on simulated time
    PromptFutex,      \* does a host thread get to its futex call before others go on
    Setups            \* see Setup

Cores   == 0 .. NumCores - 1
Threads == 0 .. NumThreads - 1
None    == -1

\* which mode switch the simulation is configured with, and what its scheduler,
\* application and scripts do besides computing
Setup == [mode : {"detailed", "disable", "fastforward"},
          ops : SUBSET {"preempt", "stall", "sleep", "exit", "script"}]

ASSUME BarrierAssumption ==
    /\ NumCores \in Nat \ {0} /\ NumThreads \in Nat /\ NumThreads >= NumCores
    /\ HostCores \in Nat \ {0} /\ Interval \in Nat \ {0} /\ MaxTime \in Nat
    /\ Steps \subseteq Nat \ {0} /\ PromptFutex \in BOOLEAN /\ Setups \subseteq Setup

VARIABLES
    \* BarrierSyncServer
    m_next_barrier_time, m_global_time, m_local_clock_list, m_barrier_acquire_list,
    m_core_thread, m_to_release, m_fastforward, m_disable, setup,
    \* m_core_cond: the futex word, and who sleeps on it, first in first out
    m_futx, sleepers,
    \* BarrierSyncClient
    m_next_sync_time,
    \* performance models, ThreadManager, SyscallServer::m_sleeping
    elapsed, occupant, status, timeout,
    \* host threads: where they are, and core and time of their synchronize()
    pc, entry,
    call

servVars == <<m_local_clock_list, m_barrier_acquire_list, m_core_thread>>
timeVars == <<m_next_barrier_time, m_global_time>>
modeVars == <<m_fastforward, m_disable, setup>>
condVars == <<m_futx, sleepers>>
threadVars == <<elapsed, occupant, status, timeout>>
vars == <<servVars, timeVars, modeVars, m_to_release, condVars, m_next_sync_time,
          threadVars, pc, entry, call>>

\* UNSCHED: stalled for want of a core.  RUNNING threads may be off core as well,
\* from the moment they are preempted until they notice.
Status == {"RUNNING", "UNSCHED", "STALLED", "IDLE"}
\* run: not blocked; prewait, asleep: in ConditionVariable::wait() before and in
\* the futex system call; woken: past it; out: in Thread::wait(); gone: exited
Places == {"run", "prewait", "asleep", "woken", "out", "gone"}
NoEntry == [c |-> 0, tm |-> 0]
NoCall == [op |-> "none", t |-> None, by |-> None, until |-> FALSE, c |-> 0]

TypeOK ==
    /\ m_next_barrier_time \in Nat /\ m_global_time \in Nat
    /\ m_local_clock_list \in [Cores -> Nat]
    /\ m_barrier_acquire_list \in [Cores -> BOOLEAN]
    /\ m_core_thread \in [Cores -> Threads \cup {None}]
    /\ m_to_release \subseteq Cores
    /\ m_fastforward \in BOOLEAN /\ m_disable \in BOOLEAN /\ setup \in Setups
    /\ m_futx \in [Cores -> {0, 1}] /\ sleepers \in [Cores -> Seq(Threads)]
    /\ m_next_sync_time \in [Cores -> Nat] /\ elapsed \in [Cores -> Nat]
    /\ occupant \in [Cores -> Threads \cup {None}]
    /\ status \in [Threads -> Status] /\ timeout \in [Threads -> Nat \cup {None}]
    /\ pc \in [Threads -> Places]
    /\ entry \in [Threads -> [c : Cores, tm : Nat]]
    /\ call \in [op : {"none", "timeouts", "pass", "body", "stalled", "abort"},
                 t : Threads \cup {None}, by : Threads \cup {None},
                 until : BOOLEAN, c : Nat]

\* every core has a thread, the other threads wait for one
Init ==
    /\ m_next_barrier_time = Interval /\ m_global_time = 0
    /\ m_local_clock_list = [c \in Cores |-> 0]
    /\ m_barrier_acquire_list = [c \in Cores |-> FALSE]
    /\ m_core_thread = [c \in Cores |-> None]
    /\ m_to_release = {}
    /\ setup \in Setups
    /\ m_fastforward = (setup.mode = "fastforward") /\ m_disable = (setup.mode = "disable")
    /\ m_futx = [c \in Cores |-> 0] /\ sleepers = [c \in Cores |-> <<>>]
    /\ m_next_sync_time = [c \in Cores |-> Interval]
    /\ elapsed = [c \in Cores |-> 0] /\ occupant = [c \in Cores |-> c]
    /\ status = [t \in Threads |-> IF t \in Cores THEN "RUNNING" ELSE "UNSCHED"]
    /\ timeout = [t \in Threads |-> None]
    /\ pc = [t \in Threads |-> IF t \in Cores THEN "run" ELSE "out"]
    /\ entry = [t \in Threads |-> NoEntry]
    /\ call = NoCall

-----------------------------------------------------------------------------
MaxOf(a, b) == IF a < b THEN b ELSE a
Latest(S, low) == CHOOSE m \in S \cup {low} : \A n \in S \cup {low} : n <= m

Ready == {t \in Threads : /\ status[t] \in {"RUNNING", "UNSCHED"}
                          /\ \A c \in Cores : occupant[c] # t}
AnyThreadRunning == \E t \in Threads : status[t] = "RUNNING"

\* isCoreRunning(); a core's state is RUNNING when its thread's is (PinnedScheduler)
CoreRunning(occ, st, c) == occ[c] # None /\ st[occ[c]] = "RUNNING"

\* isBarrierReached(), of the values the variables have at that point
Reached(clock, acquired, occ, st) ==
    IF m_fastforward
    THEN /\ \A c \in Cores : CoreRunning(occ, st, c) => acquired[c]
         /\ \E c \in Cores : acquired[c]
    ELSE /\ \A c \in Cores : CoreRunning(occ, st, c) => clock[c] >= m_next_barrier_time
         /\ \E c \in Cores : CoreRunning(occ, st, c)

\* doRelease(n): the list is shuffled, so any n of its cores (all, when n = -1)
DoRelease(list, n, S) ==
    /\ S \subseteq list
    /\ IF n = -1 \/ Cardinality(list) <= n THEN S = list ELSE Cardinality(S) = n

\* m_core_cond[c]->signal() for the cores of S: who is woken
Woken(S) == {Head(sleepers[c]) : c \in {d \in S : sleepers[d] # <<>>}}

SignalledQuietly(S) ==       \* mutant: no FUTEX_WAKE
    /\ m_futx' = [c \in Cores |-> IF c \in S THEN 1 ELSE m_futx[c]]
    /\ UNCHANGED sleepers

Signalled(S) ==
    /\ m_futx' = [c \in Cores |-> IF c \in S THEN 1 ELSE m_futx[c]]
    /\ sleepers' = [c \in Cores |->
          IF c \in S /\ sleepers[c] # <<>> THEN Tail(sleepers[c]) ELSE sleepers[c]]

PcWoken(S) == [t \in Threads |-> IF t \in Woken(S) THEN "woken" ELSE pc[t]]

\* the cores of S are signalled, then t enters m_core_cond[c]->wait()
WaitOn(t, c, S) ==
    /\ m_futx' = [d \in Cores |-> IF d = c THEN 0 ELSE IF d \in S THEN 1 ELSE m_futx[d]]
    /\ sleepers' = [d \in Cores |->
          IF d \in S /\ sleepers[d] # <<>> THEN Tail(sleepers[d]) ELSE sleepers[d]]
    /\ pc' = [PcWoken(S) EXCEPT ![t] = "prewait"]

\* releaseThread(): the clocks, with those of the threads of T reset
ClocksWithout(T) ==
    [c \in Cores |-> IF m_barrier_acquire_list[c] /\ m_core_thread[c] \in T
                     THEN 0 ELSE m_local_clock_list[c]]

\* moveThread(): the scheduler gives core c to u, or to nobody, at time tm
MoveTo(occ, c, u) == [occ EXCEPT ![c] = u]
Resumed(st, u) == [t \in Threads |-> IF t = u /\ st[t] = "UNSCHED" THEN "RUNNING" ELSE st[t]]
\* a thread that is put on a core brings its time up to date there
TimeOn(c, u, tm) == IF u = None THEN elapsed ELSE [elapsed EXCEPT ![c] = MaxOf(@, tm)]

-----------------------------------------------------------------------------
(***************************************************************************)
(* barrierRelease()                                                        *)
(***************************************************************************)

\* its start: the assertion, the jump of fast-forward mode, m_global_time
StartRelease(list, clock, holder) ==
    IF list # {}
    THEN call' = [holder EXCEPT !.op = "abort"] /\ UNCHANGED timeVars
    ELSE LET next == IF m_fastforward
                     THEN Latest({clock[c] : c \in Cores}, m_next_barrier_time)
                     ELSE m_next_barrier_time
         IN  /\ m_next_barrier_time' = next /\ m_global_time' = next
             /\ call' = [holder EXCEPT !.op = "timeouts"]

NoneExpired == {}            \* mutant: futexPeriodic() is not registered

Expired == {t \in Threads : timeout[t] # None /\ timeout[t] <= m_global_time}

\* HOOK_PERIODIC: FastForwardPerformanceManager::step() raises the barrier time,
\* futexPeriodic() resumes one sleeper; it gets a free core or stays without
TimeoutStep ==
    /\ call.op = "timeouts"
    /\ m_next_barrier_time' = IF m_fastforward
                              THEN Latest({elapsed[c] : c \in Cores}, m_next_barrier_time)
                              ELSE m_next_barrier_time
    /\ call' = [call EXCEPT !.op = "pass", !.c = 0]
    /\ IF Expired = {}
       THEN UNCHANGED <<threadVars, pc, m_local_clock_list>>
       ELSE \E u \in Expired, c \in {d \in Cores : occupant[d] = None} \cup {None} :
            /\ timeout' = [timeout EXCEPT ![u] = None]
            /\ status' = [status EXCEPT ![u] = "RUNNING"]
            /\ pc' = [pc EXCEPT ![u] = IF @ = "out" THEN "run" ELSE @]
            /\ m_local_clock_list' = ClocksWithout({u})
            /\ IF c = None THEN UNCHANGED <<occupant, elapsed>>
               ELSE /\ occupant' = MoveTo(occupant, c, u)
                    /\ elapsed' = TimeOn(c, u, m_global_time)
    /\ UNCHANGED <<m_global_time, m_barrier_acquire_list, m_core_thread, m_to_release,
                   modeVars, condVars, m_next_sync_time, entry>>

\* ... the scheduler's periodic() visits core call.c
PassStep ==
    /\ call.op = "pass"
    /\ call' = IF call.c = NumCores - 1 THEN [call EXCEPT !.op = "body"]
                                        ELSE [call EXCEPT !.c = @ + 1]
    /\ \E u \in Ready \cup {None, occupant[call.c]} :
          /\ u # occupant[call.c] => occupant[call.c] = None \/ "preempt" \in setup.ops
          /\ IF u = occupant[call.c]
             THEN UNCHANGED <<threadVars, pc, m_local_clock_list>>
             ELSE /\ occupant' = MoveTo(occupant, call.c, u)
                  /\ status' = Resumed(status, u)
                  /\ elapsed' = TimeOn(call.c, u, m_global_time)
                  /\ pc' = [t \in Threads |-> IF t = u /\ pc[t] = "out" THEN "run" ELSE pc[t]]
                  /\ m_local_clock_list' = ClocksWithout({occupant[call.c], u})
                  /\ UNCHANGED timeout
    /\ UNCHANGED <<timeVars, m_barrier_acquire_list, m_core_thread, m_to_release,
                   modeVars, condVars, m_next_sync_time, entry>>

\* the holder goes on: the caller of synchronize() returns, or stallThread() does
AfterRelease == IF call.by # None THEN [call EXCEPT !.op = "stalled"] ELSE NoCall

CallerReturns(p) == IF call.t # None THEN [p EXCEPT ![call.t] = "woken"] ELSE p

Aborts(holder) == call' = [holder EXCEPT !.op = "abort"]

\* mutant: <= for <
ReleasedEarly(next) == {c \in Cores : m_barrier_acquire_list[c] /\ m_local_clock_list[c] <= next}

\* the cores whose clock is behind the next barrier, among those that wait
Released(next) == {c \in Cores : m_barrier_acquire_list[c] /\ m_local_clock_list[c] < next}

StillWaiting(R) == [c \in Cores |-> m_barrier_acquire_list[c] /\ c \notin R]

\* the rest of the while loop, and of barrierRelease()
BodyStep ==
    /\ call.op = "body"
    /\ UNCHANGED <<m_local_clock_list, m_core_thread, modeVars, m_next_sync_time,
                   threadVars, entry>>
    /\ LET next == m_next_barrier_time + Interval
           R == Released(next)
           mine == {c \in R : call.t # None /\ m_core_thread[c] = call.t}
           list == m_to_release \cup (R \ mine)
           deadlock == /\ call.until
                       /\ \A t \in Threads : timeout[t] = None
       IN
       IF (call.until /\ AnyThreadRunning) \/ (~deadlock /\ m_disable)
       THEN /\ call' = AfterRelease
            /\ pc' = CallerReturns(pc)
            /\ UNCHANGED <<timeVars, m_barrier_acquire_list, m_to_release, condVars>>
       ELSE IF deadlock
       THEN /\ Aborts(call)
            /\ UNCHANGED <<timeVars, m_barrier_acquire_list, m_to_release, condVars, pc>>
       ELSE /\ m_next_barrier_time' = next
            /\ m_barrier_acquire_list' = StillWaiting(R)
            /\ IF R = {}
               THEN /\ m_global_time' = next
                    /\ call' = [call EXCEPT !.op = "timeouts"]
                    /\ next <= MaxTime + Interval
                    /\ UNCHANGED <<m_to_release, condVars, pc>>
               ELSE \E S \in SUBSET list :
                    /\ DoRelease(list, IF m_fastforward THEN -1 ELSE HostCores, S)
                    /\ m_to_release' = list \ S
                    /\ call' = AfterRelease
                    /\ UNCHANGED m_global_time
                    /\ IF call.t # None /\ mine = {}
                       THEN WaitOn(call.t, entry[call.t].c, S)
                       ELSE Signalled(S) /\ pc' = CallerReturns(PcWoken(S))

\* stallThread() after stallThread_async(): advance() while no thread runs,
\* then sleep unless somebody resumed us meanwhile
StalledStep ==
    /\ call.op = "stalled"
    /\ IF AnyThreadRunning
       THEN /\ call' = NoCall
            /\ pc' = [pc EXCEPT ![call.by] =
                  IF status[call.by] = "RUNNING" THEN "run" ELSE "out"]
            /\ UNCHANGED timeVars
       ELSE /\ StartRelease(m_to_release, m_local_clock_list,
                            [call EXCEPT !.t = None, !.until = TRUE])
            /\ UNCHANGED pc
    /\ UNCHANGED <<servVars, modeVars, m_to_release, condVars, m_next_sync_time,
                   threadVars, entry>>

-----------------------------------------------------------------------------
(***************************************************************************)
(* The handlers that take the lock                                         *)
(***************************************************************************)

LockFree == call.op = "none" /\ (PromptFutex => \A t \in Threads : pc[t] # "prewait")

InUser(t, c) == LockFree /\ pc[t] = "run" /\ status[t] = "RUNNING" /\ occupant[c] = t

NextSync(tm) == (tm \div Interval) * Interval + Interval

\* BarrierSyncServer::synchronize(c, tm), called by t
Synchronize(t, c, tm) ==
    IF m_disable \/ (~m_barrier_acquire_list[c] /\ tm < m_next_barrier_time /\ ~m_fastforward)
    THEN /\ m_next_sync_time' = [m_next_sync_time EXCEPT ![c] = NextSync(tm)]
         /\ UNCHANGED <<servVars, timeVars, m_to_release, condVars, pc, entry, call>>
    ELSE IF m_barrier_acquire_list[c]
    THEN /\ Aborts(call)
         /\ UNCHANGED <<servVars, timeVars, m_to_release, condVars, m_next_sync_time, pc, entry>>
    ELSE \E S \in SUBSET m_to_release :
         /\ DoRelease(m_to_release, 1, S)
         /\ m_to_release' = m_to_release \ S
         /\ m_local_clock_list' = [m_local_clock_list EXCEPT ![c] = tm]
         /\ m_barrier_acquire_list' = [m_barrier_acquire_list EXCEPT ![c] = TRUE]
         /\ m_core_thread' = [m_core_thread EXCEPT ![c] = t]
         /\ entry' = [entry EXCEPT ![t] = [c |-> c, tm |-> tm]]
         /\ IF Reached(m_local_clock_list', m_barrier_acquire_list', occupant, status)
            THEN /\ StartRelease(m_to_release', m_local_clock_list', [NoCall EXCEPT !.t = t])
                 /\ Signalled(S) /\ pc' = PcWoken(S)
            ELSE /\ WaitOn(t, c, S)
                 /\ UNCHANGED <<timeVars, call>>
         /\ UNCHANGED m_next_sync_time

\* the core of t simulates instructions, then BarrierSyncClient::synchronize()
\* (in fast-forward mode: instr_count(), which ignores the time)
Execute(t, c, d) ==
    /\ InUser(t, c)
    /\ elapsed[c] + d <= MaxTime
    /\ elapsed' = [elapsed EXCEPT ![c] = @ + d]
    /\ IF elapsed'[c] >= m_next_sync_time[c] \/ m_fastforward
       THEN Synchronize(t, c, elapsed'[c])
       ELSE UNCHANGED <<servVars, timeVars, m_to_release, condVars, m_next_sync_time,
                        pc, entry, call>>
    /\ UNCHANGED <<occupant, status, timeout, modeVars>>

\* ConditionVariable::wait(): the futex call, which does not need the lock
Block(t) ==
    /\ pc[t] = "prewait"
    /\ LET c == entry[t].c IN
       IF m_futx[c] = 0
       THEN /\ sleepers' = [sleepers EXCEPT ![c] = Append(@, t)]
            /\ pc' = [pc EXCEPT ![t] = "asleep"]
       ELSE /\ pc' = [pc EXCEPT ![t] = "woken"]
            /\ UNCHANGED sleepers
    /\ UNCHANGED <<servVars, timeVars, modeVars, m_to_release, m_futx, m_next_sync_time,
                   threadVars, entry, call>>

\* the lock is taken again, synchronize() returns to the client
Return(t) ==
    /\ LockFree /\ pc[t] = "woken"
    /\ pc' = [pc EXCEPT ![t] = "run"]
    /\ m_next_sync_time' = [m_next_sync_time EXCEPT ![entry[t].c] = NextSync(entry[t].tm)]
    /\ entry' = [entry EXCEPT ![t] = NoEntry]
    /\ UNCHANGED <<servVars, timeVars, modeVars, m_to_release, condVars, threadVars, call>>

\* the barrier server's part of a stall or exit of t, after the scheduler has
\* put u on the core (n: the number of hooks that call doRelease(1)); signal()
Stops(t, u, n, holder, p) ==
    \E S \in SUBSET m_to_release :
       /\ DoRelease(m_to_release, n, S)
       /\ m_to_release' = m_to_release \ S
       /\ Signalled(S)
       /\ pc' = [x \in Threads |-> IF x \in Woken(S) THEN "woken"
                                   ELSE IF x = t THEN p
                                   ELSE IF x = u /\ pc[x] = "out" THEN "run" ELSE pc[x]]
       /\ m_local_clock_list' = ClocksWithout({t, u} \cap Threads)
       /\ IF /\ ~m_disable
             /\ Reached(m_local_clock_list', m_barrier_acquire_list, occupant', status')
          THEN StartRelease(m_to_release', m_local_clock_list', holder)
          ELSE call' = holder /\ UNCHANGED timeVars

Staller(t) == [NoCall EXCEPT !.op = "stalled", !.by = t]

\* t waits for another thread, or sleeps until a timeout; the scheduler gives
\* its core to a ready thread or to nobody
Stall(t, c, to) ==
    /\ InUser(t, c)
    /\ \E u \in Ready \cup {None} :
          /\ occupant' = MoveTo(occupant, c, u)
          /\ status' = Resumed([status EXCEPT ![t] = "STALLED"], u)
          /\ Stops(t, u, IF u = None THEN 2 ELSE 3, Staller(t), "run")
    /\ timeout' = [timeout EXCEPT ![t] = to]
    /\ UNCHANGED <<elapsed, m_barrier_acquire_list, m_core_thread, modeVars,
                   m_next_sync_time, entry>>

Exit(t, c) ==
    /\ InUser(t, c)
    /\ \E u \in Ready \cup {None} :
          /\ occupant' = MoveTo(occupant, c, u)
          /\ status' = Resumed([status EXCEPT ![t] = "IDLE"], u)
          /\ Stops(t, u, IF u = None THEN 2 ELSE 3, NoCall, "gone")
    /\ UNCHANGED <<elapsed, timeout, m_barrier_acquire_list, m_core_thread, modeVars,
                   m_next_sync_time, entry>>

\* Thread::reschedule(): t finds that it has no core
Unscheduled(t) ==
    /\ LockFree /\ pc[t] = "run" /\ status[t] = "RUNNING"
    /\ \A c \in Cores : occupant[c] # t
    /\ status' = [status EXCEPT ![t] = "UNSCHED"]
    /\ UNCHANGED occupant
    /\ Stops(t, None, 1, Staller(t), "run")
    /\ UNCHANGED <<elapsed, timeout, m_barrier_acquire_list, m_core_thread, modeVars,
                   m_next_sync_time, entry>>

\* t resumes u, which gets a free core or stays without
Wake(t, c, u) ==
    /\ InUser(t, c)
    /\ status[u] = "STALLED" /\ timeout[u] = None
    /\ status' = [status EXCEPT ![u] = "RUNNING"]
    /\ \E d \in {e \in Cores : occupant[e] = None} \cup {None}, S \in SUBSET m_to_release :
          /\ DoRelease(m_to_release, IF d = None THEN 0 ELSE 1, S)
          /\ m_to_release' = m_to_release \ S
          /\ Signalled(S)
          /\ pc' = [PcWoken(S) EXCEPT ![u] = "run"]
          /\ m_local_clock_list' = ClocksWithout({u})
          /\ IF d = None THEN UNCHANGED <<occupant, elapsed>>
             ELSE /\ occupant' = MoveTo(occupant, d, u)
                  /\ elapsed' = TimeOn(d, u, elapsed[c])
    /\ UNCHANGED <<timeout, m_barrier_acquire_list, m_core_thread, timeVars, modeVars,
                   m_next_sync_time, entry, call>>

-----------------------------------------------------------------------------
(***************************************************************************)
(* Mode switches: a thread enters or leaves the region of interest         *)
(***************************************************************************)

AbortAndKeep ==              \* mutant: the flags are not cleared
    LET waiting == {c \in Cores : m_barrier_acquire_list[c]} IN
    Signalled(waiting) /\ pc' = PcWoken(waiting) /\ UNCHANGED m_barrier_acquire_list

\* abortBarrier()
AbortBarrier ==
    LET waiting == {c \in Cores : m_barrier_acquire_list[c]} IN
    /\ m_barrier_acquire_list' = [c \in Cores |-> FALSE]
    /\ Signalled(waiting) /\ pc' = PcWoken(waiting)

\* Simulator::setInstrumentationMode() -> setDisable()
SetDisable(disable) ==
    /\ setup.mode = "disable"
    /\ m_disable' = disable
    /\ IF disable THEN AbortBarrier ELSE UNCHANGED <<m_barrier_acquire_list, condVars, pc>>
    /\ UNCHANGED <<timeVars, m_fastforward, setup>>

\* FastForwardPerformanceManager::enable() and ::disable()
SetFastForward(fastforward) ==
    /\ setup.mode = "fastforward"
    /\ m_fastforward' = fastforward
    /\ m_next_barrier_time' =
          Latest({elapsed[c] : c \in {d \in Cores : fastforward \/ CoreRunning(occupant, status, d)}},
                 m_next_barrier_time)
    /\ AbortBarrier
    /\ UNCHANGED <<m_global_time, m_disable, setup>>

SwitchMode(t, c) ==
    /\ InUser(t, c)
    /\ SetDisable(~m_disable) \/ SetFastForward(~m_fastforward)
    /\ UNCHANGED <<m_local_clock_list, m_core_thread, m_to_release, m_next_sync_time,
                   threadVars, entry, call>>

\* a script ends the region of interest from HOOK_PERIODIC
ScriptDisables ==
    /\ call.op = "timeouts" /\ "script" \in setup.ops /\ ~m_disable
    /\ SetDisable(TRUE)
    /\ UNCHANGED <<m_local_clock_list, m_core_thread, m_to_release, m_next_sync_time,
                   threadVars, entry, call>>

-----------------------------------------------------------------------------
LockHolder == TimeoutStep \/ PassStep \/ BodyStep \/ StalledStep \/ ScriptDisables

Thread(t) ==
    \/ Block(t)
    \/ Return(t)
    \/ Unscheduled(t)
    \/ \E c \in Cores :
          \/ \E d \in Steps : Execute(t, c, d)
          \/ "stall" \in setup.ops /\ Stall(t, c, None)
          \/ "sleep" \in setup.ops /\ Stall(t, c, elapsed[c] + Interval)
          \/ "exit" \in setup.ops /\ Exit(t, c)
          \/ \E u \in Threads : Wake(t, c, u)
          \/ SwitchMode(t, c)

Next == LockHolder \/ \E t \in Threads : Thread(t)

Spec == Init /\ [][Next]_vars

-----------------------------------------------------------------------------
(***************************************************************************)
(* Properties                                                              *)
(***************************************************************************)

\* The barrier is never found reached while cores released at the previous
\* one still wait to be woken up, and no core enters it twice: the assertions
\* of barrierRelease() and synchronize() hold (an abort for lack of any
\* timeout, the application's own deadlock, is allowed).
AssertionsHold ==
    call.op = "abort" => call.until /\ m_to_release = {}

InBarrier(t) == pc[t] \in {"prewait", "asleep"}

\* No wakeup is lost: a thread blocked in the barrier is waited for by the
\* server, or queued for release, or its signal is still in the futex word.
NoLostRelease ==
    \A t \in Threads : InBarrier(t) =>
       LET c == entry[t].c IN
       \/ m_barrier_acquire_list[c] /\ m_core_thread[c] = t
       \/ c \in m_to_release
       \/ pc[t] = "prewait" /\ m_futx[c] = 1

\* The barrier never stalls the simulation: when nobody holds the lock and
\* threads run, one of them is not blocked in the barrier for good.
BarrierMoves ==
    call.op = "none" /\ AnyThreadRunning =>
       \E t \in Threads : status[t] = "RUNNING" /\
          (~InBarrier(t) \/ (pc[t] = "prewait" /\ m_futx[entry[t].c] = 1))

\* Nobody who waits in the barrier is forgotten, and the barrier moves on.
NobodyForgotten == NoLostRelease /\ BarrierMoves

\* The barrier does its job: while threads keep their cores, a core that
\* simulates is at or after m_global_time and has not yet reached
\* m_next_barrier_time, so that two cores are less than an interval apart.
ClockSkewBounded ==
    \A t \in Threads, c \in Cores :
       /\ occupant[c] = t /\ status[t] = "RUNNING" /\ pc[t] = "run" /\ call.op = "none"
       /\ setup.ops = {} /\ setup.mode = "detailed"
       => m_global_time <= elapsed[c] /\ elapsed[c] < m_next_barrier_time

-----------------------------------------------------------------------------
(***************************************************************************)
(* Liveness.  The host runs every host thread that can run, and hands the  *)
(* lock to every thread that keeps asking for it.  Nothing is assumed of   *)
(* stalls, wakeups, exits and mode switches.                               *)
(***************************************************************************)

Fairness ==
    /\ WF_vars(TimeoutStep \/ PassStep \/ BodyStep \/ StalledStep)
    /\ \A t \in Threads :
          /\ WF_vars(Block(t))
          /\ SF_vars(Return(t))
          /\ SF_vars(Unscheduled(t))
          /\ SF_vars(\E c \in Cores, d \in Steps : Execute(t, c, d))

LiveSpec == Spec /\ Fairness

\* a core is at the bound on simulated time and simulates no further
AtBound == \E c \in Cores : \A d \in Steps : elapsed[c] + d > MaxTime

\* Every thread that enters the barrier leaves it.
BarrierReleases == \A t \in Threads : InBarrier(t) ~> (~InBarrier(t) \/ AtBound)

\* Time goes on for sleeping threads: when no thread runs, advance() moves the
\* barrier until their timeouts expire (stallThread()).
SleepersWake == \A t \in Threads : timeout[t] # None ~> (timeout[t] = None \/ AtBound)

\* Whoever waits, in the barrier or for a timeout, goes on.
EveryoneGoesOn == BarrierReleases /\ SleepersWake

-----------------------------------------------------------------------------
(***************************************************************************)
(* The setups that are model-checked: for safety, for liveness, and exits  *)
(* of threads while others sleep                                           *)
(***************************************************************************)

Detailed(ops) == [mode |-> "detailed", ops |-> ops]
Roi           == [mode |-> "disable", ops |-> {"exit", "script"}]
FastForward   == [mode |-> "fastforward", ops |-> {}]

SafeSetups == {Detailed({"preempt"}), Roi, FastForward, Detailed({})}
LiveSetups == {Detailed({"stall", "sleep"}), FastForward}
ExitsOnly  == {Detailed({"sleep", "exit"})}
=============================================================================
