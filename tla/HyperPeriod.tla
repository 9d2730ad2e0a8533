----------------------------- MODULE HyperPeriod -----------------------------
(***************************************************************************)
(* Periodic workloads: the scheduler of the MODIFIED_CODE,                 *)
(* PERIODIC_WORKLOAD and USE_RMU build.  The applications are divided into *)
(* hyper-periods.  All main threads are created at the start; those of     *)
(* later hyper-periods get no core until the exits of all threads of the   *)
(* hyper-period before have been counted.  The last exit evaluates         *)
(* temperature and aging, runs the mapping algorithm, reads the new        *)
(* mapping and places the main threads that waited.                        *)
(*                                                                         *)
(* The score of reschedule() is abstracted to a choice among the eligible  *)
(* threads (PinnedScheduler has it).  Every affinity is a single core:     *)
(* applications that call sched_setaffinity() are not modelled, nor are    *)
(* applications that restart.                                              *)
(***************************************************************************)
EXTENDS Integers, Sequences, FiniteSets, SequencesExt

CONSTANTS
    NumCores,
    NumPeriods,         \* traceinput/num_apps divided by num_app_per_hyper_period
    AppsPerPeriod,      \* num_app_per_hyper_period
    ThreadsOf,          \* how many threads the i-th application of a period has
    Mappings            \* the mappings the initial file and the algorithm may give

Cores   == 0 .. NumCores - 1
NumApps == NumPeriods * AppsPerPeriod
Apps    == 0 .. NumApps - 1
Slots   == UNION {{<<i, k>> : k \in 0 .. ThreadsOf[i] - 1} : i \in 0 .. AppsPerPeriod - 1}

\* thread <<a, k>> is the k-th thread that application a creates
Threads == UNION {{<<a, k>> : k \in 0 .. ThreadsOf[a % AppsPerPeriod] - 1} : a \in Apps}
None    == <<-1, -1>>
NoCore  == -1

App(t)    == t[1]
Period(t) == App(t) \div AppsPerPeriod

OneThreadOver  == Cardinality(Slots) + 1

\* num_threads_per_hyper_period, the sum over the configured applications
ThreadsPerPeriod == Cardinality(Slots)

ASSUME HyperPeriodAssumption ==
    /\ NumCores \in Nat \ {0} /\ NumPeriods \in Nat \ {0} /\ AppsPerPeriod \in Nat \ {0}
    /\ ThreadsOf \in [0 .. AppsPerPeriod - 1 -> Nat \ {0}]
    /\ Mappings \subseteq [Slots -> Cores]

VARIABLES
    m_hyper_period_number, m_num_threads_exited,
    threads_of_app,         \* the threads that wait for their hyper-period
    current_thread_count,
    core_thread_map,        \* (application, rank) -> core, as far as it has been read
    mw_rank_of_thread, threads_on_core,
    sched,                  \* the scheduler's and the thread manager's placement
    hyper_period_number,    \* CoreInfo's, the same for every core's RMU
    log,                    \* the evaluations of temperature, MTTF and aging so far
    created,                \* how many main threads TraceManager::init() has created
    visiting                \* the core periodic() is at

vars == <<m_hyper_period_number, m_num_threads_exited, threads_of_app, current_thread_count,
          core_thread_map, mw_rank_of_thread, threads_on_core, sched,
          hyper_period_number, log, created, visiting>>

countVars == <<m_hyper_period_number, m_num_threads_exited, hyper_period_number, log>>
mapVars   == <<threads_of_app, current_thread_count, core_thread_map, mw_rank_of_thread,
               threads_on_core>>

\* NONE: not created.  UNSCHED: stalled for want of a core.
Status == {"NONE", "INITIALIZING", "RUNNING", "UNSCHED", "STALLED", "IDLE"}

Scheds == [
    core_thread : [Cores -> Threads \cup {None}],    \* m_core_thread_running
    core_running : [Threads -> Cores \cup {NoCore}], \* ThreadInfo::m_core_running
    affinity : [Threads -> SUBSET Cores],
    runnable : [Threads -> BOOLEAN],                 \* m_threads_runnable
    m_core : [Threads -> Cores \cup {NoCore}],       \* Thread::m_core
    status : [Threads -> Status],
    failed : BOOLEAN]                                \* the assertion of Thread::setCore()

TypeOK ==
    /\ m_hyper_period_number \in 0 .. NumPeriods - 1
    /\ m_num_threads_exited \in 0 .. ThreadsPerPeriod
    /\ threads_of_app \in [Apps -> Seq(Threads)]
    /\ current_thread_count \in [Apps -> 0 .. Cardinality(Threads)]
    /\ core_thread_map \in [Threads -> Cores \cup {NoCore}]
    /\ mw_rank_of_thread \in [Threads -> Nat \cup {-1}]
    /\ threads_on_core \in [Cores -> SUBSET Threads]
    /\ sched \in Scheds
    /\ hyper_period_number \in 0 .. NumPeriods - 1
    /\ log \in Seq([number : 0 .. NumPeriods - 1, active : SUBSET Cores])
    /\ created \in 0 .. NumApps /\ visiting \in 0 .. NumCores

\* the rows of a mapping file, entered for the applications of hyper-period p
WithMapping(map, mapping, p) ==
    [t \in Threads |-> IF Period(t) = p /\ map[t] = NoCore
                       THEN mapping[<<App(t) % AppsPerPeriod, t[2]>>] ELSE map[t]]

Init ==
    /\ m_hyper_period_number = 0 /\ m_num_threads_exited = 0
    /\ threads_of_app = [a \in Apps |-> <<>>]
    /\ current_thread_count = [a \in Apps |-> 0]
    /\ \E mapping \in Mappings :
          core_thread_map = WithMapping([t \in Threads |-> NoCore], mapping, 0)
    /\ mw_rank_of_thread = [t \in Threads |-> -1]
    /\ threads_on_core = [c \in Cores |-> {}]
    /\ sched = [core_thread |-> [c \in Cores |-> None],
                core_running |-> [t \in Threads |-> NoCore],
                affinity |-> [t \in Threads |-> {}],
                runnable |-> [t \in Threads |-> FALSE],
                m_core |-> [t \in Threads |-> NoCore],
                status |-> [t \in Threads |-> "NONE"],
                failed |-> FALSE]
    /\ hyper_period_number = 0 /\ log = <<>> /\ created = 0 /\ visiting = NumCores

-----------------------------------------------------------------------------
(***************************************************************************)
(* The parts the handlers are made of, from one sched to the next          *)
(***************************************************************************)

\* Thread::setCore(): the core must have no thread
SetCore(s, t, c) ==
    [s EXCEPT !.m_core[t] = c,
              !.failed = @ \/ (c # NoCore /\ \E u \in Threads \ {t} : s.m_core[u] = c)]

\* moveThread().  The threadResume() it calls back finds no free core: the one
\* core of the thread's affinity is already taken, by itself.
MoveThread(s, t, c) ==
    LET resumed == IF c # NoCore /\ s.m_core[t] = NoCore /\ s.status[t] = "UNSCHED"
                   THEN [s EXCEPT !.status[t] = "RUNNING", !.runnable[t] = TRUE] ELSE s
    IN  SetCore(resumed, t, c)

Eligible(s, c) ==
    {t \in Threads : c \in s.affinity[t] /\ s.runnable[t] /\ s.core_running[t] \in {NoCore, c}}

\* the thread reschedule() chooses for core c: any eligible one
Candidates(s, c) ==
    LET current == s.core_thread[c] IN
    IF current # None /\ s.status[current] = "INITIALIZING" THEN {current}
    ELSE IF Eligible(s, c) = {} THEN {None} ELSE Eligible(s, c)

\* reschedule() of core c, once it has chosen u
Reschedule(s, c, u) ==
    LET current == s.core_thread[c]
        off == IF current = None THEN s
               ELSE MoveThread([s EXCEPT !.core_running[current] = NoCore], current, NoCore)
        set == [off EXCEPT !.core_thread[c] = u]
    IN  IF u = current THEN s
        ELSE IF u = None THEN set
        ELSE MoveThread([set EXCEPT !.core_running[u] = c], u, c)

\* findFreeCoreForThread()
FreeCores(s, t) == {c \in s.affinity[t] : s.core_thread[c] = None}

\* threadStart() and threadResume(): reschedule() of a free core, if there is one
Rescheduled(s, t) ==
    IF FreeCores(s, t) = {} THEN {s}
    ELSE LET c == CHOOSE d \in FreeCores(s, t) : \A e \in FreeCores(s, t) : d <= e
         IN  {Reschedule(s, c, u) : u \in Candidates(s, c)}

-----------------------------------------------------------------------------
(***************************************************************************)
(* Thread creation                                                         *)
(***************************************************************************)

\* core_thread_map[(application, rank)]; a missing entry reads as core 0
CoreFor(map, key) == IF key \in Threads /\ map[key] # NoCore THEN map[key] ELSE 0

\* mutant: off by one hyper-period
DeferredLate(t) == App(t) >= (m_hyper_period_number + 2) * AppsPerPeriod

\* does threadCreate() put t aside for a later hyper-period
Deferred(t) == App(t) >= (m_hyper_period_number + 1) * AppsPerPeriod

Counted(t) == [current_thread_count EXCEPT ![App(t)] = @ + 1]

\* createThread_unlocked() and threadCreate(), with threadSetInitialAffinity()
CreateThread(t) ==
    LET rank == current_thread_count[App(t)]
        c    == CoreFor(core_thread_map, <<App(t), rank>>)
        new  == [sched EXCEPT !.status[t] = "INITIALIZING"]
        free == new.core_thread[c] = None
    IN  /\ current_thread_count' = Counted(t)
        /\ UNCHANGED <<core_thread_map, countVars, visiting>>
        /\ IF Deferred(t)
           THEN /\ threads_of_app' = [threads_of_app EXCEPT ![App(t)] = Append(@, t)]
                /\ sched' = new
                /\ UNCHANGED <<mw_rank_of_thread, threads_on_core>>
           ELSE /\ mw_rank_of_thread' = [mw_rank_of_thread EXCEPT ![t] = rank]
                /\ threads_on_core' = [threads_on_core EXCEPT ![c] = @ \cup {t}]
                /\ sched' = IF free
                            THEN SetCore([new EXCEPT !.affinity[t] = {c}, !.core_running[t] = c,
                                                     !.core_thread[c] = t], t, c)
                            ELSE [new EXCEPT !.affinity[t] = {c}]
                /\ UNCHANGED threads_of_app

\* TraceManager::init() creates the main threads before any thread starts
CreateMain ==
    /\ created < NumApps
    /\ CreateThread(<<created, 0>>)
    /\ created' = created + 1

Ready == created = NumApps /\ visiting = NumCores /\ ~sched.failed

\* t executes application code
InUser(t) == Ready /\ sched.status[t] = "RUNNING" /\ sched.m_core[t] # NoCore

\* t creates the next thread of its application
Spawn(t) ==
    /\ InUser(t)
    /\ \E u \in Threads :
          /\ App(u) = App(t) /\ sched.status[u] = "NONE"
          /\ \A k \in 0 .. u[2] - 1 : sched.status[<<App(u), k>>] # "NONE"
          /\ CreateThread(u)
    /\ UNCHANGED created

\* onThreadStart()
OnThreadStart(t) ==
    /\ Ready /\ sched.status[t] = "INITIALIZING"
    /\ \E s \in Rescheduled([sched EXCEPT !.runnable[t] = TRUE, !.status[t] = "RUNNING"], t) :
          sched' = IF s.m_core[t] = NoCore THEN [s EXCEPT !.status[t] = "UNSCHED"] ELSE s
    /\ UNCHANGED <<countVars, mapVars, created, visiting>>

-----------------------------------------------------------------------------
(***************************************************************************)
(* Stalls, wakeups and time sharing                                        *)
(***************************************************************************)

\* stallThread() for a reason other than STALL_UNSCHEDULED
Stall(t) ==
    /\ InUser(t)
    /\ LET s == [sched EXCEPT !.status[t] = "STALLED", !.runnable[t] = FALSE]
           c == s.core_running[t]
       IN  \E u \in Candidates(s, c) : sched' = Reschedule(s, c, u)
    /\ UNCHANGED <<countVars, mapVars, created, visiting>>

\* resumeThread(), by another thread or by a timeout
Resume(t) ==
    /\ Ready /\ sched.status[t] = "STALLED"
    /\ sched' \in Rescheduled([sched EXCEPT !.status[t] = "RUNNING", !.runnable[t] = TRUE], t)
    /\ UNCHANGED <<countVars, mapVars, created, visiting>>

\* Thread::reschedule(): a thread that lost its core, or woke up without, waits
Unscheduled(t) ==
    /\ Ready /\ sched.status[t] = "RUNNING" /\ sched.m_core[t] = NoCore
    /\ sched' = [sched EXCEPT !.status[t] = "UNSCHED"]
    /\ UNCHANGED <<countVars, mapVars, created, visiting>>

\* periodic() reschedules the cores that are idle or at the end of their quantum
PeriodicBegin ==
    /\ Ready
    /\ visiting' = 0
    /\ UNCHANGED <<countVars, mapVars, sched, created>>

PeriodicCore ==
    /\ visiting < NumCores
    /\ visiting' = visiting + 1
    /\ \/ sched.core_thread[visiting] # None /\ sched' = sched
       \/ \E u \in Candidates(sched, visiting) : sched' = Reschedule(sched, visiting, u)
    /\ UNCHANGED <<countVars, mapVars, created>>

-----------------------------------------------------------------------------
(***************************************************************************)
(* Thread exit and the change of hyper-period                              *)
(***************************************************************************)

\* updateMTTF() and updateAging() of every core, as the n-th evaluation
Evaluation(n) == [number |-> n, active |-> {c \in Cores : threads_on_core[c] # {}}]

\* the main threads that the hyper-period p has been waiting with, in order
Waiting(p) == FlattenSeq([i \in 1 .. AppsPerPeriod |-> threads_of_app[p * AppsPerPeriod + i - 1]])

\* one iteration of the placement loop: t goes to core c
Place(s, t, c) ==
    MoveThread([s EXCEPT !.affinity[t] = {c}, !.core_thread[c] = t, !.core_running[t] = c], t, c)

\* thread_count in the loops over threads_of_app
RankOf(t) == (CHOOSE i \in DOMAIN threads_of_app[App(t)] : threads_of_app[App(t)][i] = t) - 1

PlaceAll(s, ts, map) ==
    FoldLeft(LAMBDA x, t : Place(x, t, CoreFor(map, <<App(t), RankOf(t)>>)), s, ts)

\* threads_on_core after clear() and the placement loop
Listed(ts, map) ==
    [c \in Cores |-> {t \in ToSet(ts) : CoreFor(map, <<App(t), RankOf(t)>>) = c}]

CountReset == 0

\* the next hyper-period starts: evaluation, new mapping, placement; s is the
\* placement after the last thread has left its core
Flip(s) ==
    LET p == m_hyper_period_number + 1
        ts == Waiting(p)
    IN  \E mapping \in Mappings :
        LET map == WithMapping(core_thread_map, mapping, p) IN
        /\ hyper_period_number' = m_hyper_period_number
        /\ log' = Append(log, Evaluation(m_hyper_period_number))
        /\ m_hyper_period_number' = p
        /\ m_num_threads_exited' = CountReset
        /\ core_thread_map' = map
        /\ threads_on_core' = Listed(ts, map)
        /\ mw_rank_of_thread' = [t \in Threads |->
              IF t \in ToSet(ts) THEN RankOf(t) ELSE mw_rank_of_thread[t]]
        /\ sched' = PlaceAll(s, ts, map)

\* the end of the last hyper-period; setHyperPeriodNumber() is not called
LastPeriod(s) ==
    /\ log' = Append(log, Evaluation(hyper_period_number))
    /\ m_num_threads_exited' = m_num_threads_exited + 1
    /\ sched' = s
    /\ UNCHANGED <<m_hyper_period_number, hyper_period_number, core_thread_map,
                   threads_on_core, mw_rank_of_thread>>

\* onThreadExit() and threadExit(); an application ends its main thread only
\* after it has created the threads it was configured with
OnThreadExit(t) ==
    /\ InUser(t)
    /\ \A u \in Threads : App(u) = App(t) => sched.status[u] # "NONE"
    /\ LET gone == [sched EXCEPT !.status[t] = "IDLE", !.runnable[t] = FALSE, !.m_core[t] = NoCore]
           c == gone.core_running[t]
           exited == m_num_threads_exited + 1
       IN \E u \in Candidates(gone, c) :
          LET s == Reschedule(gone, c, u) IN
          \/ /\ exited = ThreadsPerPeriod /\ m_hyper_period_number < NumPeriods - 1
             /\ Flip(s)
          \/ /\ exited = ThreadsPerPeriod /\ m_hyper_period_number = NumPeriods - 1
             /\ LastPeriod(s)
          \/ /\ exited # ThreadsPerPeriod
             /\ m_num_threads_exited' = exited
             /\ sched' = s
             /\ UNCHANGED <<m_hyper_period_number, hyper_period_number, log, core_thread_map,
                            threads_on_core, mw_rank_of_thread>>
    /\ UNCHANGED <<threads_of_app, current_thread_count, created, visiting>>

-----------------------------------------------------------------------------
Thread(t) == \/ Spawn(t) \/ OnThreadStart(t) \/ Stall(t) \/ Resume(t)
             \/ Unscheduled(t) \/ OnThreadExit(t)

Next == CreateMain \/ PeriodicBegin \/ PeriodicCore \/ \E t \in Threads : Thread(t)

Spec == Init /\ [][Next]_vars

-----------------------------------------------------------------------------
(***************************************************************************)
(* Properties                                                              *)
(***************************************************************************)

\* The assertion of Thread::setCore() holds: no thread is put on a core that
\* another thread still has, neither by reschedule() nor by the placement loop
\* of a new hyper-period.
NoDoublePlacement == ~sched.failed

\* The scheduler's two maps agree with each other and with the threads' own
\* cores, also right after a new hyper-period's threads were placed behind
\* reschedule()'s back.
MapsAgree ==
    \A t \in Threads, c \in Cores :
       /\ sched.core_thread[c] = t <=> sched.core_running[t] = c
       /\ sched.m_core[t] = c <=> sched.core_running[t] = c

\* Threads of a later hyper-period have no core and no affinity until their
\* hyper-period begins.
LaterPeriodsWait ==
    \A t \in Threads : Period(t) > m_hyper_period_number =>
       sched.affinity[t] = {} /\ sched.core_running[t] = NoCore /\ sched.m_core[t] = NoCore

\* Hyper-periods do not overlap: when one begins, every thread of the earlier
\* ones has exited, so that counting exits suffices.
PeriodsDoNotOverlap ==
    \A t \in Threads : Period(t) < m_hyper_period_number => sched.status[t] = "IDLE"

\* Every thread runs where the mapping file of its hyper-period wants it: the
\* k-th thread of an application has rank k, whether it was put aside at its
\* creation or created while its hyper-period was on.
PlacedAsMapped ==
    \A t \in Threads : sched.affinity[t] # {} =>
       sched.affinity[t] = {core_thread_map[t]} /\ mw_rank_of_thread[t] = t[2]

\* threads_on_core, from which the mapping algorithm's input and the cores'
\* activity are derived, lists exactly the threads of the current hyper-period.
ListsCurrentThreads ==
    \A c \in Cores :
       threads_on_core[c] =
          {t \in Threads : Period(t) = m_hyper_period_number /\ sched.affinity[t] = {c}}

\* Temperature and aging are evaluated exactly once for each hyper-period, with
\* the cores its threads were mapped to counted as active, even those whose
\* threads exited long before.
EvaluatedOnce ==
    /\ Len(log) \in {m_hyper_period_number, m_hyper_period_number + 1}
    /\ \A i \in DOMAIN log :
          log[i].active = {core_thread_map[t] : t \in {u \in Threads : Period(u) = i - 1}}
    /\ (\A t \in Threads : sched.status[t] = "IDLE") <=> Len(log) = NumPeriods

\* The hyper-periods follow one another: threads of different ones never meet, each
\* runs where its own mapping wants it, and each hyper-period is evaluated as it was.
PeriodsApart ==
    /\ NoDoublePlacement /\ MapsAgree
    /\ LaterPeriodsWait /\ PeriodsDoNotOverlap
    /\ PlacedAsMapped /\ ListsCurrentThreads /\ EvaluatedOnce

\* Each evaluation is made under the number of its own hyper-period, which
\* weighs the running means of RMU_TC, RMU_TDDB and RMU_NBTI; the branch for the
\* last hyper-period is meant to do the same calculation as the others.
EvaluatedUnderOwnNumber == \A i \in DOMAIN log : log[i].number = i - 1

-----------------------------------------------------------------------------
(***************************************************************************)
(* Liveness.  Some thread that can start, create a thread it is configured *)
(* with, or come to its end does so; when threads are stalled some thread  *)
(* is resumed; barriers, and with them periodic(), go on.                  *)
(***************************************************************************)
Progress == \E t \in Threads : OnThreadStart(t) \/ Spawn(t) \/ OnThreadExit(t)

Fairness ==
    /\ WF_vars(CreateMain) /\ WF_vars(PeriodicBegin) /\ WF_vars(PeriodicCore)
    /\ SF_vars(Progress) /\ SF_vars(\E t \in Threads : Resume(t))

LiveSpec == Spec /\ Fairness

\* Every hyper-period comes to its end and is evaluated; in particular the
\* threads that were put aside get their cores and run.
AllPeriodsFinish == <>(Len(log) = NumPeriods)

-----------------------------------------------------------------------------
(***************************************************************************)
(* The instance that is model-checked                                      *)
(***************************************************************************)

\* two applications, the first of which has a second thread
TwoAndOne == [i \in 0 .. 1 |-> 2 - i]

\* main threads on different cores, the second thread of the first application
\* on either, where it shares the core
MainsApart == {m \in [Slots -> Cores] : m[<<0, 0>>] # m[<<1, 0>>]}
=============================================================================
