--------------------------- MODULE PinnedScheduler ---------------------------
(***************************************************************************)
(* Threads, cores and the scheduler that pairs them: ThreadManager,        *)
(* Thread::setCore / Thread::reschedule, SchedulerDynamic's hooks and      *)
(* SchedulerPinnedBase, in the build without MODIFIED_CODE.                *)
(*                                                                         *)
(* Every handler runs under ThreadManager::m_thread_lock.  A handler that  *)
(* calls the scheduler several times (periodic() visits every core;        *)
(* moveThread() may call back into threadResume()) is a chain of steps:    *)
(* "call" says where the lock holder is in its handler and "m_resumed" is  *)
(* the thread whose HOOK_THREAD_RESUME callback it has to run first.       *)
(* No other handler starts before call.op is "none" again.                 *)
(*                                                                         *)
(* Times are relative to m_last_periodic and shifted when it advances.     *)
(***************************************************************************)
EXTENDS Integers, FiniteSets

CONSTANTS
    NumThreads,          \* threads the applications create at most
    NumCores,            \* general/total_cores
    AffinityMasks,       \* masks given to sched_setaffinity
    InitialAffinities,   \* masks threadSetInitialAffinity may choose
    Quantum,             \* m_quantum
    Interval,            \* barrier quantum: time between two periodic() calls
    LocalTimes,          \* core-local times since the last barrier
    MaxAge,              \* bound: ages beyond it are not told apart
    AppCalls,            \* what the applications do, among AllAppCalls
    EarlyJoin            \* may a thread join one that has not started yet

Threads == 0 .. NumThreads - 1
Cores   == 0 .. NumCores - 1
NoThread == -1           \* INVALID_THREAD_ID
NoCore   == -1           \* INVALID_CORE_ID

ASSUME SizesAssumption == NumThreads \in Nat \ {0} /\ NumCores \in Nat \ {0}
ASSUME MasksAssumption ==
    /\ AffinityMasks \subseteq (SUBSET Cores) \ {{}}
    /\ InitialAffinities \subseteq (SUBSET Cores) \ {{}}
ASSUME TimesAssumption ==
    /\ Quantum \in Nat /\ Interval \in Nat \ {0} /\ MaxAge \in Nat
    /\ LocalTimes \subseteq 0 .. Interval
AllAppCalls == {"sync", "syscall", "join", "yield", "affinity", "exit"}
ASSUME AppAssumption == AppCalls \subseteq AllAppCalls /\ EarlyJoin \in BOOLEAN

\* Core::State of a core
CoreStates == {"INITIALIZING", "RUNNING", "IDLE"}
\* stall_type_t.  FUTEX stands for MUTEX, COND, BARRIER, FUTEX and SLEEP: another
\* thread or a timeout resumes the thread.  SYSCALL: it resumes itself.
Reasons == {"UNSCHEDULED", "FUTEX", "JOIN", "SYSCALL"}
\* ThreadState: its status or, when that is Core::STALLED, its stalled_reason;
\* "NONE" is a thread that does not exist yet
States == CoreStates \cup Reasons \cup {"NONE"}
\* Where the host thread is: not started, in application code, blocked in
\* Thread::wait(), past it, in a native blocking system call, or gone.
HostStates == {"none", "created", "user", "wait", "woken", "blocked", "gone"}

VARIABLES
    \* ThreadManager
    status, waiter,
    \* Thread::m_core, Core::m_thread, Core::m_core_state
    m_core, m_thread, core_state,
    \* SchedulerDynamic, SchedulerPinnedBase
    m_threads_runnable, m_core_affinity, m_core_running,
    m_core_thread_running, m_quantum_left,
    m_last_scheduled,   \* m_last_scheduled_in of a running thread, else .._out
    \* host threads, and the handler that holds m_thread_lock
    host, joining, call, m_resumed

tmVars    == <<status, waiter>>
placeVars == <<m_core, m_thread, core_state>>
schedVars == <<m_threads_runnable, m_core_affinity, m_core_running,
               m_core_thread_running, m_quantum_left, m_last_scheduled>>
vars == <<tmVars, placeVars, schedVars, host, joining, call, m_resumed>>

Calls == {"none", "start", "resched", "return", "futexwake", "exit", "yield",
          "yieldtail", "timeouts", "pass", "passend"}
NoCall == [op |-> "none", t |-> NoThread, c |-> NoCore, tm |-> 0]
Call(o, t, c, tm) == [op |-> o, t |-> t, c |-> c, tm |-> tm]

TypeOK ==
    /\ status \in [Threads -> States]
    /\ waiter \in [Threads -> Threads \cup {NoThread}]
    /\ m_core \in [Threads -> Cores \cup {NoCore}]
    /\ m_thread \in [Cores -> Threads \cup {NoThread}]
    /\ core_state \in [Cores -> CoreStates]
    /\ m_threads_runnable \in [Threads -> BOOLEAN]
    /\ m_core_affinity \in [Threads -> SUBSET Cores]
    /\ m_core_running \in [Threads -> Cores \cup {NoCore}]
    /\ m_core_thread_running \in [Cores -> Threads \cup {NoThread}]
    /\ m_quantum_left \in [Cores -> Int]
    /\ m_last_scheduled \in [Threads -> Int]
    /\ host \in [Threads -> HostStates]
    /\ joining \in [Threads -> Threads \cup {NoThread}]
    /\ call \in [op : Calls, t : Threads \cup {NoThread},
                 c : Cores \cup {NoCore}, tm : Int]
    /\ m_resumed \in Threads \cup {NoThread}

Init ==
    /\ status = [t \in Threads |-> "NONE"]
    /\ waiter = [t \in Threads |-> NoThread]
    /\ m_core = [t \in Threads |-> NoCore]
    /\ m_thread = [c \in Cores |-> NoThread]
    /\ core_state = [c \in Cores |-> "IDLE"]
    /\ m_threads_runnable = [t \in Threads |-> FALSE]
    /\ m_core_affinity = [t \in Threads |-> {}]
    /\ m_core_running = [t \in Threads |-> NoCore]
    /\ m_core_thread_running = [c \in Cores |-> NoThread]
    /\ m_quantum_left = [c \in Cores |-> 0]
    /\ m_last_scheduled = [t \in Threads |-> -MaxAge]
    /\ host = [t \in Threads |-> "none"]
    /\ joining = [t \in Threads |-> NoThread]
    /\ call = NoCall
    /\ m_resumed = NoThread

-----------------------------------------------------------------------------
(***************************************************************************)
(* SchedulerPinnedBase::findFreeCoreForThread and ::reschedule             *)
(***************************************************************************)

Lowest(S, c) == c \in S /\ \A d \in S : c <= d

FreeCores(mask) == {c \in mask : m_core_thread_running[c] = NoThread}

FindAnyCore(mask, c) == Lowest(mask, c)   \* mutant: busy cores count as free

\* c is what findFreeCoreForThread returns for a thread of this affinity
FindFreeCore(mask, c) ==
    IF FreeCores(mask) = {} THEN c = NoCore ELSE Lowest(FreeCores(mask), c)

EligibleStalled(c) ==        \* mutant: m_threads_runnable is not consulted
    {t \in Threads : c \in m_core_affinity[t] /\ m_core_running[t] \in {NoCore, c}}

Eligible(c) ==
    {t \in Threads : /\ c \in m_core_affinity[t]
                     /\ m_threads_runnable[t]
                     /\ m_core_running[t] \in {NoCore, c}}

ScoreNewest(t, tm) ==        \* mutant: the sign of a waiting thread's age
    m_last_scheduled[t] - tm

Score(t, tm) ==
    IF m_core_running[t] # NoCore THEN m_last_scheduled[t] - tm
                                  ELSE tm - m_last_scheduled[t]

\* t is the new_thread_id reschedule() finds: highest score, lowest id on a tie
Chosen(c, tm, t) ==
    IF Eligible(c) = {} THEN t = NoThread
    ELSE /\ t \in Eligible(c)
         /\ \A u \in Eligible(c) : \/ Score(u, tm) < Score(t, tm)
                                   \/ Score(u, tm) = Score(t, tm) /\ t <= u

\* ThreadManager::moveThread(old, INVALID_CORE_ID) then moveThread(new, c):
\* what becomes of Thread::m_core, Core::m_thread and the cores' states
\* The callback of resumeThread(new), which the code runs inside the second move, is
\* left to ThreadResume, after it: m_core_thread_running and m_core_running have
\* their new values by then, so the callback finds neither c free nor new eligible,
\* and reads and writes nothing the rest of the move does.
MoveThreads(old, new, c) ==
    LET left == {m_core[t] : t \in {old, new} \cap Threads}
        moved(t) == t = new /\ status[t] = "UNSCHEDULED"
    IN  /\ status' = [t \in Threads |-> IF moved(t) THEN "RUNNING" ELSE status[t]]
        /\ host' = [t \in Threads |->
              IF moved(t) /\ host[t] = "wait" THEN "woken" ELSE host[t]]
        /\ m_threads_runnable' = [t \in Threads |-> moved(t) \/ m_threads_runnable[t]]
        /\ m_resumed' = IF new # NoThread /\ moved(new) THEN new ELSE NoThread
        /\ m_core' = [t \in Threads |-> IF t = new THEN c
                                        ELSE IF t = old THEN NoCore ELSE m_core[t]]
        /\ m_thread' = [d \in Cores |-> IF d = c /\ new # NoThread THEN new
                                        ELSE IF d \in left THEN NoThread ELSE m_thread[d]]
        /\ core_state' = [d \in Cores |->
              IF d = c /\ new # NoThread /\ status'[new] \notin Reasons THEN "RUNNING"
              ELSE IF d \in left THEN "IDLE" ELSE core_state[d]]

\* reschedule(tm, c): sets every variable but "call"
Reschedule(c, tm) ==
    /\ UNCHANGED <<waiter, m_core_affinity, joining>>
    /\ LET old == m_core_thread_running[c] IN
       IF old # NoThread /\ status[old] = "INITIALIZING"
       THEN /\ m_resumed' = NoThread
            /\ UNCHANGED <<status, host, placeVars, m_threads_runnable, m_core_running,
                           m_core_thread_running, m_quantum_left, m_last_scheduled>>
       ELSE \E new \in Threads \cup {NoThread} :
            /\ Chosen(c, tm, new)
            /\ m_quantum_left' = [m_quantum_left EXCEPT ![c] = Quantum]
            /\ IF new = old
               THEN /\ m_resumed' = NoThread
                    /\ UNCHANGED <<status, host, placeVars, m_threads_runnable,
                                   m_core_running, m_core_thread_running,
                                   m_last_scheduled>>
               ELSE /\ MoveThreads(old, new, c)
                    /\ m_core_running' = [t \in Threads |->
                          IF t = new THEN c ELSE IF t = old THEN NoCore
                          ELSE m_core_running[t]]
                    /\ m_core_thread_running' = [m_core_thread_running EXCEPT ![c] = new]
                    /\ m_last_scheduled' = [t \in Threads |->
                          IF t = new THEN tm ELSE IF t = old THEN tm + c
                          ELSE m_last_scheduled[t]]

\* threadStart(t), threadResume(t): if one of t's cores is free, reschedule it
RescheduleFreeCore(t, tm) ==
    \E c \in Cores \cup {NoCore} :
       /\ FindFreeCore(m_core_affinity[t], c)
       /\ IF c # NoCore THEN Reschedule(c, tm)
          ELSE /\ m_resumed' = NoThread
               /\ UNCHANGED <<tmVars, placeVars, schedVars, host, joining>>

-----------------------------------------------------------------------------
(***************************************************************************)
(* Steps of the handler that holds the lock                                *)
(***************************************************************************)

Idle == call.op = "none" /\ m_resumed = NoThread
At(o) == call.op = o /\ m_resumed = NoThread

\* HOOK_THREAD_RESUME for the thread resumed last, before its handler goes on
ThreadResume ==
    /\ m_resumed # NoThread
    /\ RescheduleFreeCore(m_resumed, call.tm)
    /\ call' = IF call.op = "none" /\ m_resumed' = NoThread THEN NoCall ELSE call

\* ThreadManager::resumeThread(t): signal() it, set it RUNNING and runnable;
\* its HOOK_THREAD_RESUME is the next step
ResumeThread(t) ==
    /\ status' = [status EXCEPT ![t] = "RUNNING"]
    /\ host' = [host EXCEPT ![t] = IF @ = "wait" THEN "woken" ELSE @]
    /\ m_threads_runnable' = [m_threads_runnable EXCEPT ![t] = TRUE]
    /\ joining' = [joining EXCEPT ![t] = NoThread]
    /\ m_resumed' = t

StallRunnable(t, why) ==     \* mutant: threadStall() forgets m_threads_runnable
    status' = [status EXCEPT ![t] = why] /\ UNCHANGED m_threads_runnable

\* stallThread_async(t, why): STALLED, and HOOK_THREAD_STALL -> threadStall()
StallThread(t, why) ==
    /\ status' = [status EXCEPT ![t] = why]
    /\ m_threads_runnable' = [m_threads_runnable EXCEPT ![t] = @ /\ why = "UNSCHEDULED"]

\* the threads that application code can run in: on a core, RUNNING
InUser(t) == host[t] = "user" /\ m_core[t] # NoCore /\ status[t] = "RUNNING"

\* the barrier is reached only by cores that isCoreRunning() finds running
AnyCoreRunning ==
    \E c \in Cores : /\ core_state[c] = "RUNNING" /\ m_thread[c] # NoThread
                     /\ status[m_thread[c]] = "RUNNING"

\* signal(), in the same hook as the scheduler's part of it: the barrier may be
\* reached without us, and barrierRelease() run before the caller goes on
Signal(t, tm) ==
    \/ call' = Call("return", t, NoCore, tm)
    \/ AnyCoreRunning' /\ call' = Call("timeouts", t, NoCore, tm)

\* reschedule(m_core_running of the stalled or exited thread), then the barrier
\* server's turn
RescheduleStep ==
    /\ At("resched")
    /\ IF call.c # NoCore THEN Reschedule(call.c, call.tm)
       ELSE /\ m_resumed' = NoThread
            /\ UNCHANGED <<tmVars, placeVars, schedVars, host, joining>>
    /\ Signal(call.t, call.tm)

AnyThreadRunning == \E t \in Threads : status[t] \in {"RUNNING", "INITIALIZING"}

\* threads futexPeriodic() may resume: a timeout has expired
TimedOut == {t \in Threads : status[t] = "FUTEX"}

AlwaysSleeps(t) == TRUE      \* mutant: wait() without looking at the status again

\* stallThread(): the status is STALLED still, nobody resumed us meanwhile
Sleeps(t) == status[t] # "RUNNING"

\* stallThread() after stallThread_async(): advance() while nobody runs, then
\* wait() unless already resumed.  Other handlers end here and release the lock.
ReturnStep ==
    /\ At("return")
    /\ IF call.t # NoThread /\ host[call.t] \in {"user", "woken"}
       THEN \/ /\ ~AnyThreadRunning
               /\ call' = Call("timeouts", call.t, NoCore, call.tm)
               /\ UNCHANGED host
            \/ /\ AnyThreadRunning
               /\ call' = NoCall
               /\ host' = [host EXCEPT ![call.t] =
                     IF Sleeps(call.t) THEN "wait" ELSE "woken"]
       ELSE call' = NoCall /\ UNCHANGED host
    /\ UNCHANGED <<tmVars, placeVars, schedVars, joining, m_resumed>>

\* HOOK_PERIODIC: SyscallServer::futexPeriodic() resumes timed-out threads ...
TimeoutStep ==
    /\ At("timeouts")
    /\ \E t \in TimedOut : ResumeThread(t)
    /\ UNCHANGED <<waiter, placeVars, m_core_affinity, m_core_running,
                   m_core_thread_running, m_quantum_left, m_last_scheduled, call>>

\* ... and then SchedulerPinnedBase::periodic() visits the cores in order
PassBegin ==
    /\ At("timeouts")
    /\ call' = Call("pass", call.t, 0, Interval)
    /\ UNCHANGED <<tmVars, placeVars, schedVars, host, joining, m_resumed>>

LastCore(c) == c = NumCores - 1

PassStep ==
    /\ At("pass")
    /\ IF \/ Interval > m_quantum_left[call.c]
          \/ m_core_thread_running[call.c] = NoThread
       THEN Reschedule(call.c, Interval)
       ELSE /\ m_quantum_left' = [m_quantum_left EXCEPT ![call.c] = @ - Interval]
            /\ UNCHANGED <<tmVars, placeVars, m_threads_runnable, m_core_affinity,
                           m_core_running, m_core_thread_running, m_last_scheduled, host, joining, m_resumed>>
    /\ call' = IF LastCore(call.c) THEN Call("passend", call.t, NoCore, Interval)
                                        ELSE [call EXCEPT !.c = @ + 1]

Older(tm) == IF tm - Interval < -MaxAge THEN -MaxAge ELSE tm - Interval

\* m_last_periodic = time: the times are now relative to it ...
PassDone ==
    /\ At("passend")
    /\ m_last_scheduled' = [t \in Threads |-> Older(m_last_scheduled[t])]
    /\ UNCHANGED <<tmVars, placeVars, m_threads_runnable, m_core_affinity, m_core_running,
                   m_core_thread_running, m_quantum_left, host, joining, m_resumed>>

\* ... and barrierRelease() releases a core, or for advance() finds somebody
\* running, and returns to its caller,
PassEnd == AnyThreadRunning /\ PassDone /\ call' = Call("return", call.t, NoCore, 0)

\* or moves on by another interval.  It aborts, stopping here, when nobody runs
\* and there is no timeout to wait for: the application has deadlocked.
PassAgain ==
    /\ AnyThreadRunning \/ TimedOut # {}
    /\ PassDone
    /\ call' = Call("timeouts", call.t, NoCore, 0)

\* onThreadStart() after HOOK_THREAD_START
StartStep ==
    /\ At("start")
    /\ LET t == call.t
           w == waiter[t]
       IN  /\ IF m_core[t] # NoCore
              THEN /\ core_state' = [core_state EXCEPT ![m_core[t]] = "RUNNING"]
                   /\ status' = [status EXCEPT ![t] = "RUNNING"]
              ELSE /\ status' = [status EXCEPT ![t] = "UNSCHEDULED"]
                   /\ UNCHANGED core_state
           /\ waiter' = [waiter EXCEPT ![t] = NoThread]
           /\ host' = [u \in Threads |->
                 IF u = t \/ (u = w /\ host[u] = "wait") THEN "woken" ELSE host[u]]
    /\ call' = NoCall
    /\ UNCHANGED <<m_core, m_thread, schedVars, joining, m_resumed>>

\* onThreadExit() after wakeUpWaiter(): CLONE_CHILD_CLEARTID wakes one futex
\* waiter or none
FutexWakeStep ==
    /\ At("futexwake")
    /\ \/ \E u \in TimedOut : ResumeThread(u)
       \/ UNCHANGED <<status, host, m_threads_runnable, joining, m_resumed>>
    /\ call' = [call EXCEPT !.op = "exit"]
    /\ UNCHANGED <<waiter, placeVars, m_core_affinity, m_core_running,
                   m_core_thread_running, m_quantum_left, m_last_scheduled>>

\* the core goes IDLE, the thread leaves it, HOOK_THREAD_EXIT
ExitStep ==
    /\ At("exit")
    /\ LET t == call.t IN
       /\ core_state' = [c \in Cores |-> IF c = m_core[t] THEN "IDLE" ELSE core_state[c]]
       /\ m_thread' = [c \in Cores |-> IF c = m_core[t] THEN NoThread ELSE m_thread[c]]
       /\ m_core' = [m_core EXCEPT ![t] = NoCore]
       /\ m_threads_runnable' = [m_threads_runnable EXCEPT ![t] = FALSE]
       /\ call' = Call("resched", t, m_core_running[t], call.tm)
    /\ UNCHANGED <<tmVars, m_core_affinity, m_core_running, m_core_thread_running,
                   m_quantum_left, m_last_scheduled,
                   host, joining, m_resumed>>

\* threadYield(): first our own core ...
YieldStep ==
    /\ At("yield")
    /\ Reschedule(call.c, call.tm)
    /\ call' = [call EXCEPT !.op = "yieldtail"]

\* ... then, when we may no longer run there, a free core that we may run on
YieldTail ==
    /\ At("yieldtail")
    /\ IF call.c \notin m_core_affinity[call.t]
       THEN RescheduleFreeCore(call.t, call.tm)
       ELSE UNCHANGED <<tmVars, placeVars, schedVars, host, joining, m_resumed>>
    /\ call' = IF m_resumed' = NoThread THEN NoCall
               ELSE Call("none", NoThread, NoCore, call.tm)

-----------------------------------------------------------------------------
(***************************************************************************)
(* Handlers: what a thread, the frontend or the barrier calls              *)
(***************************************************************************)

\* createThread_unlocked() and SchedulerPinnedBase::threadCreate()
CreateThread(t) ==
    /\ Idle
    /\ status[t] = "NONE" /\ \A u \in Threads : u < t => status[u] # "NONE"
    /\ \E mask \in IF m_core_affinity[t] # {} THEN {m_core_affinity[t]}
                                              ELSE InitialAffinities :
       \E c \in Cores \cup {NoCore} :
          /\ FindFreeCore(mask, c)
          /\ m_core_affinity' = [m_core_affinity EXCEPT ![t] = mask]
          /\ m_core_running' = [m_core_running EXCEPT ![t] = c]
          /\ m_core' = [m_core EXCEPT ![t] = c]
          /\ m_core_thread_running' = [d \in Cores |->
                IF d = c THEN t ELSE m_core_thread_running[d]]
          /\ m_quantum_left' = [d \in Cores |-> IF d = c THEN Quantum ELSE m_quantum_left[d]]
          /\ m_thread' = [d \in Cores |-> IF d = c THEN t ELSE m_thread[d]]
          /\ core_state' = [d \in Cores |-> IF d = c THEN "INITIALIZING" ELSE core_state[d]]
    /\ status' = [status EXCEPT ![t] = "INITIALIZING"]
    /\ host' = [host EXCEPT ![t] = "created"]
    /\ UNCHANGED <<waiter, m_threads_runnable, m_last_scheduled, joining, call, m_resumed>>

\* onThreadStart(): RUNNING during HOOK_THREAD_START, whose callback
\* threadStart() does what threadResume() does
OnThreadStart(t, tm) ==
    /\ Idle /\ host[t] = "created"
    /\ status' = [status EXCEPT ![t] = "RUNNING"]
    /\ m_threads_runnable' = [m_threads_runnable EXCEPT ![t] = TRUE]
    /\ m_resumed' = t
    /\ call' = Call("start", t, NoCore, tm)
    /\ UNCHANGED <<waiter, placeVars, m_core_affinity, m_core_running,
                   m_core_thread_running, m_quantum_left, m_last_scheduled, host, joining>>

\* stallThread() by SyncServer or SyscallServer
StallSync(t, tm) ==
    /\ "sync" \in AppCalls /\ Idle /\ InUser(t)
    /\ StallThread(t, "FUTEX")
    /\ call' = Call("resched", t, m_core_running[t], tm)
    /\ UNCHANGED <<waiter, placeVars, m_core_affinity, m_core_running,
                   m_core_thread_running, m_quantum_left, m_last_scheduled, host, joining, m_resumed>>

\* SyscallMdl::runEnter() of a blocking call: stallThread_async()
BlockingSyscall(t, tm) ==
    /\ "syscall" \in AppCalls /\ Idle /\ InUser(t)
    /\ StallThread(t, "SYSCALL")
    /\ host' = [host EXCEPT ![t] = "blocked"]
    /\ call' = Call("resched", t, m_core_running[t], tm)
    /\ UNCHANGED <<waiter, placeVars, m_core_affinity, m_core_running,
                   m_core_thread_running, m_quantum_left, m_last_scheduled, joining, m_resumed>>

\* SyscallMdl::runExit(): resumeThread_async() itself, then Thread::reschedule()
SyscallReturn(t, tm) ==
    /\ Idle /\ host[t] = "blocked"
    /\ status' = [status EXCEPT ![t] = "RUNNING"]
    /\ m_threads_runnable' = [m_threads_runnable EXCEPT ![t] = TRUE]
    /\ m_resumed' = t
    /\ host' = [host EXCEPT ![t] = "woken"]
    /\ call' = Call("none", NoThread, NoCore, tm)
    /\ UNCHANGED <<waiter, placeVars, m_core_affinity, m_core_running,
                   m_core_thread_running, m_quantum_left, m_last_scheduled, joining>>

\* t resumes u: mutex unlock, cond signal, barrier, futex wake
ResumeOther(t, u, tm) ==
    /\ Idle /\ InUser(t) /\ u \in TimedOut
    /\ ResumeThread(u)
    /\ call' = Call("none", NoThread, NoCore, tm)
    /\ UNCHANGED <<waiter, placeVars, m_core_affinity, m_core_running,
                   m_core_thread_running, m_quantum_left, m_last_scheduled>>

\* joinThread(); two joiners of one thread fail the assertion on waiter
JoinThread(t, u, tm) ==
    /\ "join" \in AppCalls /\ Idle /\ InUser(t) /\ t # u
    /\ status[u] \notin {"NONE", "IDLE"} /\ waiter[u] = NoThread
    /\ EarlyJoin \/ status[u] # "INITIALIZING"
    /\ waiter' = [waiter EXCEPT ![u] = t]
    /\ joining' = [joining EXCEPT ![t] = u]
    /\ StallThread(t, "JOIN")
    /\ call' = Call("resched", t, m_core_running[t], tm)
    /\ UNCHANGED <<placeVars, m_core_affinity, m_core_running,
                   m_core_thread_running, m_quantum_left, m_last_scheduled, host, m_resumed>>

\* Thread::reschedule(): not on a core, stall until we are
ThreadReschedule(t, tm) ==
    /\ Idle /\ host[t] \in {"user", "woken"}
    /\ UNCHANGED <<waiter, placeVars, m_core_affinity, m_core_running,
                   m_core_thread_running, m_quantum_left, m_last_scheduled, joining, m_resumed>>
    /\ IF m_core[t] = NoCore
       THEN /\ StallThread(t, "UNSCHEDULED")
            /\ Signal(t, tm)
            /\ UNCHANGED host
       ELSE /\ host[t] = "woken"
            /\ host' = [host EXCEPT ![t] = "user"]
            /\ UNCHANGED <<status, m_threads_runnable, call>>

\* sched_yield
ThreadYield(t, tm) ==
    /\ "yield" \in AppCalls /\ Idle /\ InUser(t) /\ m_core_running[t] # NoCore
    /\ m_quantum_left' = [m_quantum_left EXCEPT ![m_core_running[t]] = 0]
    /\ call' = Call("yield", t, m_core_running[t], tm)
    /\ UNCHANGED <<tmVars, placeVars, m_threads_runnable, m_core_affinity, m_core_running,
                   m_core_thread_running, m_last_scheduled,
                   host, joining, m_resumed>>

\* threadSetAffinity() of u, called by u itself or by somebody else (another
\* thread or a script; u need not exist yet; a thread that is gone is left out)
ThreadSetAffinity(u, self, mask, tm) ==
    /\ "affinity" \in AppCalls /\ Idle
    /\ IF self THEN InUser(u) ELSE host[u] # "gone"
    /\ m_core_affinity' = [m_core_affinity EXCEPT ![u] = mask]
    /\ LET c == m_core_running[u]
           created == status[u] # "NONE"
           yields == self /\ c # NoCore
           displaced == created /\ ~self /\ c # NoCore /\ c \notin mask
           waiting == created /\ ~self /\ c = NoCore /\ m_threads_runnable[u]
       IN  /\ m_quantum_left' = [d \in Cores |->
                 IF d = c /\ (yields \/ displaced) THEN 0 ELSE m_quantum_left[d]]
           /\ m_resumed' = IF waiting THEN u ELSE NoThread
           /\ call' = IF yields THEN Call("yield", u, c, tm)
                      ELSE IF waiting THEN Call("none", NoThread, NoCore, tm) ELSE NoCall
    /\ UNCHANGED <<tmVars, placeVars, m_threads_runnable, m_core_running,
                   m_core_thread_running, m_last_scheduled,
                   host, joining>>

\* onThreadExit(): IDLE, wakeUpWaiter()
OnThreadExit(t, tm) ==
    /\ "exit" \in AppCalls /\ Idle /\ InUser(t)
    /\ LET w == waiter[t] IN
       /\ status' = [u \in Threads |-> IF u = t THEN "IDLE"
                                       ELSE IF u = w THEN "RUNNING" ELSE status[u]]
       /\ host' = [u \in Threads |-> IF u = t THEN "gone"
                                     ELSE IF u = w /\ host[u] = "wait" THEN "woken"
                                     ELSE host[u]]
       /\ m_threads_runnable' = [u \in Threads |-> u = w \/ m_threads_runnable[u]]
       /\ joining' = [u \in Threads |-> IF u = w THEN NoThread ELSE joining[u]]
       /\ m_resumed' = w
    /\ waiter' = [waiter EXCEPT ![t] = NoThread]
    /\ call' = Call("futexwake", t, NoCore, tm)
    /\ UNCHANGED <<placeVars, m_core_affinity, m_core_running,
                   m_core_thread_running, m_quantum_left, m_last_scheduled>>

\* BarrierSyncServer::barrierRelease() by a thread in synchronize()
Periodic ==
    /\ Idle
    /\ \E t \in Threads : InUser(t)
    /\ call' = Call("timeouts", NoThread, NoCore, 0)
    /\ UNCHANGED <<tmVars, placeVars, schedVars, host, joining, m_resumed>>

LockHolder ==
    \/ ThreadResume \/ RescheduleStep \/ ReturnStep \/ TimeoutStep \/ PassBegin
    \/ PassStep \/ PassEnd \/ PassAgain \/ StartStep \/ FutexWakeStep \/ ExitStep
    \/ YieldStep \/ YieldTail

Handler(t) ==
    \/ CreateThread(t)
    \/ \E tm \in LocalTimes :
          \/ OnThreadStart(t, tm) \/ StallSync(t, tm) \/ BlockingSyscall(t, tm)
          \/ SyscallReturn(t, tm) \/ ThreadReschedule(t, tm) \/ ThreadYield(t, tm)
          \/ OnThreadExit(t, tm)
          \/ \E u \in Threads : ResumeOther(t, u, tm) \/ JoinThread(t, u, tm)
          \/ \E self \in BOOLEAN : \E mask \in AffinityMasks :
                ThreadSetAffinity(t, self, mask, tm)

Next == LockHolder \/ Periodic \/ \E t \in Threads : Handler(t)

Spec == Init /\ [][Next]_vars

\* A lock holder goes on, and a host thread that waits for m_thread_lock gets it
\* in the end.  Simulated time advances with every instruction, so the cores that
\* run keep reaching the barrier; barrierRelease() adds the interval to
\* m_next_barrier_time until it passes some core's clock; and when nobody runs,
\* advance() goes on until a timeout expires.
Fairness ==
    /\ WF_vars(LockHolder)
    /\ SF_vars(PassEnd)
    /\ SF_vars(TimeoutStep /\ ~AnyThreadRunning)
    /\ SF_vars(Periodic)
    /\ \A t \in Threads :
          /\ SF_vars(\E tm \in LocalTimes : OnThreadStart(t, tm))
          /\ SF_vars(\E tm \in LocalTimes : ThreadReschedule(t, tm))

LiveSpec == Spec /\ Fairness

-----------------------------------------------------------------------------
(***************************************************************************)
(* Properties                                                              *)
(***************************************************************************)

\* The scheduler's two maps, ThreadInfo::m_core_running and
\* m_core_thread_running, are inverse to each other: no core is promised to two
\* threads and no thread to two cores, at every point of every handler.
MapsAgree ==
    \A t \in Threads, c \in Cores :
        m_core_running[t] = c <=> m_core_thread_running[c] = t

PlacementAgrees ==
    /\ \A t \in Threads, c \in Cores : m_core[t] = c <=> m_thread[c] = t
    /\ \A t \in Threads : m_core[t] # NoCore => m_core_running[t] = m_core[t]

PlacementComplete ==
    \A t \in Threads : m_core_running[t] # NoCore =>
        m_core[t] = m_core_running[t] \/ status[t] = "IDLE"

\* Thread::m_core and Core::m_thread point at each other and follow the scheduler's
\* maps, except for an exiting thread between onThreadExit() and threadExit(); so
\* the assertion of Thread::setCore ("Cannot move thread .. already running
\* thread") never fires: a core taken for free, or just vacated, holds no thread.
Placement == PlacementAgrees /\ PlacementComplete

\* BarrierSyncServer::isCoreRunning asserts "Core is running but has no
\* thread": a core is RUNNING or INITIALIZING exactly while a thread is on it.
CoreStateMatchesThread ==
    \A c \in Cores : core_state[c] = "IDLE" <=> m_thread[c] = NoThread

\* Once the lock is free again, a thread on a core is RUNNING or still starting
\* up: a thread that stalled or ended keeps no core from the others.
NoCoreForStalled ==
    Idle => \A t \in Threads : m_core[t] # NoCore =>
                status[t] \in {"RUNNING", "INITIALIZING"}

\* No lost wakeup: once the lock is free, a host thread that sleeps in
\* Thread::wait() belongs to a thread that is stalled and has no core, even when
\* the HOOK_PERIODIC of its own stall resumed it before it got to sleep.
NoLostWakeup ==
    Idle => \A t \in Threads : host[t] = "wait" =>
                status[t] \in Reasons /\ m_core[t] = NoCore

\* A thread that sits on a core its affinity no longer allows has no quantum
\* left there, so the next periodic() moves it ("as soon as possible").
DisplacedSoon ==
    \A t \in Threads, c \in Cores :
        m_core_running[t] = c /\ c \notin m_core_affinity[t] => m_quantum_left[c] = 0

Waiting(t) == m_threads_runnable[t] /\ m_core_running[t] = NoCore

\* A thread waiting for a core can be chosen: what Thread::reschedule() stalls
\* as UNSCHEDULED is runnable for the scheduler, so it is not forgotten.
UnscheduledIsRunnable ==
    \A t \in Threads : status[t] = "UNSCHEDULED" => m_threads_runnable[t]

\* joinThread(): as long as the joined thread has not exited, it knows its
\* joiner, so wakeUpWaiter() will "resume the 'pthread_join' caller".
JoinerRemembered ==
    \A t, u \in Threads : joining[t] = u => waiter[u] = t

\* A thread that could go on running loses its core only to the barrier's
\* periodic(), to its own sched_yield / sched_setaffinity or by its own exit.
PreemptStep ==
    \A t \in Threads :
        m_core[t] # NoCore /\ m_threads_runnable[t] /\ m_core'[t] # m_core[t] =>
            call.op = "pass" \/ (call.op \in {"yield", "exit"} /\ call.t = t)
PreemptedOnlyAtBarrier == [][PreemptStep]_vars

\* No runnable thread waits for a core forever: reschedule() prefers the thread
\* that was scheduled out the longest time ago, and periodic() keeps calling it.
NoStarvation == \A t \in Threads : Waiting(t) ~> ~Waiting(t)

FreeCount == Cardinality({c \in Cores : m_core_thread_running[c] = NoThread})

\* The callbacks threadResume -> reschedule -> moveThread -> resumeThread do not
\* go round in a loop: each one that leads to another fills a free core.
ResumeChainStep ==
    m_resumed # NoThread /\ m_resumed' # NoThread => FreeCount' < FreeCount
ResumeChainEnds == [][ResumeChainStep]_vars

\* The scheduler implements CoreAssignment: whatever the interleaving, cores change
\* hands one at a time and only to threads that are runnable or still starting.
Assigned == INSTANCE CoreAssignment WITH
    None <- NoThread,
    occupant <- m_thread,
    entitled <- {t \in Threads : m_threads_runnable[t] \/ status[t] \in {"NONE", "INITIALIZING"}}
ImplementsCoreAssignment == Assigned!ASpec

=============================================================================
