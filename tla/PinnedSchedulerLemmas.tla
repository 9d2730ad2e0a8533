----------------------- MODULE PinnedSchedulerLemmas ------------------------
(***************************************************************************)
(* The two halves of the inductive invariant of PinnedScheduler, for any   *)
(* number of threads and cores: the scheduler's (IInv) and the threads'    *)
(* (SafeInv, LateJoinInv).  reschedule(), a resume and steps that change   *)
(* little preserve both; every step of the lock holder preserves the       *)
(* first.                                                                  *)
(***************************************************************************)
EXTENDS PinnedScheduler, TLAPS

-----------------------------------------------------------------------------
(***************************************************************************)
(* The inductive invariant                                                 *)
(***************************************************************************)

\* a thread the scheduler may choose is not stalled for a reason of its own
RunnableInv ==
    \A t \in Threads :
        /\ status[t] \in {"FUTEX", "JOIN", "SYSCALL", "NONE"} => ~m_threads_runnable[t]
        /\ status[t] = "NONE" => m_core_running[t] = NoCore

\* what the host thread is doing fits the thread's status
HostInv ==
    \A t \in Threads :
        /\ host[t] = "none" <=> status[t] = "NONE"
        /\ host[t] = "gone" <=> status[t] = "IDLE"
        /\ host[t] = "blocked" => status[t] = "SYSCALL"
        /\ status[t] = "INITIALIZING" => host[t] = "created"

Stalling == {"resched", "return", "timeouts", "pass", "passend"}

\* a joiner stays stalled, asleep or on its way to sleep, while it is remembered
JoinInv ==
    \A u, t \in Threads : waiter[u] = t =>
        /\ status[t] = "JOIN"
        /\ host[t] = "wait" \/ (host[t] = "user" /\ call.t = t /\ call.op \in Stalling)
        /\ \A v \in Threads : waiter[v] = t => v = u

\* the lock holder's arguments
CallInv ==
    /\ call.op \in {"start", "futexwake", "exit", "yield", "yieldtail"} => call.t \in Threads
    /\ call.op \in {"pass", "yield", "yieldtail"} => call.c \in Cores
    /\ call.op = "start" => host[call.t] = "created" /\ m_threads_runnable[call.t]
    /\ call.op \in {"futexwake", "exit"} => status[call.t] = "IDLE"

PlaceInv == MapsAgree /\ PlacementAgrees /\ PlacementComplete /\ CoreStateMatchesThread

\* the part that does not mention the lock holder
SchedInv == PlaceInv /\ RunnableInv /\ HostInv /\ DisplacedSoon

IInv == TypeOK /\ SchedInv /\ JoinInv /\ CallInv

CallType == call \in [op : Calls, t : Threads \cup {NoThread},
                      c : Cores \cup {NoCore}, tm : Int]

\* what reschedule() leaves alone
Settled ==
    /\ waiter' = waiter /\ m_threads_runnable' = m_threads_runnable
    /\ \A t \in Threads :
          /\ status[t] # "UNSCHEDULED" => status'[t] = status[t] /\ host'[t] = host[t]
          /\ status[t] = "UNSCHEDULED" => status'[t] \in {"UNSCHEDULED", "RUNNING"}
          /\ status[t] = "UNSCHEDULED" /\ host'[t] # host[t] => host[t] = "wait" /\ host'[t] = "woken"

\* the one core whose thread it changes goes to nobody or to a runnable thread
\* that is on no core
Handover ==
    \/ m_thread' = m_thread
    \/ \E d \in Cores, new \in Threads \cup {NoThread} :
          /\ m_thread' = [m_thread EXCEPT ![d] = new]
          /\ new # NoThread => m_threads_runnable[new] /\ m_core[new] = NoCore

-----------------------------------------------------------------------------
(***************************************************************************)
(* reschedule()                                                            *)
(***************************************************************************)

\* INVALID_THREAD_ID is no thread, INVALID_CORE_ID no core
LEMMA Distinct == NoThread \notin Threads /\ NoCore \notin Cores
BY SizesAssumption DEF Threads, Cores, NoThread, NoCore

\* the parts of the invariant depend on few variables each
LEMMA PlaceFrame ==
    ASSUME PlaceInv, \A t \in Threads : status[t] = "IDLE" => status'[t] = "IDLE",
           UNCHANGED <<m_core, m_thread, core_state, m_core_running, m_core_thread_running>>
    PROVE  PlaceInv'
<1>1. MapsAgree' /\ PlacementAgrees'
    BY Zenon DEF PlaceInv, MapsAgree, PlacementAgrees
<1>2. PlacementComplete'
    BY Zenon DEF PlaceInv, PlacementComplete
<1>3. CoreStateMatchesThread'
    BY Zenon DEF PlaceInv, CoreStateMatchesThread
<1> QED
    BY Zenon, <1>1, <1>2, <1>3 DEF PlaceInv

LEMMA DisplacedFrame ==
    ASSUME DisplacedSoon, UNCHANGED <<m_core_running, m_core_affinity, m_quantum_left>>
    PROVE  DisplacedSoon'
BY Zenon DEF DisplacedSoon

LEMMA StatusFrame ==
    ASSUME RunnableInv, HostInv, UNCHANGED <<status, host, m_threads_runnable, m_core_running>>
    PROVE  RunnableInv' /\ HostInv'
BY Zenon DEF RunnableInv, HostInv

LEMMA SchedFrame ==
    ASSUME SchedInv,
           UNCHANGED <<status, host, m_core, m_thread, core_state, m_threads_runnable,
                       m_core_running, m_core_thread_running, m_core_affinity, m_quantum_left>>
    PROVE  SchedInv'
BY Zenon, PlaceFrame, DisplacedFrame, StatusFrame DEF SchedInv

LEMMA FrameInv ==
    ASSUME TypeOK, SchedInv, CallType', m_resumed' \in Threads \cup {NoThread},
           m_last_scheduled' \in [Threads -> Int],
           UNCHANGED <<tmVars, placeVars, m_threads_runnable, m_core_affinity, m_core_running,
                       m_core_thread_running, m_quantum_left, host, joining>>
    PROVE  TypeOK' /\ SchedInv' /\ Settled /\ Handover
<1>1. TypeOK'
    BY Zenon DEF TypeOK, CallType, tmVars, placeVars
<1>2. SchedInv'
    BY Zenon, SchedFrame DEF tmVars, placeVars
<1>3. Settled /\ Handover
    BY Zenon DEF Settled, Handover, tmVars, placeVars
<1> QED
    BY Zenon, <1>1, <1>2, <1>3

LEMMA JoinFrame ==
    ASSUME JoinInv, UNCHANGED <<waiter, status, host>>,
           call.op \in Stalling => call'.t = call.t /\ call'.op \in Stalling
    PROVE  JoinInv'
BY DEF JoinInv

\* reschedule() keeps the two pairs of maps in agreement, gives its core only to
\* a runnable thread that may run there, and disturbs no stalled thread
LEMMA RescheduleInv ==
    ASSUME NEW c \in Cores, NEW tm \in Int, TypeOK, SchedInv, CallType',
           Reschedule(c, tm)
    PROVE  TypeOK' /\ SchedInv' /\ Settled /\ Handover
<1> DEFINE old == m_core_thread_running[c]
<1>0. old \in Threads \cup {NoThread}
    BY Zenon DEF TypeOK
<1>1. CASE old # NoThread /\ status[old] = "INITIALIZING"
    <2>1. UNCHANGED <<waiter, m_core_affinity, joining, status, host, placeVars,
                      m_threads_runnable, m_core_running, m_core_thread_running,
                      m_quantum_left, m_last_scheduled>> /\ m_resumed' = NoThread
        BY Zenon, <1>1 DEF Reschedule, placeVars
    <2>2. UNCHANGED tmVars /\ m_last_scheduled' \in [Threads -> Int]
        BY Zenon, <2>1 DEF TypeOK, tmVars
    <2> QED
        BY Zenon, <2>1, <2>2, FrameInv
<1>2. CASE ~(old # NoThread /\ status[old] = "INITIALIZING")
    <2>1. PICK new \in Threads \cup {NoThread} :
            /\ Chosen(c, tm, new)
            /\ m_quantum_left' = [m_quantum_left EXCEPT ![c] = Quantum]
            /\ IF new = old
               THEN /\ m_resumed' = NoThread
                    /\ UNCHANGED <<status, host, placeVars, m_threads_runnable,
                                   m_core_running, m_core_thread_running,
                                   m_last_scheduled>>
               ELSE /\ MoveThreads(old, new, c)
                    /\ m_core_running' = [t \in Threads |->
                          IF t = new THEN c ELSE IF t = old THEN NoCore
                          ELSE m_core_running[t]]
                    /\ m_core_thread_running' = [m_core_thread_running EXCEPT ![c] = new]
                    /\ m_last_scheduled' = [t \in Threads |->
                          IF t = new THEN tm ELSE IF t = old THEN tm + c
                          ELSE m_last_scheduled[t]]
        BY Zenon, <1>2 DEF Reschedule
    <2>2. UNCHANGED <<waiter, m_core_affinity, joining>>
        BY Zenon DEF Reschedule
    <2>3. new # NoThread => /\ new \in Threads /\ c \in m_core_affinity[new]
                            /\ m_threads_runnable[new]
                            /\ m_core_running[new] \in {NoCore, c}
        BY Zenon, <2>1, Distinct DEF Chosen, Eligible
    <2>4. CASE new = old
        <3>1. UNCHANGED <<status, host, placeVars, m_threads_runnable, m_core_running,
                          m_core_thread_running, m_last_scheduled>> /\ m_resumed' = NoThread
            BY Zenon, <2>1, <2>4
        <3>2. TypeOK'
            BY <3>1, <2>1, <2>2, TimesAssumption DEF TypeOK, CallType, placeVars
        <3>3. PlaceInv' /\ RunnableInv' /\ HostInv'
            BY Zenon, <3>1, PlaceFrame, StatusFrame DEF SchedInv, placeVars
        <3>4. DisplacedSoon'
            <4> SUFFICES ASSUME NEW t \in Threads, NEW d \in Cores,
                                m_core_running[t] = d, d \notin m_core_affinity[t]
                         PROVE  m_quantum_left'[d] = 0
                BY Zenon, <2>2, <3>1 DEF DisplacedSoon
            <4>1. d # c
                BY <2>3, <2>4, Distinct DEF SchedInv, PlaceInv, MapsAgree
            <4> QED
                BY Zenon, <4>1, <2>1 DEF TypeOK, SchedInv, DisplacedSoon
        <3> QED
            BY Zenon, <3>1, <3>2, <3>3, <3>4, <2>2 DEF SchedInv, Settled, Handover, placeVars
    <2>5. CASE new # old
        <3>1. MoveThreads(old, new, c)
            BY Zenon, <2>1, <2>5
        <3>a. new # NoThread => m_core_running[new] = NoCore /\ m_core[new] = NoCore
            BY <2>3, <2>5, Distinct DEF TypeOK, SchedInv, PlaceInv, MapsAgree, PlacementAgrees
        <3>b. /\ m_thread[c] \in {old, NoThread}
              /\ old # NoThread => m_core_running[old] = c /\ m_core[old] \in {c, NoCore}
            BY <1>0, Distinct DEF TypeOK, SchedInv, PlaceInv, MapsAgree, PlacementAgrees
        <3>c. \A d \in Cores : d # c => d \notin {m_core[t] : t \in {old, new} \cap Threads}
            BY Zenon, <3>a, <3>b, <1>0, <2>3, Distinct
        <3>d. c \notin {m_core[t] : t \in {old, new} \cap Threads} => m_thread[c] = NoThread
            BY <3>b, <1>0, Distinct DEF TypeOK, SchedInv, PlaceInv, PlacementAgrees
        <3>e. m_thread' = [d \in Cores |-> IF d = c THEN new ELSE m_thread[d]]
            BY Zenon, <3>1, <3>c, <3>d DEF MoveThreads
        <3>f. /\ status' = [t \in Threads |-> IF t = new /\ status[t] = "UNSCHEDULED"
                                               THEN "RUNNING" ELSE status[t]]
              /\ host' = [t \in Threads |->
                    IF t = new /\ status[t] = "UNSCHEDULED" /\ host[t] = "wait"
                    THEN "woken" ELSE host[t]]
              /\ m_core' = [t \in Threads |-> IF t = new THEN c
                                             ELSE IF t = old THEN NoCore ELSE m_core[t]]
              /\ m_threads_runnable' = [t \in Threads |->
                    (t = new /\ status[t] = "UNSCHEDULED") \/ m_threads_runnable[t]]
              /\ m_resumed' \in {new, NoThread}
            BY Zenon, <3>1 DEF MoveThreads
        <3>g. new # NoThread => status'[new] \notin Reasons
            BY Zenon, <3>f, <2>3, Distinct DEF SchedInv, RunnableInv, Reasons
        <3>h. core_state' = [d \in Cores |-> IF d = c
                    THEN IF new # NoThread THEN "RUNNING"
                         ELSE IF m_thread[c] = NoThread THEN core_state'[c] ELSE "IDLE"
                    ELSE core_state[d]]
            BY Zenon, <3>1, <3>c, <3>d, <3>g DEF MoveThreads
        <3>i. new = NoThread => core_state'[c] = "IDLE"
            BY Zenon, <3>1, <3>d DEF MoveThreads, TypeOK, SchedInv, PlaceInv, CoreStateMatchesThread
        <3>j. /\ m_core_running' = [t \in Threads |->
                    IF t = new THEN c ELSE IF t = old THEN NoCore ELSE m_core_running[t]]
              /\ m_core_thread_running' = [m_core_thread_running EXCEPT ![c] = new]
              /\ m_last_scheduled' = [t \in Threads |->
                    IF t = new THEN tm ELSE IF t = old THEN tm + c ELSE m_last_scheduled[t]]
            BY Zenon, <2>1, <2>5
        <3>2. TypeOK'
            <4>1. /\ status' \in [Threads -> States] /\ host' \in [Threads -> HostStates]
                  /\ m_threads_runnable' \in [Threads -> BOOLEAN]
                BY Zenon, <3>f DEF TypeOK, States, CoreStates, HostStates
            <4>2. /\ m_core' \in [Threads -> Cores \cup {NoCore}]
                  /\ m_thread' \in [Cores -> Threads \cup {NoThread}]
                  /\ m_core_running' \in [Threads -> Cores \cup {NoCore}]
                  /\ m_core_thread_running' \in [Cores -> Threads \cup {NoThread}]
                  /\ m_resumed' \in Threads \cup {NoThread}
                BY Zenon, <3>e, <3>f, <3>j DEF TypeOK
            <4>3. core_state' \in [Cores -> CoreStates]
                BY Zenon, <3>h, <3>i DEF TypeOK, CoreStates
            <4>4. m_quantum_left' \in [Cores -> Int] /\ m_last_scheduled' \in [Threads -> Int]
                BY <2>1, <3>j, TimesAssumption DEF TypeOK, Cores
            <4> QED
                BY Zenon, <4>1, <4>2, <4>3, <4>4, <2>2 DEF TypeOK, CallType
        <3>3. MapsAgree'
            BY <3>j, <3>a, <3>b, <1>0, <2>5, Distinct DEF TypeOK, SchedInv, PlaceInv, MapsAgree
        <3>4. PlacementAgrees'
            BY <3>e, <3>f, <3>j, <3>a, <3>b, <1>0, <2>5, Distinct
               DEF TypeOK, SchedInv, PlaceInv, MapsAgree, PlacementAgrees
        <3>5. PlacementComplete'
            BY Zenon, <3>f, <3>j DEF TypeOK, SchedInv, PlaceInv, PlacementComplete
        <3>6. CoreStateMatchesThread'
            BY Zenon, <3>e, <3>h, <3>i DEF TypeOK, SchedInv, PlaceInv, CoreStateMatchesThread
        <3>7. RunnableInv'
            BY <3>f, <3>j, <2>3, Distinct DEF TypeOK, SchedInv, RunnableInv
        <3>8. HostInv'
            BY Zenon, <3>f DEF TypeOK, SchedInv, HostInv
        <3>9. DisplacedSoon'
            BY SMTT(60), <3>j, <3>a, <3>b, <2>1, <2>2, <2>3, Distinct
               DEF TypeOK, SchedInv, PlaceInv, MapsAgree, DisplacedSoon
        <3>10. Settled
            <4>1. m_threads_runnable' = m_threads_runnable
                <5>1. \A t \in Threads : (t = new /\ status[t] = "UNSCHEDULED") \/ m_threads_runnable[t]
                                          <=> m_threads_runnable[t]
                    BY Zenon, <2>3, Distinct
                <5> QED
                    BY Zenon, <5>1, <3>f DEF TypeOK
            <4> QED
                BY Zenon, <4>1, <3>f, <2>2 DEF TypeOK, Settled
        <3>11. Handover
            <4>1. m_thread' = [m_thread EXCEPT ![c] = new]
                BY Zenon, <3>e DEF TypeOK
            <4> QED
                BY Zenon, <4>1, <3>a, <2>3 DEF Handover
        <3> QED
            BY Zenon, <3>2, <3>3, <3>4, <3>5, <3>6, <3>7, <3>8, <3>9, <3>10, <3>11 DEF SchedInv, PlaceInv
    <2> QED
        BY Zenon, <2>4, <2>5
<1> QED
    BY Zenon, <1>1, <1>2

\* threadStart() and threadResume() do too
LEMMA FreeCoreInv ==
    ASSUME NEW t \in Threads, NEW tm \in Int, TypeOK, SchedInv, CallType',
           RescheduleFreeCore(t, tm)
    PROVE  TypeOK' /\ SchedInv' /\ Settled /\ Handover
<1>1. PICK c \in Cores \cup {NoCore} :
        IF c # NoCore THEN Reschedule(c, tm)
        ELSE m_resumed' = NoThread /\ UNCHANGED <<tmVars, placeVars, schedVars, host, joining>>
    BY Zenon DEF RescheduleFreeCore
<1>2. CASE c # NoCore
    BY Zenon, <1>1, <1>2, RescheduleInv
<1>3. CASE c = NoCore
    <2>1. /\ UNCHANGED <<tmVars, placeVars, schedVars, host, joining>>
          /\ m_resumed' \in Threads \cup {NoThread}
        BY Zenon, <1>1, <1>3
    <2>2. m_last_scheduled' \in [Threads -> Int]
        BY Zenon, <2>1 DEF TypeOK, schedVars
    <2> QED
        BY Zenon, <2>1, <2>2, FrameInv DEF schedVars
<1> QED
    BY Zenon, <1>2, <1>3

\* a step that settles nothing else keeps the joiners asleep
LEMMA JoinSettled ==
    ASSUME TypeOK, JoinInv, Settled,
           call.op \in Stalling => call'.t = call.t /\ call'.op \in Stalling
    PROVE  JoinInv'
BY DEF TypeOK, JoinInv, Settled, Stalling

\* ... and the lock holder's thread as it is
LEMMA CallSettled ==
    ASSUME TypeOK, CallInv, Settled, call' = call
    PROVE  CallInv'
BY Zenon DEF TypeOK, CallInv, Settled

-----------------------------------------------------------------------------
(***************************************************************************)
(* Every step preserves the invariant                                      *)
(***************************************************************************)

LEMMA InitInv == Init => IInv
<1> SUFFICES ASSUME Init PROVE IInv
    BY Zenon
<1>1. TypeOK
    BY TimesAssumption DEF Init, TypeOK, States, CoreStates, HostStates, Calls, NoCall
<1>2. SchedInv
    BY Zenon, Distinct DEF Init, SchedInv, PlaceInv, RunnableInv, HostInv, DisplacedSoon, MapsAgree,
        PlacementAgrees, PlacementComplete, CoreStateMatchesThread
<1>3. JoinInv /\ CallInv
    BY Zenon, Distinct DEF Init, JoinInv, CallInv, NoCall
<1> QED
    BY Zenon, <1>1, <1>2, <1>3 DEF IInv

\* resumeThread() of a thread stalled on a mutex, condition, barrier or futex
LEMMA ResumeInv ==
    ASSUME NEW u \in TimedOut, IInv, CallType', ResumeThread(u),
           call.op \in Stalling => call'.t = call.t /\ call'.op \in Stalling,
           UNCHANGED <<waiter, placeVars, m_core_affinity, m_core_running,
                       m_core_thread_running, m_quantum_left, m_last_scheduled>>
    PROVE  /\ TypeOK' /\ SchedInv' /\ JoinInv'
           /\ \A t \in Threads : t # u => status'[t] = status[t] /\ host'[t] = host[t]
<1> USE DEF IInv
<1>0. u \in Threads /\ status[u] = "FUTEX"
    BY Zenon DEF TimedOut
<1>1. TypeOK'
    <2>1. /\ status' \in [Threads -> States] /\ host' \in [Threads -> HostStates]
          /\ m_threads_runnable' \in [Threads -> BOOLEAN]
        BY Zenon, <1>0 DEF TypeOK, ResumeThread, States, CoreStates, HostStates
    <2>2. joining' \in [Threads -> Threads \cup {NoThread}] /\ m_resumed' \in Threads \cup {NoThread}
        BY Zenon, <1>0 DEF TypeOK, ResumeThread
    <2> QED
        BY Zenon, <2>1, <2>2 DEF TypeOK, CallType, placeVars
<1>2. PlaceInv' /\ DisplacedSoon'
    <2>1. \A t \in Threads : status[t] = "IDLE" => status'[t] = "IDLE"
        BY Zenon, <1>0 DEF TypeOK, ResumeThread
    <2> QED
        BY Zenon, <2>1, PlaceFrame, DisplacedFrame DEF SchedInv, placeVars
<1>3. RunnableInv' /\ HostInv'
    BY Zenon, <1>0 DEF TypeOK, ResumeThread, SchedInv, RunnableInv, HostInv
<1>4. JoinInv'
    BY <1>0 DEF TypeOK, ResumeThread, JoinInv, Stalling
<1> QED
    BY Zenon, <1>0, <1>1, <1>2, <1>3, <1>4 DEF SchedInv, ResumeThread, TypeOK

-----------------------------------------------------------------------------
(***************************************************************************)
(* What reschedule() leaves behind, for the threads' side of the invariant *)
(***************************************************************************)

\* a thread on a core runs or starts, but for the one whose handler is about to
\* take its core away
CoreInv ==
    \A t \in Threads : m_core[t] # NoCore =>
        \/ status[t] \in {"RUNNING", "INITIALIZING"}
        \/ status[t] = "IDLE" /\ call.op \in {"futexwake", "exit"} /\ call.t = t
        \/ call.op = "resched" /\ call.t = t

\* the handlers that reschedule a core name the thread on it: it has just stalled
\* or ended, or it yields
ArgsInv ==
    /\ call.op = "resched" =>
          /\ call.t \in Threads /\ ~m_threads_runnable[call.t]
          /\ status[call.t] # "INITIALIZING"
          /\ call.c = m_core_running[call.t] /\ m_resumed = NoThread
    /\ call.op = "yield" => call.c = m_core_running[call.t] /\ m_resumed = NoThread

\* a thread that has ended is not chosen for another core before it is forgotten
ExitInv ==
    \A t \in Threads : status[t] = "IDLE" /\ m_threads_runnable[t] =>
        call.op \in {"futexwake", "exit"} /\ call.t = t /\ m_core_running[t] # NoCore

\* nobody is made to run without being woken; who runs can be chosen; a host
\* thread that was created stays so until onThreadStart() is through
WaitInv == \A t \in Threads : host[t] = "wait" => status[t] \in Reasons
RunningInv == \A t \in Threads : status[t] = "RUNNING" => m_threads_runnable[t]
StartedInv ==
    \A t \in Threads : host[t] = "created" =>
        status[t] = "INITIALIZING" \/ (call.op = "start" /\ call.t = t)

SafeInv == CoreInv /\ ArgsInv /\ ExitInv /\ WaitInv /\ RunningInv /\ StartedInv

\* where nobody is joined before it has started: no host thread leaves
\* Thread::wait() unless its thread was resumed
UserInv ==
    \A t \in Threads : host[t] \in {"user", "woken"} =>
        \/ status[t] \in {"RUNNING", "UNSCHEDULED"}
        \/ call.t = t /\ call.op \in Stalling
UnjoinedInv == \A t \in Threads : host[t] \in {"none", "created"} => waiter[t] = NoThread

JoinSafe == UserInv /\ UnjoinedInv /\ JoinerRemembered /\ UnscheduledIsRunnable
LateJoinInv == EarlyJoin \/ JoinSafe

\* what reschedule() of core c does: nothing, if its thread goes on or is starting,
\* or its thread makes room for one that can run and is on no core
Outcome(c) ==
    LET old == m_core_thread_running[c] IN
    /\ UNCHANGED <<waiter, joining, m_threads_runnable>>
    /\ \/ /\ old # NoThread => status[old] = "INITIALIZING" \/ m_threads_runnable[old]
          /\ m_resumed' = NoThread
          /\ UNCHANGED <<status, host, m_core, m_core_running, m_core_thread_running>>
       \/ \E new \in Threads \cup {NoThread} :
          /\ new # old
          /\ new # NoThread => /\ m_threads_runnable[new]
                               /\ m_core_running[new] = NoCore /\ m_core[new] = NoCore
          /\ status' = [t \in Threads |-> IF t = new /\ status[t] = "UNSCHEDULED"
                                          THEN "RUNNING" ELSE status[t]]
          /\ host' = [t \in Threads |->
                IF t = new /\ status[t] = "UNSCHEDULED" /\ host[t] = "wait"
                THEN "woken" ELSE host[t]]
          /\ m_core' = [t \in Threads |-> IF t = new THEN c
                                          ELSE IF t = old THEN NoCore ELSE m_core[t]]
          /\ m_core_running' = [t \in Threads |->
                IF t = new THEN c ELSE IF t = old THEN NoCore ELSE m_core_running[t]]
          /\ m_core_thread_running' = [m_core_thread_running EXCEPT ![c] = new]
          /\ m_resumed' \in {new, NoThread}

LEMMA RescheduleOutcome ==
    ASSUME NEW c \in Cores, NEW tm \in Int, TypeOK, SchedInv, Reschedule(c, tm)
    PROVE  Outcome(c)
<1> DEFINE old == m_core_thread_running[c]
<1>0. old \in Threads \cup {NoThread} /\ UNCHANGED <<waiter, joining>>
    BY Zenon DEF TypeOK, Reschedule
<1>1. CASE old # NoThread /\ status[old] = "INITIALIZING"
    <2>1. /\ UNCHANGED <<status, host, m_core, m_threads_runnable, m_core_running,
                         m_core_thread_running>>
          /\ m_resumed' = NoThread
        BY Zenon, <1>1 DEF Reschedule, placeVars
    <2> QED
        BY Zenon, <1>0, <1>1, <2>1 DEF Outcome
<1>2. CASE ~(old # NoThread /\ status[old] = "INITIALIZING")
    <2>1. PICK new \in Threads \cup {NoThread} :
            /\ Chosen(c, tm, new)
            /\ IF new = old
               THEN /\ m_resumed' = NoThread
                    /\ UNCHANGED <<status, host, placeVars, m_threads_runnable,
                                   m_core_running, m_core_thread_running>>
               ELSE /\ MoveThreads(old, new, c)
                    /\ m_core_running' = [t \in Threads |->
                          IF t = new THEN c ELSE IF t = old THEN NoCore
                          ELSE m_core_running[t]]
                    /\ m_core_thread_running' = [m_core_thread_running EXCEPT ![c] = new]
        BY Zenon, <1>2 DEF Reschedule
    <2>2. new # NoThread => /\ new \in Threads /\ m_threads_runnable[new]
                            /\ m_core_running[new] \in {NoCore, c}
        BY Zenon, <2>1, Distinct DEF Chosen, Eligible
    <2>3. CASE new = old
        <3>1. /\ UNCHANGED <<status, host, m_core, m_threads_runnable, m_core_running,
                             m_core_thread_running>>
              /\ m_resumed' = NoThread
            BY Zenon, <2>1, <2>3 DEF placeVars
        <3> QED
            BY Zenon, <1>0, <2>2, <2>3, <3>1 DEF Outcome
    <2>4. CASE new # old
        <3>1. MoveThreads(old, new, c)
            BY Zenon, <2>1, <2>4
        <3>2. new # NoThread => m_core_running[new] = NoCore /\ m_core[new] = NoCore
            BY <2>2, <2>4, Distinct DEF TypeOK, SchedInv, PlaceInv, MapsAgree, PlacementAgrees
        <3>3. m_threads_runnable' = m_threads_runnable
            <4>1. m_threads_runnable' = [t \in Threads |->
                    (t = new /\ status[t] = "UNSCHEDULED") \/ m_threads_runnable[t]]
                BY Zenon, <3>1 DEF MoveThreads
            <4>2. \A t \in Threads : (t = new /\ status[t] = "UNSCHEDULED") \/ m_threads_runnable[t]
                                      <=> m_threads_runnable[t]
                BY Zenon, <2>2, Distinct
            <4> QED
                BY Zenon, <4>1, <4>2 DEF TypeOK
        <3>4. /\ status' = [t \in Threads |-> IF t = new /\ status[t] = "UNSCHEDULED"
                                              THEN "RUNNING" ELSE status[t]]
              /\ host' = [t \in Threads |->
                    IF t = new /\ status[t] = "UNSCHEDULED" /\ host[t] = "wait"
                    THEN "woken" ELSE host[t]]
              /\ m_core' = [t \in Threads |-> IF t = new THEN c
                                             ELSE IF t = old THEN NoCore ELSE m_core[t]]
              /\ m_resumed' \in {new, NoThread}
            BY Zenon, <3>1 DEF MoveThreads
        <3>5. /\ m_core_running' = [t \in Threads |->
                    IF t = new THEN c ELSE IF t = old THEN NoCore ELSE m_core_running[t]]
              /\ m_core_thread_running' = [m_core_thread_running EXCEPT ![c] = new]
            BY Zenon, <2>1, <2>4
        <3> QED
            BY Zenon, <1>0, <2>2, <2>4, <3>2, <3>3, <3>4, <3>5 DEF Outcome
    <2> QED
        BY Zenon, <2>3, <2>4
<1> QED
    BY Zenon, <1>1, <1>2

-----------------------------------------------------------------------------
(***************************************************************************)
(* reschedule() and steps that change little                               *)
(***************************************************************************)

\* when the lock holder goes on to another part of its handler, it keeps what the
\* invariants know about it
GoesOn ==
    /\ call'.op \notin {"resched", "yield"}
    /\ call' = call \/ call.op \notin {"futexwake", "exit", "start"}
    /\ call.op \in Stalling => call'.t = call.t /\ call'.op \in Stalling

LEMMA OutcomeSafe ==
    ASSUME NEW c \in Cores, TypeOK, SchedInv, SafeInv, Outcome(c), GoesOn,
           call.op = "resched" => c = call.c,
           call.op \in {"futexwake", "exit"} => m_core_thread_running[c] = NoThread
    PROVE  SafeInv'
<1> DEFINE old == m_core_thread_running[c]
<1>0. /\ UNCHANGED m_threads_runnable
      /\ call.op = "resched" => /\ old = call.t /\ old # NoThread /\ ~m_threads_runnable[old]
                                /\ status[old] # "INITIALIZING"
    BY Distinct DEF Outcome, SafeInv, ArgsInv, SchedInv, PlaceInv, MapsAgree
<1>1. ArgsInv'
    BY Zenon DEF GoesOn, ArgsInv
<1>2. CASE call.op # "resched" /\ UNCHANGED <<status, host, m_core, m_core_running>>
    <2>1. CoreInv' /\ ExitInv'
        BY Zenon, <1>0, <1>2 DEF SafeInv, CoreInv, ExitInv, GoesOn
    <2>2. WaitInv' /\ RunningInv' /\ StartedInv'
        BY Zenon, <1>0, <1>2 DEF SafeInv, WaitInv, RunningInv, StartedInv, GoesOn
    <2> QED
        BY Zenon, <1>1, <2>1, <2>2 DEF SafeInv
<1>3. ASSUME NEW new \in Threads \cup {NoThread}, new # old,
             new # NoThread => m_threads_runnable[new] /\ m_core_running[new] = NoCore,
             status' = [t \in Threads |-> IF t = new /\ status[t] = "UNSCHEDULED"
                                          THEN "RUNNING" ELSE status[t]],
             host' = [t \in Threads |->
                IF t = new /\ status[t] = "UNSCHEDULED" /\ host[t] = "wait"
                THEN "woken" ELSE host[t]],
             m_core' = [t \in Threads |-> IF t = new THEN c
                                          ELSE IF t = old THEN NoCore ELSE m_core[t]],
             m_core_running' = [t \in Threads |->
                IF t = new THEN c ELSE IF t = old THEN NoCore ELSE m_core_running[t]]
      PROVE  SafeInv'
    <2>1. CoreInv'
        <3> SUFFICES ASSUME NEW t \in Threads, m_core'[t] # NoCore
                     PROVE  \/ status'[t] \in {"RUNNING", "INITIALIZING"}
                            \/ /\ status'[t] = "IDLE" /\ call'.op \in {"futexwake", "exit"}
                               /\ call'.t = t
            BY Zenon DEF CoreInv
        <3>1. CASE t = new
            <4>1. status[t] \in {"RUNNING", "INITIALIZING", "UNSCHEDULED"}
                BY <1>3, <3>1, Distinct DEF TypeOK, States, CoreStates, Reasons, SchedInv,
                    RunnableInv, SafeInv, ExitInv
            <4> QED
                BY Zenon, <1>3, <3>1, <4>1
        <3>2. CASE t # new
            <4>1. t # old /\ m_core[t] # NoCore /\ status'[t] = status[t]
                BY Zenon, <1>3, <3>2
            <4> QED
                BY Zenon, <1>0, <4>1 DEF SafeInv, CoreInv, GoesOn
        <3> QED
            BY Zenon, <3>1, <3>2
    <2>2. ExitInv'
        <3> SUFFICES ASSUME NEW t \in Threads, status'[t] = "IDLE", m_threads_runnable'[t]
                     PROVE  /\ call'.op \in {"futexwake", "exit"} /\ call'.t = t
                            /\ m_core_running'[t] # NoCore
            BY Zenon DEF ExitInv
        <3>1. /\ call.op \in {"futexwake", "exit"} /\ call.t = t /\ m_core_running[t] # NoCore
              /\ old = NoThread
            BY Zenon, <1>0, <1>3 DEF SafeInv, ExitInv
        <3> QED
            BY Zenon, <1>3, <3>1, Distinct DEF GoesOn
    <2>3. WaitInv' /\ RunningInv' /\ StartedInv'
        BY Zenon, <1>0, <1>3, Distinct DEF SafeInv, WaitInv, RunningInv, StartedInv, GoesOn
    <2> QED
        BY Zenon, <1>1, <2>1, <2>2, <2>3 DEF SafeInv
<1>4. CASE UNCHANGED <<status, host, m_core, m_core_running, m_core_thread_running>> /\
           (old # NoThread => status[old] = "INITIALIZING" \/ m_threads_runnable[old])
    BY Zenon, <1>0, <1>2, <1>4
<1> QED
    BY Zenon, <1>3, <1>4 DEF Outcome

\* joiners and unscheduled threads, through any reschedule()
LEMMA OutcomeJoin ==
    ASSUME NEW c \in Cores, TypeOK, JoinSafe, Outcome(c), GoesOn
    PROVE  JoinSafe'
<1>0. UNCHANGED <<waiter, joining, m_threads_runnable>>
    BY Zenon DEF Outcome
<1>1. /\ \A t \in Threads : \/ status'[t] = status[t] /\ host'[t] = host[t]
                            \/ /\ status[t] = "UNSCHEDULED" /\ status'[t] = "RUNNING"
                               /\ host'[t] = host[t] \/ host'[t] = "woken"
    BY DEF Outcome, TypeOK
<1>2. UserInv' /\ UnjoinedInv'
    BY Zenon, <1>0, <1>1 DEF JoinSafe, UserInv, UnjoinedInv, GoesOn
<1>3. JoinerRemembered' /\ UnscheduledIsRunnable'
    BY Zenon, <1>0, <1>1 DEF JoinSafe, JoinerRemembered, UnscheduledIsRunnable
<1> QED
    BY Zenon, <1>2, <1>3 DEF JoinSafe

\* a step that leaves threads and cores alone
LEMMA FrameSafe ==
    ASSUME SafeInv, GoesOn, call.op # "resched",
           UNCHANGED <<status, host, m_core, m_core_running, m_threads_runnable>>
    PROVE  SafeInv'
<1>1. CoreInv' /\ ArgsInv' /\ ExitInv'
    BY Zenon DEF SafeInv, CoreInv, ArgsInv, ExitInv, GoesOn
<1>2. WaitInv' /\ RunningInv' /\ StartedInv'
    BY Zenon DEF SafeInv, WaitInv, RunningInv, StartedInv, GoesOn
<1> QED
    BY Zenon, <1>1, <1>2 DEF SafeInv

LEMMA FrameJoin ==
    ASSUME JoinSafe, GoesOn,
           UNCHANGED <<status, host, waiter, joining, m_threads_runnable>>
    PROVE  JoinSafe'
BY Zenon DEF JoinSafe, UserInv, UnjoinedInv, JoinerRemembered, UnscheduledIsRunnable, GoesOn

\* threadStart() and threadResume(): at most one free core is filled
LEMMA FreeCoreOutcome ==
    ASSUME NEW t \in Threads, NEW tm \in Int, TypeOK, SchedInv, RescheduleFreeCore(t, tm)
    PROVE  \/ \E c \in Cores : m_core_thread_running[c] = NoThread /\ Outcome(c)
           \/ /\ UNCHANGED <<status, host, m_core, m_core_running, m_core_thread_running,
                             m_threads_runnable, waiter, joining>>
              /\ m_resumed' = NoThread
<1>1. PICK c \in Cores \cup {NoCore} :
        /\ c # NoCore => m_core_thread_running[c] = NoThread
        /\ IF c # NoCore THEN Reschedule(c, tm)
           ELSE m_resumed' = NoThread /\ UNCHANGED <<tmVars, placeVars, schedVars, host, joining>>
    BY Zenon DEF RescheduleFreeCore, FindFreeCore, FreeCores, Lowest
<1>2. CASE c # NoCore
    BY Zenon, <1>1, <1>2, RescheduleOutcome
<1>3. CASE c = NoCore
    BY Zenon, <1>1, <1>3 DEF tmVars, placeVars, schedVars
<1> QED
    BY Zenon, <1>2, <1>3

LEMMA FreeCoreSafe ==
    ASSUME NEW t \in Threads, NEW tm \in Int, TypeOK, SchedInv, SafeInv, LateJoinInv,
           RescheduleFreeCore(t, tm), GoesOn, call.op # "resched"
    PROVE  SafeInv' /\ LateJoinInv'
<1>1. CASE \E c \in Cores : m_core_thread_running[c] = NoThread /\ Outcome(c)
    BY Zenon, <1>1, OutcomeSafe, OutcomeJoin DEF LateJoinInv
<1>2. CASE UNCHANGED <<status, host, m_core, m_core_running, m_core_thread_running,
                       m_threads_runnable, waiter, joining>>
    BY Zenon, <1>2, FrameSafe, FrameJoin DEF LateJoinInv
<1> QED
    BY Zenon, <1>1, <1>2, FreeCoreOutcome

\* resumeThread() of a thread that waits for a mutex, condition, barrier or futex
LEMMA ResumeSafe ==
    ASSUME NEW u \in TimedOut, TypeOK, SchedInv, SafeInv, LateJoinInv, ResumeThread(u),
           UNCHANGED <<waiter, m_core, m_core_running>>,
           call.op # "resched", call'.op \notin {"resched", "yield"},
           call.op # "none" => call'.t = call.t, call.op = "start" => call'.op = "start",
           call.op \in {"futexwake", "exit"} => call'.op \in {"futexwake", "exit"},
           call.op \in Stalling => call'.op \in Stalling
    PROVE  SafeInv' /\ LateJoinInv'
<1>0. /\ u \in Threads /\ status[u] = "FUTEX"
      /\ status' = [status EXCEPT ![u] = "RUNNING"]
      /\ host' = [host EXCEPT ![u] = IF host[u] = "wait" THEN "woken" ELSE host[u]]
      /\ m_threads_runnable' = [m_threads_runnable EXCEPT ![u] = TRUE]
      /\ joining' = [joining EXCEPT ![u] = NoThread]
    BY Zenon DEF TimedOut, ResumeThread
<1>1. CoreInv' /\ ArgsInv'
    BY Zenon, <1>0 DEF SafeInv, CoreInv, ArgsInv, TypeOK
<1>2. ExitInv'
    BY Zenon, <1>0 DEF SafeInv, ExitInv, TypeOK
<1>3. WaitInv' /\ RunningInv' /\ StartedInv'
    BY Zenon, <1>0 DEF SafeInv, WaitInv, RunningInv, StartedInv, TypeOK, SchedInv, HostInv
<1>4. ASSUME JoinSafe PROVE JoinSafe'
    <2>1. UserInv' /\ UnscheduledIsRunnable'
        BY Zenon, <1>0, <1>4 DEF JoinSafe, UserInv, UnscheduledIsRunnable, TypeOK, Stalling
    <2>2. UnjoinedInv' /\ JoinerRemembered'
        BY <1>0, <1>4, Distinct DEF JoinSafe, UnjoinedInv, JoinerRemembered, TypeOK
    <2> QED
        BY Zenon, <2>1, <2>2 DEF JoinSafe
<1> QED
    BY Zenon, <1>1, <1>2, <1>3, <1>4 DEF SafeInv, LateJoinInv

-----------------------------------------------------------------------------
\* the steps of the handler that holds m_thread_lock
LEMMA LockHolderInv == IInv /\ LockHolder => IInv'
<1> SUFFICES ASSUME IInv, LockHolder PROVE IInv'
    BY Zenon
<1> USE DEF IInv
<1>a. call.op \in Calls /\ call.t \in Threads \cup {NoThread} /\ call.c \in Cores \cup {NoCore}
      /\ call.tm \in Int /\ CallType
    BY Zenon DEF TypeOK, CallType
<1>b. NoCall \in [op : Calls, t : Threads \cup {NoThread}, c : Cores \cup {NoCore}, tm : Int]
    BY DEF NoCall, Calls
<1>c. \A o \in Calls, t \in Threads \cup {NoThread}, c \in Cores \cup {NoCore}, tm \in Int :
        Call(o, t, c, tm) \in [op : Calls, t : Threads \cup {NoThread},
                               c : Cores \cup {NoCore}, tm : Int]
    BY Zenon DEF Call
<1>d. Interval \in Int
    BY TimesAssumption
<1>1. CASE ThreadResume
    <2>1. m_resumed \in Threads /\ RescheduleFreeCore(m_resumed, call.tm)
        BY Zenon, <1>1 DEF ThreadResume, TypeOK
    <2>2. call' = call \/ (call.op = "none" /\ call' = NoCall)
        BY Zenon, <1>1 DEF ThreadResume
    <2>3. CallType'
        BY Zenon, <2>2, <1>a, <1>b DEF CallType
    <2>4. TypeOK' /\ SchedInv' /\ Settled
        BY Zenon, <2>1, <2>3, <1>a, FreeCoreInv
    <2>5. JoinInv'
        BY Zenon, <2>2, <2>4, JoinSettled DEF Stalling
    <2>6. CallInv'
        BY <2>2, <2>4, CallSettled DEF CallInv, NoCall
    <2> QED
        BY Zenon, <2>4, <2>5, <2>6
<1>2. CASE RescheduleStep
    <2>1. call'.op \in {"return", "timeouts"} /\ call'.t = call.t /\ CallType'
        BY <1>2, <1>a, <1>c DEF RescheduleStep, Signal, Call, CallType, Calls
    <2>2. TypeOK' /\ SchedInv' /\ Settled
        <3>1. CASE call.c # NoCore
            BY Zenon, <3>1, <1>2, <1>a, <2>1, RescheduleInv DEF RescheduleStep
        <3>2. CASE call.c = NoCore
            <4>1. /\ UNCHANGED <<tmVars, placeVars, schedVars, host, joining>>
                  /\ m_resumed' \in Threads \cup {NoThread}
                BY Zenon, <1>2, <3>2 DEF RescheduleStep
            <4>2. m_last_scheduled' \in [Threads -> Int]
                BY Zenon, <4>1 DEF TypeOK, schedVars
            <4> QED
                BY Zenon, <4>1, <4>2, <2>1, FrameInv DEF schedVars
        <3> QED
            BY Zenon, <3>1, <3>2
    <2>3. JoinInv'
        BY Zenon, <2>1, <2>2, JoinSettled DEF Stalling
    <2>4. CallInv'
        BY Zenon, <2>1 DEF CallInv
    <2> QED
        BY Zenon, <2>2, <2>3, <2>4
<1>3. CASE ReturnStep
    <2>1. /\ UNCHANGED <<tmVars, placeVars, schedVars, joining, m_resumed>>
          /\ call.op = "return"
          /\ \/ /\ call'.op = "timeouts" /\ call'.t = call.t /\ host' = host
             \/ /\ call' = NoCall /\ host' = host
                /\ ~(call.t # NoThread /\ host[call.t] \in {"user", "woken"})
             \/ /\ call' = NoCall
                /\ call.t \in Threads /\ host[call.t] \in {"user", "woken"}
                /\ host' = [host EXCEPT ![call.t] =
                              IF Sleeps(call.t) THEN "wait" ELSE "woken"]
        BY <1>3, <1>a DEF ReturnStep, At, Call
    <2>2. CallType'
        <3>1. call' = NoCall \/ call' = Call("timeouts", call.t, NoCore, call.tm)
            BY Zenon, <1>3 DEF ReturnStep
        <3>2. "timeouts" \in Calls
            BY Zenon DEF Calls
        <3>3. Call("timeouts", call.t, NoCore, call.tm) \in
                 [op : Calls, t : Threads \cup {NoThread}, c : Cores \cup {NoCore}, tm : Int]
            BY Zenon, <3>2, <1>a, <1>c
        <3> QED
            BY Zenon, <3>1, <3>3, <1>b DEF CallType
    <2>3. TypeOK'
        BY Zenon, <2>1, <2>2 DEF TypeOK, CallType, HostStates, tmVars, placeVars, schedVars
    <2>4. PlaceInv' /\ RunnableInv' /\ DisplacedSoon'
        <3>1. PlaceInv' /\ DisplacedSoon'
            BY Zenon, <2>1, PlaceFrame, DisplacedFrame DEF tmVars, placeVars, schedVars, SchedInv
        <3> QED
            BY Zenon, <2>1, <3>1 DEF tmVars, schedVars, SchedInv, RunnableInv
    <2>5. HostInv'
        BY <2>1 DEF TypeOK, SchedInv, HostInv, tmVars
    <2>6. JoinInv'
        BY SMTT(60), <2>1, Distinct DEF TypeOK, JoinInv, Stalling, Sleeps, tmVars
    <2>7. CallInv'
        BY SMTT(60), <2>1 DEF CallInv, NoCall
    <2> QED
        BY Zenon, <2>3, <2>4, <2>5, <2>6, <2>7 DEF SchedInv
<1>4. CASE TimeoutStep
    <2>1. PICK u \in TimedOut : ResumeThread(u)
        BY Zenon, <1>4 DEF TimeoutStep
    <2>2. /\ call.op = "timeouts" /\ call' = call /\ CallType'
          /\ UNCHANGED <<waiter, placeVars, m_core_affinity, m_core_running,
                         m_core_thread_running, m_quantum_left, m_last_scheduled>>
        BY Zenon, <1>4, <1>a DEF TimeoutStep, At, CallType
    <2>3. TypeOK' /\ SchedInv' /\ JoinInv'
        BY Zenon, <2>1, <2>2, ResumeInv DEF Stalling
    <2> QED
        BY Zenon, <2>2, <2>3 DEF CallInv
<1>5. CASE PassBegin
    <2>1. /\ UNCHANGED <<tmVars, placeVars, schedVars, host, joining, m_resumed>>
          /\ call'.op = "pass" /\ call'.t = call.t /\ call'.c \in Cores /\ CallType'
        BY <1>5, <1>a, <1>c, <1>d, SizesAssumption DEF PassBegin, Call, CallType, Calls, Cores
    <2>2. TypeOK' /\ SchedInv' /\ Settled
        <3>1. m_last_scheduled' \in [Threads -> Int] /\ m_resumed' \in Threads \cup {NoThread}
            BY Zenon, <2>1 DEF TypeOK, schedVars
        <3> QED
            BY Zenon, <2>1, <3>1, FrameInv DEF schedVars
    <2>3. JoinInv'
        BY Zenon, <2>1, <2>2, JoinSettled DEF Stalling
    <2> QED
        BY Zenon, <2>1, <2>2, <2>3 DEF CallInv
<1>6. CASE PassStep
    <2>1. call.op = "pass" /\ call.c \in Cores
        BY Zenon, <1>6 DEF PassStep, At, CallInv
    <2>2. call'.op \in {"pass", "passend"} /\ call'.t = call.t /\ CallType'
          /\ (call'.op = "pass" => call'.c \in Cores)
        BY <1>6, <1>a, <1>c, <1>d, <2>1, SizesAssumption
           DEF PassStep, LastCore, Call, CallType, Calls, Cores
    <2>3. TypeOK' /\ SchedInv' /\ Settled
        <3>1. CASE Reschedule(call.c, Interval)
            BY Zenon, <3>1, <2>1, <2>2, <1>d, RescheduleInv
        <3>2. CASE /\ ~(Interval > m_quantum_left[call.c])
                   /\ m_quantum_left' = [m_quantum_left EXCEPT ![call.c] = @ - Interval]
                   /\ UNCHANGED <<tmVars, placeVars, m_threads_runnable, m_core_affinity,
                                  m_core_running, m_core_thread_running, m_last_scheduled,
                                  host, joining, m_resumed>>
            <4>1. TypeOK' /\ Settled
                BY <3>2, <2>1, <2>2, <1>d DEF tmVars, placeVars, TypeOK, CallType, Settled
            <4>2. PlaceInv' /\ RunnableInv' /\ HostInv'
                BY Zenon, <3>2, PlaceFrame, StatusFrame DEF tmVars, placeVars, SchedInv
            <4>3. DisplacedSoon'
                BY <3>2, <2>1, TimesAssumption DEF TypeOK, SchedInv, DisplacedSoon
            <4> QED
                BY Zenon, <4>1, <4>2, <4>3 DEF SchedInv
        <3> QED
            BY Zenon, <3>1, <3>2, <1>6 DEF PassStep
    <2>4. JoinInv'
        BY Zenon, <2>1, <2>2, <2>3, JoinSettled DEF Stalling
    <2> QED
        BY Zenon, <2>2, <2>3, <2>4 DEF CallInv
<1>7. CASE PassDone /\ call' \in {Call("return", call.t, NoCore, 0), Call("timeouts", call.t, NoCore, 0)}
    <2>1. /\ call'.op \in {"return", "timeouts"} /\ call'.t = call.t /\ CallType'
          /\ m_last_scheduled' = [t \in Threads |-> Older(m_last_scheduled[t])]
          /\ UNCHANGED <<tmVars, placeVars, m_threads_runnable, m_core_affinity, m_core_running,
                         m_core_thread_running, m_quantum_left, host, joining, m_resumed>>
        BY <1>7, <1>a, <1>c DEF PassDone, Call, CallType, Calls
    <2>2. m_last_scheduled' \in [Threads -> Int]
        BY <2>1, TimesAssumption DEF TypeOK, Older
    <2>3. TypeOK' /\ SchedInv' /\ Settled
        BY Zenon, <2>1, <2>2, FrameInv DEF TypeOK
    <2>4. JoinInv'
        BY Zenon, <2>1, <2>3, JoinSettled DEF Stalling
    <2> QED
        BY Zenon, <2>1, <2>3, <2>4 DEF CallInv
<1>8. CASE StartStep
    <2>1. /\ call.t \in Threads /\ host[call.t] = "created" /\ call' = NoCall
          /\ UNCHANGED <<m_core, m_thread, schedVars, joining, m_resumed>>
          /\ waiter' = [waiter EXCEPT ![call.t] = NoThread]
          /\ host' = [u \in Threads |-> IF u = call.t \/ (u = waiter[call.t] /\ host[u] = "wait")
                                         THEN "woken" ELSE host[u]]
        BY Zenon, <1>8 DEF StartStep, At, CallInv
    <2>2. \/ /\ m_core[call.t] # NoCore
             /\ core_state' = [core_state EXCEPT ![m_core[call.t]] = "RUNNING"]
             /\ status' = [status EXCEPT ![call.t] = "RUNNING"]
          \/ /\ m_core[call.t] = NoCore
             /\ status' = [status EXCEPT ![call.t] = "UNSCHEDULED"]
             /\ core_state' = core_state
        BY Zenon, <1>8 DEF StartStep
    <2>3. TypeOK'
        <3>1. status' \in [Threads -> States] /\ core_state' \in [Cores -> CoreStates]
            BY <2>1, <2>2 DEF TypeOK, States, CoreStates, Reasons
        <3>2. host' \in [Threads -> HostStates] /\ waiter' \in [Threads -> Threads \cup {NoThread}]
            BY Zenon, <2>1 DEF TypeOK, HostStates
        <3> QED
            BY Zenon, <3>1, <3>2, <2>1, <1>b DEF TypeOK, schedVars
    <2>4. MapsAgree' /\ PlacementAgrees' /\ DisplacedSoon'
        <3>1. MapsAgree' /\ PlacementAgrees'
            BY Zenon, <2>1 DEF SchedInv, PlaceInv, MapsAgree, PlacementAgrees, schedVars
        <3> QED
            BY Zenon, <2>1, <3>1, DisplacedFrame DEF SchedInv, schedVars
    <2>5. PlacementComplete'
        BY <2>1, <2>2 DEF TypeOK, SchedInv, HostInv, PlaceInv, PlacementComplete, schedVars
    <2>6. CoreStateMatchesThread'
        BY <2>1, <2>2, Distinct DEF TypeOK, SchedInv, PlaceInv, PlacementAgrees,
                                    CoreStateMatchesThread
    <2>7. RunnableInv'
        BY Zenon, <2>1, <2>2 DEF TypeOK, SchedInv, RunnableInv, schedVars
    <2>8. HostInv'
        BY <2>1, <2>2 DEF TypeOK, SchedInv, HostInv
    <2>9. JoinInv'
        <3> SUFFICES ASSUME NEW u \in Threads, NEW t \in Threads, waiter'[u] = t
                     PROVE  /\ status'[t] = "JOIN"
                            /\ \/ host'[t] = "wait"
                               \/ host'[t] = "user" /\ call'.t = t /\ call'.op \in Stalling
                            /\ \A v \in Threads : waiter'[v] = t => v = u
            BY Zenon DEF JoinInv
        <3>1. u # call.t /\ waiter[u] = t /\ waiter[call.t] # t
            BY <2>1, Distinct DEF TypeOK, JoinInv
        <3>2. host[t] = "wait" /\ status[t] = "JOIN" /\ t # call.t
            BY ZenonT(60), <1>8, <2>1, <3>1 DEF JoinInv, Stalling, StartStep, At
        <3> QED
            BY SMTT(60), <3>1, <3>2, <2>1, <2>2, Distinct DEF TypeOK, JoinInv
    <2> QED
        BY Zenon, <2>1, <2>3, <2>4, <2>5, <2>6, <2>7, <2>8, <2>9 DEF SchedInv, PlaceInv, CallInv, NoCall
<1>9. CASE FutexWakeStep
    <2>1. /\ call.op = "futexwake" /\ call' = [call EXCEPT !.op = "exit"]
          /\ UNCHANGED <<waiter, placeVars, m_core_affinity, m_core_running,
                         m_core_thread_running, m_quantum_left, m_last_scheduled>>
        BY Zenon, <1>9 DEF FutexWakeStep, At
    <2>2. CallType' /\ call'.op = "exit" /\ call'.t = call.t
          /\ call.t \in Threads /\ status[call.t] = "IDLE"
        BY Zenon, <2>1, <1>a DEF CallType, Calls, CallInv
    <2>3. CASE \E u \in TimedOut : ResumeThread(u)
        <3>1. PICK u \in TimedOut : ResumeThread(u)
            BY Zenon, <2>3
        <3>2. /\ TypeOK' /\ SchedInv' /\ JoinInv'
              /\ \A t \in Threads : t # u => status'[t] = status[t] /\ host'[t] = host[t]
            BY Zenon, <3>1, <2>1, <2>2, ResumeInv DEF Stalling
        <3>3. status'[call.t] = "IDLE"
            BY Zenon, <3>2, <2>2 DEF TimedOut
        <3> QED
            BY Zenon, <3>2, <3>3, <2>2 DEF CallInv
    <2>4. CASE UNCHANGED <<status, host, m_threads_runnable, joining, m_resumed>>
        <3>0. /\ m_last_scheduled' \in [Threads -> Int]
              /\ m_resumed' \in Threads \cup {NoThread}
            BY Zenon, <2>1, <2>4 DEF TypeOK
        <3>1. TypeOK' /\ SchedInv' /\ Settled
            BY Zenon, <3>0, <2>4, <2>1, <2>2, FrameInv DEF tmVars
        <3>2. JoinInv'
            BY Zenon, <2>1, <3>1, JoinSettled DEF Stalling
        <3> QED
            BY Zenon, <2>4, <2>2, <3>1, <3>2 DEF CallInv
    <2> QED
        BY Zenon, <2>3, <2>4, <1>9 DEF FutexWakeStep
<1>10. CASE ExitStep
    <2>1. /\ call.op = "exit" /\ call.t \in Threads /\ status[call.t] = "IDLE"
          /\ core_state' = [c \in Cores |-> IF c = m_core[call.t] THEN "IDLE" ELSE core_state[c]]
          /\ m_thread' = [c \in Cores |-> IF c = m_core[call.t] THEN NoThread ELSE m_thread[c]]
          /\ m_core' = [m_core EXCEPT ![call.t] = NoCore]
          /\ m_threads_runnable' = [m_threads_runnable EXCEPT ![call.t] = FALSE]
          /\ UNCHANGED <<tmVars, m_core_affinity, m_core_running, m_core_thread_running,
                         m_quantum_left, m_last_scheduled, host, joining, m_resumed>>
        BY Zenon, <1>10 DEF ExitStep, At, CallInv
    <2>2. CallType' /\ call'.op = "resched"
        BY Zenon, <1>10, <2>1, <1>a, <1>c DEF ExitStep, TypeOK, Call, CallType, Calls
    <2>3. TypeOK'
        BY Zenon, <2>1, <2>2 DEF TypeOK, CallType, CoreStates, tmVars
    <2>4. MapsAgree' /\ PlacementAgrees' /\ DisplacedSoon'
        <3>1. MapsAgree'
            BY Zenon, <2>1 DEF SchedInv, PlaceInv, MapsAgree
        <3>2. PlacementAgrees'
            BY SMTT(60), <2>1, Distinct DEF TypeOK, SchedInv, PlaceInv, PlacementAgrees
        <3> QED
            BY Zenon, <2>1, <3>1, <3>2, DisplacedFrame DEF SchedInv
    <2>5. PlacementComplete' /\ CoreStateMatchesThread'
        BY Zenon, <2>1, Distinct DEF TypeOK, SchedInv, PlaceInv, PlacementComplete,
                              CoreStateMatchesThread, tmVars
    <2>6. RunnableInv' /\ HostInv'
        BY ZenonT(30), <2>1 DEF TypeOK, SchedInv, RunnableInv, HostInv, tmVars
    <2>7. JoinInv'
        BY SMTT(60), <2>1, <2>2 DEF TypeOK, JoinInv, Stalling, tmVars
    <2> QED
        BY Zenon, <2>2, <2>3, <2>4, <2>5, <2>6, <2>7 DEF SchedInv, PlaceInv, CallInv
<1>11. CASE YieldStep
    <2>1. /\ call.op = "yield" /\ call.t \in Threads /\ call.c \in Cores
          /\ call' = [call EXCEPT !.op = "yieldtail"] /\ Reschedule(call.c, call.tm)
        BY Zenon, <1>11 DEF YieldStep, At, CallInv
    <2>2. CallType' /\ call'.op = "yieldtail" /\ call'.t = call.t /\ call'.c = call.c
        BY Zenon, <2>1, <1>a DEF CallType, Calls
    <2>3. TypeOK' /\ SchedInv' /\ Settled
        BY Zenon, <2>1, <2>2, <1>a, RescheduleInv
    <2>4. JoinInv'
        BY Zenon, <2>1, <2>3, JoinSettled DEF Stalling
    <2> QED
        BY Zenon, <2>1, <2>2, <2>3, <2>4 DEF CallInv
<1>12. CASE YieldTail
    <2>1. /\ call.op = "yieldtail" /\ call.t \in Threads
          /\ call'.op = "none" /\ CallType'
        BY Zenon, <1>12, <1>a, <1>b, <1>c DEF YieldTail, At, CallInv, NoCall, Call, CallType, Calls
    <2>2. TypeOK' /\ SchedInv' /\ Settled
        <3>1. CASE RescheduleFreeCore(call.t, call.tm)
            BY Zenon, <3>1, <2>1, <1>a, FreeCoreInv
        <3>2. CASE UNCHANGED <<tmVars, placeVars, schedVars, host, joining, m_resumed>>
            <4>1. /\ m_last_scheduled' \in [Threads -> Int]
                  /\ m_resumed' \in Threads \cup {NoThread}
                BY Zenon, <3>2 DEF TypeOK, schedVars
            <4> QED
                BY Zenon, <3>2, <4>1, <2>1, FrameInv DEF schedVars
        <3> QED
            BY Zenon, <3>1, <3>2, <1>12 DEF YieldTail
    <2>3. JoinInv'
        BY Zenon, <2>1, <2>2, JoinSettled DEF Stalling
    <2> QED
        BY Zenon, <2>1, <2>2, <2>3 DEF CallInv
<1> QED
    BY Zenon, <1>1, <1>2, <1>3, <1>4, <1>5, <1>6, <1>7, <1>8, <1>9, <1>10, <1>11, <1>12
       DEF LockHolder, PassEnd, PassAgain

=============================================================================
