---------------------- MODULE PinnedSchedulerTheorems -----------------------
(***************************************************************************)
(* What the scheduler promises to threads: stalled threads hold no core,   *)
(* no wakeup is lost, and joiners are not forgotten.  What its steps do:   *)
(* each is a step of CoreAssignment or leaves it alone; none takes a core  *)
(* from a thread that can run, except at the barrier; and resume callbacks *)
(* do not go round in a loop.  For any number of threads and cores.        *)
(***************************************************************************)
EXTENDS PinnedSchedulerInvariance, FiniteSetTheorems

\* stallThread_async() by a thread in application code: its core is next
LEMMA StallSafe ==
    ASSUME NEW t \in Threads, NEW why \in {"FUTEX", "SYSCALL", "JOIN"}, NEW tm \in Int,
           IInv, SafeInv, Idle, InUser(t), StallThread(t, why),
           call' = Call("resched", t, m_core_running[t], tm),
           \/ UNCHANGED host
           \/ host' = [host EXCEPT ![t] = "blocked"],
           UNCHANGED <<m_core, m_core_running, m_resumed>>
    PROVE  SafeInv' /\ (UserInv => UserInv') /\ (UnscheduledIsRunnable => UnscheduledIsRunnable')
<1>0. /\ call.op = "none" /\ m_resumed' = NoThread
      /\ call'.op = "resched" /\ call'.t = t /\ call'.c = m_core_running'[t]
      /\ host[t] = "user" /\ status[t] = "RUNNING"
      /\ status' = [status EXCEPT ![t] = why]
    BY Zenon DEF Idle, InUser, StallThread, Call
<1>1. \A u \in Threads : m_threads_runnable'[u] <=> u # t /\ m_threads_runnable[u]
    BY Zenon DEF StallThread, IInv, TypeOK
<1>2. \A u \in Threads : /\ status'[u] = IF u = t THEN why ELSE status[u]
                         /\ u # t => host'[u] = host[u]
                         /\ host'[t] \in {"user", "blocked"}
    BY Zenon, <1>0 DEF IInv, TypeOK
<1>3. CoreInv' /\ ArgsInv' /\ ExitInv'
    BY <1>0, <1>1, <1>2 DEF SafeInv, CoreInv, ArgsInv, ExitInv
<1>4. WaitInv' /\ RunningInv' /\ StartedInv'
    BY <1>0, <1>1, <1>2 DEF SafeInv, WaitInv, RunningInv, StartedInv
<1>5. UserInv => UserInv'
    BY <1>0, <1>1, <1>2 DEF UserInv, Stalling
<1>6. UnscheduledIsRunnable => UnscheduledIsRunnable'
    BY <1>0, <1>1, <1>2 DEF UnscheduledIsRunnable
<1> QED
    BY Zenon, <1>3, <1>4, <1>5, <1>6 DEF SafeInv

LEMMA HandlerSafe ==
    ASSUME NEW t \in Threads, IInv, SafeInv, LateJoinInv, Handler(t)
    PROVE  SafeInv' /\ LateJoinInv'
<1> USE DEF IInv
<1>a. LocalTimes \subseteq Int
    BY TimesAssumption
<1>1. CASE CreateThread(t)
    <2>1. /\ call.op = "none" /\ m_resumed' = NoThread /\ call' = call
          /\ status[t] = "NONE" /\ host[t] = "none"
          /\ status' = [status EXCEPT ![t] = "INITIALIZING"]
          /\ host' = [host EXCEPT ![t] = "created"]
          /\ UNCHANGED <<waiter, m_threads_runnable, joining>>
        BY Zenon, <1>1 DEF CreateThread, Idle, SchedInv, HostInv
    <2>2. \A u \in Threads : u # t => /\ m_core'[u] = m_core[u]
                                      /\ m_core_running'[u] = m_core_running[u]
        BY ZenonT(30), <1>1 DEF CreateThread, TypeOK
    <2>3. CoreInv' /\ ArgsInv' /\ ExitInv'
        BY ZenonT(30), <2>1, <2>2 DEF SafeInv, CoreInv, ArgsInv, ExitInv, TypeOK
    <2>4. WaitInv' /\ RunningInv' /\ StartedInv'
        BY Zenon, <2>1 DEF SafeInv, WaitInv, RunningInv, StartedInv, TypeOK
    <2>5. ASSUME JoinSafe PROVE JoinSafe'
        BY <2>1, <2>5 DEF JoinSafe, UserInv, UnjoinedInv, JoinerRemembered,
            UnscheduledIsRunnable, TypeOK
    <2> QED
        BY Zenon, <2>3, <2>4, <2>5 DEF SafeInv, LateJoinInv
<1>2. ASSUME NEW tm \in LocalTimes, OnThreadStart(t, tm)
      PROVE  SafeInv' /\ LateJoinInv'
    <2>1. /\ call.op = "none" /\ call'.op = "start" /\ call'.t = t /\ host[t] = "created"
          /\ status' = [status EXCEPT ![t] = "RUNNING"]
          /\ m_threads_runnable' = [m_threads_runnable EXCEPT ![t] = TRUE]
          /\ UNCHANGED <<waiter, m_core, m_core_running, host, joining>>
        BY Zenon, <1>2 DEF OnThreadStart, Idle, Call, placeVars
    <2>2. CoreInv' /\ ArgsInv' /\ ExitInv'
        BY Zenon, <2>1 DEF SafeInv, CoreInv, ArgsInv, ExitInv, TypeOK
    <2>3. WaitInv' /\ RunningInv' /\ StartedInv'
        BY Zenon, <2>1 DEF SafeInv, WaitInv, RunningInv, StartedInv, TypeOK
    <2>4. ASSUME JoinSafe PROVE JoinSafe'
        BY <2>1, <2>4 DEF JoinSafe, UserInv, UnjoinedInv, JoinerRemembered,
            UnscheduledIsRunnable, TypeOK, Stalling
    <2> QED
        BY Zenon, <2>2, <2>3, <2>4 DEF SafeInv, LateJoinInv
<1>3. ASSUME NEW tm \in LocalTimes, StallSync(t, tm) \/ BlockingSyscall(t, tm)
      PROVE  SafeInv' /\ LateJoinInv'
    <2>0. \E why \in {"FUTEX", "SYSCALL", "JOIN"} :
            /\ StallThread(t, why) /\ Idle /\ InUser(t)
            /\ call' = Call("resched", t, m_core_running[t], tm)
            /\ UNCHANGED host \/ host' = [host EXCEPT ![t] = "blocked"]
            /\ UNCHANGED <<m_core, m_core_running, m_resumed, waiter, joining>>
        BY Zenon, <1>3 DEF StallSync, BlockingSyscall, placeVars
    <2>1. SafeInv' /\ (UserInv => UserInv') /\ (UnscheduledIsRunnable => UnscheduledIsRunnable')
        BY Zenon, <1>a, <2>0, StallSafe
    <2>2. ASSUME JoinSafe PROVE UnjoinedInv' /\ JoinerRemembered'
        <3>1. host[t] = "user" /\ \A u \in Threads : host'[u] = host[u] \/ host'[u] = "blocked"
            BY Zenon, <2>0 DEF InUser, TypeOK
        <3> QED
            BY Zenon, <2>0, <2>2, <3>1 DEF JoinSafe, UnjoinedInv, JoinerRemembered
    <2> QED
        BY Zenon, <2>1, <2>2 DEF LateJoinInv, JoinSafe
<1>4. ASSUME NEW tm \in LocalTimes, SyscallReturn(t, tm)
      PROVE  SafeInv' /\ LateJoinInv'
    <2>1. /\ call.op = "none" /\ call'.op = "none" /\ host[t] = "blocked"
          /\ status' = [status EXCEPT ![t] = "RUNNING"]
          /\ host' = [host EXCEPT ![t] = "woken"]
          /\ m_threads_runnable' = [m_threads_runnable EXCEPT ![t] = TRUE]
          /\ UNCHANGED <<waiter, m_core, m_core_running, joining>>
        BY Zenon, <1>4 DEF SyscallReturn, Idle, Call, placeVars
    <2>2. CoreInv' /\ ArgsInv' /\ ExitInv'
        BY Zenon, <2>1 DEF SafeInv, CoreInv, ArgsInv, ExitInv, TypeOK
    <2>3. WaitInv' /\ RunningInv' /\ StartedInv'
        BY Zenon, <2>1 DEF SafeInv, WaitInv, RunningInv, StartedInv, TypeOK
    <2>4. ASSUME JoinSafe PROVE JoinSafe'
        BY <2>1, <2>4 DEF JoinSafe, UserInv, UnjoinedInv, JoinerRemembered,
            UnscheduledIsRunnable, TypeOK, Stalling
    <2> QED
        BY Zenon, <2>2, <2>3, <2>4 DEF SafeInv, LateJoinInv
<1>5. ASSUME NEW tm \in LocalTimes, NEW u \in Threads, ResumeOther(t, u, tm)
      PROVE  SafeInv' /\ LateJoinInv'
    <2>1. /\ call.op = "none" /\ call'.op = "none"
          /\ u \in TimedOut /\ ResumeThread(u) /\ UNCHANGED <<waiter, m_core, m_core_running>>
        BY Zenon, <1>5 DEF ResumeOther, Idle, Call, placeVars
    <2> QED
        BY Zenon, <2>1, ResumeSafe DEF Stalling
<1>6. ASSUME NEW tm \in LocalTimes, NEW u \in Threads, JoinThread(t, u, tm)
      PROVE  SafeInv' /\ LateJoinInv'
    <2>0. /\ StallThread(t, "JOIN") /\ Idle /\ InUser(t)
          /\ call' = Call("resched", t, m_core_running[t], tm)
          /\ EarlyJoin \/ status[u] # "INITIALIZING"
          /\ status[u] # "NONE" /\ waiter[u] = NoThread
          /\ waiter' = [waiter EXCEPT ![u] = t] /\ joining' = [joining EXCEPT ![t] = u]
          /\ UNCHANGED <<m_core, m_core_running, m_resumed, host>>
        BY Zenon, <1>6 DEF JoinThread, placeVars
    <2>1. SafeInv' /\ (UserInv => UserInv') /\ (UnscheduledIsRunnable => UnscheduledIsRunnable')
        BY Zenon, <1>a, <2>0, StallSafe
    <2>2. ASSUME ~EarlyJoin, JoinSafe PROVE UnjoinedInv' /\ JoinerRemembered'
        <3>1. host[u] \notin {"none", "created"}
            BY Zenon, <2>0, <2>2 DEF SafeInv, StartedInv, SchedInv, HostInv, Idle
        <3>2. UnjoinedInv'
            BY Zenon, <2>0, <2>2, <3>1 DEF JoinSafe, UnjoinedInv, TypeOK
        <3>3. JoinerRemembered'
            <4> SUFFICES ASSUME NEW v \in Threads, NEW x \in Threads, joining'[v] = x
                         PROVE  waiter'[x] = v
                BY Zenon DEF JoinerRemembered
            <4>1. CASE v = t
                BY Zenon, <2>0, <4>1 DEF TypeOK
            <4>2. CASE v # t
                <5>1. waiter[x] = v /\ x # u
                    BY <2>0, <2>2, <4>2, Distinct DEF JoinSafe, JoinerRemembered, TypeOK
                <5> QED
                    BY Zenon, <2>0, <5>1 DEF TypeOK
            <4> QED
                BY Zenon, <4>1, <4>2
        <3> QED
            BY Zenon, <3>2, <3>3
    <2> QED
        BY Zenon, <2>1, <2>2 DEF LateJoinInv, JoinSafe
<1>7. ASSUME NEW tm \in LocalTimes, ThreadReschedule(t, tm)
      PROVE  SafeInv' /\ LateJoinInv'
    <2>1. /\ call.op = "none" /\ m_resumed = NoThread /\ host[t] \in {"user", "woken"}
          /\ UNCHANGED <<waiter, m_core, m_core_running, joining, m_resumed>>
        BY Zenon, <1>7 DEF ThreadReschedule, Idle, placeVars
    <2>2. CASE m_core[t] = NoCore
        <3>1. /\ call'.op \in {"return", "timeouts"} /\ call'.t = t /\ host' = host
              /\ status' = [status EXCEPT ![t] = "UNSCHEDULED"]
            BY <1>7, <2>2 DEF ThreadReschedule, Signal, Call, StallThread
        <3>2. \A u \in Threads : m_threads_runnable'[u] <=> m_threads_runnable[u]
            BY ZenonT(30), <1>7, <2>2 DEF ThreadReschedule, StallThread, TypeOK
        <3>3. CoreInv' /\ ArgsInv' /\ ExitInv'
            BY Zenon, <2>1, <2>2, <3>1, <3>2 DEF SafeInv, CoreInv, ArgsInv, ExitInv, TypeOK
        <3>4. WaitInv' /\ RunningInv' /\ StartedInv'
            BY Zenon, <2>1, <3>1, <3>2 DEF SafeInv, WaitInv, RunningInv, StartedInv, TypeOK
        <3>5. ASSUME JoinSafe PROVE JoinSafe'
            <4>1. m_threads_runnable[t]
                BY Zenon, <2>1, <3>5 DEF JoinSafe, UserInv, UnscheduledIsRunnable, SafeInv, RunningInv, Stalling
            <4>2. UserInv' /\ UnscheduledIsRunnable'
                BY <2>1, <3>1, <3>2, <3>5, <4>1 DEF JoinSafe, UserInv, UnscheduledIsRunnable, TypeOK, Stalling
            <4>3. UnjoinedInv' /\ JoinerRemembered'
                BY Zenon, <2>1, <3>1, <3>5 DEF JoinSafe, UnjoinedInv, JoinerRemembered
            <4> QED
                BY Zenon, <4>2, <4>3 DEF JoinSafe
        <3> QED
            BY Zenon, <3>3, <3>4, <3>5 DEF SafeInv, LateJoinInv
    <2>3. CASE m_core[t] # NoCore
        <3>1. /\ host[t] = "woken" /\ host' = [host EXCEPT ![t] = "user"]
              /\ UNCHANGED <<status, m_threads_runnable, call>>
            BY Zenon, <1>7, <2>3 DEF ThreadReschedule
        <3>2. CoreInv' /\ ArgsInv' /\ ExitInv'
            BY Zenon, <2>1, <3>1 DEF SafeInv, CoreInv, ArgsInv, ExitInv
        <3>3. WaitInv' /\ RunningInv' /\ StartedInv'
            BY Zenon, <2>1, <3>1 DEF SafeInv, WaitInv, RunningInv, StartedInv, TypeOK
        <3>4. ASSUME JoinSafe PROVE JoinSafe'
            BY <2>1, <3>1, <3>4 DEF JoinSafe, UserInv, UnjoinedInv, JoinerRemembered,
                UnscheduledIsRunnable, TypeOK
        <3> QED
            BY Zenon, <3>2, <3>3, <3>4 DEF SafeInv, LateJoinInv
    <2> QED
        BY Zenon, <2>2, <2>3
<1>8. ASSUME \/ \E tm \in LocalTimes : ThreadYield(t, tm)
             \/ \E tm \in LocalTimes, self \in BOOLEAN, mask \in AffinityMasks :
                   ThreadSetAffinity(t, self, mask, tm)
      PROVE  SafeInv' /\ LateJoinInv'
    <2>1. /\ call.op = "none" /\ m_resumed = NoThread
          /\ UNCHANGED <<status, waiter, m_core, m_core_running, m_threads_runnable, host, joining>>
        BY Zenon, <1>8 DEF ThreadYield, ThreadSetAffinity, Idle, tmVars, placeVars
    <2>2. /\ call'.op \in {"none", "yield"}
          /\ call'.op = "yield" => call'.t = t /\ call'.c = m_core_running[t] /\ m_resumed' = NoThread
        BY SMTT(60), <1>8 DEF ThreadYield, ThreadSetAffinity, Idle, Call, NoCall
    <2>3. CoreInv' /\ ArgsInv' /\ ExitInv'
        BY Zenon, <2>1, <2>2 DEF SafeInv, CoreInv, ArgsInv, ExitInv
    <2>4. WaitInv' /\ RunningInv' /\ StartedInv'
        BY Zenon, <2>1, <2>2 DEF SafeInv, WaitInv, RunningInv, StartedInv
    <2>5. ASSUME JoinSafe PROVE JoinSafe'
        BY Zenon, <2>1, <2>2, <2>5 DEF JoinSafe, UserInv, UnjoinedInv, JoinerRemembered,
            UnscheduledIsRunnable, Stalling
    <2> QED
        BY Zenon, <2>3, <2>4, <2>5 DEF SafeInv, LateJoinInv
<1>9. ASSUME NEW tm \in LocalTimes, OnThreadExit(t, tm)
      PROVE  SafeInv' /\ LateJoinInv'
    <2> DEFINE w == waiter[t]
    <2>1. /\ call.op = "none" /\ host[t] = "user" /\ status[t] = "RUNNING" /\ m_core[t] # NoCore
          /\ status' = [u \in Threads |-> IF u = t THEN "IDLE"
                                          ELSE IF u = w THEN "RUNNING" ELSE status[u]]
          /\ host' = [u \in Threads |-> IF u = t THEN "gone"
                                        ELSE IF u = w /\ host[u] = "wait" THEN "woken"
                                        ELSE host[u]]
          /\ m_threads_runnable' = [u \in Threads |-> u = w \/ m_threads_runnable[u]]
          /\ joining' = [u \in Threads |-> IF u = w THEN NoThread ELSE joining[u]]
          /\ waiter' = [waiter EXCEPT ![t] = NoThread]
          /\ UNCHANGED <<m_core, m_core_running>>
        BY Zenon, <1>9 DEF OnThreadExit, Idle, InUser, placeVars
    <2>2. call'.op = "futexwake" /\ call'.t = t
        BY Zenon, <1>9 DEF OnThreadExit, Call
    <2>3. w \in Threads => status[w] = "JOIN" /\ host[w] = "wait" /\ w # t
        BY Zenon, <2>1 DEF JoinInv, Stalling
    <2>4. m_core_running[t] # NoCore /\ \A u \in Threads : status[u] = "IDLE" => host[u] = "gone"
        BY Zenon, <2>1 DEF SchedInv, PlaceInv, PlacementAgrees, HostInv
    <2>5. CoreInv' /\ ArgsInv'
        BY Zenon, <2>1, <2>2 DEF SafeInv, CoreInv, ArgsInv
    <2>6. ExitInv'
        BY Zenon, <2>1, <2>2, <2>4 DEF SafeInv, ExitInv
    <2>7. WaitInv' /\ RunningInv' /\ StartedInv'
        BY Zenon, <2>1, <2>2, <2>3 DEF SafeInv, WaitInv, RunningInv, StartedInv
    <2>8. ASSUME JoinSafe PROVE JoinSafe'
        <3>1. UserInv' /\ UnscheduledIsRunnable'
            BY Zenon, <2>1, <2>2, <2>3, <2>8 DEF JoinSafe, UserInv, UnscheduledIsRunnable, Stalling
        <3>2. UnjoinedInv'
            BY Zenon, <2>1, <2>3, <2>8 DEF JoinSafe, UnjoinedInv, TypeOK
        <3>3. JoinerRemembered'
            BY <2>1, <2>8, Distinct DEF JoinSafe, JoinerRemembered, TypeOK
        <3> QED
            BY Zenon, <3>1, <3>2, <3>3 DEF JoinSafe
    <2> QED
        BY Zenon, <2>5, <2>6, <2>7, <2>8 DEF SafeInv, LateJoinInv
<1> QED
    BY Zenon, <1>1, <1>2, <1>3, <1>4, <1>5, <1>6, <1>7, <1>8, <1>9 DEF Handler

LEMMA InitSafe == Init => SafeInv /\ LateJoinInv
<1> SUFFICES ASSUME Init PROVE SafeInv /\ LateJoinInv
    BY Zenon
<1>1. /\ \A t \in Threads : /\ status[t] = "NONE" /\ host[t] = "none" /\ m_core[t] = NoCore
                            /\ waiter[t] = NoThread /\ joining[t] = NoThread
                            /\ ~m_threads_runnable[t]
      /\ call.op = "none"
    BY Zenon DEF Init, NoCall
<1>2. SafeInv
    BY Zenon, <1>1 DEF SafeInv, CoreInv, ArgsInv, ExitInv, WaitInv, RunningInv, StartedInv
<1>3. JoinSafe
    BY Zenon, <1>1, Distinct DEF JoinSafe, UserInv, UnjoinedInv, JoinerRemembered, UnscheduledIsRunnable
<1> QED
    BY Zenon, <1>2, <1>3 DEF LateJoinInv

LEMMA NextSafe ==
    IInv /\ SafeInv /\ LateJoinInv /\ [Next]_vars => SafeInv' /\ LateJoinInv'
<1> SUFFICES ASSUME IInv, SafeInv, LateJoinInv, [Next]_vars PROVE SafeInv' /\ LateJoinInv'
    BY Zenon
<1>1. CASE LockHolder
    BY Zenon, <1>1, LockHolderSafe
<1>2. CASE Periodic
    <2>1. /\ call.op = "none" /\ call'.op = "timeouts"
          /\ UNCHANGED <<status, host, m_core, m_core_running, m_threads_runnable, waiter, joining>>
        BY Zenon, <1>2 DEF Periodic, Idle, Call, tmVars, placeVars, schedVars
    <2>2. GoesOn
        BY Zenon, <2>1 DEF GoesOn, Stalling
    <2> QED
        BY Zenon, <2>1, <2>2, FrameSafe, FrameJoin DEF LateJoinInv
<1>3. CASE \E t \in Threads : Handler(t)
    BY Zenon, <1>3, HandlerSafe
<1>4. CASE UNCHANGED vars
    <2>1. /\ UNCHANGED <<status, host, m_core, m_core_running, m_threads_runnable, waiter, joining>>
          /\ UNCHANGED <<call, m_resumed>>
        BY Zenon, <1>4 DEF vars, tmVars, placeVars, schedVars
    <2>2. CoreInv' /\ ArgsInv' /\ ExitInv'
        BY Zenon, <2>1 DEF SafeInv, CoreInv, ArgsInv, ExitInv
    <2>3. WaitInv' /\ RunningInv' /\ StartedInv'
        BY Zenon, <2>1 DEF SafeInv, WaitInv, RunningInv, StartedInv
    <2>4. ASSUME JoinSafe PROVE JoinSafe'
        BY Zenon, <2>1, <2>4 DEF JoinSafe, UserInv, UnjoinedInv, JoinerRemembered, UnscheduledIsRunnable
    <2> QED
        BY Zenon, <2>2, <2>3, <2>4 DEF SafeInv, LateJoinInv
<1> QED
    BY Zenon, <1>1, <1>2, <1>3, <1>4 DEF Next

LEMMA SpecSafe == Spec => [](SafeInv /\ LateJoinInv)
BY InitInv, NextInv, InitSafe, NextSafe, PTL DEF Spec

-----------------------------------------------------------------------------
(***************************************************************************)
(* Theorems                                                                *)
(***************************************************************************)

\* Whenever m_thread_lock is free, a thread that is stalled or has ended is on no
\* core: stallThread_async() and onThreadExit() give the core away before they
\* return, whatever callbacks run in between.
THEOREM StalledNeverOnCore == Spec => []NoCoreForStalled
<1>1. SafeInv => NoCoreForStalled
    BY Zenon DEF SafeInv, CoreInv, NoCoreForStalled, Idle
<1> QED
    BY <1>1, SpecSafe, PTL

\* Whenever m_thread_lock is free, a host thread asleep in Thread::wait() belongs to
\* a stalled thread without a core: no resumeThread() falls between the stall and
\* the sleep.
THEOREM WakeupNeverLost == Spec => []NoLostWakeup
<1>1. SafeInv => NoLostWakeup
    <2> SUFFICES ASSUME SafeInv, Idle, NEW t \in Threads, host[t] = "wait"
                 PROVE  status[t] \in Reasons /\ m_core[t] = NoCore
        BY Zenon DEF NoLostWakeup
    <2>1. status[t] \in Reasons
        BY Zenon DEF SafeInv, WaitInv
    <2> QED
        BY Zenon, <2>1 DEF SafeInv, CoreInv, Idle, Reasons
<1> QED
    BY <1>1, SpecSafe, PTL

\* As long as nobody is joined before its onThreadStart(), every thread stalled as
\* UNSCHEDULED is runnable for the scheduler, and every joiner is remembered by the
\* thread it joined until that one exits.  (With an early join, StartStep wakes the
\* joiner, and both fail.)
THEOREM NobodyForgottenLateJoin ==
    ASSUME EarlyJoin = FALSE
    PROVE  Spec => [](UnscheduledIsRunnable /\ JoinerRemembered)
<1>1. LateJoinInv => UnscheduledIsRunnable /\ JoinerRemembered
    BY Zenon DEF LateJoinInv, JoinSafe
<1> QED
    BY <1>1, SpecSafe, PTL

-----------------------------------------------------------------------------
(***************************************************************************)
(* Every step is a step of CoreAssignment or leaves it alone               *)
(***************************************************************************)

Entitled == {t \in Threads : m_threads_runnable[t] \/ status[t] \in {"NONE", "INITIALIZING"}}

AStep == [Assigned!ANext]_(Assigned!avars)

LEMMA StutterRefines ==
    ASSUME m_thread' = m_thread, Entitled' = Entitled
    PROVE  AStep
BY Zenon DEF AStep, Entitled, Assigned!avars

LEMMA AdmitRefines ==
    ASSUME NEW t \in Threads, m_thread' = m_thread, Entitled' = Entitled \cup {t}
    PROVE  AStep
BY Zenon DEF AStep, Entitled, Assigned!ANext, Assigned!Admit

LEMMA WithdrawRefines ==
    ASSUME NEW t \in Threads, m_thread' = m_thread, Entitled' = Entitled \ {t}
    PROVE  AStep
BY Zenon DEF AStep, Entitled, Assigned!ANext, Assigned!Withdraw

LEMMA RetireRefines ==
    ASSUME NEW t \in Threads, Entitled' = Entitled \ {t},
           m_thread' = [c \in Cores |-> IF m_thread[c] = t THEN NoThread ELSE m_thread[c]]
    PROVE  AStep
BY Zenon DEF AStep, Entitled, Assigned!ANext, Assigned!Retire

LEMMA SwitchRefines ==
    ASSUME NEW c \in Cores, NEW t \in Threads \cup {NoThread}, TypeOK, PlacementAgrees,
           m_thread' = [m_thread EXCEPT ![c] = t], Entitled' = Entitled,
           t # NoThread => t \in Entitled /\ m_core[t] = NoCore
    PROVE  AStep
<1>1. t \in (Entitled \ ({m_thread[d] : d \in Cores} \ {NoThread})) \cup {NoThread}
    BY Distinct DEF PlacementAgrees
<1> QED
    BY Zenon, <1>1 DEF AStep, Entitled, Assigned!ANext, Assigned!Switch, Assigned!Placed

\* reschedule() is a Switch, or nothing
LEMMA HandoverRefines ==
    ASSUME TypeOK, SchedInv, Settled, Handover
    PROVE  AStep
<1>1. Entitled' = Entitled
    BY Zenon DEF TypeOK, Settled, Entitled
<1>2. CASE m_thread' = m_thread
    BY Zenon, <1>1, <1>2, StutterRefines
<1>3. CASE \E d \in Cores, new \in Threads \cup {NoThread} :
             /\ m_thread' = [m_thread EXCEPT ![d] = new]
             /\ new # NoThread => m_threads_runnable[new] /\ m_core[new] = NoCore
    <2>1. PICK d \in Cores, new \in Threads \cup {NoThread} :
             /\ m_thread' = [m_thread EXCEPT ![d] = new]
             /\ new # NoThread => m_threads_runnable[new] /\ m_core[new] = NoCore
        BY Zenon, <1>3
    <2> QED
        BY Zenon, <2>1, <1>1, SwitchRefines DEF SchedInv, PlaceInv, Entitled
<1> QED
    BY Zenon, <1>2, <1>3 DEF Handover

LEMMA ResumeRefines ==
    ASSUME NEW u \in TimedOut, TypeOK, ResumeThread(u), UNCHANGED placeVars
    PROVE  AStep
<1>1. u \in Threads /\ Entitled' = Entitled \cup {u}
    BY Zenon DEF TypeOK, ResumeThread, TimedOut, Entitled
<1> QED
    BY Zenon, <1>1, AdmitRefines DEF placeVars

LEMMA StallRefines ==
    ASSUME NEW t \in Threads, NEW why \in {"FUTEX", "JOIN", "SYSCALL"}, TypeOK, InUser(t),
           StallThread(t, why), UNCHANGED placeVars
    PROVE  AStep
<1>1. m_threads_runnable' = [m_threads_runnable EXCEPT ![t] = FALSE]
    BY Zenon DEF StallThread, TypeOK
<1>2. Entitled' = Entitled \ {t}
    BY Zenon, <1>1 DEF StallThread, TypeOK, InUser, Entitled
<1> QED
    BY Zenon, <1>2, WithdrawRefines DEF placeVars

LEMMA LockHolderRefines == IInv /\ IInv' /\ LockHolder => AStep
<1> SUFFICES ASSUME IInv, IInv', LockHolder PROVE AStep
    BY Zenon
<1> USE DEF IInv
<1>a. CallType' /\ call.t \in Threads \cup {NoThread} /\ call.c \in Cores \cup {NoCore} /\ call.tm \in Int
    BY Zenon DEF TypeOK, CallType
<1>1. CASE ThreadResume
    <2>1. m_resumed \in Threads /\ RescheduleFreeCore(m_resumed, call.tm)
        BY Zenon, <1>1 DEF ThreadResume, TypeOK
    <2> QED
        BY Zenon, <2>1, <1>a, FreeCoreInv, HandoverRefines
<1>2. CASE RescheduleStep
    <2>1. CASE call.c # NoCore
        BY Zenon, <1>2, <2>1, <1>a, RescheduleInv, HandoverRefines DEF RescheduleStep
    <2>2. CASE call.c = NoCore
        BY Zenon, <1>2, <2>2, StutterRefines
           DEF RescheduleStep, tmVars, placeVars, schedVars, Entitled
    <2> QED
        BY Zenon, <2>1, <2>2
<1>3. CASE ReturnStep
    BY Zenon, <1>3, StutterRefines DEF ReturnStep, tmVars, placeVars, schedVars, Entitled
<1>4. CASE TimeoutStep
    BY Zenon, <1>4, ResumeRefines DEF TimeoutStep
<1>5. CASE PassBegin
    BY Zenon, <1>5, StutterRefines DEF PassBegin, tmVars, placeVars, schedVars, Entitled
<1>6. CASE PassStep
    <2>1. call.c \in Cores /\ Interval \in Int
        BY <1>6, TimesAssumption DEF PassStep, At, CallInv
    <2>2. CASE Reschedule(call.c, Interval)
        BY Zenon, <2>1, <2>2, <1>a, RescheduleInv, HandoverRefines
    <2>3. CASE UNCHANGED <<tmVars, placeVars, m_threads_runnable>>
        BY Zenon, <2>3, StutterRefines DEF tmVars, placeVars, Entitled
    <2> QED
        BY Zenon, <2>2, <2>3, <1>6 DEF PassStep
<1>7. CASE PassDone
    BY Zenon, <1>7, StutterRefines DEF PassDone, tmVars, placeVars, Entitled
<1>8. CASE StartStep
    <2>1. /\ call.t \in Threads /\ m_threads_runnable[call.t] /\ m_thread' = m_thread
          /\ m_threads_runnable' = m_threads_runnable
          /\ \A t \in Threads : t # call.t => status'[t] = status[t]
        BY ZenonT(60), <1>8 DEF StartStep, At, CallInv, schedVars, TypeOK
    <2>2. Entitled' = Entitled
        BY Zenon, <2>1 DEF Entitled
    <2> QED
        BY Zenon, <2>1, <2>2, StutterRefines
<1>9. CASE FutexWakeStep
    <2>1. CASE \E u \in TimedOut : ResumeThread(u)
        BY Zenon, <1>9, <2>1, ResumeRefines DEF FutexWakeStep
    <2>2. CASE UNCHANGED <<status, m_threads_runnable>>
        BY Zenon, <1>9, <2>2, StutterRefines DEF FutexWakeStep, placeVars, Entitled
    <2> QED
        BY Zenon, <1>9, <2>1, <2>2 DEF FutexWakeStep
<1>10. CASE ExitStep
    <2>1. /\ call.t \in Threads /\ status[call.t] = "IDLE" /\ status' = status
          /\ m_thread' = [c \in Cores |-> IF c = m_core[call.t] THEN NoThread ELSE m_thread[c]]
          /\ m_threads_runnable' = [m_threads_runnable EXCEPT ![call.t] = FALSE]
        BY Zenon, <1>10 DEF ExitStep, At, CallInv, tmVars
    <2>2. Entitled' = Entitled \ {call.t}
        BY Zenon, <2>1 DEF Entitled, TypeOK
    <2>3. m_thread' = [c \in Cores |-> IF m_thread[c] = call.t THEN NoThread ELSE m_thread[c]]
        <3>1. PlacementAgrees /\ call.t \in Threads
            BY Zenon, <2>1 DEF SchedInv, PlaceInv
        <3>2. \A c \in Cores : m_core[call.t] = c <=> m_thread[c] = call.t
            BY Zenon, <3>1 DEF PlacementAgrees
        <3> QED
            BY Zenon, <2>1, <3>2
    <2> QED
        BY Zenon, <2>1, <2>2, <2>3, RetireRefines
<1>11. CASE YieldStep
    <2>1. call.c \in Cores /\ Reschedule(call.c, call.tm)
        BY Zenon, <1>11 DEF YieldStep, At, CallInv
    <2> QED
        BY Zenon, <2>1, <1>a, RescheduleInv, HandoverRefines
<1>12. CASE YieldTail
    <2>1. call.t \in Threads
        BY Zenon, <1>12 DEF YieldTail, At, CallInv
    <2>2. CASE RescheduleFreeCore(call.t, call.tm)
        BY Zenon, <2>1, <2>2, <1>a, FreeCoreInv, HandoverRefines
    <2>3. CASE UNCHANGED <<tmVars, placeVars, schedVars>>
        BY Zenon, <2>3, StutterRefines DEF tmVars, placeVars, schedVars, Entitled
    <2> QED
        BY Zenon, <1>12, <2>2, <2>3 DEF YieldTail
<1> QED
    BY ZenonT(30), <1>1, <1>2, <1>3, <1>4, <1>5, <1>6, <1>7, <1>8, <1>9, <1>10, <1>11, <1>12
       DEF LockHolder, PassEnd, PassAgain

LEMMA HandlerRefines ==
    ASSUME NEW t \in Threads, IInv, Handler(t)
    PROVE  AStep
<1> USE DEF IInv
<1>1. CASE CreateThread(t)
    <2>1. /\ status[t] = "NONE" /\ status' = [status EXCEPT ![t] = "INITIALIZING"]
          /\ m_threads_runnable' = m_threads_runnable
          /\ \E c \in Cores \cup {NoCore} :
                m_thread' = [d \in Cores |-> IF d = c THEN t ELSE m_thread[d]]
        BY Zenon, <1>1 DEF CreateThread
    <2>2. Entitled' = Entitled /\ t \in Entitled /\ m_core[t] = NoCore
        BY <2>1, Distinct DEF Entitled, TypeOK, SchedInv, RunnableInv, PlaceInv, PlacementAgrees
    <2>3. PICK c \in Cores \cup {NoCore} :
            m_thread' = [d \in Cores |-> IF d = c THEN t ELSE m_thread[d]]
        BY Zenon, <2>1
    <2>4. CASE c \in Cores
        <3>1. m_thread' = [m_thread EXCEPT ![c] = t]
            BY Zenon, <2>3, <2>4 DEF TypeOK
        <3> QED
            BY Zenon, <3>1, <2>2, <2>4, SwitchRefines DEF SchedInv, PlaceInv
    <2>5. CASE c = NoCore
        <3>1. m_thread' = m_thread
            BY <2>3, <2>5, Distinct DEF TypeOK
        <3> QED
            BY Zenon, <3>1, <2>2, StutterRefines
    <2> QED
        BY Zenon, <2>4, <2>5
<1>2. ASSUME NEW tm \in LocalTimes, OnThreadStart(t, tm) \/ SyscallReturn(t, tm)
      PROVE  AStep
    <2>1. /\ status' = [status EXCEPT ![t] = "RUNNING"] /\ UNCHANGED placeVars
          /\ m_threads_runnable' = [m_threads_runnable EXCEPT ![t] = TRUE]
        BY Zenon, <1>2 DEF OnThreadStart, SyscallReturn
    <2>2. Entitled' = Entitled \cup {t}
        BY <2>1 DEF Entitled, TypeOK
    <2> QED
        BY Zenon, <2>1, <2>2, AdmitRefines DEF placeVars
<1>3. ASSUME NEW tm \in LocalTimes,
             StallSync(t, tm) \/ BlockingSyscall(t, tm) \/ \E u \in Threads : JoinThread(t, u, tm)
      PROVE  AStep
    <2>1. /\ InUser(t) /\ UNCHANGED placeVars
          /\ StallThread(t, "FUTEX") \/ StallThread(t, "SYSCALL") \/ StallThread(t, "JOIN")
        BY Zenon, <1>3 DEF StallSync, BlockingSyscall, JoinThread
    <2> QED
        BY Zenon, <2>1, StallRefines
<1>4. ASSUME NEW tm \in LocalTimes, NEW u \in Threads, ResumeOther(t, u, tm)
      PROVE  AStep
    BY Zenon, <1>4, ResumeRefines DEF ResumeOther
<1>5. ASSUME NEW tm \in LocalTimes, ThreadReschedule(t, tm)
      PROVE  AStep
    <2>1. CASE m_core[t] = NoCore
        <3>1. status' = [status EXCEPT ![t] = "UNSCHEDULED"] /\ UNCHANGED placeVars
              /\ host[t] \in {"user", "woken"}
            BY Zenon, <1>5, <2>1 DEF ThreadReschedule, StallThread
        <3>2. m_threads_runnable' = m_threads_runnable
            <4>1. m_threads_runnable' = [m_threads_runnable EXCEPT ![t] = @ /\ TRUE]
                BY Zenon, <1>5, <2>1 DEF ThreadReschedule, StallThread
            <4> QED
                BY Zenon, <4>1 DEF TypeOK
        <3>3. status[t] \notin {"NONE", "INITIALIZING"}
            BY Zenon, <3>1 DEF SchedInv, HostInv
        <3>4. Entitled' = Entitled
            BY Zenon, <3>1, <3>2, <3>3 DEF Entitled, TypeOK
        <3> QED
            BY Zenon, <3>1, <3>4, StutterRefines DEF placeVars
    <2>2. CASE m_core[t] # NoCore
        BY Zenon, <1>5, <2>2, StutterRefines DEF ThreadReschedule, placeVars, Entitled
    <2> QED
        BY Zenon, <2>1, <2>2
<1>6. ASSUME NEW tm \in LocalTimes, ThreadYield(t, tm)
      PROVE  AStep
    BY Zenon, <1>6, StutterRefines DEF ThreadYield, tmVars, placeVars, Entitled
<1>7. ASSUME NEW tm \in LocalTimes, NEW self \in BOOLEAN, NEW mask \in AffinityMasks,
             ThreadSetAffinity(t, self, mask, tm)
      PROVE  AStep
    BY Zenon, <1>7, StutterRefines DEF ThreadSetAffinity, tmVars, placeVars, Entitled
<1>8. ASSUME NEW tm \in LocalTimes, OnThreadExit(t, tm)
      PROVE  AStep
    <2> DEFINE w == waiter[t]
    <2>1. /\ call.op = "none" /\ status[t] = "RUNNING" /\ UNCHANGED placeVars
          /\ status' = [u \in Threads |-> IF u = t THEN "IDLE"
                                          ELSE IF u = w THEN "RUNNING" ELSE status[u]]
          /\ m_threads_runnable' = [u \in Threads |-> u = w \/ m_threads_runnable[u]]
        BY Zenon, <1>8 DEF OnThreadExit, Idle, InUser
    <2>2. CASE w \in Threads
        <3>1. Entitled' = Entitled \cup {w}
            <4>1. w # t
                BY Zenon, <2>1, <2>2 DEF JoinInv
            <4>2. \A u \in Threads : u \in Entitled' <=> u \in Entitled \/ u = w
                BY Zenon, <2>1, <4>1 DEF Entitled
            <4> QED
                BY Zenon, <2>2, <4>2 DEF Entitled
        <3> QED
            BY Zenon, <2>1, <2>2, <3>1, AdmitRefines DEF placeVars
    <2>3. CASE w = NoThread
        <3>1. Entitled' = Entitled
            BY Zenon, <2>1, <2>3, Distinct DEF Entitled, TypeOK
        <3> QED
            BY Zenon, <2>1, <3>1, StutterRefines DEF placeVars
    <2> QED
        BY Zenon, <2>2, <2>3 DEF TypeOK
<1> QED
    BY Zenon, <1>1, <1>2, <1>3, <1>4, <1>5, <1>6, <1>7, <1>8 DEF Handler

-----------------------------------------------------------------------------
\* The scheduler implements CoreAssignment: one core changes hands at a time, a
\* thread never goes straight from one core to another, and no stalled thread
\* is given a core.
THEOREM SchedulerImplementsCoreAssignment == Spec => ImplementsCoreAssignment
<1>1. Init => Assigned!AInit
    BY DEF Init, Assigned!AInit
<1>2. IInv /\ IInv' /\ [Next]_vars => AStep
    <2> SUFFICES ASSUME IInv, IInv', [Next]_vars PROVE AStep
        BY Zenon
    <2>1. CASE LockHolder
        BY Zenon, <2>1, LockHolderRefines
    <2>2. CASE Periodic
        BY Zenon, <2>2, StutterRefines DEF Periodic, tmVars, placeVars, schedVars, Entitled
    <2>3. CASE \E t \in Threads : Handler(t)
        BY Zenon, <2>3, HandlerRefines
    <2>4. CASE UNCHANGED vars
        BY Zenon, <2>4, StutterRefines DEF vars, tmVars, placeVars, schedVars, Entitled
    <2> QED
        BY Zenon, <2>1, <2>2, <2>3, <2>4 DEF Next
<1> QED
    BY <1>1, <1>2, SpecInv, PTL DEF Spec, ImplementsCoreAssignment, Assigned!ASpec, AStep

-----------------------------------------------------------------------------
(***************************************************************************)
(* What a step may never do                                                *)
(***************************************************************************)

\* reschedule() takes a core from its own thread at most
LEMMA OutcomeTakes ==
    ASSUME NEW c \in Cores, TypeOK, Outcome(c), NEW t \in Threads,
           m_core[t] # NoCore, m_core'[t] # m_core[t]
    PROVE  t = m_core_thread_running[c]
BY Zenon, Distinct DEF Outcome

LEMMA NextPreempts == IInv /\ SafeInv /\ [Next]_vars => [PreemptStep]_vars
<1> SUFFICES ASSUME IInv, SafeInv, Next, NEW t \in Threads,
                    m_core[t] # NoCore, m_threads_runnable[t], m_core'[t] # m_core[t]
             PROVE  call.op = "pass" \/ (call.op \in {"yield", "exit"} /\ call.t = t)
    BY Zenon DEF PreemptStep
<1> USE DEF IInv
<1>a. /\ call.t \in Threads \cup {NoThread} /\ call.c \in Cores \cup {NoCore} /\ call.tm \in Int
      /\ Interval \in Int /\ m_resumed \in Threads \cup {NoThread}
    BY TimesAssumption DEF TypeOK
<1>b. \A c \in Cores : m_core_thread_running[c] # t \/ m_core_running[t] = c
    BY Zenon DEF SchedInv, PlaceInv, MapsAgree
<1>1. CASE LockHolder
    <2>1. ASSUME NEW u \in Threads, NEW tm \in Int, RescheduleFreeCore(u, tm) PROVE FALSE
        <3>1. PICK c \in Cores : m_core_thread_running[c] = NoThread /\ Outcome(c)
            BY Zenon, <2>1, FreeCoreOutcome
        <3> QED
            BY Zenon, <3>1, OutcomeTakes, Distinct
    <2>2. CASE ThreadResume
        BY Zenon, <1>a, <2>1, <2>2 DEF ThreadResume
    <2>3. CASE RescheduleStep
        <3>1. call.c \in Cores /\ Outcome(call.c)
            BY Zenon, <1>a, <2>3, RescheduleOutcome DEF RescheduleStep, placeVars
        <3>2. call.op = "resched" /\ t = m_core_thread_running[call.c]
            BY Zenon, <2>3, <3>1, OutcomeTakes DEF RescheduleStep, At
        <3> QED
            BY SMTT(60), <3>1, <3>2, <1>b DEF SafeInv, ArgsInv, SchedInv, PlaceInv, MapsAgree
    <2>4. CASE PassStep
        BY Zenon, <2>4 DEF PassStep, At
    <2>5. CASE ExitStep
        <3>1. call.op = "exit" /\ m_core' = [m_core EXCEPT ![call.t] = NoCore]
            BY Zenon, <2>5 DEF ExitStep, At
        <3> QED
            BY Zenon, <3>1 DEF TypeOK
    <2>6. CASE YieldStep
        <3>1. call.op = "yield" /\ call.c \in Cores /\ call.t \in Threads /\ Outcome(call.c)
            BY Zenon, <1>a, <2>6, RescheduleOutcome DEF YieldStep, At, CallInv
        <3>2. t = m_core_thread_running[call.c]
            BY Zenon, <3>1, OutcomeTakes
        <3> QED
            BY ZenonT(60), <3>1, <3>2 DEF SafeInv, ArgsInv, SchedInv, PlaceInv, MapsAgree
    <2>7. CASE YieldTail
        <3>1. call.t \in Threads
            BY Zenon, <2>7 DEF YieldTail, At, CallInv
        <3> QED
            BY Zenon, <1>a, <2>1, <2>7, <3>1 DEF YieldTail, placeVars
    <2>8. CASE \/ ReturnStep \/ TimeoutStep \/ PassBegin \/ PassEnd \/ PassAgain
               \/ StartStep \/ FutexWakeStep
        BY Zenon, <2>8 DEF ReturnStep, TimeoutStep, PassBegin, PassEnd, PassAgain, PassDone,
            StartStep, FutexWakeStep, placeVars
    <2> QED
        BY Zenon, <1>1, <2>2, <2>3, <2>4, <2>5, <2>6, <2>7, <2>8 DEF LockHolder
<1>2. CASE Periodic
    BY Zenon, <1>2 DEF Periodic, placeVars
<1>3. ASSUME NEW u \in Threads, Handler(u) PROVE FALSE
    <2>1. CASE CreateThread(u)
        <3>1. u # t
            BY Zenon, <2>1 DEF CreateThread, SchedInv, RunnableInv, PlaceInv, PlacementAgrees
        <3> QED
            BY Zenon, <2>1, <3>1 DEF CreateThread, TypeOK
    <2>2. CASE ~CreateThread(u)
        <3>1. PICK tm \in LocalTimes :
                \/ OnThreadStart(u, tm) \/ StallSync(u, tm) \/ BlockingSyscall(u, tm)
                \/ SyscallReturn(u, tm) \/ ThreadReschedule(u, tm) \/ ThreadYield(u, tm)
                \/ OnThreadExit(u, tm)
                \/ \E v \in Threads : ResumeOther(u, v, tm) \/ JoinThread(u, v, tm)
                \/ \E self \in BOOLEAN : \E mask \in AffinityMasks :
                      ThreadSetAffinity(u, self, mask, tm)
            BY Zenon, <1>3, <2>2 DEF Handler
        <3> QED
            BY Zenon, <3>1 DEF OnThreadStart, StallSync, BlockingSyscall, SyscallReturn,
                ThreadReschedule, ThreadYield, OnThreadExit, ResumeOther, JoinThread,
                ThreadSetAffinity, placeVars
    <2> QED
        BY Zenon, <2>1, <2>2
<1> QED
    BY Zenon, <1>1, <1>2, <1>3 DEF Next

\* No handler takes a core away from a thread that can run, except periodic() at
\* the barrier, that thread's own sched_yield() or sched_setaffinity(), and its exit.
THEOREM PreemptionOnlyAtBarrier == Spec => PreemptedOnlyAtBarrier
<1>1. Spec => [](IInv /\ SafeInv)
    BY SpecInv, SpecSafe, PTL
<1> QED
    BY <1>1, NextPreempts, PTL DEF Spec, PreemptedOnlyAtBarrier

LEMMA NextChains == IInv /\ [Next]_vars => [ResumeChainStep]_vars
<1> SUFFICES ASSUME IInv, Next, m_resumed # NoThread, m_resumed' # NoThread
             PROVE  FreeCount' < FreeCount
    BY Zenon DEF ResumeChainStep
<1> DEFINE Free == {c \in Cores : m_core_thread_running[c] = NoThread}
<1>1. ThreadResume
    <2>1. ~Idle /\ \A o \in Calls : ~At(o)
        BY Zenon DEF Idle, At
    <2>2. ~Periodic /\ \A t \in Threads : ~Handler(t)
        <3>1. ~Periodic /\ \A t : ~CreateThread(t)
            BY Zenon, <2>1 DEF Periodic, CreateThread
        <3>2. \A t, tm : ~OnThreadStart(t, tm) /\ ~StallSync(t, tm) /\ ~BlockingSyscall(t, tm)
            BY Zenon, <2>1 DEF OnThreadStart, StallSync, BlockingSyscall
        <3>3. \A t, tm : ~SyscallReturn(t, tm) /\ ~ThreadReschedule(t, tm) /\ ~ThreadYield(t, tm)
            BY Zenon, <2>1 DEF SyscallReturn, ThreadReschedule, ThreadYield
        <3>4. \A t, tm, u : ~OnThreadExit(t, tm) /\ ~ResumeOther(t, u, tm) /\ ~JoinThread(t, u, tm)
            BY ZenonT(60), <2>1 DEF OnThreadExit, ResumeOther, JoinThread
        <3>5. \A t, self, mask, tm : ThreadSetAffinity(t, self, mask, tm) => Idle
            BY ZenonT(60) DEF ThreadSetAffinity
        <3> QED
            BY Zenon, <2>1, <3>1, <3>2, <3>3, <3>4, <3>5 DEF Handler
    <2>3. LockHolder => ThreadResume
        BY Zenon, <2>1 DEF LockHolder, RescheduleStep, ReturnStep, TimeoutStep, PassBegin, PassStep,
            PassEnd, PassAgain, PassDone, StartStep, FutexWakeStep, ExitStep, YieldStep,
            YieldTail, Calls
    <2> QED
        BY Zenon, <2>2, <2>3 DEF Next
<1>2. m_resumed \in Threads /\ call.tm \in Int /\ RescheduleFreeCore(m_resumed, call.tm)
    BY Zenon, <1>1 DEF ThreadResume, IInv, TypeOK
<1>3. PICK c \in Cores : m_core_thread_running[c] = NoThread /\ Outcome(c)
    BY Zenon, <1>2, FreeCoreOutcome DEF IInv
<1>4. PICK new \in Threads : m_core_thread_running' = [m_core_thread_running EXCEPT ![c] = new]
    BY Zenon, <1>3 DEF Outcome
<1>5. Free' = Free \ {c} /\ c \in Free
    BY Zenon, <1>3, <1>4, Distinct DEF IInv, TypeOK
<1>6. IsFiniteSet(Free)
    <2>1. IsFiniteSet(Cores)
        BY FS_Interval, SizesAssumption DEF Cores
    <2> QED
        BY Zenon, <2>1, FS_Subset
<1>7. Cardinality(Free') = Cardinality(Free) - 1 /\ Cardinality(Free) \in Nat
    BY Zenon, <1>5, <1>6, FS_RemoveElement, FS_CardinalityType
<1> QED
    BY <1>7 DEF FreeCount

\* resumeThread()'s HOOK_THREAD_RESUME callbacks, which may call reschedule() and
\* moveThread() and so resumeThread() again, come to an end: each callback that
\* causes another one has put a thread on a core that was free.
THEOREM ResumeChainsEnd == Spec => ResumeChainEnds
BY SpecInv, NextChains, PTL DEF Spec, ResumeChainEnds

=============================================================================
