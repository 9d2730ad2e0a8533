--------------------- MODULE PinnedSchedulerInvariance ----------------------
(***************************************************************************)
(* Every handler preserves the scheduler's invariant of PinnedScheduler,   *)
(* and the theorems that follow from it.  Every step of the lock holder    *)
(* preserves the threads' invariant.                                       *)
(***************************************************************************)
EXTENDS PinnedSchedulerLemmas

-----------------------------------------------------------------------------
\* the handlers threads and the frontend call
LEMMA HandlerInv ==
    ASSUME NEW t \in Threads, IInv, Handler(t)
    PROVE  IInv'
<1> USE DEF IInv
<1>a. CallType /\ call.tm \in Int
    BY Zenon DEF TypeOK, CallType
<1>b. NoCall \in [op : Calls, t : Threads \cup {NoThread}, c : Cores \cup {NoCore}, tm : Int]
    BY DEF NoCall, Calls
<1>c. \A o \in Calls, u \in Threads \cup {NoThread}, c \in Cores \cup {NoCore}, tm \in Int :
        Call(o, u, c, tm) \in [op : Calls, t : Threads \cup {NoThread},
                               c : Cores \cup {NoCore}, tm : Int]
    BY Zenon DEF Call
<1>d. \A tm \in LocalTimes : tm \in Int
    BY TimesAssumption
<1>e. m_core_running[t] \in Cores \cup {NoCore}
    BY Zenon DEF TypeOK
<1>1. CASE CreateThread(t)
    <2> DEFINE Placed(mask, c) ==
            /\ m_core_affinity' = [m_core_affinity EXCEPT ![t] = mask]
            /\ m_core_running' = [m_core_running EXCEPT ![t] = c]
            /\ m_core' = [m_core EXCEPT ![t] = c]
            /\ m_core_thread_running' = [d \in Cores |->
                  IF d = c THEN t ELSE m_core_thread_running[d]]
            /\ m_quantum_left' = [d \in Cores |-> IF d = c THEN Quantum ELSE m_quantum_left[d]]
            /\ m_thread' = [d \in Cores |-> IF d = c THEN t ELSE m_thread[d]]
            /\ core_state' = [d \in Cores |-> IF d = c THEN "INITIALIZING" ELSE core_state[d]]
    <2>0. PICK mask \in IF m_core_affinity[t] # {} THEN {m_core_affinity[t]}
                                                  ELSE InitialAffinities :
            \E c \in Cores \cup {NoCore} : FindFreeCore(mask, c) /\ Placed(mask, c)
        BY Zenon, <1>1 DEF CreateThread
    <2>m. mask \in SUBSET Cores
        BY MasksAssumption DEF TypeOK
    <2>1. PICK c \in Cores \cup {NoCore} :
            /\ c # NoCore => m_core_thread_running[c] = NoThread /\ c \in mask
            /\ Placed(mask, c)
        BY Zenon, <2>0 DEF FindFreeCore, FreeCores, Lowest
    <2>2. /\ status[t] = "NONE" /\ status' = [status EXCEPT ![t] = "INITIALIZING"]
          /\ host' = [host EXCEPT ![t] = "created"] /\ call.op = "none"
          /\ UNCHANGED <<waiter, m_threads_runnable, m_last_scheduled, joining, call, m_resumed>>
        BY Zenon, <1>1 DEF CreateThread, Idle
    <2>3. m_core_running[t] = NoCore /\ m_core[t] = NoCore /\ host[t] = "none"
        BY <2>2, Distinct DEF TypeOK, SchedInv, RunnableInv, HostInv, PlaceInv, PlacementAgrees
    <2>4. TypeOK'
        BY <2>m, <2>1, <2>2, TimesAssumption DEF TypeOK, States, CoreStates, HostStates
    <2>5. MapsAgree'
        BY <2>1, <2>3, Distinct DEF TypeOK, SchedInv, PlaceInv, MapsAgree
    <2>6. PlacementAgrees'
        BY <2>1, <2>3, Distinct DEF TypeOK, SchedInv, PlaceInv, MapsAgree, PlacementAgrees
    <2>7. PlacementComplete' /\ CoreStateMatchesThread'
        BY Zenon, <2>1, <2>2, <2>3, Distinct
           DEF TypeOK, SchedInv, PlaceInv, PlacementComplete, CoreStateMatchesThread
    <2>8. RunnableInv' /\ HostInv'
        BY Zenon, <2>1, <2>2, <2>3 DEF TypeOK, SchedInv, RunnableInv, HostInv
    <2>9. DisplacedSoon'
        BY <2>1, <2>3, Distinct DEF TypeOK, SchedInv, PlaceInv, MapsAgree, DisplacedSoon
    <2>10. JoinInv' /\ CallInv'
        BY <2>2, <2>3 DEF TypeOK, JoinInv, CallInv
    <2> QED
        BY Zenon, <2>4, <2>5, <2>6, <2>7, <2>8, <2>9, <2>10 DEF SchedInv, PlaceInv
<1>2. ASSUME NEW tm \in LocalTimes, OnThreadStart(t, tm)
      PROVE  IInv'
    <2>1. /\ call.op = "none" /\ host[t] = "created"
          /\ status' = [status EXCEPT ![t] = "RUNNING"]
          /\ m_threads_runnable' = [m_threads_runnable EXCEPT ![t] = TRUE]
          /\ m_resumed' = t
          /\ UNCHANGED <<waiter, placeVars, m_core_affinity, m_core_running,
                         m_core_thread_running, m_quantum_left, m_last_scheduled, host, joining>>
        BY Zenon, <1>2 DEF OnThreadStart, Idle
    <2>2. CallType' /\ call'.op = "start" /\ call'.t = t
        BY Zenon, <1>2, <1>c, <1>d DEF OnThreadStart, Call, CallType, Calls
    <2>3. TypeOK'
        BY Zenon, <2>1, <2>2 DEF TypeOK, CallType, States, CoreStates, placeVars
    <2>4. PlaceInv' /\ DisplacedSoon'
        <3>1. \A u \in Threads : status[u] = "IDLE" => status'[u] = "IDLE"
            BY Zenon, <2>1 DEF TypeOK, SchedInv, HostInv
        <3> QED
            BY Zenon, <3>1, <2>1, PlaceFrame, DisplacedFrame DEF SchedInv, placeVars
    <2>5. RunnableInv' /\ HostInv'
        BY Zenon, <2>1 DEF TypeOK, SchedInv, RunnableInv, HostInv
    <2>6. JoinInv' /\ CallInv'
        BY <2>1, <2>2 DEF TypeOK, JoinInv, CallInv, Stalling
    <2> QED
        BY Zenon, <2>3, <2>4, <2>5, <2>6 DEF SchedInv
<1>3. ASSUME NEW why \in {"FUTEX", "SYSCALL", "JOIN"},
             call.op = "none", InUser(t), StallThread(t, why), CallType',
             call'.op = "resched", call'.t = t,
             \/ waiter' = waiter
             \/ why = "JOIN" /\ \E u \in Threads : waiter' = [waiter EXCEPT ![u] = t],
             host' = IF why = "SYSCALL" THEN [host EXCEPT ![t] = "blocked"] ELSE host,
             joining' \in [Threads -> Threads \cup {NoThread}],
             UNCHANGED <<placeVars, m_core_affinity, m_core_running,
                         m_core_thread_running, m_quantum_left, m_last_scheduled, m_resumed>>
      PROVE  IInv'
    <2>1. /\ status' = [status EXCEPT ![t] = why] /\ host[t] = "user" /\ status[t] = "RUNNING"
          /\ m_threads_runnable' = [m_threads_runnable EXCEPT ![t] = FALSE]
        <3>1. m_threads_runnable' = [m_threads_runnable EXCEPT ![t] = @ /\ why = "UNSCHEDULED"]
            BY Zenon, <1>3 DEF StallThread
        <3>2. why # "UNSCHEDULED"
            BY Zenon, <1>3
        <3>3. m_threads_runnable' = [m_threads_runnable EXCEPT ![t] = FALSE]
            BY Zenon, <3>1, <3>2 DEF TypeOK
        <3> QED
            BY Zenon, <3>3, <1>3 DEF StallThread, InUser
    <2>2. TypeOK'
        BY Zenon, <1>3, <2>1 DEF TypeOK, CallType, States, CoreStates, Reasons, HostStates, placeVars
    <2>3. PlaceInv' /\ DisplacedSoon'
        <3>1. \A u \in Threads : status[u] = "IDLE" => status'[u] = "IDLE"
            BY Zenon, <1>3, <2>1 DEF TypeOK, SchedInv, HostInv
        <3> QED
            BY Zenon, <3>1, <1>3, <2>1, PlaceFrame, DisplacedFrame DEF SchedInv, placeVars
    <2>4. RunnableInv' /\ HostInv'
        BY ZenonT(30), <1>3, <2>1 DEF TypeOK, SchedInv, RunnableInv, HostInv
    <2>5. JoinInv'
        <3>1. \A v \in Threads : waiter[v] # t
            BY Zenon, <2>1 DEF JoinInv
        <3>2. \A x \in Threads : x # t => status'[x] = status[x] /\ host'[x] = host[x]
            BY Zenon, <1>3, <2>1 DEF TypeOK
        <3>3. \A v, x \in Threads : waiter[v] = x =>
                 status[x] = "JOIN" /\ host[x] = "wait" /\ \A w \in Threads : waiter[w] = x => w = v
            BY <1>3 DEF JoinInv, Stalling
        <3>4. CASE waiter' = waiter
            BY <3>1, <3>2, <3>3, <3>4 DEF JoinInv
        <3>5. CASE why = "JOIN" /\ \E u \in Threads : waiter' = [waiter EXCEPT ![u] = t]
            <4>1. PICK u \in Threads : waiter' = [waiter EXCEPT ![u] = t]
                BY Zenon, <3>5
            <4>2. \A v \in Threads : waiter'[v] = IF v = u THEN t ELSE waiter[v]
                BY Zenon, <4>1 DEF TypeOK
            <4>3. status'[t] = "JOIN" /\ host'[t] = "user" /\ call'.op \in Stalling
                BY Zenon, <1>3, <2>1, <3>5 DEF TypeOK, Stalling
            <4>4. \A v \in Threads : waiter'[v] = t <=> v = u
                BY Zenon, <4>2, <3>1
            <4> QED
                BY <4>2, <4>3, <4>4, <3>2, <3>3, <1>3 DEF JoinInv
        <3> QED
            BY Zenon, <1>3, <3>4, <3>5
    <2>6. CallInv'
        BY Zenon, <1>3 DEF CallInv
    <2> QED
        BY Zenon, <2>2, <2>3, <2>4, <2>5, <2>6 DEF SchedInv
<1>4. ASSUME NEW tm \in LocalTimes, StallSync(t, tm)
      PROVE  IInv'
    <2>1. CallType' /\ call'.op = "resched" /\ call'.t = t
        BY Zenon, <1>4, <1>c, <1>d, <1>e DEF StallSync, Call, CallType, Calls
    <2>2. /\ StallThread(t, "FUTEX") /\ InUser(t) /\ call.op = "none"
          /\ UNCHANGED <<waiter, placeVars, m_core_affinity, m_core_running,
                         m_core_thread_running, m_quantum_left, m_last_scheduled, host, joining, m_resumed>>
        BY Zenon, <1>4 DEF StallSync, Idle
    <2>3. joining' \in [Threads -> Threads \cup {NoThread}]
        BY Zenon, <2>2 DEF TypeOK
    <2> QED
        BY Zenon, <1>3, <2>1, <2>2, <2>3
<1>5. ASSUME NEW tm \in LocalTimes, BlockingSyscall(t, tm)
      PROVE  IInv'
    <2>1. CallType' /\ call'.op = "resched" /\ call'.t = t
        BY Zenon, <1>5, <1>c, <1>d, <1>e DEF BlockingSyscall, Call, CallType, Calls
    <2> QED
        BY Zenon, <1>3, <1>5, <2>1 DEF BlockingSyscall, Idle, TypeOK
<1>6. ASSUME NEW tm \in LocalTimes, NEW u \in Threads, JoinThread(t, u, tm)
      PROVE  IInv'
    <2>1. CallType' /\ call'.op = "resched" /\ call'.t = t
        BY <1>6, <1>c, <1>d, <1>e DEF JoinThread, Call, CallType, Calls
    <2>2. joining' \in [Threads -> Threads \cup {NoThread}]
        BY Zenon, <1>6 DEF JoinThread, TypeOK
    <2>3. /\ StallThread(t, "JOIN") /\ InUser(t) /\ call.op = "none"
          /\ waiter' = [waiter EXCEPT ![u] = t]
          /\ UNCHANGED <<placeVars, m_core_affinity, m_core_running,
                         m_core_thread_running, m_quantum_left, m_last_scheduled, host, m_resumed>>
        BY Zenon, <1>6 DEF JoinThread, Idle
    <2> QED
        BY Zenon, <1>3, <2>1, <2>2, <2>3
<1>7. ASSUME NEW tm \in LocalTimes, SyscallReturn(t, tm)
      PROVE  IInv'
    <2>1. /\ call.op = "none" /\ host[t] = "blocked"
          /\ status' = [status EXCEPT ![t] = "RUNNING"]
          /\ m_threads_runnable' = [m_threads_runnable EXCEPT ![t] = TRUE]
          /\ m_resumed' = t
          /\ host' = [host EXCEPT ![t] = "woken"]
          /\ UNCHANGED <<waiter, placeVars, m_core_affinity, m_core_running,
                         m_core_thread_running, m_quantum_left, m_last_scheduled, joining>>
        BY Zenon, <1>7 DEF SyscallReturn, Idle
    <2>2. CallType' /\ call'.op = "none"
        BY Zenon, <1>7, <1>c, <1>d DEF SyscallReturn, Call, CallType, Calls
    <2>3. TypeOK'
        BY Zenon, <2>1, <2>2 DEF TypeOK, CallType, States, CoreStates, HostStates, placeVars
    <2>4. PlaceInv' /\ DisplacedSoon'
        <3>1. \A u \in Threads : status[u] = "IDLE" => status'[u] = "IDLE"
            BY Zenon, <2>1 DEF TypeOK, SchedInv, HostInv
        <3> QED
            BY Zenon, <3>1, <2>1, PlaceFrame, DisplacedFrame DEF SchedInv, placeVars
    <2>5. RunnableInv' /\ HostInv'
        BY Zenon, <2>1 DEF TypeOK, SchedInv, RunnableInv, HostInv
    <2>6. JoinInv' /\ CallInv'
        BY <2>1, <2>2 DEF TypeOK, JoinInv, CallInv, Stalling
    <2> QED
        BY Zenon, <2>3, <2>4, <2>5, <2>6 DEF SchedInv
<1>8. ASSUME NEW tm \in LocalTimes, NEW u \in Threads, ResumeOther(t, u, tm)
      PROVE  IInv'
    <2>1. CallType' /\ call'.op = "none" /\ call.op = "none"
        BY Zenon, <1>8, <1>c, <1>d DEF ResumeOther, Idle, Call, CallType, Calls
    <2>2. TypeOK' /\ SchedInv' /\ JoinInv'
        BY Zenon, <1>8, <2>1, ResumeInv DEF ResumeOther, Stalling
    <2> QED
        BY Zenon, <2>1, <2>2 DEF CallInv
<1>9. ASSUME NEW tm \in LocalTimes, ThreadReschedule(t, tm)
      PROVE  IInv'
    <2>1. /\ call.op = "none" /\ host[t] \in {"user", "woken"}
          /\ UNCHANGED <<waiter, placeVars, m_core_affinity, m_core_running,
                         m_core_thread_running, m_quantum_left, m_last_scheduled,
                         joining, m_resumed>>
          /\ \/ /\ status' = [status EXCEPT ![t] = "UNSCHEDULED"] /\ host' = host
                /\ m_threads_runnable' = [m_threads_runnable EXCEPT ![t] = @ /\ TRUE]
                /\ call' \in {Call("return", t, NoCore, tm), Call("timeouts", t, NoCore, tm)}
             \/ /\ host' = [host EXCEPT ![t] = "user"]
                /\ UNCHANGED <<status, m_threads_runnable, call>>
        BY Zenon, <1>9 DEF ThreadReschedule, Idle, StallThread, Signal
    <2>2. CallType' /\ call'.op \in {"none", "return", "timeouts"}
        BY <2>1, <1>a, <1>c, <1>d DEF Call, CallType, Calls
    <2>3. TypeOK'
        BY Zenon, <2>1, <2>2 DEF TypeOK, CallType, States, Reasons, HostStates, placeVars
    <2>4. PlaceInv' /\ DisplacedSoon'
        <3>1. \A u \in Threads : status[u] = "IDLE" => status'[u] = "IDLE"
            BY Zenon, <2>1 DEF TypeOK, SchedInv, HostInv
        <3> QED
            BY Zenon, <3>1, <2>1, PlaceFrame, DisplacedFrame DEF SchedInv, placeVars
    <2>5. RunnableInv' /\ HostInv'
        <3>1. RunnableInv'
            BY ZenonT(30), <2>1 DEF TypeOK, SchedInv, RunnableInv
        <3>2. HostInv'
            BY <2>1 DEF TypeOK, SchedInv, HostInv
        <3> QED
            BY Zenon, <3>1, <3>2
    <2>6. JoinInv' /\ CallInv'
        <3>1. JoinInv'
            BY <2>1, <2>2 DEF TypeOK, JoinInv, Stalling
        <3>2. CallInv'
            BY Zenon, <2>1, <2>2 DEF TypeOK, CallInv, Stalling
        <3> QED
            BY Zenon, <3>1, <3>2
    <2> QED
        BY Zenon, <2>3, <2>4, <2>5, <2>6 DEF SchedInv
<1>10. ASSUME NEW tm \in LocalTimes, ThreadYield(t, tm)
      PROVE  IInv'
    <2>1. /\ m_core_running[t] \in Cores /\ call.op = "none"
          /\ m_quantum_left' = [m_quantum_left EXCEPT ![m_core_running[t]] = 0]
          /\ UNCHANGED <<tmVars, placeVars, m_threads_runnable, m_core_affinity, m_core_running,
                         m_core_thread_running, m_last_scheduled, host, joining, m_resumed>>
        BY Zenon, <1>10, <1>e DEF ThreadYield, Idle
    <2>2. CallType' /\ call'.op = "yield" /\ call'.t = t /\ call'.c \in Cores
        BY Zenon, <1>10, <1>c, <1>d, <2>1 DEF ThreadYield, Call, CallType, Calls
    <2>3. TypeOK'
        <3>1. m_quantum_left' \in [Cores -> Int]
            BY <2>1 DEF TypeOK
        <3> QED
            BY Zenon, <2>1, <2>2, <3>1 DEF tmVars, placeVars, TypeOK, CallType
    <2>4. PlaceInv' /\ RunnableInv' /\ HostInv'
        BY Zenon, <2>1, PlaceFrame, StatusFrame DEF tmVars, placeVars, SchedInv
    <2>5. DisplacedSoon'
        BY Zenon, <2>1 DEF TypeOK, SchedInv, DisplacedSoon
    <2>6. JoinInv'
        BY Zenon, <2>1, JoinFrame DEF Stalling, tmVars
    <2>7. CallInv'
        BY Zenon, <2>2 DEF CallInv
    <2> QED
        BY Zenon, <2>3, <2>4, <2>5, <2>6, <2>7 DEF SchedInv
<1>11. ASSUME NEW tm \in LocalTimes, NEW self \in BOOLEAN, NEW mask \in AffinityMasks,
              ThreadSetAffinity(t, self, mask, tm)
      PROVE  IInv'
    <2> DEFINE c == m_core_running[t]
    <2>1. /\ call.op = "none"
          /\ self => InUser(t)
          /\ m_core_affinity' = [m_core_affinity EXCEPT ![t] = mask]
          /\ UNCHANGED <<tmVars, placeVars, m_threads_runnable, m_core_running,
                         m_core_thread_running, m_last_scheduled, host, joining>>
        BY Zenon, <1>11 DEF ThreadSetAffinity, Idle
    <2>2. /\ m_quantum_left' = [d \in Cores |->
                IF d = c /\ ((self /\ c # NoCore)
                             \/ (status[t] # "NONE" /\ ~self /\ c # NoCore /\ c \notin mask))
                THEN 0 ELSE m_quantum_left[d]]
          /\ m_resumed' \in {t, NoThread}
        BY Zenon, <1>11 DEF ThreadSetAffinity
    <2>3. \/ self /\ c # NoCore /\ call' = Call("yield", t, c, tm)
          \/ call' = Call("none", NoThread, NoCore, tm)
          \/ call' = NoCall
        BY Zenon, <1>11 DEF ThreadSetAffinity
    <2>4. /\ CallType' /\ call'.op \in {"yield", "none"}
          /\ call'.op = "yield" => call'.t = t /\ call'.c \in Cores
        BY <2>3, <1>b, <1>c, <1>d, <1>e DEF Call, NoCall, CallType, Calls
    <2>5. mask \in SUBSET Cores
        BY Zenon, MasksAssumption
    <2>6. TypeOK'
        BY <2>1, <2>2, <2>4, <2>5 DEF tmVars, placeVars, TypeOK, CallType
    <2>7. PlaceInv' /\ RunnableInv' /\ HostInv'
        BY Zenon, <2>1, PlaceFrame, StatusFrame DEF tmVars, placeVars, SchedInv
    <2>8. DisplacedSoon'
        <3> SUFFICES ASSUME NEW u \in Threads, NEW d \in Cores,
                            m_core_running[u] = d, d \notin m_core_affinity'[u]
                     PROVE  m_quantum_left'[d] = 0
            BY Zenon, <2>1 DEF DisplacedSoon
        <3>1. CASE u = t
            BY Zenon, <3>1, <2>1, <2>2, Distinct DEF TypeOK, SchedInv, RunnableInv
        <3>2. CASE u # t
            BY Zenon, <3>2, <2>1, <2>2 DEF TypeOK, SchedInv, DisplacedSoon
        <3> QED
            BY Zenon, <3>1, <3>2
    <2>9. JoinInv'
        BY Zenon, <2>1, JoinFrame DEF Stalling, tmVars
    <2>10. CallInv'
        BY Zenon, <2>4 DEF CallInv
    <2> QED
        BY Zenon, <2>6, <2>7, <2>8, <2>9, <2>10 DEF SchedInv
<1>12. ASSUME NEW tm \in LocalTimes, OnThreadExit(t, tm)
      PROVE  IInv'
    <2> DEFINE w == waiter[t]
    <2>1. /\ call.op = "none" /\ host[t] = "user" /\ status[t] = "RUNNING"
          /\ status' = [u \in Threads |-> IF u = t THEN "IDLE"
                                          ELSE IF u = w THEN "RUNNING" ELSE status[u]]
          /\ host' = [u \in Threads |-> IF u = t THEN "gone"
                                        ELSE IF u = w /\ host[u] = "wait" THEN "woken"
                                        ELSE host[u]]
          /\ m_threads_runnable' = [u \in Threads |-> u = w \/ m_threads_runnable[u]]
          /\ joining' = [u \in Threads |-> IF u = w THEN NoThread ELSE joining[u]]
          /\ m_resumed' = w
          /\ waiter' = [waiter EXCEPT ![t] = NoThread]
          /\ UNCHANGED <<placeVars, m_core_affinity, m_core_running,
                         m_core_thread_running, m_quantum_left, m_last_scheduled>>
        BY Zenon, <1>12 DEF OnThreadExit, Idle, InUser
    <2>2. CallType' /\ call'.op = "futexwake" /\ call'.t = t
        BY Zenon, <1>12, <1>c, <1>d DEF OnThreadExit, Call, CallType, Calls
    <2>3. w \in Threads => status[w] = "JOIN" /\ host[w] = "wait" /\ w # t
        BY Zenon, <2>1 DEF JoinInv, Stalling
    <2>4. TypeOK'
        <3>1. /\ status' \in [Threads -> States] /\ host' \in [Threads -> HostStates]
              /\ m_threads_runnable' \in [Threads -> BOOLEAN]
            BY Zenon, <2>1 DEF TypeOK, States, CoreStates, HostStates
        <3>2. /\ joining' \in [Threads -> Threads \cup {NoThread}]
              /\ waiter' \in [Threads -> Threads \cup {NoThread}]
              /\ m_resumed' \in Threads \cup {NoThread}
            BY Zenon, <2>1 DEF TypeOK
        <3> QED
            BY Zenon, <2>1, <2>2, <3>1, <3>2 DEF TypeOK, CallType, placeVars
    <2>5. PlaceInv' /\ DisplacedSoon'
        <3>1. \A u \in Threads : status[u] = "IDLE" => status'[u] = "IDLE"
            BY Zenon, <2>1, <2>3 DEF TypeOK, SchedInv, HostInv
        <3> QED
            BY Zenon, <3>1, <2>1, <2>3, PlaceFrame, DisplacedFrame DEF SchedInv, placeVars
    <2>6. RunnableInv' /\ HostInv'
        BY Zenon, <2>1, <2>3 DEF TypeOK, SchedInv, RunnableInv, HostInv
    <2>7. JoinInv'
        <3> SUFFICES ASSUME NEW u \in Threads, NEW v \in Threads, waiter'[u] = v
                     PROVE  /\ status'[v] = "JOIN" /\ host'[v] = "wait"
                            /\ \A x \in Threads : waiter'[x] = v => x = u
            BY DEF JoinInv
        <3>0. /\ \A x \in Threads : waiter'[x] = IF x = t THEN NoThread ELSE waiter[x]
              /\ v # NoThread
            BY Zenon, <2>1, Distinct DEF TypeOK
        <3>1. u # t /\ waiter[u] = v
            BY Zenon, <3>0
        <3>2. /\ status[v] = "JOIN" /\ host[v] = "wait"
              /\ \A x \in Threads : waiter[x] = v => x = u
            <4>1. call.op \notin Stalling
                BY Zenon, <2>1 DEF Stalling
            <4> QED
                BY Zenon, <4>1, <3>1 DEF JoinInv
        <3>3. v # t /\ v # w
            BY Zenon, <2>1, <3>1, <3>2
        <3>4. status'[v] = "JOIN" /\ host'[v] = "wait"
            BY Zenon, <2>1, <3>2, <3>3
        <3> QED
            BY Zenon, <3>0, <3>2, <3>4
    <2>8. CallInv'
        BY Zenon, <2>1, <2>2 DEF CallInv
    <2> QED
        BY Zenon, <2>4, <2>5, <2>6, <2>7, <2>8 DEF SchedInv
<1> QED
    BY Zenon, <1>1, <1>2, <1>4, <1>5, <1>6, <1>7, <1>8, <1>9, <1>10, <1>11, <1>12 DEF Handler

LEMMA NextInv == IInv /\ [Next]_vars => IInv'
<1> SUFFICES ASSUME IInv, [Next]_vars PROVE IInv'
    BY Zenon
<1>1. CASE LockHolder
    BY Zenon, <1>1, LockHolderInv
<1>2. CASE Periodic
    <2>1. /\ call.op = "none" /\ call'.op = "timeouts"
          /\ UNCHANGED <<tmVars, placeVars, schedVars, host, joining, m_resumed>>
        BY Zenon, <1>2 DEF Periodic, Idle, Call
    <2>2. CallType'
        BY <1>2 DEF Periodic, CallType, Call, Calls
    <2>3. TypeOK' /\ SchedInv'
        <3>1. /\ m_last_scheduled' \in [Threads -> Int]
              /\ m_resumed' \in Threads \cup {NoThread}
            BY Zenon, <2>1 DEF IInv, TypeOK, schedVars
        <3> QED
            BY Zenon, <2>1, <2>2, <3>1, FrameInv DEF IInv, schedVars
    <2>4. JoinInv'
        BY Zenon, <2>1, JoinFrame DEF IInv, Stalling, tmVars
    <2>5. CallInv'
        BY Zenon, <2>1 DEF CallInv
    <2> QED
        BY Zenon, <2>3, <2>4, <2>5 DEF IInv
<1>3. CASE \E t \in Threads : Handler(t)
    BY Zenon, <1>3, HandlerInv
<1>4. CASE UNCHANGED vars
    <2>1. TypeOK'
        BY Zenon, <1>4 DEF IInv, vars, tmVars, placeVars, schedVars, TypeOK
    <2>2. SchedInv'
        BY Zenon, <1>4, SchedFrame DEF IInv, vars, tmVars, placeVars, schedVars
    <2>3. JoinInv'
        BY Zenon, <1>4, JoinFrame DEF IInv, vars, tmVars
    <2>4. CallInv'
        BY Zenon, <1>4 DEF IInv, vars, tmVars, schedVars, CallInv
    <2> QED
        BY Zenon, <2>1, <2>2, <2>3, <2>4 DEF IInv
<1> QED
    BY Zenon, <1>1, <1>2, <1>3, <1>4 DEF Next

LEMMA SpecInv == Spec => []IInv
BY InitInv, NextInv, PTL DEF Spec

-----------------------------------------------------------------------------
(***************************************************************************)
(* Theorems                                                                *)
(***************************************************************************)

\* The state of ThreadManager and SchedulerPinnedBase stays within its types.
THEOREM TypeCorrect == Spec => []TypeOK
BY SpecInv, PTL DEF IInv

\* m_core_running and m_core_thread_running stay inverse to each other through
\* every handler, whatever the number of threads and cores.
THEOREM MapsAlwaysAgree == Spec => []MapsAgree
BY SpecInv, PTL DEF IInv, SchedInv, PlaceInv

\* Thread::m_core and Core::m_thread stay inverse to each other and follow the
\* scheduler's maps: the assertion in Thread::setCore cannot fail.
THEOREM PlacementAlwaysAgrees == Spec => []Placement
BY SpecInv, PTL DEF IInv, SchedInv, PlaceInv, Placement

\* A core is IDLE exactly when no thread is on it: the assertion "Core is running
\* but has no thread" in BarrierSyncServer::isCoreRunning cannot fail.
THEOREM CoreStateAlwaysMatches == Spec => []CoreStateMatchesThread
BY SpecInv, PTL DEF IInv, SchedInv, PlaceInv

\* threadSetAffinity() leaves no thread a quantum on a core it may not use.
THEOREM DisplacedAlwaysSoon == Spec => []DisplacedSoon
BY SpecInv, PTL DEF IInv, SchedInv

-----------------------------------------------------------------------------
(***************************************************************************)
(* Every step                                                              *)
(***************************************************************************)

LEMMA LockHolderSafe ==
    ASSUME IInv, SafeInv, LateJoinInv, LockHolder
    PROVE  SafeInv' /\ LateJoinInv'
<1> USE DEF IInv
<1>a. /\ call.op \in Calls /\ call.t \in Threads \cup {NoThread}
      /\ call.c \in Cores \cup {NoCore} /\ call.tm \in Int
    BY Zenon DEF TypeOK
<1>b. Interval \in Int /\ m_resumed \in Threads \cup {NoThread}
    BY TimesAssumption DEF TypeOK
<1>1. CASE ThreadResume
    <2>1. m_resumed \in Threads /\ RescheduleFreeCore(m_resumed, call.tm)
        BY Zenon, <1>1, <1>b DEF ThreadResume
    <2>2. call.op # "resched" /\ call.op # "yield"
        BY Zenon, <1>1 DEF ThreadResume, SafeInv, ArgsInv
    <2>3. GoesOn
        BY Zenon, <1>1, <2>2 DEF ThreadResume, GoesOn, NoCall, Stalling
    <2> QED
        BY Zenon, <1>a, <2>1, <2>2, <2>3, FreeCoreSafe
<1>2. CASE RescheduleStep
    <2>1. call.op = "resched" /\ GoesOn
        BY <1>2 DEF RescheduleStep, At, Signal, Call, GoesOn, Stalling
    <2>2. CASE call.c # NoCore
        <3>1. call.c \in Cores /\ Outcome(call.c)
            BY Zenon, <1>2, <1>a, <2>2, RescheduleOutcome DEF RescheduleStep
        <3> QED
            BY Zenon, <2>1, <3>1, OutcomeSafe, OutcomeJoin DEF LateJoinInv
    <2>3. CASE call.c = NoCore
        <3>1. UNCHANGED <<status, host, m_core, m_core_running, m_threads_runnable, waiter, joining>>
            BY Zenon, <1>2, <2>3 DEF RescheduleStep, tmVars, placeVars, schedVars
        <3>2. m_core[call.t] = NoCore /\ call.t \in Threads
            BY Zenon, <2>1, <2>3 DEF SafeInv, ArgsInv, SchedInv, PlaceInv, PlacementAgrees, TypeOK
        <3>3. CoreInv' /\ ArgsInv' /\ ExitInv'
            BY Zenon, <2>1, <3>1, <3>2 DEF SafeInv, CoreInv, ArgsInv, ExitInv, GoesOn
        <3>4. WaitInv' /\ RunningInv' /\ StartedInv'
            BY Zenon, <2>1, <3>1 DEF SafeInv, WaitInv, RunningInv, StartedInv, GoesOn
        <3> QED
            BY Zenon, <2>1, <3>1, <3>3, <3>4, FrameJoin DEF SafeInv, LateJoinInv
    <2> QED
        BY Zenon, <2>2, <2>3
<1>3. CASE ReturnStep
    <2>1. /\ call.op = "return" /\ call'.op \in {"none", "timeouts"}
          /\ UNCHANGED <<status, m_core, m_core_running, m_threads_runnable, waiter, joining>>
        BY SMTT(60), <1>3 DEF ReturnStep, At, Call, NoCall, tmVars, placeVars, schedVars
    <2>2. CASE UNCHANGED host /\ call'.op = "timeouts"
        <3>1. GoesOn
            BY <1>3, <2>1, <2>2 DEF ReturnStep, NoCall, Call, GoesOn, Stalling
        <3> QED
            BY Zenon, <2>1, <2>2, <3>1, FrameSafe, FrameJoin DEF LateJoinInv
    <2>3. CASE /\ call.t # NoThread /\ host[call.t] \in {"user", "woken"}
               /\ call'.op = "none"
               /\ host' = [host EXCEPT ![call.t] =
                     IF status[call.t] # "RUNNING" THEN "wait" ELSE "woken"]
        <3>0. call.t \in Threads /\ status[call.t] \in {"RUNNING"} \cup Reasons
            BY Zenon, <2>3, <1>a DEF TypeOK, SchedInv, HostInv, States, CoreStates
        <3>1. CoreInv' /\ ArgsInv' /\ ExitInv'
            BY Zenon, <2>1, <2>3 DEF SafeInv, CoreInv, ArgsInv, ExitInv
        <3>2. WaitInv' /\ RunningInv' /\ StartedInv'
            BY Zenon, <2>1, <2>3, <3>0 DEF SafeInv, WaitInv, RunningInv, StartedInv, TypeOK
        <3>3. ASSUME JoinSafe PROVE JoinSafe'
            <4>1. UserInv' /\ UnjoinedInv'
                BY Zenon, <2>1, <2>3, <3>0, <3>3 DEF JoinSafe, UserInv, UnjoinedInv, TypeOK
            <4>2. JoinerRemembered' /\ UnscheduledIsRunnable'
                BY Zenon, <2>1, <3>3 DEF JoinSafe, JoinerRemembered, UnscheduledIsRunnable
            <4> QED
                BY Zenon, <4>1, <4>2 DEF JoinSafe
        <3> QED
            BY Zenon, <3>1, <3>2, <3>3 DEF SafeInv, LateJoinInv
    <2>4. CASE /\ ~(call.t # NoThread /\ host[call.t] \in {"user", "woken"})
               /\ UNCHANGED host /\ call'.op = "none"
        <3>1. CoreInv' /\ ArgsInv' /\ ExitInv'
            BY Zenon, <2>1, <2>4 DEF SafeInv, CoreInv, ArgsInv, ExitInv
        <3>2. WaitInv' /\ RunningInv' /\ StartedInv'
            BY Zenon, <2>1, <2>4 DEF SafeInv, WaitInv, RunningInv, StartedInv
        <3>3. ASSUME JoinSafe PROVE JoinSafe'
            <4>1. UserInv' /\ UnjoinedInv'
                BY Zenon, <2>1, <2>4, <3>3, Distinct DEF JoinSafe, UserInv, UnjoinedInv
            <4>2. JoinerRemembered' /\ UnscheduledIsRunnable'
                BY Zenon, <2>1, <3>3 DEF JoinSafe, JoinerRemembered, UnscheduledIsRunnable
            <4> QED
                BY Zenon, <4>1, <4>2 DEF JoinSafe
        <3> QED
            BY Zenon, <3>1, <3>2, <3>3 DEF SafeInv, LateJoinInv
    <2> QED
        BY SMTT(60), <1>3, <2>2, <2>3, <2>4 DEF ReturnStep, Sleeps, NoCall, Call
<1>4. CASE TimeoutStep
    <2>1. PICK u \in TimedOut : ResumeThread(u)
        BY Zenon, <1>4 DEF TimeoutStep
    <2>2. /\ UNCHANGED <<waiter, m_core, m_core_running, call>>
          /\ call.op = "timeouts"
        BY Zenon, <1>4 DEF TimeoutStep, At, placeVars
    <2> QED
        BY Zenon, <2>1, <2>2, ResumeSafe
<1>5. CASE PassBegin \/ PassEnd \/ PassAgain
    <2>1. /\ call.op \in {"timeouts", "passend"} /\ call'.op \in {"pass", "return", "timeouts"}
          /\ call'.t = call.t
          /\ UNCHANGED <<status, host, m_core, m_core_running, m_threads_runnable, waiter, joining>>
        BY <1>5 DEF PassBegin, PassEnd, PassAgain, PassDone, At, Call, tmVars, placeVars, schedVars
    <2>2. GoesOn
        BY Zenon, <2>1 DEF GoesOn, Stalling
    <2> QED
        BY Zenon, <2>1, <2>2, FrameSafe, FrameJoin DEF LateJoinInv
<1>6. CASE PassStep
    <2>1. call.op = "pass" /\ call'.op \in {"pass", "passend"} /\ call'.t = call.t
        BY Zenon, <1>6 DEF PassStep, At, Call, TypeOK
    <2>2. GoesOn /\ call.c \in Cores
        BY Zenon, <2>1 DEF GoesOn, Stalling, CallInv
    <2>3. CASE Reschedule(call.c, Interval)
        BY Zenon, <2>1, <2>2, <2>3, <1>b, RescheduleOutcome, OutcomeSafe, OutcomeJoin DEF LateJoinInv
    <2>4. CASE ~Reschedule(call.c, Interval)
        <3>1. UNCHANGED <<status, host, m_core, m_core_running, m_threads_runnable, waiter, joining>>
            BY Zenon, <1>6, <2>4 DEF PassStep, tmVars, placeVars
        <3> QED
            BY Zenon, <2>1, <2>2, <3>1, FrameSafe, FrameJoin DEF LateJoinInv
    <2> QED
        BY Zenon, <2>3, <2>4
<1>7. CASE StartStep
    <2> DEFINE t == call.t
    <2>1. /\ call.op = "start" /\ t \in Threads /\ host[t] = "created" /\ m_threads_runnable[t]
          /\ call'.op = "none"
          /\ UNCHANGED <<m_core, m_core_running, m_threads_runnable, joining>>
        BY Zenon, <1>7 DEF StartStep, At, CallInv, NoCall, schedVars
    <2>2. /\ status' = [status EXCEPT ![t] = IF m_core[t] # NoCore THEN "RUNNING" ELSE "UNSCHEDULED"]
          /\ waiter' = [waiter EXCEPT ![t] = NoThread]
          /\ host' = [u \in Threads |->
                 IF u = t \/ (u = waiter[t] /\ host[u] = "wait") THEN "woken" ELSE host[u]]
        BY Zenon, <1>7 DEF StartStep
    <2>3. CoreInv' /\ ArgsInv' /\ ExitInv'
        BY Zenon, <2>1, <2>2 DEF SafeInv, CoreInv, ArgsInv, ExitInv, TypeOK
    <2>4. WaitInv' /\ RunningInv' /\ StartedInv'
        BY Zenon, <2>1, <2>2 DEF SafeInv, WaitInv, RunningInv, StartedInv, TypeOK
    <2>5. ASSUME JoinSafe PROVE JoinSafe'
        <3>1. waiter[t] = NoThread /\ waiter' = waiter
            BY Zenon, <2>1, <2>2, <2>5 DEF JoinSafe, UnjoinedInv, TypeOK
        <3>2. host' = [host EXCEPT ![t] = "woken"]
            BY ZenonT(60), <2>2, <3>1, Distinct DEF TypeOK
        <3>3. UserInv' /\ UnjoinedInv'
            BY SMTT(60), <2>1, <2>2, <2>5, <3>1, <3>2 DEF JoinSafe, UserInv, UnjoinedInv, TypeOK, Stalling
        <3>4. JoinerRemembered' /\ UnscheduledIsRunnable'
            BY <2>1, <2>2, <2>5, <3>1 DEF JoinSafe, JoinerRemembered, UnscheduledIsRunnable, TypeOK
        <3> QED
            BY Zenon, <3>3, <3>4 DEF JoinSafe
    <2> QED
        BY Zenon, <2>3, <2>4, <2>5 DEF SafeInv, LateJoinInv
<1>8. CASE FutexWakeStep
    <2>1. /\ call.op = "futexwake" /\ call'.op = "exit" /\ call'.t = call.t
          /\ UNCHANGED <<waiter, m_core, m_core_running>>
        BY Zenon, <1>8 DEF FutexWakeStep, At, placeVars, TypeOK
    <2>2. CASE \E u \in TimedOut : ResumeThread(u)
        BY Zenon, <2>1, <2>2, ResumeSafe DEF Stalling
    <2>3. CASE UNCHANGED <<status, host, m_threads_runnable, joining, m_resumed>>
        <3>1. CoreInv' /\ ArgsInv' /\ ExitInv'
            BY Zenon, <2>1, <2>3 DEF SafeInv, CoreInv, ArgsInv, ExitInv
        <3>2. WaitInv' /\ RunningInv' /\ StartedInv'
            BY Zenon, <2>1, <2>3 DEF SafeInv, WaitInv, RunningInv, StartedInv
        <3>3. JoinSafe => JoinSafe'
            BY Zenon, <2>1, <2>3 DEF JoinSafe, UserInv, UnjoinedInv, JoinerRemembered,
                UnscheduledIsRunnable, Stalling
        <3> QED
            BY Zenon, <3>1, <3>2, <3>3 DEF SafeInv, LateJoinInv
    <2> QED
        BY Zenon, <1>8, <2>2, <2>3 DEF FutexWakeStep
<1>9. CASE ExitStep
    <2> DEFINE t == call.t
    <2>1. /\ call.op = "exit" /\ t \in Threads /\ status[t] = "IDLE"
          /\ call'.op = "resched" /\ call'.t = t /\ call'.c = m_core_running[t]
          /\ m_core' = [m_core EXCEPT ![t] = NoCore]
          /\ m_threads_runnable' = [m_threads_runnable EXCEPT ![t] = FALSE]
          /\ m_resumed = NoThread
          /\ UNCHANGED <<status, host, m_core_running, waiter, joining, m_resumed>>
        BY Zenon, <1>9 DEF ExitStep, At, Call, CallInv, tmVars
    <2>2. CoreInv' /\ ArgsInv' /\ ExitInv'
        BY Zenon, <2>1 DEF SafeInv, CoreInv, ArgsInv, ExitInv, TypeOK
    <2>3. WaitInv' /\ RunningInv' /\ StartedInv'
        BY Zenon, <2>1 DEF SafeInv, WaitInv, RunningInv, StartedInv, TypeOK
    <2>4. ASSUME JoinSafe PROVE JoinSafe'
        BY Zenon, <2>1, <2>4 DEF JoinSafe, UserInv, UnjoinedInv, JoinerRemembered,
            UnscheduledIsRunnable, Stalling, TypeOK
    <2> QED
        BY Zenon, <2>2, <2>3, <2>4 DEF SafeInv, LateJoinInv
<1>10. CASE YieldStep
    <2>1. call.op = "yield" /\ call'.op = "yieldtail" /\ call.c \in Cores /\ Outcome(call.c)
        BY Zenon, <1>10, <1>a, RescheduleOutcome DEF YieldStep, At, CallInv, TypeOK
    <2>2. GoesOn
        BY Zenon, <2>1 DEF GoesOn, Stalling
    <2> QED
        BY Zenon, <2>1, <2>2, OutcomeSafe, OutcomeJoin DEF LateJoinInv
<1>11. CASE YieldTail
    <2>1. call.op = "yieldtail" /\ call'.op = "none" /\ call.t \in Threads
        BY Zenon, <1>11 DEF YieldTail, At, NoCall, Call, CallInv
    <2>2. GoesOn
        BY Zenon, <2>1 DEF GoesOn, Stalling
    <2>3. CASE call.c \notin m_core_affinity[call.t]
        BY Zenon, <1>11, <1>a, <2>1, <2>2, <2>3, FreeCoreSafe DEF YieldTail
    <2>4. CASE call.c \in m_core_affinity[call.t]
        <3>1. UNCHANGED <<status, host, m_core, m_core_running, m_threads_runnable, waiter, joining>>
            BY Zenon, <1>11, <2>4 DEF YieldTail, tmVars, placeVars, schedVars
        <3> QED
            BY Zenon, <2>1, <2>2, <3>1, FrameSafe, FrameJoin DEF LateJoinInv
    <2> QED
        BY Zenon, <2>3, <2>4
<1> QED
    BY Zenon, <1>1, <1>2, <1>3, <1>4, <1>5, <1>6, <1>7, <1>8, <1>9, <1>10, <1>11 DEF LockHolder

=============================================================================
