------------------------ MODULE BarrierSyncTheorems -------------------------
(***************************************************************************)
(* What holds of BarrierSync in every state: its assertions, that nobody   *)
(* in the barrier is forgotten, and that the clocks of cores that simulate *)
(* stay within an interval while threads keep their cores.                 *)
(***************************************************************************)
EXTENDS BarrierSyncSteps

\* When the simulation starts every core has a thread and nobody waits.
LEMMA InitGood ==
    ASSUME Init, InScope
    PROVE  Good
<1>1. TypeOK
  <2>1. [c \in Cores |-> <<>>] \in [Cores -> Seq(Threads)] /\ Interval \in Nat
    BY BarrierAssumption
  <2>2. call \in CallType
    BY Zenon DEF Init, NoCall, CallType
  <2>3. /\ m_next_sync_time \in [Cores -> Nat] /\ timeout \in [Threads -> Nat \cup {None}]
        /\ occupant \in [Cores -> Threads \cup {None}] /\ m_core_thread \in [Cores -> Threads \cup {None}]
    BY Zenon, <2>1, CoresAreThreads DEF Init
  <2> QED BY Zenon, <2>1, <2>2, <2>3, CoresAreThreads DEF Init, TypeOK, CallType, Status, Places, NoEntry
<1>2. Placed
  BY Zenon, CoresAreThreads DEF Init, Placed
<1>3. \A t \in Threads : ~Inside(t)
  BY Zenon, CoresAreThreads DEF Init, Inside, NoCall
<1>4. KeepsCore /\ Seats
  BY Zenon, <1>3 DEF Init, KeepsCore, Seats, Seat, Taken
<1>5. CallShape
  BY Zenon DEF Init, InScope, CallShape, NoCall
<1>6. Moves
  BY Zenon, <1>3 DEF Moves, AnyThreadRunning, Inside, InBarrier
<1> QED BY Zenon, <1>1, <1>2, <1>4, <1>5, <1>6 DEF Good

\* The configuration of a simulation does not change.
LEMMA SetupSame == [Next]_vars => setup' = setup
<1> SUFFICES ASSUME [Next]_vars PROVE setup' = setup
  BY Zenon
<1>1. CASE LockHolder
  BY Zenon, <1>1 DEF LockHolder, TimeoutStep, PassStep, BodyStep, StalledStep, ScriptDisables,
                     SetDisable, modeVars
<1>2. ASSUME NEW t \in Threads, Thread(t) PROVE setup' = setup
  <2>1. ASSUME NEW c \in Cores, SwitchMode(t, c) PROVE setup' = setup
    BY Zenon, <2>1 DEF SwitchMode, SetDisable, SetFastForward
  <2>2. ASSUME NEW c \in Cores, NEW x, \/ Execute(t, c, x) \/ Stall(t, c, x) \/ Exit(t, c) \/ Wake(t, c, x)
        PROVE  setup' = setup
    BY Zenon, <2>2 DEF Execute, Stall, Exit, Wake, modeVars
  <2> QED BY Zenon, <1>2, <2>1, <2>2 DEF Thread, Block, Return, Unscheduled, modeVars
<1>3. CASE UNCHANGED vars
  BY Zenon, <1>3 DEF vars, modeVars
<1> QED BY Zenon, <1>1, <1>2, <1>3 DEF Next

\* Every step of the barrier server, its clients and ThreadManager keeps the invariant.
LEMMA NextGood == Inv /\ [Next]_vars => Inv'
<1> SUFFICES ASSUME Inv, [Next]_vars, InScope' PROVE Good'
  BY Zenon DEF Inv
<1>1. setup' = setup
  BY Zenon, SetupSame
<1>2. Good /\ InScope
  BY Zenon, <1>1 DEF InScope, Inv
<1>3. CASE UNCHANGED vars
  <2> USE <1>2, <1>3 DEF Good, vars, servVars, timeVars, modeVars, condVars, threadVars
  <2>1. TypeOK'
    BY Zenon DEF TypeOK
  <2>2. Placed' /\ KeepsCore'
    BY Zenon DEF Placed, KeepsCore, Inside
  <2>3. CallShape'
    BY Zenon DEF CallShape
  <2>4. Seats'
    BY ZenonT(60) DEF Seats, Seat, Taken, Inside, InBarrier
  <2>5. Moves'
    BY Zenon DEF Moves, InBarrier, AnyThreadRunning
  <2> QED BY Zenon, <2>1, <2>2, <2>3, <2>4, <2>5
<1>4. CASE LockHolder
  BY Zenon, <1>2, <1>4, TimeoutGood, PassGood, BodyGood, StalledGood DEF LockHolder, ScriptDisables, SetDisable, InScope
<1>5. ASSUME NEW t \in Threads, Thread(t) PROVE Good'
  <2>1. ASSUME NEW c \in Cores PROVE None \in Nat \cup {None} /\ elapsed[c] + Interval \in Nat \cup {None}
    <3>1. elapsed[c] \in Nat /\ Interval \in Nat
      BY Zenon, <1>2, BarrierAssumption DEF Good, TypeOK
    <3> QED BY <3>1
  <2>2. ASSUME NEW c \in Cores, SwitchMode(t, c) PROVE FALSE
    BY Zenon, <1>2, <2>2 DEF SwitchMode, SetDisable, SetFastForward, InScope
  <2> QED BY Zenon, <1>2, <1>5, <2>1, <2>2, BlockGood, ReturnGood, UnscheduledGood, ExecuteGood, StallGood,
             ExitGood, WakeGood DEF Thread
<1> QED BY Zenon, <1>3, <1>4, <1>5 DEF Next

\* What the invariant is for: the assertions of synchronize() and barrierRelease() hold, no
\* signal is lost, and somebody goes on.
LEMMA GoodImplies ==
    ASSUME Good
    PROVE  AssertionsHold /\ NobodyForgotten
<1>1. AssertionsHold
  BY Zenon DEF Good, CallShape, AssertionsHold
<1>2. NoLostRelease
  <2> SUFFICES ASSUME NEW t \in Threads, InBarrier(t)
               PROVE  \/ m_barrier_acquire_list[entry[t].c] /\ m_core_thread[entry[t].c] = t
                      \/ entry[t].c \in m_to_release
                      \/ pc[t] = "prewait" /\ m_futx[entry[t].c] = 1
    BY Zenon DEF NoLostRelease
  <2>1. entry[t].c \in Cores /\ occupant[entry[t].c] = t /\ Taken(entry[t].c)
    BY Zenon DEF Good, TypeOK, KeepsCore, Taken, Inside, InBarrier
  <2> QED BY Zenon, <2>1 DEF Good, Seats, Seat
<1>3. BarrierMoves
  BY Zenon DEF Good, Moves, BarrierMoves
<1> QED BY Zenon, <1>1, <1>2, <1>3 DEF NobodyForgotten

\* In a detailed simulation without preemption the barrier server's lists, the condition
\* variables and the threads agree in every state, whatever the number of cores and threads.
THEOREM InvHolds == Spec => []Inv
<1>1. Init => Inv
  BY Zenon, InitGood DEF Inv
<1> QED BY <1>1, NextGood, PTL DEF Spec

\* The assertions of BarrierSyncServer::synchronize() and barrierRelease() never fail in a
\* detailed simulation without preemption: no core enters the barrier twice, and the barrier
\* is not reached while cores released before are still queued.
THEOREM BarrierAsserts == Spec => [](InScope => AssertionsHold)
<1>1. Inv => (InScope => AssertionsHold)
  BY Zenon, GoodImplies DEF Inv
<1> QED BY <1>1, InvHolds, PTL

\* No thread blocked in BarrierSyncServer::synchronize() is forgotten, and the barrier never
\* stops threads that run, in a detailed simulation without preemption: stalls, resumes, exits
\* and timeouts may happen between any two steps of the release.
THEOREM BarrierForgetsNobody == Spec => [](InScope => NobodyForgotten)
<1>1. Inv => (InScope => NobodyForgotten)
  BY Zenon, GoodImplies DEF Inv
<1> QED BY <1>1, InvHolds, PTL

\* A client that returns before the barrier calls synchronize() again at the barrier, or earlier.
LEMMA NextSyncBound ==
    ASSUME NEW tm \in Nat, NEW b \in Nat, b % Interval = 0, tm < b
    PROVE  NextSync(tm) \in Nat /\ NextSync(tm) <= b
<1> DEFINE q == tm \div Interval
           k == b \div Interval
<1>1. Interval \in Nat /\ Interval > 0
  BY BarrierAssumption
<1>2. q \in Nat /\ k \in Nat /\ tm >= q * Interval /\ b = k * Interval
  BY <1>1
<1> HIDE DEF q, k
<1>3. q < k
  <2>1. SUFFICES ASSUME k <= q PROVE FALSE
    BY <1>2
  <2>2. PICK e \in Nat : q = k + e
    BY <1>2, <2>1
  <2>3. q * Interval = k * Interval + e * Interval /\ e * Interval >= 0
    BY <1>1, <1>2, <2>2
  <2> QED BY <1>1, <1>2, <2>3
<1>4. PICK e \in Nat : k = q + 1 + e
  BY <1>2, <1>3
<1>5. k * Interval = q * Interval + Interval + e * Interval /\ e * Interval >= 0
  BY <1>1, <1>2, <1>4
<1>6. q * Interval \in Nat
  BY <1>1, <1>2
<1> QED BY <1>1, <1>2, <1>5, <1>6 DEF NextSync, q

\* barrierRelease() advances m_next_barrier_time from one multiple of the interval to the next.
LEMMA NextMultiple ==
    ASSUME NEW b \in Nat, b % Interval = 0
    PROVE  (b + Interval) % Interval = 0
<1> DEFINE k == b \div Interval
           q == (b + Interval) \div Interval
           r == (b + Interval) % Interval
<1>1. Interval \in Nat /\ Interval > 0
  BY BarrierAssumption
<1>2. k \in Nat /\ b = k * Interval
  BY <1>1
<1>3. q \in Nat /\ r \in Nat /\ r < Interval /\ b + Interval = q * Interval + r
  BY <1>1
<1> HIDE DEF k, q, r
<1>4. (k + 1) * Interval = q * Interval + r
  BY <1>1, <1>2, <1>3
<1>5. CASE q <= k
  <2>1. PICK e \in Nat : k = q + e
    BY <1>2, <1>3, <1>5
  <2>2. (k + 1) * Interval = q * Interval + Interval + e * Interval /\ e * Interval \in Nat
    BY <1>1, <1>2, <1>3, <2>1
  <2> QED BY <1>1, <1>3, <1>4, <2>2
<1>6. CASE q = k + 1
  BY <1>1, <1>3, <1>4, <1>6 DEF r
<1>7. CASE q > k + 1
  <2>1. PICK e \in Nat : q = k + 1 + 1 + e
    BY <1>2, <1>3, <1>7
  <2>2. q * Interval = (k + 1) * Interval + Interval + e * Interval /\ e * Interval \in Nat
    BY <1>1, <1>2, <2>1
  <2> QED BY <1>1, <1>2, <1>3, <1>4, <2>2
<1> QED BY <1>2, <1>3, <1>5, <1>6, <1>7

\* While threads keep their cores, only these steps are possible.
LEMMA SteadySteps ==
    ASSUME Good, Clocks, Steady, [Next]_vars
    PROVE  /\ UNCHANGED <<occupant, status, timeout, setup>> /\ Steady'
           /\ \/ UNCHANGED vars
              \/ TimeoutStep /\ UNCHANGED <<threadVars, pc, m_local_clock_list>>
              \/ PassStep /\ UNCHANGED <<threadVars, pc, m_local_clock_list>>
              \/ BodyStep
              \/ \E t \in Threads : Block(t) \/ Return(t)
              \/ \E c \in Cores, d \in Steps : Execute(c, c, d)
<1>1. /\ Cores \subseteq Threads /\ None \notin Threads
      /\ \A t \in Threads : (t \notin Cores => status[t] = "UNSCHED") /\ timeout[t] = None
      /\ \A c \in Cores : occupant[c] = c /\ status[c] = "RUNNING"
  BY Zenon, CoresAreThreads DEF Clocks
<1>2. CASE UNCHANGED vars
  BY Zenon, <1>2 DEF vars, threadVars, modeVars, Steady
<1>3. CASE TimeoutStep
  <2>1. Expired = {}
    BY Zenon, <1>1 DEF Expired
  <2> QED BY Zenon, <1>3, <2>1 DEF TimeoutStep, threadVars, modeVars, Steady
<1>4. CASE PassStep
  <2>1. call.c \in Cores /\ occupant[call.c] # None
    BY Zenon, <1>1, <1>4 DEF PassStep, Good, CallShape
  <2>2. UNCHANGED <<threadVars, pc, m_local_clock_list>>
    BY Zenon, <1>4, <2>1 DEF PassStep, Steady
  <2> QED BY Zenon, <1>4, <2>2 DEF PassStep, threadVars, modeVars, Steady
<1>5. CASE BodyStep
  BY Zenon, <1>5 DEF BodyStep, threadVars, modeVars, Steady
<1>6. ~StalledStep /\ ~ScriptDisables
  BY Zenon DEF StalledStep, ScriptDisables, SetDisable, Steady, Clocks, Good, CallShape
<1>7. ASSUME NEW t \in Threads, Block(t) \/ Return(t) PROVE UNCHANGED <<occupant, status, timeout, setup>>
  BY Zenon, <1>7 DEF Block, Return, threadVars, modeVars
<1>8. ASSUME NEW t \in Threads PROVE ~Unscheduled(t)
  BY Zenon, <1>1 DEF Unscheduled
<1>9. ASSUME NEW t \in Threads, NEW c \in Cores
      PROVE  /\ ~SwitchMode(t, c) /\ \A u \in Threads : ~Wake(t, c, u)
             /\ "stall" \notin setup.ops /\ "sleep" \notin setup.ops /\ "exit" \notin setup.ops
  <2>1. \A u \in Threads : status[u] # "STALLED"
    BY Zenon, <1>1
  <2> QED BY Zenon, <2>1 DEF SwitchMode, SetDisable, SetFastForward, Wake, Steady
<1>10. ASSUME NEW t \in Threads, NEW c \in Cores, NEW d \in Steps, Execute(t, c, d)
       PROVE  Execute(c, c, d) /\ UNCHANGED <<occupant, status, timeout, setup>>
  BY Zenon, <1>1, <1>10 DEF Execute, InUser, modeVars
<1> QED BY Zenon, <1>2, <1>3, <1>4, <1>5, <1>6, <1>7, <1>8, <1>9, <1>10 DEF Next, LockHolder, Thread, Steady

\* A step that leaves alone what Clock(c) is about.
LEMMA ClockSame ==
    ASSUME NEW c \in Cores, Clock(c),
           entry'[c] = entry[c], elapsed'[c] = elapsed[c], m_global_time' = m_global_time,
           m_next_sync_time'[c] = m_next_sync_time[c], m_next_barrier_time' = m_next_barrier_time,
           m_barrier_acquire_list'[c] = m_barrier_acquire_list[c],
           m_local_clock_list'[c] = m_local_clock_list[c],
           call'.op # "none" => call.op # "none"
    PROVE  Clock(c)'
BY Zenon DEF Clock

\* A core simulates up to synchronize(), and returns, waits there or finds the barrier reached.
LEMMA ExecuteClocks ==
    ASSUME Good, Good', Clocks, UNCHANGED <<occupant, status, timeout>>,
           NEW c \in Cores, NEW d \in Steps, Execute(c, c, d)
    PROVE  Clocks'
<1> USE DEF servVars, timeVars
<1>1. /\ call = NoCall /\ call.op = "none" /\ call.t = None /\ call.by = None /\ ~m_fastforward /\ ~m_disable
      /\ pc[c] = "run" /\ Cores \subseteq Threads /\ None \notin Threads
  BY CoresAreThreads DEF Execute, InUser, LockFree, NoCall, Good, CallShape
<1>2. /\ ~Inside(c) /\ ~m_barrier_acquire_list[c]
  <2>1. ~Inside(c)
    BY Zenon, <1>1 DEF Inside
  <2>2. occupant[c] = c
    BY Zenon DEF Clocks
  <2>3. m_barrier_acquire_list[c] => Inside(occupant[c])
    BY Zenon DEF Good, Seats, Seat, Taken
  <2> QED BY Zenon, <2>1, <2>2, <2>3
<1>3. /\ elapsed'[c] \in Nat /\ elapsed'[c] >= elapsed[c] /\ \A e \in Cores : e # c => elapsed'[e] = elapsed[e]
      /\ elapsed[c] \in Nat /\ m_next_barrier_time \in Nat /\ m_next_sync_time[c] \in Nat
      /\ m_global_time \in Nat /\ m_local_clock_list[c] \in Nat /\ entry[c].tm \in Nat
  <2>1. d \in Nat /\ elapsed[c] \in Nat /\ elapsed \in [Cores -> Nat]
    BY Zenon, BarrierAssumption DEF Good, TypeOK
  <2>2. elapsed' = [elapsed EXCEPT ![c] = elapsed[c] + d]
    BY Zenon DEF Execute
  <2>3. elapsed'[c] = elapsed[c] + d /\ \A e \in Cores : e # c => elapsed'[e] = elapsed[e]
    BY Zenon, <2>1, <2>2
  <2>4. m_next_barrier_time \in Nat /\ m_global_time \in Nat /\ entry[c].tm \in Nat
    BY Zenon, <1>1 DEF Good, TypeOK
  <2> QED BY <2>1, <2>3, <2>4 DEF Good, TypeOK
<1>4. ASSUME UNCHANGED <<servVars, timeVars, pc, entry, call>>, elapsed'[c] < m_next_barrier_time,
             m_next_sync_time'[c] <= m_next_barrier_time,
             \A e \in Cores : e # c => m_next_sync_time'[e] = m_next_sync_time[e]
      PROVE  Clocks'
  <2>2. Clock(c)'
    BY SMTT(60), <1>1, <1>2, <1>3, <1>4 DEF Clocks, Clock
  <2>3. ASSUME NEW e \in Cores, e # c PROVE Clock(e)'
    BY Zenon, <1>3, <1>4, <2>3, ClockSame DEF Clocks
  <2> QED BY Zenon, <1>4, <2>2, <2>3 DEF Clocks
<1>5. ASSUME elapsed'[c] >= m_next_barrier_time, Synchronize(c, c, elapsed'[c]) PROVE Clocks'
  <2> DEFINE reached == Reached(m_local_clock_list', m_barrier_acquire_list', occupant, status)
  <2>1. PICK S \in SUBSET m_to_release :
         /\ m_local_clock_list' = [m_local_clock_list EXCEPT ![c] = elapsed'[c]]
         /\ m_barrier_acquire_list' = [m_barrier_acquire_list EXCEPT ![c] = TRUE]
         /\ entry' = [entry EXCEPT ![c] = [c |-> c, tm |-> elapsed'[c]]]
         /\ IF reached
            THEN /\ StartRelease(m_to_release', m_local_clock_list', [NoCall EXCEPT !.t = c])
                 /\ pc' = PcWoken(S)
            ELSE /\ WaitOn(c, c, S)
                 /\ UNCHANGED <<timeVars, call>>
         /\ UNCHANGED m_next_sync_time
    <3>1. ~(elapsed'[c] < m_next_barrier_time)
      BY <1>3, <1>5
    <3> QED BY Zenon, <1>1, <1>2, <1>5, <3>1 DEF Synchronize
  <2>2. /\ m_local_clock_list'[c] = elapsed'[c] /\ m_barrier_acquire_list'[c]
        /\ entry'[c].c = c /\ entry'[c].tm = elapsed'[c]
        /\ \A e \in Cores : e # c => /\ m_local_clock_list'[e] = m_local_clock_list[e]
                                      /\ m_barrier_acquire_list'[e] = m_barrier_acquire_list[e]
                                      /\ entry'[e] = entry[e]
    BY <1>1, <2>1 DEF Good, TypeOK
  <2> HIDE DEF reached
  <2>3. CASE ~reached
    <3>1. UNCHANGED <<timeVars, call, m_next_sync_time>>
      BY Zenon, <2>1, <2>3
    <3>2. Clock(c)'
      BY SMTT(60), <1>1, <1>3, <1>5, <2>2, <3>1 DEF Clocks, Clock
    <3>3. ASSUME NEW e \in Cores, e # c PROVE Clock(e)'
      BY ZenonT(60), <1>3, <2>2, <3>1, <3>3, ClockSame DEF Clocks
    <3> QED BY Zenon, <1>1, <3>1, <3>2, <3>3 DEF Clocks
  <2>4. CASE reached
    <3>1. /\ call'.op = "timeouts" /\ call'.by = None /\ m_next_barrier_time' = m_next_barrier_time
          /\ m_global_time' = m_next_barrier_time
      <4>1. StartRelease(m_to_release', m_local_clock_list', [NoCall EXCEPT !.t = c])
        BY Zenon, <2>1, <2>4
      <4>2. CASE m_to_release' # {}
        <5>1. call'.op = "abort" /\ ~call'.until
          BY Zenon, <4>1, <4>2 DEF StartRelease, NoCall
        <5> QED BY Zenon, <5>1 DEF Good, CallShape
      <4>3. CASE m_to_release' = {}
        BY Zenon, <1>1, <4>1, <4>3 DEF StartRelease, NoCall
      <4> QED BY Zenon, <4>2, <4>3
    <3>2. \A e \in Cores : m_local_clock_list'[e] >= m_next_barrier_time
      BY ZenonT(60), <1>1, <2>4 DEF reached, Reached, CoreRunning, Clocks
    <3>3. Clock(c)'
      BY <1>3, <1>5, <2>1, <2>2, <3>1 DEF Clocks, Clock
    <3>4. ASSUME NEW e \in Cores, e # c PROVE Clock(e)'
      <4>1. Clock(e) /\ elapsed[e] \in Nat /\ m_local_clock_list[e] \in Nat
        BY Zenon DEF Clocks, Good, TypeOK
      <4>2. m_barrier_acquire_list[e]
        BY SMTT(60), <1>3, <2>2, <3>2, <3>4, <4>1 DEF Clock
      <4> QED BY Zenon, <1>3, <2>1, <2>2, <3>1, <3>4, <4>1, <4>2 DEF Clock
    <3> QED BY SMTT(60), <1>3, <3>1, <3>3, <3>4 DEF Clocks
  <2> QED BY Zenon, <2>3, <2>4
<1>6. ASSUME elapsed'[c] < m_next_barrier_time, Synchronize(c, c, elapsed'[c]) PROVE Clocks'
  <2>1. /\ m_next_sync_time' = [m_next_sync_time EXCEPT ![c] = NextSync(elapsed'[c])]
        /\ UNCHANGED <<servVars, timeVars, pc, entry, call>>
    BY Zenon, <1>1, <1>2, <1>6 DEF Synchronize
  <2>2. /\ m_next_sync_time'[c] = NextSync(elapsed'[c])
        /\ \A e \in Cores : e # c => m_next_sync_time'[e] = m_next_sync_time[e]
    BY Zenon, <2>1 DEF Good, TypeOK
  <2>3. NextSync(elapsed'[c]) <= m_next_barrier_time
    BY Zenon, <1>3, <1>6, NextSyncBound DEF Clocks
  <2> QED BY Zenon, <1>4, <1>6, <2>1, <2>2, <2>3
<1>7. CASE elapsed'[c] < m_next_sync_time[c]
  <2>1. UNCHANGED <<servVars, timeVars, pc, entry, call, m_next_sync_time>>
    <3>1. ~(elapsed'[c] >= m_next_sync_time[c] \/ m_fastforward)
      BY <1>1, <1>3, <1>7
    <3> QED BY Zenon, <3>1 DEF Execute
  <2>2. m_next_sync_time[c] <= m_next_barrier_time
    BY Zenon DEF Clocks, Clock
  <2> QED BY <1>3, <1>4, <1>7, <2>1, <2>2
<1>8. CASE ~(elapsed'[c] < m_next_sync_time[c])
  <2>1. Synchronize(c, c, elapsed'[c])
    BY <1>3, <1>8 DEF Execute
  <2>2. elapsed'[c] < m_next_barrier_time \/ elapsed'[c] >= m_next_barrier_time
    BY <1>3
  <2> QED BY Zenon, <1>5, <1>6, <2>1, <2>2
<1> QED BY Zenon, <1>7, <1>8

\* barrierRelease() moves the barrier one interval on and releases every core behind it.
LEMMA BodyClocks ==
    ASSUME Good, Good', Clocks, UNCHANGED <<occupant, status, timeout>>, BodyStep
    PROVE  Clocks'
<1> DEFINE next == m_next_barrier_time + Interval
           R == Released(next)
<1>1. /\ call.op = "body" /\ call.by = None /\ ~m_disable /\ m_global_time = m_next_barrier_time
      /\ m_global_time \in Nat /\ Interval \in Nat /\ Interval > 0
  <2>1. call.op = "body" /\ ~m_disable /\ m_global_time \in Nat
    BY Zenon DEF BodyStep, Good, CallShape, TypeOK
  <2> QED BY <2>1, BarrierAssumption DEF Clocks
<1>2. \A c \in Cores : /\ m_barrier_acquire_list[c] /\ Clock(c) /\ m_local_clock_list[c] = elapsed[c]
                       /\ elapsed[c] \in Nat /\ m_next_sync_time[c] \in Nat
  BY ZenonT(30), <1>1 DEF Clocks, Clock, Good, TypeOK
<1>3. ~call.until
  BY Zenon, <1>2, CoresAreThreads DEF Good, Seats, Seat
<1>4. /\ m_next_barrier_time' = next /\ m_barrier_acquire_list' = StillWaiting(R)
      /\ IF R = {} THEN m_global_time' = next /\ call' = [call EXCEPT !.op = "timeouts"]
         ELSE m_global_time' = m_global_time /\ call' = AfterRelease
      /\ UNCHANGED <<m_local_clock_list, m_next_sync_time, elapsed, entry>>
  BY Zenon, <1>1, <1>3 DEF BodyStep, threadVars
<1>5. call'.by = None /\ call'.op = (IF R = {} THEN "timeouts" ELSE "none")
  <2>1. CASE R = {}
    BY Zenon, <1>1, <1>4, <2>1 DEF Good, TypeOK
  <2>2. CASE R # {}
    BY <1>1, <1>4, <2>2 DEF AfterRelease, NoCall
  <2> QED BY Zenon, <2>1, <2>2
<1>6. next % Interval = 0
  BY Zenon, <1>1, NextMultiple DEF Clocks
<1>7. ASSUME NEW c \in Cores PROVE Clock(c)'
  <2>1. m_barrier_acquire_list'[c] <=> c \notin R
    BY Zenon, <1>2, <1>4 DEF StillWaiting
  <2>2. c \in R <=> elapsed[c] < next
    BY Zenon, <1>2 DEF Released
  <2>3. R = {} => c \notin R
    BY Zenon
  <2> HIDE DEF R
  <2> QED BY <1>1, <1>2, <1>4, <1>5, <2>1, <2>2, <2>3 DEF Clock
<1> HIDE DEF R
<1>8. /\ m_next_barrier_time' % Interval = 0
      /\ m_next_barrier_time' = m_global_time' + (IF call'.op = "none" THEN Interval ELSE 0)
  BY <1>1, <1>4, <1>5, <1>6
<1> QED BY Zenon, <1>5, <1>7, <1>8 DEF Clocks

\* A released core leaves synchronize(), and its client computes when to call it again.
LEMMA ReturnClocks ==
    ASSUME Good, Good', Clocks, UNCHANGED <<occupant, status, timeout>>,
           NEW t \in Threads, Return(t)
    PROVE  Clocks'
<1>1. /\ pc[t] = "woken" /\ t \in Cores /\ entry[t].c = t /\ occupant[t] = t
      /\ entry[t].tm \in Nat /\ elapsed[t] \in Nat /\ m_next_barrier_time \in Nat
  <2>1. pc[t] = "woken" /\ Inside(t)
    BY Zenon DEF Return, Inside
  <2>2. entry[t].c \in Cores /\ occupant[entry[t].c] = t
    BY Zenon, <2>1 DEF Good, TypeOK, KeepsCore
  <2>3. t = entry[t].c
    BY Zenon, <2>2 DEF Clocks
  <2> QED BY Zenon, <2>1, <2>2, <2>3 DEF Good, TypeOK
<1>2. ~m_barrier_acquire_list[t]
  BY Zenon, <1>1 DEF Good, Seats, Seat
<1>3. NextSync(entry[t].tm) <= m_next_barrier_time
  <2>1. entry[t].tm < m_next_barrier_time
    BY SMTT(60), <1>1, <1>2 DEF Clocks, Clock
  <2> QED BY Zenon, <1>1, <2>1, NextSyncBound DEF Clocks
<1>4. /\ entry'[t].tm = 0 /\ m_next_sync_time'[t] = NextSync(entry[t].tm)
      /\ \A c \in Cores : c # t => entry'[c] = entry[c] /\ m_next_sync_time'[c] = m_next_sync_time[c]
  BY ZenonT(60), <1>1, CoresAreThreads DEF Return, NoEntry, Good, TypeOK
<1>5. UNCHANGED <<servVars, timeVars, elapsed, call>>
  BY Zenon DEF Return, threadVars
<1> USE DEF servVars, timeVars
<1>6. Clock(t)'
  BY <1>1, <1>3, <1>4, <1>5 DEF Clocks, Clock
<1>7. ASSUME NEW c \in Cores, c # t PROVE Clock(c)'
  BY Zenon, <1>4, <1>5, <1>7, ClockSame DEF Clocks
<1> QED BY Zenon, <1>5, <1>6, <1>7 DEF Clocks

\* A step that leaves the clocks and the callers alone.
LEMMA SameClocks ==
    ASSUME Clocks, UNCHANGED <<occupant, status, timeout, servVars, timeVars, elapsed, m_next_sync_time, entry>>,
           call'.by = call.by, call'.op = "none" <=> call.op = "none"
    PROVE  Clocks'
BY Zenon DEF Clocks, Clock, servVars, timeVars

\* Every step keeps the clocks together.
LEMMA NextClocks == Inv /\ SkewInv /\ [Next]_vars /\ Inv' => SkewInv'
<1> SUFFICES ASSUME Inv, SkewInv, [Next]_vars, Inv', Steady' PROVE Clocks'
  BY Zenon DEF SkewInv
<1>1. Steady /\ Good /\ Clocks
  BY Zenon, SetupSame DEF Steady, SkewInv, Inv, InScope
<1>2. /\ UNCHANGED <<occupant, status, timeout, setup>> /\ Steady'
      /\ \/ UNCHANGED vars
         \/ TimeoutStep /\ UNCHANGED <<threadVars, pc, m_local_clock_list>>
         \/ PassStep /\ UNCHANGED <<threadVars, pc, m_local_clock_list>>
         \/ BodyStep
         \/ \E t \in Threads : Block(t) \/ Return(t)
         \/ \E c \in Cores, d \in Steps : Execute(c, c, d)
  BY Zenon, <1>1, SteadySteps
<1>3. Good'
  BY Zenon, <1>2 DEF Steady, Inv, InScope
<1>4. CASE UNCHANGED vars
  BY Zenon, <1>1, <1>4, SameClocks DEF vars, threadVars
<1>5. ASSUME TimeoutStep, UNCHANGED <<threadVars, pc, m_local_clock_list>> PROVE Clocks'
  <2>1. call'.by = call.by /\ (call'.op = "none" <=> call.op = "none")
    BY Zenon, <1>1, <1>5 DEF TimeoutStep, Good, TypeOK
  <2>2. UNCHANGED <<servVars, timeVars, elapsed, m_next_sync_time, entry>>
    BY Zenon, <1>1, <1>5 DEF TimeoutStep, servVars, timeVars, threadVars, Good, CallShape
  <2> QED BY Zenon, <1>1, <1>2, <2>1, <2>2, SameClocks
<1>6. ASSUME PassStep, UNCHANGED <<threadVars, pc, m_local_clock_list>> PROVE Clocks'
  <2>1. call'.by = call.by /\ (call'.op = "none" <=> call.op = "none")
    BY Zenon, <1>1, <1>6 DEF PassStep, Good, TypeOK
  <2>2. UNCHANGED <<servVars, timeVars, elapsed, m_next_sync_time, entry>>
    BY Zenon, <1>6 DEF PassStep, servVars, timeVars, threadVars
  <2> QED BY Zenon, <1>1, <1>2, <2>1, <2>2, SameClocks
<1>7. ASSUME NEW t \in Threads, Block(t) PROVE Clocks'
  BY Zenon, <1>1, <1>2, <1>7, SameClocks DEF Block, threadVars
<1> QED BY Zenon, <1>1, <1>2, <1>3, <1>4, <1>5, <1>6, <1>7, BodyClocks, ReturnClocks, ExecuteClocks

\* All clocks start at zero, an interval before the first barrier.
LEMMA InitClocks == Init => SkewInv
<1> SUFFICES ASSUME Init, Steady PROVE Clocks
  BY Zenon DEF SkewInv
<1>1. Interval \in Nat /\ Interval > 0 /\ Interval % Interval = 0
  BY BarrierAssumption
<1>2. call.op = "none" /\ call.by = None
  BY Zenon DEF Init, NoCall
<1>3. \A c \in Cores : Clock(c)
  BY <1>1, <1>2, CoresAreThreads DEF Init, Clock, NoEntry
<1> QED BY <1>1, <1>2, <1>3, CoresAreThreads DEF Init, Clocks

\* While threads keep their cores, the barrier keeps the cores' clocks less than an interval
\* apart: a core that simulates is at or after m_global_time and before m_next_barrier_time.
THEOREM ClocksTogether == Spec => []ClockSkewBounded
<1>1. Inv /\ SkewInv => ClockSkewBounded
  <2> SUFFICES ASSUME Inv, SkewInv, NEW t \in Threads, NEW c \in Cores,
                      occupant[c] = t, pc[t] = "run", call.op = "none", Steady
               PROVE  m_global_time <= elapsed[c] /\ elapsed[c] < m_next_barrier_time
    BY Zenon DEF ClockSkewBounded, Steady
  <2>1. Good /\ Clocks
    BY Zenon DEF Inv, InScope, SkewInv, Steady
  <2>2. ~Inside(t)
    BY <2>1, CoresAreThreads DEF Inside, Good, CallShape, NoCall
  <2>3. ~m_barrier_acquire_list[c]
    BY Zenon, <2>1, <2>2 DEF Good, Seats, Seat, Taken
  <2> QED BY Zenon, <2>1, <2>3 DEF Clocks, Clock
<1> QED BY <1>1, InitClocks, NextClocks, InvHolds, PTL DEF Spec

=============================================================================
