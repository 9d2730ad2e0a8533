------------------------- MODULE BarrierSyncLemmas --------------------------
(***************************************************************************)
(* The inductive invariant of BarrierSync, for any number of cores and     *)
(* threads, in detailed simulation without preemption: whoever waits in    *)
(* synchronize() keeps its core, and the server's lists, the condition     *)
(* variables and the threads agree about it.  Simulating, entering the     *)
(* barrier, stalls, exits and resumes preserve it.                         *)
(***************************************************************************)
EXTENDS BarrierSync, TLAPS

\* the simulations the first two theorems are about: detailed simulation throughout, and
\* a scheduler whose periodic() preempts nobody
InScope == setup.mode = "detailed" /\ "preempt" \notin setup.ops

\* t is in BarrierSyncServer::synchronize(), beyond its early return
Inside(t) == pc[t] \in {"prewait", "asleep", "woken"} \/ call.t = t

\* the thread of core c is in synchronize() for that core
Taken(c) == occupant[c] \in Threads /\ Inside(occupant[c]) /\ entry[occupant[c]].c = c

\* a thread in synchronize() runs on the core it called for
KeepsCore ==
    \A t \in Threads : Inside(t) => occupant[entry[t].c] = t /\ status[t] = "RUNNING"

\* a thread has one core at most, a stalled one has none, and only sleepers have a timeout
Placed ==
    /\ \A c, d \in Cores : occupant[c] = occupant[d] /\ occupant[c] # None => c = d
    /\ \A t \in Threads : status[t] = "STALLED" => \A c \in Cores : occupant[c] # t
    /\ \A t \in Threads : timeout[t] # None => status[t] = "STALLED"

\* where the holder of m_thread_lock can be, and for whom
CallShape ==
    /\ ~m_fastforward /\ ~m_disable
    /\ call.op = "none" => call = NoCall
    /\ call.op = "pass" => call.c \in Cores
    /\ call.op = "stalled" => call.t = None /\ call.by # None
    /\ call.t # None => /\ pc[call.t] = "run" /\ call.by = None /\ ~call.until
                        /\ m_barrier_acquire_list[entry[call.t].c]
    /\ call.by # None => pc[call.by] = "run"
    /\ call.op = "abort" => call.until
    /\ call.op \notin {"none", "stalled"} => m_to_release = {}

\* what the server knows of core c, and who sleeps on its condition variable
Seat(c) ==
    /\ m_barrier_acquire_list[c] =>
          /\ Taken(c) /\ m_core_thread[c] = occupant[c] /\ pc[occupant[c]] # "woken" /\ ~call.until
          /\ call.op \in {"none", "stalled"} => m_local_clock_list[c] >= m_next_barrier_time
    /\ c \in m_to_release =>
          /\ Taken(c) /\ InBarrier(occupant[c]) /\ ~m_barrier_acquire_list[c]
          /\ m_local_clock_list[c] < m_next_barrier_time
    /\ sleepers[c] = IF Taken(c) /\ pc[occupant[c]] = "asleep" THEN <<occupant[c]>> ELSE <<>>
    /\ Taken(c) /\ InBarrier(occupant[c]) =>
          \/ m_barrier_acquire_list[c] \/ c \in m_to_release
          \/ pc[occupant[c]] = "prewait" /\ m_futx[c] = 1
    /\ Taken(c) /\ pc[occupant[c]] = "prewait" /\ m_futx[c] = 1 =>
          ~m_barrier_acquire_list[c] /\ c \notin m_to_release

\* the server, the condition variables and the threads agree about every core
Seats == \A c \in Cores : Seat(c)

\* when the lock is free, or about to be, a thread that runs is not blocked for good
Moves ==
    call.op \in {"none", "stalled"} /\ AnyThreadRunning =>
       \E t \in Threads : status[t] = "RUNNING" /\
          (~InBarrier(t) \/ (pc[t] = "prewait" /\ m_futx[entry[t].c] = 1))

Good == TypeOK /\ Placed /\ KeepsCore /\ CallShape /\ Seats /\ Moves

Inv == InScope => Good

\* the simulations the third theorem is about: every thread keeps the core it starts on
Steady == setup.ops = {} /\ setup.mode = "detailed"

\* what the barrier knows of core c, whose thread is c, and how far c has simulated
Clock(c) ==
    /\ entry[c].tm <= elapsed[c]
    /\ m_global_time <= elapsed[c] /\ m_next_sync_time[c] <= m_next_barrier_time
    /\ IF m_barrier_acquire_list[c]
       THEN m_local_clock_list[c] = elapsed[c] /\ elapsed[c] >= m_next_barrier_time
       ELSE m_local_clock_list[c] < m_next_barrier_time /\ elapsed[c] < m_next_barrier_time
    /\ call.op # "none" => m_barrier_acquire_list[c]

\* all cores together: barrier times are multiples of the interval, and the next one is an
\* interval ahead, except while barrierRelease() is under way
Clocks ==
    /\ \A c \in Cores : occupant[c] = c /\ status[c] = "RUNNING" /\ Clock(c)
    /\ \A t \in Threads : (t \notin Cores => status[t] = "UNSCHED") /\ timeout[t] = None
    /\ call.by = None
    /\ m_next_barrier_time % Interval = 0
    /\ m_next_barrier_time = m_global_time + (IF call.op = "none" THEN Interval ELSE 0)

SkewInv == Steady => Clocks

-----------------------------------------------------------------------------
CallType == [op : {"none", "timeouts", "pass", "body", "stalled", "abort"},
             t : Threads \cup {None}, by : Threads \cup {None}, until : BOOLEAN, c : Nat]

\* The first thread of every core exists.
LEMMA CoresAreThreads == Cores \subseteq Threads /\ 0 \in Cores /\ None \notin Threads
BY BarrierAssumption DEF Cores, Threads, None

\* signal() wakes the threads that sleep on the cores of S
LEMMA WokenThreads ==
    ASSUME TypeOK, KeepsCore, Seats, NEW S \in SUBSET Cores
    PROVE  \A t \in Threads : t \in Woken(S) <=> pc[t] = "asleep" /\ entry[t].c \in S
<1>1. ASSUME NEW t \in Threads, t \in Woken(S) PROVE pc[t] = "asleep" /\ entry[t].c \in S
  <2>1. PICK c \in S : sleepers[c] # <<>> /\ t = Head(sleepers[c])
    BY Zenon, <1>1 DEF Woken
  <2>2. Taken(c) /\ pc[occupant[c]] = "asleep" /\ sleepers[c] = <<occupant[c]>>
    BY Zenon, <2>1 DEF Seats, Seat
  <2>3. t = occupant[c]
    BY <2>1, <2>2
  <2> QED BY Zenon, <2>2, <2>3 DEF Taken
<1>2. ASSUME NEW t \in Threads, pc[t] = "asleep", entry[t].c \in S PROVE t \in Woken(S)
  <2>1. Taken(entry[t].c) /\ occupant[entry[t].c] = t
    BY Zenon, <1>2 DEF KeepsCore, Inside, Taken
  <2>2. sleepers[entry[t].c] = <<t>>
    BY Zenon, <1>2, <2>1 DEF Seats, Seat
  <2>3. sleepers[entry[t].c] # <<>> /\ Head(sleepers[entry[t].c]) = t
    BY <2>2
  <2> QED BY Zenon, <1>2, <2>3 DEF Woken
<1> QED BY Zenon, <1>1, <1>2

\* what a step does to core c when the cores of S are signalled and nobody enters or leaves
Kept(c, S) ==
    /\ m_barrier_acquire_list'[c] =>
          /\ m_barrier_acquire_list[c] /\ c \notin S /\ m_core_thread'[c] = m_core_thread[c]
          /\ ~call'.until
          /\ call'.op \in {"none", "stalled"} => m_local_clock_list'[c] >= m_next_barrier_time'
    /\ c \in m_to_release' =>
          /\ Taken(c) /\ InBarrier(occupant[c]) /\ c \notin S /\ ~m_barrier_acquire_list'[c]
          /\ m_barrier_acquire_list[c] \/ c \in m_to_release
          /\ m_local_clock_list'[c] < m_next_barrier_time'
    /\ m_barrier_acquire_list[c] \/ c \in m_to_release =>
          c \in S \/ m_barrier_acquire_list'[c] \/ c \in m_to_release'
    /\ m_futx'[c] = IF c \in S THEN 1 ELSE m_futx[c]
    /\ sleepers'[c] = IF c \in S /\ sleepers[c] # <<>> THEN Tail(sleepers[c]) ELSE sleepers[c]
    /\ Taken(c) => /\ occupant'[c] = occupant[c] /\ entry'[occupant[c]] = entry[occupant[c]]
                   /\ pc'[occupant[c]] = IF pc[occupant[c]] = "asleep" /\ c \in S THEN "woken"
                                         ELSE pc[occupant[c]]
                   /\ call.t = occupant[c] => call'.t = occupant[c]
    /\ ~Taken(c) => ~Taken(c)'

\* The signals of doRelease() keep what the server knows of a core.
LEMMA SeatKept ==
    ASSUME NEW c, Seat(c), NEW S, Kept(c, S)
    PROVE  Seat(c)'
<1>1. CASE Taken(c)
  <2> DEFINE x == occupant[c]
  <2>1. /\ occupant'[c] = x /\ entry'[x] = entry[x] /\ x \in Threads
        /\ pc'[x] = (IF pc[x] = "asleep" /\ c \in S THEN "woken" ELSE pc[x])
        /\ m_futx'[c] = IF c \in S THEN 1 ELSE m_futx[c]
    BY Zenon, <1>1 DEF Kept, Taken
  <2>2. Taken(c)'
    BY Zenon, <1>1, <2>1 DEF Kept, Taken, Inside
  <2>3. sleepers'[c] = IF pc'[x] = "asleep" THEN <<x>> ELSE <<>>
    <3>1. CASE pc[x] = "asleep" /\ c \in S
      <4>1. sleepers[c] = <<x>> /\ <<x>> # <<>> /\ Tail(<<x>>) = <<>>
        BY <1>1, <3>1 DEF Seat
      <4> QED BY Zenon, <2>1, <3>1, <4>1 DEF Kept
    <3>2. CASE ~(pc[x] = "asleep" /\ c \in S)
      BY Zenon, <1>1, <2>1, <3>2 DEF Kept, Seat
    <3> QED BY Zenon, <3>1, <3>2
  <2> HIDE DEF x
  <2>4. m_barrier_acquire_list'[c] =>
          m_core_thread'[c] = x /\ pc'[x] # "woken" /\ ~call'.until
    BY Zenon, <2>1 DEF Kept, Seat, x
  <2>5. c \in m_to_release' => pc'[x] \in {"prewait", "asleep"}
    BY Zenon, <2>1 DEF Kept, Seat, InBarrier, x
  <2>6. pc'[x] \in {"prewait", "asleep"} =>
          m_barrier_acquire_list'[c] \/ c \in m_to_release' \/ (pc'[x] = "prewait" /\ m_futx'[c] = 1)
    BY Zenon, <1>1, <2>1 DEF Kept, Seat, InBarrier, x
  <2>7. pc'[x] = "prewait" /\ m_futx'[c] = 1 => ~m_barrier_acquire_list'[c] /\ c \notin m_to_release'
    BY Zenon, <1>1, <2>1 DEF Kept, Seat, x
  <2> QED BY Zenon, <2>1, <2>2, <2>3, <2>4, <2>5, <2>6, <2>7 DEF Kept, Seat, InBarrier
<1>2. CASE ~Taken(c)
  BY Zenon, <1>2 DEF Kept, Seat
<1> QED BY Zenon, <1>1, <1>2

\* releaseThread() resets no clock of a thread that is not in synchronize().
LEMMA ClocksKept ==
    ASSUME Good, NEW T, \A x \in Threads : Inside(x) => x \notin T
    PROVE  ClocksWithout(T) = m_local_clock_list
BY Zenon DEF ClocksWithout, Good, Seats, Seat, TypeOK, Taken

\* Whoever is in synchronize() keeps its core and its seat when others come, go or are moved,
\* and the cores of S are signalled.
LEMMA OthersKept ==
    ASSUME Good, NEW S \in SUBSET m_to_release,
           m_barrier_acquire_list' = m_barrier_acquire_list, m_core_thread' = m_core_thread,
           m_next_barrier_time' = m_next_barrier_time, entry' = entry,
           m_to_release' = m_to_release \ S, m_local_clock_list' = m_local_clock_list,
           \A c \in Cores : /\ m_futx'[c] = IF c \in S THEN 1 ELSE m_futx[c]
                            /\ sleepers'[c] = IF c \in S /\ sleepers[c] # <<>> THEN Tail(sleepers[c])
                                             ELSE sleepers[c],
           call'.t = call.t, call'.until => call.until,
           call'.op \in {"none", "stalled"} => call.op \in {"none", "stalled"},
           \A x \in Threads : Inside(x) =>
              /\ status'[x] = status[x]
              /\ pc'[x] = IF pc[x] = "asleep" /\ entry[x].c \in S THEN "woken" ELSE pc[x],
           \A x \in Threads : ~Inside(x) => pc'[x] \notin {"prewait", "asleep", "woken"},
           \A c \in Cores : occupant[c] \in Threads /\ Inside(occupant[c]) => occupant'[c] = occupant[c]
    PROVE  KeepsCore' /\ Seats'
<1>2. \A x \in Threads : Inside(x)' => Inside(x)
  BY Zenon DEF Inside
<1>3. KeepsCore'
  <2> SUFFICES ASSUME NEW x \in Threads, Inside(x)'
               PROVE  occupant'[entry[x].c] = x /\ status'[x] = "RUNNING"
    BY Zenon DEF KeepsCore
  <2>1. occupant[entry[x].c] = x /\ status[x] = "RUNNING" /\ entry[x].c \in Cores
    BY Zenon, <1>2 DEF Good, KeepsCore, TypeOK
  <2> QED BY Zenon, <1>2, <2>1
<1>4. ASSUME NEW d \in Cores PROVE Seat(d)'
  <2>1. Seat(d)
    BY Zenon DEF Good, Seats
  <2>2. ~Taken(d) => ~Taken(d)'
    BY <1>2 DEF Taken, Good, KeepsCore
  <2>3. Kept(d, S)
    BY Zenon, <2>1, <2>2 DEF Kept, Seat, Taken
  <2> QED BY Zenon, <2>1, <2>3, SeatKept
<1> QED BY Zenon, <1>3, <1>4 DEF Seats

\* When nobody is left to release and the barrier is not reached, somebody can go on.
LEMMA BehindMoves ==
    ASSUME TypeOK', Placed', KeepsCore', Seats', m_to_release' = {},
           \/ \A c \in Cores : ~m_barrier_acquire_list'[c]
           \/ \E c \in Cores : CoreRunning(occupant', status', c) /\ ~m_barrier_acquire_list'[c]
           \/ \A c \in Cores : ~CoreRunning(occupant', status', c)
    PROVE  Moves'
<1> DEFINE Free(t) == /\ status'[t] = "RUNNING"
                      /\ ~InBarrier(t)' \/ (pc'[t] = "prewait" /\ m_futx'[entry'[t].c] = 1)
<1>1. SUFFICES ASSUME NEW r \in Threads, status'[r] = "RUNNING" PROVE \E t \in Threads : Free(t)
  BY Zenon DEF Moves, AnyThreadRunning, InBarrier
<1>2. ASSUME NEW t \in Threads, status'[t] = "RUNNING", ~Free(t)
      PROVE  entry'[t].c \in Cores /\ m_barrier_acquire_list'[entry'[t].c] /\ occupant'[entry'[t].c] = t
  <2>1. entry'[t].c \in Cores /\ occupant'[entry'[t].c] = t /\ Taken(entry[t].c)'
    BY ZenonT(30), <1>2 DEF TypeOK, KeepsCore, Taken, Inside, InBarrier
  <2> QED BY Zenon, <1>2, <2>1 DEF Seats, Seat, InBarrier
<1>3. CASE \A c \in Cores : ~m_barrier_acquire_list'[c]
  BY Zenon, <1>1, <1>2, <1>3
<1>4. ASSUME NEW c \in Cores, CoreRunning(occupant', status', c), ~m_barrier_acquire_list'[c]
      PROVE  \E t \in Threads : Free(t)
  <2>1. occupant'[c] \in Threads /\ status'[occupant'[c]] = "RUNNING"
    BY Zenon, <1>4 DEF CoreRunning, TypeOK
  <2>2. \A d \in Cores : occupant'[d] = occupant'[c] => d = c
    BY Zenon, <1>4 DEF Placed, CoreRunning
  <2> QED BY Zenon, <1>2, <1>4, <2>1, <2>2
<1>5. CASE \A c \in Cores : ~CoreRunning(occupant', status', c)
  BY <1>1, <1>2, <1>5, CoresAreThreads DEF CoreRunning
<1> QED BY Zenon, <1>3, <1>4, <1>5

\* Whoever doRelease() picks from the queue can go on.
LEMMA ReleasedMoves ==
    ASSUME NEW list, NEW n \in Nat \ {0}, NEW S, DoRelease(list, n, S), list # {},
           \A c \in list : occupant[c] \in Threads /\ InBarrier(occupant[c]) /\ entry[occupant[c]].c = c,
           \A c \in S : m_futx'[c] = 1,
           \A x \in Threads : InBarrier(x) /\ entry[x].c \in S =>
              /\ status'[x] = "RUNNING" /\ entry'[x] = entry[x]
              /\ pc'[x] = (IF pc[x] = "asleep" THEN "woken" ELSE pc[x])
    PROVE  Moves'
<1>1. Cardinality({}) = 0
  BY Zenon DEF Cardinality
<1>2. PICK c \in S : c \in list
  BY Zenon, <1>1 DEF DoRelease
<1>3. occupant[c] \in Threads /\ InBarrier(occupant[c]) /\ entry[occupant[c]].c = c
  BY Zenon, <1>2
<1>4. /\ status'[occupant[c]] = "RUNNING" /\ entry'[occupant[c]].c = c /\ m_futx'[c] = 1
      /\ pc'[occupant[c]] \in {"woken", "prewait"}
  BY Zenon, <1>3 DEF InBarrier
<1> QED BY <1>3, <1>4 DEF Moves, InBarrier

\* Every core queued in m_to_release belongs to a thread blocked in ConditionVariable::wait().
LEMMA QueueWaits ==
    ASSUME Good
    PROVE  \A c \in m_to_release :
              occupant[c] \in Threads /\ InBarrier(occupant[c]) /\ entry[occupant[c]].c = c
BY Zenon DEF Good, TypeOK, Seats, Seat, Taken

\* ConditionVariable::signal() for any cores leaves futex words, their queues and host
\* threads well formed.
LEMMA SignalTypes ==
    ASSUME TypeOK, NEW S \in SUBSET Cores
    PROVE  /\ [c \in Cores |-> IF c \in S /\ sleepers[c] # <<>> THEN Tail(sleepers[c])
                               ELSE sleepers[c]] \in [Cores -> Seq(Threads)]
           /\ [c \in Cores |-> IF c \in S THEN 1 ELSE m_futx[c]] \in [Cores -> {0, 1}]
           /\ PcWoken(S) \in [Threads -> Places]
<1>1. [c \in Cores |-> IF c \in S /\ sleepers[c] # <<>> THEN Tail(sleepers[c])
                       ELSE sleepers[c]] \in [Cores -> Seq(Threads)]
  BY DEF TypeOK
<1> QED BY Zenon, <1>1 DEF TypeOK, PcWoken, Places

\* A step that only moves simulated time, or the holder of the lock within barrierRelease().
LEMMA SimulatesGood ==
    ASSUME Good, UNCHANGED <<servVars, modeVars, m_to_release, condVars, occupant, status, timeout,
                             pc, entry>>,
           m_next_barrier_time' \in Nat,
           m_next_barrier_time' = m_next_barrier_time \/ call'.op = "timeouts",
           m_global_time' \in Nat, elapsed' \in [Cores -> Nat], m_next_sync_time' \in [Cores -> Nat],
           call' \in CallType, call'.t = call.t, call'.by = call.by, call'.until = call.until,
           \/ call' = call
           \/ /\ call.op \in {"timeouts", "pass", "body"} /\ call'.op \in {"timeouts", "pass", "body"}
              /\ call'.op = "pass" => call'.c \in Cores
    PROVE  Good'
<1>1. TypeOK'
  BY Zenon DEF Good, TypeOK, CallType, servVars, modeVars, condVars
<1>2. CallShape'
  BY Zenon DEF Good, CallShape, modeVars, servVars
<1>3. Placed' /\ KeepsCore'
  BY DEF Good, Placed, KeepsCore, Inside
<1>4. Seats'
  BY SMTT(60) DEF Good, CallShape, Seats, Seat, Taken, Inside, InBarrier, servVars, condVars
<1>5. Moves'
  BY Zenon DEF Good, Moves, InBarrier, AnyThreadRunning, condVars
<1> QED BY Zenon, <1>1, <1>2, <1>3, <1>4, <1>5 DEF Good

\* A core enters the barrier, and waits or starts the release.
LEMMA EntersGood ==
    ASSUME Good, NEW t \in Threads, NEW c \in Cores, NEW tm \in Nat, NEW S \in SUBSET m_to_release,
           NEW n \in {1}, call = NoCall, pc[t] = "run", status[t] = "RUNNING", occupant[c] = t,
           tm >= m_next_barrier_time, ~m_barrier_acquire_list[c],
           UNCHANGED <<occupant, status, timeout, modeVars, m_next_sync_time>>,
           elapsed' \in [Cores -> Nat],
           DoRelease(m_to_release, n, S), m_to_release' = m_to_release \ S,
           m_local_clock_list' = [m_local_clock_list EXCEPT ![c] = tm],
           m_barrier_acquire_list' = [m_barrier_acquire_list EXCEPT ![c] = TRUE],
           m_core_thread' = [m_core_thread EXCEPT ![c] = t],
           entry' = [entry EXCEPT ![t] = [c |-> c, tm |-> tm]],
           IF Reached(m_local_clock_list', m_barrier_acquire_list', occupant, status)
           THEN /\ StartRelease(m_to_release', m_local_clock_list', [NoCall EXCEPT !.t = t])
                /\ Signalled(S) /\ pc' = PcWoken(S)
           ELSE WaitOn(t, c, S) /\ UNCHANGED <<timeVars, call>>
    PROVE  Good'
<1> DEFINE reached == Reached(m_local_clock_list', m_barrier_acquire_list', occupant, status)
<1>1. /\ call.t = None /\ call.by = None /\ call.op = "none" /\ ~call.until /\ None \notin Threads
      /\ ~m_fastforward /\ S \in SUBSET Cores
  BY Zenon, CoresAreThreads DEF NoCall, Good, CallShape, TypeOK
<1>2. ~Taken(c) /\ c \notin S
  BY ZenonT(60), <1>1 DEF Good, Seats, Seat, Taken, Inside
<1>3. \A d \in Cores : d # c => /\ m_barrier_acquire_list'[d] = m_barrier_acquire_list[d]
                                /\ m_core_thread'[d] = m_core_thread[d]
                                /\ m_local_clock_list'[d] = m_local_clock_list[d]
  BY Zenon DEF Good, TypeOK
<1>4. m_barrier_acquire_list'[c] /\ m_core_thread'[c] = t /\ m_local_clock_list'[c] = tm
  BY Zenon DEF Good, TypeOK
<1>5. reached => m_to_release' = {}
  <2>1. ASSUME reached, NEW d \in m_to_release' PROVE FALSE
    <3>1. d \in Cores /\ Taken(d) /\ m_local_clock_list[d] < m_next_barrier_time /\ d # c
      BY Zenon, <1>2 DEF Good, TypeOK, Seats, Seat
    <3>2. CoreRunning(occupant, status, d)
      BY Zenon, <1>1, <3>1 DEF Good, KeepsCore, Taken, CoreRunning
    <3>3. m_local_clock_list[d] \in Nat /\ m_next_barrier_time \in Nat
      BY Zenon, <3>1 DEF Good, TypeOK
    <3> QED BY <1>1, <1>3, <2>1, <3>1, <3>2, <3>3 DEF Reached
  <2> QED BY Zenon, <2>1
<1>6. /\ call' = (IF reached THEN [NoCall EXCEPT !.t = t, !.op = "timeouts"] ELSE NoCall)
      /\ m_next_barrier_time' = m_next_barrier_time /\ m_global_time' \in Nat
  BY Zenon, <1>1, <1>5 DEF StartRelease, timeVars, Good, TypeOK
<1>7. /\ call'.t = (IF reached THEN t ELSE None) /\ ~call'.until /\ call'.by = None
      /\ call'.op = (IF reached THEN "timeouts" ELSE "none") /\ call' \in CallType
  BY Zenon, <1>6, CoresAreThreads DEF NoCall, CallType
<1>8. \A x \in Threads : x \in Woken(S) <=> pc[x] = "asleep" /\ entry[x].c \in S
  BY Zenon, <1>1, WokenThreads DEF Good
<1>9. /\ \A x \in Threads : x # t =>
            /\ pc'[x] = (IF pc[x] = "asleep" /\ entry[x].c \in S THEN "woken" ELSE pc[x])
            /\ entry'[x] = entry[x]
      /\ pc'[t] = (IF reached THEN "run" ELSE "prewait") /\ entry'[t].c = c
  <2>1. PcWoken(S) = [x \in Threads |-> IF pc[x] = "asleep" /\ entry[x].c \in S THEN "woken" ELSE pc[x]]
    BY Zenon, <1>8 DEF PcWoken
  <2>2. pc' = [PcWoken(S) EXCEPT ![t] = IF reached THEN "run" ELSE "prewait"]
    BY Zenon, <2>1 DEF WaitOn
  <2> QED BY Zenon, <2>1, <2>2 DEF Good, TypeOK
<1>10. /\ m_futx' = [d \in Cores |-> IF d \in S THEN 1 ELSE IF d = c /\ ~reached THEN 0 ELSE m_futx[d]]
       /\ sleepers' = [d \in Cores |-> IF d \in S /\ sleepers[d] # <<>> THEN Tail(sleepers[d])
                                       ELSE sleepers[d]]
  BY Zenon, <1>2 DEF WaitOn, Signalled
<1> HIDE DEF reached
<1>11. TypeOK'
  <2>1. m_futx' \in [Cores -> {0, 1}] /\ sleepers' \in [Cores -> Seq(Threads)]
    BY Zenon, <1>1, <1>10, SignalTypes DEF Good, TypeOK
  <2>2. pc' \in [Threads -> Places]
    BY <1>1, SignalTypes DEF WaitOn, Good, Places
  <2> QED BY ZenonT(60), <1>6, <1>7, <2>1, <2>2 DEF Good, TypeOK, CallType, modeVars
<1>12. Placed'
  BY Zenon DEF Good, Placed
<1>13. KeepsCore'
  BY <1>1, <1>7, <1>9 DEF Good, KeepsCore, Inside
<1>14. CallShape'
  BY <1>4, <1>1, <1>5, <1>6, <1>7, <1>9 DEF Good, CallShape, modeVars
<1>15. Seats'
  <2>1. ASSUME NEW d \in Cores, d # c PROVE Seat(d)'
    <3>1. Taken(d) => /\ occupant[d] # t /\ occupant[d] \in Threads /\ entry[occupant[d]].c = d
                      /\ call.t # occupant[d]
      BY Zenon, <1>1 DEF Taken, Inside
    <3>2. ~Taken(d) => ~Taken(d)'
      BY <1>1, <1>7, <1>9, <2>1 DEF Taken, Inside
    <3>3. Seat(d)
      BY Zenon DEF Good, Seats
    <3>4. Kept(d, S)
      BY ZenonT(60), <1>1, <1>3, <1>6, <1>7, <1>9, <1>10, <2>1, <3>1, <3>2, <3>3 DEF Kept, Seat
    <3> QED BY Zenon, <3>3, <3>4, SeatKept
  <2>2. Seat(c)'
    <3>1. sleepers'[c] = <<>>
      BY Zenon, <1>2, <1>10 DEF Good, Seats, Seat
    <3>2. c \notin m_to_release'
      BY Zenon, <1>2 DEF Good, Seats, Seat
    <3>3. ~reached => m_futx'[c] = 0
      BY Zenon, <1>2, <1>10
    <3> QED BY <1>4, <1>6, <1>7, <1>9, <3>1, <3>2, <3>3 DEF Seat, Taken, Inside, InBarrier
  <2> QED BY Zenon, <2>1, <2>2 DEF Seats
<1>16. Moves'
  <2>1. CASE reached
    BY Zenon, <1>7, <2>1 DEF Moves
  <2>2. CASE ~reached /\ m_to_release # {}
    <3>1. \A x \in Threads : InBarrier(x) =>
             /\ status'[x] = "RUNNING" /\ entry'[x] = entry[x]
             /\ pc'[x] = (IF pc[x] = "asleep" /\ entry[x].c \in S THEN "woken" ELSE pc[x])
      BY Zenon, <1>9 DEF Good, KeepsCore, Inside, InBarrier
    <3>2. \A d \in S : m_futx'[d] = 1
      BY Zenon, <1>1, <1>10
    <3>3. n \in Nat \ {0}
      OBVIOUS
    <3> QED BY Zenon, <2>2, <3>1, <3>2, <3>3, QueueWaits, ReleasedMoves
  <2>3. CASE ~reached /\ m_to_release' = {}
    <3>1. PICK d \in Cores : /\ CoreRunning(occupant, status, d)
                             /\ ~(m_local_clock_list'[d] >= m_next_barrier_time)
      BY Zenon, <1>1, <2>3 DEF Reached, CoreRunning, reached
    <3>2. ~m_barrier_acquire_list'[d]
      BY Zenon, <1>4, <1>6, <1>7, <1>15, <2>3, <3>1 DEF Seats, Seat
    <3> QED BY Zenon, <1>11, <1>12, <1>13, <1>15, <2>3, <3>1, <3>2, BehindMoves
  <2> QED BY Zenon, <2>1, <2>2, <2>3
<1> QED BY Zenon, <1>11, <1>12, <1>13, <1>14, <1>15, <1>16 DEF Good



\* t gives up its core, if it has one, to u, which is ready, or to nobody
Leaves(t, u) ==
    /\ call = NoCall /\ pc[t] = "run" /\ status[t] = "RUNNING" /\ status'[t] # "RUNNING"
    /\ u # None => /\ u # t /\ status'[u] = "RUNNING" /\ status[u] # "STALLED"
                   /\ \A c \in Cores : occupant[c] # u
    /\ \A c \in Cores : occupant'[c] = IF occupant[c] = t THEN u ELSE occupant[c]
    /\ occupant' \in [Cores -> Threads \cup {None}] /\ status' \in [Threads -> Status]
    /\ \A x \in Threads : x # t /\ x # u => status'[x] = status[x]
    /\ timeout' \in [Threads -> Nat \cup {None}]
    /\ \A x \in Threads : timeout'[x] = timeout[x] \/ (x = t /\ status'[t] = "STALLED")
    /\ UNCHANGED <<elapsed, m_barrier_acquire_list, m_core_thread, modeVars, m_next_sync_time, entry>>

\* The barrier server's part of a stall, of an exit or of a reschedule without a core.
LEMMA StopsGood ==
    ASSUME Good, NEW t \in Threads, NEW u \in Threads \cup {None}, NEW n \in {1, 2, 3},
           NEW holder, NEW p, Leaves(t, u),
           (holder = Staller(t) /\ p = "run") \/ (holder = NoCall /\ p = "gone"),
           Stops(t, u, n, holder, p)
    PROVE  Good'
<1> USE DEF Leaves
<1>0. /\ holder \in CallType /\ p \in {"run", "gone"}
      /\ holder.t = None /\ ~holder.until /\ holder.by \in {None, t}
      /\ IF holder.by = None THEN holder = NoCall ELSE holder.op = "stalled" /\ p = "run"
  <2>1. CASE holder = Staller(t) /\ p = "run"
    BY Zenon, <2>1, CoresAreThreads DEF NoCall, Staller, CallType
  <2>2. CASE holder = NoCall /\ p = "gone"
    BY Zenon, <2>2 DEF NoCall, CallType
  <2> QED BY Zenon, <2>1, <2>2
<1>1. PICK S \in SUBSET m_to_release :
       /\ DoRelease(m_to_release, n, S)
       /\ m_to_release' = m_to_release \ S
       /\ Signalled(S)
       /\ pc' = [x \in Threads |-> IF x \in Woken(S) THEN "woken"
                                   ELSE IF x = t THEN p
                                   ELSE IF x = u /\ pc[x] = "out" THEN "run" ELSE pc[x]]
       /\ m_local_clock_list' = ClocksWithout({t, u} \cap Threads)
       /\ IF /\ ~m_disable
             /\ Reached(m_local_clock_list', m_barrier_acquire_list, occupant', status')
          THEN StartRelease(m_to_release', m_local_clock_list', holder)
          ELSE call' = holder /\ UNCHANGED timeVars
  BY Zenon DEF Stops
<1> DEFINE reached == Reached(m_local_clock_list', m_barrier_acquire_list, occupant', status')
<1>2. /\ call.t = None /\ call.by = None /\ call.op = "none" /\ None \notin Threads
      /\ ~m_fastforward /\ ~m_disable /\ S \in SUBSET Cores
  BY Zenon, CoresAreThreads DEF NoCall, Good, CallShape, TypeOK
<1>3. \A x \in Threads : Inside(x) =>
         /\ x # t /\ x # u /\ status'[x] = status[x] /\ status[x] = "RUNNING"
         /\ entry[x].c \in Cores /\ occupant[entry[x].c] = x
  <2>1. \A x \in Threads : Inside(x) => x # t
    BY Zenon, <1>2 DEF Inside
  <2>2. \A x \in Threads : entry[x].c \in Cores
    BY Zenon DEF Good, TypeOK
  <2>3. \A x \in Threads : Inside(x) => status[x] = "RUNNING" /\ occupant[entry[x].c] = x
    BY Zenon DEF Good, KeepsCore
  <2> QED BY <1>2, <2>1, <2>2, <2>3
<1>4. m_local_clock_list' = m_local_clock_list
  BY Zenon, <1>1, <1>3, ClocksKept
<1>5. reached => m_to_release' = {}
  <2>1. ASSUME reached, NEW d \in m_to_release' PROVE FALSE
    <3>1. d \in Cores /\ Taken(d) /\ m_local_clock_list[d] < m_next_barrier_time
      BY Zenon, <1>1 DEF Good, TypeOK, Seats, Seat
    <3>2. CoreRunning(occupant', status', d)
      BY SMTT(60), <1>2, <1>3, <3>1 DEF CoreRunning, Taken
    <3>3. m_local_clock_list[d] \in Nat /\ m_next_barrier_time \in Nat
      BY Zenon, <3>1 DEF Good, TypeOK
    <3> QED BY <1>2, <1>4, <2>1, <3>1, <3>2, <3>3 DEF Reached
  <2> QED BY Zenon, <2>1
<1>6. /\ call' = (IF reached THEN [holder EXCEPT !.op = "timeouts"] ELSE holder)
      /\ m_next_barrier_time' = m_next_barrier_time /\ m_global_time' \in Nat
  BY Zenon, <1>1, <1>2, <1>5 DEF StartRelease, timeVars, Good, TypeOK
<1>7. /\ call'.t = None /\ ~call'.until /\ call' \in CallType /\ call'.by = holder.by
      /\ call'.op = (IF reached THEN "timeouts" ELSE holder.op)
  BY Zenon, <1>0, <1>6 DEF CallType
<1>8. \A x \in Threads : x \in Woken(S) <=> pc[x] = "asleep" /\ entry[x].c \in S
  BY Zenon, <1>2, WokenThreads DEF Good
<1>9. /\ \A x \in Threads : Inside(x) =>
            pc'[x] = IF pc[x] = "asleep" /\ entry[x].c \in S THEN "woken" ELSE pc[x]
      /\ \A x \in Threads : ~Inside(x) => pc'[x] \notin {"prewait", "asleep", "woken"}
      /\ pc'[t] = p
  BY ZenonT(60), <1>0, <1>1, <1>2, <1>8 DEF Inside
<1> HIDE DEF reached
<1>10. TypeOK'
  <2>1. m_futx' \in [Cores -> {0, 1}] /\ sleepers' \in [Cores -> Seq(Threads)]
    BY Zenon, <1>1, <1>2, SignalTypes DEF Good, Signalled
  <2>2. pc' \in [Threads -> Places]
    BY Zenon, <1>0, <1>1 DEF Good, TypeOK, Places
  <2> QED BY Zenon, <1>1, <1>4, <1>6, <1>7, <2>1, <2>2 DEF Good, TypeOK, CallType, modeVars
<1>11. Placed'
  <2>1. \A x \in Threads : timeout'[x] # None => status'[x] = "STALLED"
    BY <1>2 DEF Good, Placed
  <2>2. \A x \in Threads : status'[x] = "STALLED" => \A c \in Cores : occupant'[c] # x
    BY <1>2 DEF Good, Placed
  <2> QED BY <1>2, <2>1, <2>2 DEF Good, Placed
<1>12. KeepsCore' /\ Seats'
  <2>1. \A c \in Cores : /\ m_futx'[c] = IF c \in S THEN 1 ELSE m_futx[c]
                         /\ sleepers'[c] = IF c \in S /\ sleepers[c] # <<>> THEN Tail(sleepers[c])
                                          ELSE sleepers[c]
    BY Zenon, <1>1 DEF Signalled
  <2>2. call'.t = call.t /\ (call'.until => call.until)
    BY Zenon, <1>2, <1>7
  <2>3. call'.op \in {"none", "stalled"} => call.op \in {"none", "stalled"}
    BY Zenon, <1>2
  <2>4. \A c \in Cores : occupant[c] \in Threads /\ Inside(occupant[c]) => occupant'[c] = occupant[c]
    BY Zenon, <1>3
  <2>5. /\ m_to_release' = m_to_release \ S /\ m_next_barrier_time' = m_next_barrier_time
        /\ m_barrier_acquire_list' = m_barrier_acquire_list /\ m_core_thread' = m_core_thread
        /\ entry' = entry
    BY Zenon, <1>1, <1>6
  <2>6. \A x \in Threads : Inside(x) =>
              /\ status'[x] = status[x]
              /\ pc'[x] = IF pc[x] = "asleep" /\ entry[x].c \in S THEN "woken" ELSE pc[x]
    BY Zenon, <1>3, <1>9
  <2>7. \A x \in Threads : ~Inside(x) => pc'[x] \notin {"prewait", "asleep", "woken"}
    BY Zenon, <1>9
  <2> QED BY Zenon, <1>4, <2>1, <2>2, <2>3, <2>4, <2>5, <2>6, <2>7, OthersKept
<1>13. CallShape'
  BY <1>0, <1>2, <1>5, <1>6, <1>7, <1>9 DEF Good, CallShape, modeVars
<1>15. Moves'
  <2>1. CASE reached
    BY Zenon, <1>7, <2>1 DEF Moves
  <2>2. CASE ~reached /\ m_to_release # {}
    <3>1. \A x \in Threads : InBarrier(x) =>
             /\ status'[x] = "RUNNING" /\ entry'[x] = entry[x]
             /\ pc'[x] = (IF pc[x] = "asleep" /\ entry[x].c \in S THEN "woken" ELSE pc[x])
      BY ZenonT(30), <1>3, <1>9 DEF Inside, InBarrier
    <3>2. \A d \in S : m_futx'[d] = 1
      BY Zenon, <1>1, <1>2 DEF Signalled
    <3>3. n \in Nat \ {0} /\ DoRelease(m_to_release, n, S)
      BY <1>1
    <3> QED BY Zenon, <2>2, <3>1, <3>2, <3>3, QueueWaits, ReleasedMoves
  <2>3. CASE ~reached /\ m_to_release' = {}
    <3>1. CASE \A c \in Cores : ~CoreRunning(occupant', status', c)
      BY Zenon, <1>10, <1>11, <1>12, <2>3, <3>1, BehindMoves
    <3>2. ASSUME NEW d \in Cores, CoreRunning(occupant', status', d),
                 ~(m_local_clock_list'[d] >= m_next_barrier_time)
          PROVE  Moves'
      <4>1. ~m_barrier_acquire_list'[d]
        BY Zenon, <1>4, <1>2, <3>2 DEF Good, Seats, Seat
      <4> QED BY Zenon, <1>10, <1>11, <1>12, <2>3, <3>2, <4>1, BehindMoves
    <3> QED BY Zenon, <1>2, <2>3, <3>1, <3>2 DEF Reached, reached
  <2> QED BY Zenon, <1>1, <2>1, <2>2, <2>3
<1> QED BY Zenon, <1>10, <1>11, <1>12, <1>13, <1>15 DEF Good

\* u, which is off core, is resumed on a free core or on none
Resumes(u) ==
    /\ \A c \in Cores : occupant[c] # u
    /\ elapsed' \in [Cores -> Nat] /\ occupant' \in [Cores -> Threads \cup {None}]
    /\ \A c \in Cores : occupant'[c] = occupant[c] \/ (occupant[c] = None /\ occupant'[c] = u)
    /\ \A c, d \in Cores : occupant'[c] = u /\ occupant'[d] = u => c = d
    /\ status' \in [Threads -> Status] /\ status'[u] = "RUNNING"
    /\ timeout' \in [Threads -> Nat \cup {None}] /\ timeout'[u] = None
    /\ \A x \in Threads : x # u => status'[x] = status[x] /\ timeout'[x] = timeout[x]
    /\ m_local_clock_list' = ClocksWithout({u})

\* ThreadManager::resumeThread() of a thread off core: the scheduler finds it a free core, or not.
LEMMA PutOn ==
    ASSUME Good, NEW u \in Threads, NEW d, NEW tm \in Nat, \A c \in Cores : occupant[c] # u,
           \/ UNCHANGED <<occupant, elapsed>>
           \/ /\ d \in Cores /\ occupant[d] = None
              /\ occupant' = MoveTo(occupant, d, u) /\ elapsed' = TimeOn(d, u, tm),
           status' = [x \in Threads |-> IF x = u THEN "RUNNING" ELSE status[x]],
           timeout' = [x \in Threads |-> IF x = u THEN None ELSE timeout[x]],
           m_local_clock_list' = ClocksWithout({u})
    PROVE  Resumes(u)
<1>1. elapsed' \in [Cores -> Nat]
  <2>1. CASE UNCHANGED <<occupant, elapsed>>
    BY Zenon, <2>1 DEF Good, TypeOK
  <2>2. CASE d \in Cores /\ elapsed' = TimeOn(d, u, tm)
    <3>1. elapsed[d] \in Nat /\ elapsed \in [Cores -> Nat]
      BY Zenon, <2>2 DEF Good, TypeOK
    <3>2. MaxOf(elapsed[d], tm) \in Nat
      BY Zenon, <3>1 DEF MaxOf
    <3> QED BY Zenon, <2>2, <3>1, <3>2, CoresAreThreads DEF TimeOn
  <2> QED BY Zenon, <2>1, <2>2
<1>2. /\ occupant' \in [Cores -> Threads \cup {None}]
      /\ \A c \in Cores : occupant'[c] = occupant[c] \/ (c = d /\ occupant[c] = None /\ occupant'[c] = u)
  <2>1. occupant \in [Cores -> Threads \cup {None}]
    BY Zenon DEF Good, TypeOK
  <2>2. CASE UNCHANGED <<occupant, elapsed>>
    BY Zenon, <2>1, <2>2
  <2>3. CASE d \in Cores /\ occupant[d] = None /\ occupant' = MoveTo(occupant, d, u)
    BY Zenon, <2>1, <2>3 DEF MoveTo
  <2> QED BY Zenon, <2>2, <2>3
<1>3. status' \in [Threads -> Status] /\ timeout' \in [Threads -> Nat \cup {None}]
  BY Zenon DEF Good, TypeOK, Status
<1> QED BY Zenon, <1>1, <1>2, <1>3 DEF Resumes

\* A thread u that is outside is resumed, on a core or on none.
LEMMA ResumesGood ==
    ASSUME Good, NEW u \in Threads, NEW S \in SUBSET m_to_release, ~Inside(u), Resumes(u),
           m_barrier_acquire_list' = m_barrier_acquire_list, m_core_thread' = m_core_thread,
           m_next_barrier_time' = m_next_barrier_time, entry' = entry, UNCHANGED modeVars,
           m_global_time' \in Nat, m_next_sync_time' \in [Cores -> Nat],
           m_to_release' = m_to_release \ S, Signalled(S),
           call' \in CallType, call'.t = call.t, call'.by = call.by, call'.until = call.until,
           \/ call' = call
           \/ /\ call.op \in {"timeouts", "pass"} /\ call'.op \in {"pass", "body"}
              /\ call'.op = "pass" => call'.c \in Cores,
           pc' \in [Threads -> Places], call.by = u => pc'[u] = "run",
           pc'[u] \notin {"prewait", "asleep", "woken"},
           \A x \in Threads : x # u =>
              pc'[x] = IF pc[x] = "asleep" /\ entry[x].c \in S THEN "woken" ELSE pc[x]
    PROVE  Good'
<1> USE DEF Resumes
<1>1. \A x \in Threads : Inside(x) => x # u
  BY Zenon
<1>2. m_local_clock_list' = m_local_clock_list
  BY Zenon, <1>1, ClocksKept
<1>3. KeepsCore' /\ Seats'
  <2>1. \A c \in Cores : /\ m_futx'[c] = IF c \in S THEN 1 ELSE m_futx[c]
                         /\ sleepers'[c] = IF c \in S /\ sleepers[c] # <<>> THEN Tail(sleepers[c])
                                          ELSE sleepers[c]
    BY Zenon DEF Signalled
  <2>2. (call'.op \in {"none", "stalled"} => call.op \in {"none", "stalled"}) /\ (call'.until => call.until)
    BY Zenon
  <2>3. \A x \in Threads : Inside(x) =>
              /\ status'[x] = status[x]
              /\ pc'[x] = IF pc[x] = "asleep" /\ entry[x].c \in S THEN "woken" ELSE pc[x]
    BY Zenon, <1>1
  <2>4. \A x \in Threads : ~Inside(x) => pc'[x] \notin {"prewait", "asleep", "woken"}
    BY Zenon DEF Inside
  <2>5. \A c \in Cores : occupant[c] \in Threads /\ Inside(occupant[c]) => occupant'[c] = occupant[c]
    BY Zenon, CoresAreThreads
  <2> QED BY Zenon, <1>2, <2>1, <2>2, <2>3, <2>4, <2>5, OthersKept
<1>4. TypeOK'
  <2>1. m_futx' \in [Cores -> {0, 1}] /\ sleepers' \in [Cores -> Seq(Threads)]
    <3>1. S \in SUBSET Cores
      BY Zenon DEF Good, TypeOK
    <3> QED BY Zenon, <3>1, SignalTypes DEF Good, Signalled
  <2> QED BY Zenon, <1>2, <2>1 DEF Good, TypeOK, CallType, modeVars
<1>5. Placed'
  BY CoresAreThreads DEF Good, Placed
<1>6. CallShape'
  <2>1. call'.t # None => pc'[call'.t] = "run"
    BY SMTT(60) DEF Good, CallShape, TypeOK, Inside
  <2>2. call'.by # None => pc'[call'.by] = "run"
    <3>1. call.by \in Threads \cup {None} /\ (call.by # None => pc[call.by] = "run")
      BY Zenon DEF Good, CallShape, TypeOK
    <3>2. pc[call.by] = "run" /\ call.by \in Threads => pc'[call.by] = "run"
      BY Zenon
    <3> QED BY Zenon, <3>1, <3>2
  <2> QED BY Zenon, <2>1, <2>2 DEF Good, CallShape, modeVars
<1>7. Moves'
  BY Zenon DEF Moves, InBarrier
<1> QED BY Zenon, <1>3, <1>4, <1>5, <1>6, <1>7 DEF Good

\* BarrierSyncClient::synchronize() after some simulated instructions, early return included.
LEMMA ExecuteGood ==
    ASSUME Good, NEW t \in Threads, NEW c \in Cores, NEW d \in Steps, Execute(t, c, d)
    PROVE  Good'
<1>1. /\ call = NoCall /\ pc[t] = "run" /\ status[t] = "RUNNING" /\ occupant[c] = t
      /\ UNCHANGED <<occupant, status, timeout, modeVars>>
      /\ IF elapsed'[c] >= m_next_sync_time[c] \/ m_fastforward
         THEN Synchronize(t, c, elapsed'[c])
         ELSE UNCHANGED <<servVars, timeVars, m_to_release, condVars, m_next_sync_time,
                          pc, entry, call>>
  BY Zenon DEF Execute, InUser, LockFree, Good, CallShape
<1>2. elapsed' \in [Cores -> Nat]
  <2>1. elapsed[c] \in Nat /\ d \in Nat
    BY Zenon, BarrierAssumption DEF Good, TypeOK
  <2>2. elapsed' = [elapsed EXCEPT ![c] = elapsed[c] + d] /\ elapsed \in [Cores -> Nat]
    BY Zenon DEF Execute, Good, TypeOK
  <2> QED BY <2>1, <2>2
<1>3. elapsed'[c] \in Nat /\ NextSync(elapsed'[c]) \in Nat
  BY <1>2, BarrierAssumption DEF NextSync
<1>4. ~m_fastforward /\ ~m_disable /\ ~m_barrier_acquire_list[c]
  BY Zenon, <1>1, CoresAreThreads DEF Good, CallShape, Seats, Seat, Taken, Inside, NoCall
<1>5. CASE UNCHANGED <<servVars, timeVars, m_to_release, condVars, pc, entry, call>>
           /\ m_next_sync_time' \in [Cores -> Nat]
  BY Zenon, <1>1, <1>2, <1>5, SimulatesGood DEF Good, TypeOK, CallType, timeVars
<1>6. ASSUME elapsed'[c] >= m_next_barrier_time, Synchronize(t, c, elapsed'[c]) PROVE Good'
  <2>1. PICK S \in SUBSET m_to_release :
         /\ DoRelease(m_to_release, 1, S)
         /\ m_to_release' = m_to_release \ S
         /\ m_local_clock_list' = [m_local_clock_list EXCEPT ![c] = elapsed'[c]]
         /\ m_barrier_acquire_list' = [m_barrier_acquire_list EXCEPT ![c] = TRUE]
         /\ m_core_thread' = [m_core_thread EXCEPT ![c] = t]
         /\ entry' = [entry EXCEPT ![t] = [c |-> c, tm |-> elapsed'[c]]]
         /\ IF Reached(m_local_clock_list', m_barrier_acquire_list', occupant, status)
            THEN /\ StartRelease(m_to_release', m_local_clock_list', [NoCall EXCEPT !.t = t])
                 /\ Signalled(S) /\ pc' = PcWoken(S)
            ELSE /\ WaitOn(t, c, S)
                 /\ UNCHANGED <<timeVars, call>>
         /\ UNCHANGED m_next_sync_time
    <3>1. ~(elapsed'[c] < m_next_barrier_time)
      BY <1>3, <1>6 DEF Good, TypeOK
    <3> QED BY Zenon, <1>4, <1>6, <3>1 DEF Synchronize
  <2> QED BY Zenon, <1>1, <1>2, <1>3, <1>4, <1>6, <2>1, EntersGood
<1>7. ASSUME elapsed'[c] < m_next_barrier_time, Synchronize(t, c, elapsed'[c]) PROVE Good'
  <2>1. /\ m_next_sync_time' = [m_next_sync_time EXCEPT ![c] = NextSync(elapsed'[c])]
        /\ UNCHANGED <<servVars, timeVars, m_to_release, condVars, pc, entry, call>>
    BY Zenon, <1>4, <1>7 DEF Synchronize
  <2>2. m_next_sync_time' \in [Cores -> Nat]
    BY Zenon, <1>3, <2>1 DEF Good, TypeOK
  <2> QED BY Zenon, <1>5, <2>1, <2>2
<1>8. m_next_barrier_time \in Nat /\ m_next_sync_time \in [Cores -> Nat]
  BY Zenon DEF Good, TypeOK
<1>9. elapsed'[c] < m_next_barrier_time \/ elapsed'[c] >= m_next_barrier_time
  BY <1>3, <1>8
<1> QED BY Zenon, <1>1, <1>4, <1>5, <1>6, <1>7, <1>8, <1>9

\* In a stall and in an exit the scheduler hands the core of t over.
LEMMA HandedOver ==
    ASSUME Good, NEW t \in Threads, NEW c \in Cores, NEW u \in Ready \cup {None},
           NEW st \in {"STALLED", "IDLE"}, InUser(t, c), occupant' = MoveTo(occupant, c, u),
           status' = Resumed([status EXCEPT ![t] = st], u),
           timeout' \in [Threads -> Nat \cup {None}],
           \A x \in Threads : timeout'[x] = timeout[x] \/ (x = t /\ st = "STALLED"),
           UNCHANGED <<elapsed, m_barrier_acquire_list, m_core_thread, modeVars, m_next_sync_time, entry>>
    PROVE  Leaves(t, u) /\ u \in Threads \cup {None}
<1>1. /\ u \in Threads \cup {None} /\ call = NoCall /\ pc[t] = "run" /\ status[t] = "RUNNING"
      /\ u # None => (\A d \in Cores : occupant[d] # u) /\ status[u] \in {"RUNNING", "UNSCHED"} /\ u # t
      /\ occupant[c] = t /\ t # None
  BY Zenon, CoresAreThreads DEF InUser, LockFree, Ready, Good, CallShape
<1>2. /\ \A d \in Cores : occupant'[d] = (IF occupant[d] = t THEN u ELSE occupant[d])
      /\ occupant' \in [Cores -> Threads \cup {None}]
  BY Zenon, <1>1 DEF MoveTo, Good, TypeOK, Placed
<1>3. /\ status' \in [Threads -> Status] /\ status'[t] = st
      /\ \A x \in Threads : x # t /\ x # u => status'[x] = status[x]
      /\ u # None => status'[u] = "RUNNING"
  BY Zenon, <1>1 DEF Resumed, Good, TypeOK, Status
<1> QED BY Zenon, <1>1, <1>2, <1>3 DEF Leaves

\* ThreadManager::stallThread(), up to the loop that waits for the thread's wakeup.
LEMMA StallGood ==
    ASSUME Good, NEW t \in Threads, NEW c \in Cores, NEW to \in Nat \cup {None}, Stall(t, c, to)
    PROVE  Good'
<1>1. PICK u \in Ready \cup {None} :
          /\ occupant' = MoveTo(occupant, c, u)
          /\ status' = Resumed([status EXCEPT ![t] = "STALLED"], u)
          /\ Stops(t, u, IF u = None THEN 2 ELSE 3, Staller(t), "run")
  BY Zenon DEF Stall
<1>2. Leaves(t, u) /\ u \in Threads \cup {None}
  BY Zenon, <1>1, HandedOver DEF Stall, Good, TypeOK
<1>3. PICK n \in {1, 2, 3} : Stops(t, u, n, Staller(t), "run")
  BY Zenon, <1>1
<1> QED BY Zenon, <1>2, <1>3, StopsGood

\* ThreadManager::onThreadExit(), with threadExit() of the barrier server.
LEMMA ExitGood ==
    ASSUME Good, NEW t \in Threads, NEW c \in Cores, Exit(t, c)
    PROVE  Good'
<1>1. PICK u \in Ready \cup {None} :
          /\ occupant' = MoveTo(occupant, c, u)
          /\ status' = Resumed([status EXCEPT ![t] = "IDLE"], u)
          /\ Stops(t, u, IF u = None THEN 2 ELSE 3, NoCall, "gone")
  BY Zenon DEF Exit
<1>2. Leaves(t, u) /\ u \in Threads \cup {None}
  BY Zenon, <1>1, HandedOver DEF Exit, Good, TypeOK
<1>3. PICK n \in {1, 2, 3} : Stops(t, u, n, NoCall, "gone")
  BY Zenon, <1>1
<1> QED BY Zenon, <1>2, <1>3, StopsGood

\* Thread::reschedule() of a thread that finds itself without a core.
LEMMA UnscheduledGood ==
    ASSUME Good, NEW t \in Threads, Unscheduled(t)
    PROVE  Good'
<1>1. Leaves(t, None)
  BY Zenon DEF Unscheduled, LockFree, Good, CallShape, TypeOK, Status, Leaves
<1>2. PICK n \in {1, 2, 3} : Stops(t, None, n, Staller(t), "run")
  BY Zenon DEF Unscheduled
<1> QED BY Zenon, <1>1, <1>2, StopsGood

\* A thread resumes another one, through ThreadManager::resumeThread().
LEMMA WakeGood ==
    ASSUME Good, NEW t \in Threads, NEW c \in Cores, NEW u \in Threads, Wake(t, c, u)
    PROVE  Good'
<1>1. PICK d \in {e \in Cores : occupant[e] = None} \cup {None}, S \in SUBSET m_to_release :
          /\ m_to_release' = m_to_release \ S
          /\ Signalled(S)
          /\ pc' = [PcWoken(S) EXCEPT ![u] = "run"]
          /\ m_local_clock_list' = ClocksWithout({u})
          /\ IF d = None THEN UNCHANGED <<occupant, elapsed>>
             ELSE /\ occupant' = MoveTo(occupant, d, u)
                  /\ elapsed' = TimeOn(d, u, elapsed[c])
  BY Zenon DEF Wake
<1>2. /\ ~Inside(u) /\ status[u] = "STALLED" /\ (\A e \in Cores : occupant[e] # u)
      /\ call = NoCall /\ timeout[u] = None
  BY Zenon DEF Wake, InUser, LockFree, Good, KeepsCore, Placed, CallShape
<1>3. S \in SUBSET Cores /\ elapsed[c] \in Nat
  BY Zenon DEF Good, TypeOK
<1>4. /\ status' = [x \in Threads |-> IF x = u THEN "RUNNING" ELSE status[x]]
      /\ timeout' = [x \in Threads |-> IF x = u THEN None ELSE timeout[x]]
  BY Zenon, <1>2 DEF Wake, Good, TypeOK
<1>5. Resumes(u)
  BY Zenon, <1>1, <1>2, <1>3, <1>4, PutOn
<1>6. /\ pc' \in [Threads -> Places] /\ pc'[u] = "run"
      /\ \A x \in Threads : x # u =>
            pc'[x] = IF pc[x] = "asleep" /\ entry[x].c \in S THEN "woken" ELSE pc[x]
  BY Zenon, <1>1, <1>3, SignalTypes, WokenThreads DEF Good, PcWoken, Places
<1>7. /\ m_barrier_acquire_list' = m_barrier_acquire_list /\ m_core_thread' = m_core_thread
      /\ m_next_barrier_time' = m_next_barrier_time /\ entry' = entry /\ UNCHANGED modeVars
      /\ m_global_time' \in Nat /\ m_next_sync_time' \in [Cores -> Nat] /\ call' = call
      /\ call' \in CallType
  BY Zenon DEF Wake, timeVars, Good, TypeOK, CallType
<1> QED BY Zenon, <1>1, <1>2, <1>5, <1>6, <1>7, ResumesGood

=============================================================================
