-------------------------- MODULE BarrierSyncSteps --------------------------
(***************************************************************************)
(* The holder of m_thread_lock in barrierRelease() and in stallThread(),   *)
(* and ConditionVariable, preserve the inductive invariant of BarrierSync. *)
(***************************************************************************)
EXTENDS BarrierSyncLemmas

\* The holder of the lock goes on within barrierRelease(), and resumes nobody or u.
LEMMA HolderGood ==
    ASSUME Good, NEW op \in {"pass", "body"}, NEW c \in Nat, call.op \in {"timeouts", "pass"},
           call' = [call EXCEPT !.op = op, !.c = c], op = "pass" => c \in Cores,
           m_next_barrier_time' = m_next_barrier_time,
           UNCHANGED <<m_global_time, m_barrier_acquire_list, m_core_thread, m_to_release,
                       modeVars, condVars, m_next_sync_time, entry>>,
           \/ UNCHANGED <<threadVars, pc, m_local_clock_list>>
           \/ \E u \in Threads :
                 /\ Resumes(u)
                 /\ pc' = [x \in Threads |-> IF x = u /\ pc[x] = "out" THEN "run" ELSE pc[x]]
    PROVE  Good'
<1>1. /\ call' \in CallType /\ call'.t = call.t /\ call'.by = call.by /\ call'.until = call.until
      /\ call'.op = op /\ call'.c = c
  BY Zenon DEF Good, TypeOK, CallType
<1>2. /\ m_barrier_acquire_list' = m_barrier_acquire_list /\ m_core_thread' = m_core_thread
      /\ entry' = entry /\ m_global_time' \in Nat /\ m_next_sync_time' \in [Cores -> Nat]
  BY Zenon DEF Good, TypeOK
<1>3. CASE UNCHANGED <<threadVars, pc, m_local_clock_list>>
  BY Zenon, <1>1, <1>2, <1>3, SimulatesGood DEF Good, TypeOK, servVars, threadVars
<1>4. ASSUME NEW u \in Threads, Resumes(u),
             pc' = [x \in Threads |-> IF x = u /\ pc[x] = "out" THEN "run" ELSE pc[x]]
      PROVE  Good'
  <2>1. ~Inside(u)
    BY <1>4 DEF Good, KeepsCore, TypeOK, Resumes
  <2>2. m_to_release' = m_to_release \ {} /\ {} \in SUBSET m_to_release /\ Signalled({})
    BY Zenon DEF Signalled, condVars, Good, TypeOK
  <2>3. pc' \in [Threads -> Places] /\ (call.by = u => pc'[u] = "run")
    BY ZenonT(60), <1>4, CoresAreThreads DEF Good, CallShape, TypeOK, Places
  <2>4. /\ pc'[u] \notin {"prewait", "asleep", "woken"}
        /\ \A x \in Threads : x # u =>
              pc'[x] = IF pc[x] = "asleep" /\ entry[x].c \in {} THEN "woken" ELSE pc[x]
    BY Zenon, <1>4, <2>1 DEF Inside
  <2> QED BY Zenon, <1>1, <1>2, <1>4, <2>1, <2>2, <2>3, <2>4, ResumesGood
<1> QED BY Zenon, <1>3, <1>4

\* barrierRelease() wakes up a sleeper whose timeout has passed, or none.
LEMMA TimeoutGood ==
    ASSUME Good, TimeoutStep
    PROVE  Good'
<1>1. /\ call.op = "timeouts" /\ call' = [call EXCEPT !.op = "pass", !.c = 0] /\ 0 \in Cores /\ 0 \in Nat
      /\ m_next_barrier_time' = m_next_barrier_time
      /\ UNCHANGED <<m_global_time, m_barrier_acquire_list, m_core_thread, m_to_release,
                     modeVars, condVars, m_next_sync_time, entry>>
  BY Zenon, CoresAreThreads DEF TimeoutStep, Good, CallShape
<1>2. CASE UNCHANGED <<threadVars, pc, m_local_clock_list>>
  BY Zenon, <1>1, <1>2, HolderGood
<1>3. ASSUME NEW u \in Expired, NEW c \in {d \in Cores : occupant[d] = None} \cup {None},
             timeout' = [timeout EXCEPT ![u] = None],
             status' = [status EXCEPT ![u] = "RUNNING"],
             pc' = [pc EXCEPT ![u] = IF @ = "out" THEN "run" ELSE @],
             m_local_clock_list' = ClocksWithout({u}),
             IF c = None THEN UNCHANGED <<occupant, elapsed>>
             ELSE /\ occupant' = MoveTo(occupant, c, u)
                  /\ elapsed' = TimeOn(c, u, m_global_time)
      PROVE  Good'
  <2>1. u \in Threads /\ (\A e \in Cores : occupant[e] # u) /\ m_global_time \in Nat
    BY Zenon DEF Expired, Good, Placed, TypeOK
  <2>2. /\ status' = [x \in Threads |-> IF x = u THEN "RUNNING" ELSE status[x]]
        /\ timeout' = [x \in Threads |-> IF x = u THEN None ELSE timeout[x]]
        /\ pc' = [x \in Threads |-> IF x = u /\ pc[x] = "out" THEN "run" ELSE pc[x]]
    BY Zenon, <1>3, <2>1 DEF Good, TypeOK
  <2>3. Resumes(u)
    BY Zenon, <1>3, <2>1, <2>2, PutOn
  <2> QED BY Zenon, <1>1, <2>1, <2>2, <2>3, HolderGood
<1> QED BY Zenon, <1>2, <1>3 DEF TimeoutStep

\* The scheduler's periodic(), called by barrierRelease(), visits a core.
LEMMA PassGood ==
    ASSUME Good, InScope, PassStep
    PROVE  Good'
<1>1. /\ call.op = "pass" /\ call.c \in Cores /\ m_next_barrier_time' = m_next_barrier_time
      /\ UNCHANGED <<m_global_time, m_barrier_acquire_list, m_core_thread, m_to_release,
                     modeVars, condVars, m_next_sync_time, entry>>
  BY Zenon DEF PassStep, timeVars, Good, CallShape
<1>2. PICK op \in {"pass", "body"}, c \in Nat :
          call' = [call EXCEPT !.op = op, !.c = c] /\ (op = "pass" => c \in Cores)
  <2>1. CASE call.c = NumCores - 1
    <3>1. call' = [call EXCEPT !.op = "body", !.c = call.c] /\ call.c \in Nat
      BY Zenon, <2>1 DEF PassStep, Good, TypeOK
    <3> QED BY Zenon, <3>1
  <2>2. CASE call.c # NumCores - 1
    <3>1. call' = [call EXCEPT !.op = "pass", !.c = call.c + 1]
      BY Zenon, <1>1, <2>2 DEF PassStep, Good, TypeOK
    <3>2. call.c + 1 \in Nat /\ call.c + 1 \in Cores
      BY <1>1, <2>2, BarrierAssumption DEF Cores
    <3> QED BY Zenon, <3>1, <3>2
  <2> QED BY Zenon, <2>1, <2>2
<1>3. CASE UNCHANGED <<threadVars, pc, m_local_clock_list>>
  BY Zenon, <1>1, <1>2, <1>3, HolderGood
<1>4. ASSUME NEW u \in Ready, occupant[call.c] = None,
             occupant' = MoveTo(occupant, call.c, u),
             status' = Resumed(status, u),
             elapsed' = TimeOn(call.c, u, m_global_time),
             pc' = [t \in Threads |-> IF t = u /\ pc[t] = "out" THEN "run" ELSE pc[t]],
             m_local_clock_list' = ClocksWithout({occupant[call.c], u}),
             UNCHANGED timeout
      PROVE  Good'
  <2>1. /\ u \in Threads /\ (\A e \in Cores : occupant[e] # u) /\ status[u] \in {"RUNNING", "UNSCHED"}
        /\ m_global_time \in Nat
    BY Zenon DEF Ready, Good, TypeOK
  <2>2. /\ status' = [x \in Threads |-> IF x = u THEN "RUNNING" ELSE status[x]]
        /\ timeout' = [x \in Threads |-> IF x = u THEN None ELSE timeout[x]]
    <3>1. timeout[u] = None /\ timeout \in [Threads -> Nat \cup {None}]
      BY Zenon, <2>1 DEF Good, Placed, TypeOK
    <3> QED BY Zenon, <1>4, <2>1, <3>1 DEF Resumed
  <2>3. m_local_clock_list' = ClocksWithout({u})
    <3>1. \A x \in Threads : Inside(x) => x \notin {None, u} /\ x \notin {u}
      BY <2>1, CoresAreThreads DEF Good, KeepsCore, TypeOK
    <3> QED BY Zenon, <1>4, <3>1, ClocksKept
  <2>4. Resumes(u)
    BY Zenon, <1>1, <1>4, <2>1, <2>2, <2>3, PutOn
  <2> QED BY Zenon, <1>1, <1>2, <1>4, <2>1, <2>4, HolderGood
<1> QED BY Zenon, <1>3, <1>4 DEF PassStep, InScope

\* ConditionVariable::wait() reaches its futex call, which sleeps unless the word has changed.
LEMMA BlockGood ==
    ASSUME Good, NEW t \in Threads, Block(t)
    PROVE  Good'
<1>0. PICK c \in Cores : c = entry[t].c
  BY Zenon DEF Good, TypeOK
<1>1. /\ pc[t] = "prewait" /\ c \in Cores /\ occupant[c] = t /\ status[t] = "RUNNING" /\ Taken(c)
      /\ sleepers[c] = <<>>
  <2>1. pc[t] = "prewait" /\ Inside(t)
    BY Zenon DEF Block, Inside
  <2>2. occupant[c] = t /\ status[t] = "RUNNING" /\ Taken(c)
    BY Zenon, <1>0, <2>1 DEF Good, KeepsCore, Taken
  <2> QED BY Zenon, <2>1, <2>2 DEF Good, Seats, Seat
<1>2. /\ pc'[t] = (IF m_futx[c] = 0 THEN "asleep" ELSE "woken")
      /\ \A x \in Threads : x # t => pc'[x] = pc[x]
      /\ pc' \in [Threads -> Places]
  BY Zenon, <1>0 DEF Block, Good, TypeOK, Places
<1>3. /\ sleepers'[c] = (IF m_futx[c] = 0 THEN <<t>> ELSE <<>>)
      /\ \A d \in Cores : d # c => sleepers'[d] = sleepers[d]
      /\ sleepers' \in [Cores -> Seq(Threads)]
  <2>1. Append(<<>>, t) = <<t>> /\ <<t>> \in Seq(Threads)
    OBVIOUS
  <2>2. sleepers \in [Cores -> Seq(Threads)] /\ sleepers' = (IF m_futx[c] = 0 THEN [sleepers EXCEPT ![c] = <<t>>] ELSE sleepers)
    BY Zenon, <1>0, <1>1, <2>1 DEF Block, Good, TypeOK
  <2> QED BY Zenon, <1>1, <2>1, <2>2
<1> USE DEF servVars, timeVars, modeVars, threadVars
<1>4. UNCHANGED <<servVars, timeVars, modeVars, m_to_release, m_futx, m_next_sync_time,
                  threadVars, entry, call>>
  BY Zenon DEF Block
<1>5. TypeOK' /\ Placed'
  BY ZenonT(60), <1>2, <1>3, <1>4 DEF Good, TypeOK, Placed
<1>6. \A x \in Threads : Inside(x)' <=> Inside(x)
  BY Zenon, <1>1, <1>2, <1>4 DEF Inside
<1>7. KeepsCore'
  BY Zenon, <1>4, <1>6 DEF Good, KeepsCore
<1>8. CallShape'
  BY Zenon, <1>1, <1>2, <1>4 DEF Good, CallShape, TypeOK
<1>9. Seats'
  <2>1. ASSUME NEW d \in Cores, d # c PROVE Seat(d)'
    <3>1. occupant[d] \in Threads => pc'[occupant[d]] = pc[occupant[d]]
      BY Zenon, <1>1, <1>2, <2>1, CoresAreThreads DEF Good, Placed
    <3>2. Taken(d)' <=> Taken(d)
      BY Zenon, <1>4, <1>6 DEF Taken
    <3>3. Seat(d) /\ sleepers'[d] = sleepers[d]
      BY Zenon, <1>3, <2>1 DEF Good, Seats
    <3> QED BY <1>4, <3>1, <3>2, <3>3 DEF Seat, Taken, InBarrier
  <2>2. Seat(c)'
    <3>1. Taken(c)' /\ occupant'[c] = t /\ Seat(c) /\ m_futx[c] \in {0, 1}
      BY Zenon, <1>1, <1>4, <1>6 DEF Good, Seats, Taken, TypeOK
    <3>2. (m_barrier_acquire_list[c] \/ c \in m_to_release \/ m_futx[c] = 1) /\ Taken(c) /\ occupant[c] = t
      BY Zenon, <1>1, <3>1 DEF Seat, InBarrier
    <3>3. sleepers'[c] = (IF pc'[t] = "asleep" THEN <<t>> ELSE <<>>) /\ pc'[t] # "prewait"
      BY Zenon, <1>2, <1>3
    <3>4. pc'[t] = "asleep" => m_futx[c] = 0
      BY Zenon, <1>2
    <3>5. m_barrier_acquire_list[c] \/ c \in m_to_release => pc'[t] = "asleep"
      BY Zenon, <1>1, <1>2, <3>1 DEF Seat
    <3> QED BY <1>1, <1>4, <3>1, <3>2, <3>3, <3>4, <3>5 DEF Seat, InBarrier
  <2> QED BY Zenon, <2>1, <2>2 DEF Seats
<1>10. Moves'
  BY <1>0, <1>1, <1>2, <1>4 DEF Good, TypeOK, Moves, InBarrier, AnyThreadRunning
<1> QED BY Zenon, <1>5, <1>7, <1>8, <1>9, <1>10 DEF Good

\* A thread woken in ConditionVariable::wait() leaves synchronize().
LEMMA ReturnGood ==
    ASSUME Good, NEW t \in Threads, Return(t)
    PROVE  Good'
<1>0. PICK c \in Cores : c = entry[t].c
  BY Zenon DEF Good, TypeOK
<1>1. /\ pc[t] = "woken" /\ call = NoCall /\ c \in Cores /\ occupant[c] = t /\ status[t] = "RUNNING"
      /\ Taken(c)
  <2>1. pc[t] = "woken" /\ call = NoCall /\ Inside(t)
    BY Zenon DEF Return, LockFree, Good, CallShape, Inside
  <2> QED BY Zenon, <1>0, <2>1 DEF Good, KeepsCore, Taken
<1>2. ~m_barrier_acquire_list[c] /\ c \notin m_to_release /\ sleepers[c] = <<>>
  BY Zenon, <1>1 DEF Good, Seats, Seat, InBarrier
<1>3. /\ pc'[t] = "run" /\ pc' \in [Threads -> Places] /\ entry' \in [Threads -> [c : Cores, tm : Nat]]
      /\ \A x \in Threads : x # t => pc'[x] = pc[x] /\ entry'[x] = entry[x]
  BY Zenon, CoresAreThreads DEF Return, Good, TypeOK, Places, NoEntry
<1>4. m_next_sync_time' \in [Cores -> Nat]
  <2>1. NextSync(entry[t].tm) \in Nat
    <3>1. entry[t].tm \in Nat
      BY Zenon DEF Good, TypeOK
    <3> QED BY <3>1, BarrierAssumption DEF NextSync
  <2> QED BY Zenon, <2>1 DEF Return, Good, TypeOK
<1> USE DEF servVars, timeVars, modeVars, threadVars, condVars
<1>5. UNCHANGED <<servVars, timeVars, modeVars, m_to_release, condVars, threadVars, call>>
  BY Zenon DEF Return
<1>6. TypeOK' /\ Placed'
  BY ZenonT(60), <1>3, <1>4, <1>5 DEF Good, TypeOK, Placed
<1>7. /\ \A x \in Threads : x # t => (Inside(x)' <=> Inside(x))
      /\ ~Inside(t)'
  BY Zenon, <1>1, <1>3, <1>5, CoresAreThreads DEF Inside, NoCall
<1>8. KeepsCore'
  BY Zenon, <1>3, <1>5, <1>7 DEF Good, KeepsCore
<1>9. CallShape'
  BY Zenon, <1>1, <1>5 DEF Good, CallShape, NoCall
<1>10. Seats'
  <2>1. ASSUME NEW d \in Cores, d # c PROVE Seat(d)'
    <3>1. occupant[d] \in Threads => occupant[d] # t
      BY Zenon, <1>1, <2>1, CoresAreThreads DEF Good, Placed
    <3>2. Seat(d)
      BY Zenon DEF Good, Seats
    <3>3. Taken(d)' <=> Taken(d)
      BY Zenon, <1>3, <1>5, <1>7, <3>1 DEF Taken
    <3>4. occupant[d] \in Threads => pc'[occupant[d]] = pc[occupant[d]] /\ entry'[occupant[d]] = entry[occupant[d]]
      BY Zenon, <1>3, <3>1
    <3> QED BY SMTT(60), <1>5, <3>2, <3>3, <3>4 DEF Seat, Taken, InBarrier
  <2>2. Seat(c)'
    BY Zenon, <1>1, <1>2, <1>5, <1>7 DEF Seat, Taken
  <2> QED BY Zenon, <2>1, <2>2 DEF Seats
<1>11. Moves'
  BY Zenon, <1>1, <1>3, <1>5 DEF Moves, InBarrier
<1> QED BY Zenon, <1>6, <1>8, <1>9, <1>10, <1>11 DEF Good

\* The loop of stallThread(): advance() while no thread runs, then Thread::wait().
LEMMA StalledGood ==
    ASSUME Good, StalledStep
    PROVE  Good'
<1> USE DEF servVars, timeVars, modeVars, threadVars, condVars
<1>1. /\ UNCHANGED <<servVars, modeVars, m_to_release, condVars, m_next_sync_time, threadVars, entry>>
      /\ call.op = "stalled" /\ call.t = None /\ call.by \in Threads /\ pc[call.by] = "run"
      /\ ~m_fastforward /\ m_next_barrier_time \in Nat
  BY Zenon DEF StalledStep, Good, CallShape, TypeOK
<1>2. CASE AnyThreadRunning
  <2>1. /\ call' = NoCall /\ call'.op = "none" /\ call'.t = None /\ call'.by = None /\ ~call'.until
        /\ call' \in CallType /\ timeVars' = timeVars /\ None \notin Threads
    <3>1. call' = NoCall /\ timeVars' = timeVars
      BY Zenon, <1>2 DEF StalledStep
    <3> QED BY Zenon, <3>1, CoresAreThreads DEF NoCall, CallType
  <2>2. /\ pc' \in [Threads -> Places] /\ pc'[call.by] \in {"run", "out"}
        /\ \A x \in Threads : x # call.by => pc'[x] = pc[x]
    BY Zenon, <1>1, <1>2 DEF StalledStep, Good, TypeOK, Places
  <2>3. TypeOK' /\ Placed' /\ CallShape'
    <3>1. TypeOK'
      BY Zenon, <1>1, <2>1, <2>2 DEF Good, TypeOK, CallType
    <3>2. Placed'
      BY Zenon, <1>1 DEF Good, Placed
    <3>3. CallShape'
      BY Zenon, <1>1, <2>1 DEF Good, CallShape
    <3> QED BY Zenon, <3>1, <3>2, <3>3
  <2>4. \A x \in Threads : (Inside(x)' <=> Inside(x)) /\ (Inside(x) => pc'[x] = pc[x])
    BY Zenon, <1>1, <2>1, <2>2 DEF Inside
  <2>5. KeepsCore'
    BY Zenon, <1>1, <2>4 DEF Good, KeepsCore
  <2>6. Seats'
    BY SMTT(60), <1>1, <2>1, <2>4 DEF Good, Seats, Seat, Taken, InBarrier
  <2>7. Moves'
    BY Zenon, <1>1, <1>2, <2>2 DEF Good, Moves, InBarrier
  <2> QED BY Zenon, <2>3, <2>5, <2>6, <2>7 DEF Good
<1>3. CASE ~AnyThreadRunning
  <2>1. \A x \in Threads : ~Inside(x)
    BY Zenon, <1>3 DEF Good, KeepsCore, AnyThreadRunning
  <2>2. m_to_release = {} /\ \A c \in Cores : ~m_barrier_acquire_list[c] /\ ~Taken(c) /\ sleepers[c] = <<>>
    BY Zenon, <2>1 DEF Good, TypeOK, Seats, Seat, Taken
  <2>3. /\ call' = [call EXCEPT !.t = None, !.until = TRUE, !.op = "timeouts"] /\ pc' = pc
        /\ m_next_barrier_time' = m_next_barrier_time /\ m_global_time' \in Nat
    BY Zenon, <1>1, <1>3, <2>2 DEF StalledStep, StartRelease
  <2>4. call'.op = "timeouts" /\ call'.t = None /\ call'.by = call.by /\ call' \in CallType
    BY Zenon, <2>3 DEF Good, TypeOK, CallType
  <2>5. TypeOK' /\ Placed' /\ CallShape'
    <3>1. TypeOK' /\ Placed'
      <4>1. Placed'
        BY Zenon, <1>1 DEF Good, Placed
      <4>2. call' \in [op : {"none", "timeouts", "pass", "body", "stalled", "abort"},
                       t : Threads \cup {None}, by : Threads \cup {None}, until : BOOLEAN, c : Nat]
        BY Zenon, <2>4 DEF CallType
      <4> QED BY Zenon, <1>1, <2>3, <4>1, <4>2 DEF Good, TypeOK
    <3> QED BY Zenon, <1>1, <2>2, <2>3, <2>4, <3>1, CoresAreThreads DEF Good, CallShape
  <2>6. \A x \in Threads : ~Inside(x)'
    BY Zenon, <2>1, <2>3, <2>4, CoresAreThreads DEF Inside
  <2>7. KeepsCore' /\ Seats' /\ Moves'
    BY Zenon, <1>1, <2>2, <2>4, <2>6 DEF KeepsCore, Seats, Seat, Taken, Moves
  <2> QED BY Zenon, <2>5, <2>7 DEF Good
<1> QED BY Zenon, <1>2, <1>3

\* barrierRelease() finds cores to release, and its holder goes on.
LEMMA ReleaseGood ==
    ASSUME Good, NEW S, NEW R, NEW mine, NEW next, call.op = "body",
           next = m_next_barrier_time + Interval, R = Released(next), R # {},
           mine = {c \in R : call.t # None /\ m_core_thread[c] = call.t},
           S \in SUBSET (R \ mine), DoRelease(R \ mine, HostCores, S),
           m_to_release' = (R \ mine) \ S, call' = AfterRelease,
           m_next_barrier_time' = next, m_barrier_acquire_list' = StillWaiting(R),
           IF call.t # None /\ mine = {}
           THEN WaitOn(call.t, entry[call.t].c, S)
           ELSE Signalled(S) /\ pc' = CallerReturns(PcWoken(S)),
           m_global_time' = m_global_time, m_local_clock_list' = m_local_clock_list,
           m_core_thread' = m_core_thread, m_next_sync_time' = m_next_sync_time, entry' = entry,
           UNCHANGED modeVars, UNCHANGED threadVars
    PROVE  Good'
<1>1. /\ R \in SUBSET Cores /\ S \in SUBSET Cores /\ next \in Nat /\ None \notin Threads
      /\ ~m_fastforward /\ ~m_disable /\ m_to_release = {}
  <2>1. R \in SUBSET Cores
    BY Zenon DEF Released
  <2>2. next \in Nat
    BY BarrierAssumption DEF Good, TypeOK
  <2> QED BY Zenon, <2>1, <2>2, CoresAreThreads DEF Good, CallShape
<1>2. /\ \A c \in R : /\ m_barrier_acquire_list[c] /\ m_local_clock_list[c] < next
                      /\ Taken(c) /\ m_core_thread[c] = occupant[c] /\ pc[occupant[c]] # "woken"
      /\ ~call.until
  <2>1. \A c \in R : m_barrier_acquire_list[c] /\ m_local_clock_list[c] < next /\ c \in Cores
    BY Zenon DEF Released
  <2> QED BY Zenon, <2>1 DEF Good, Seats, Seat
<1>3. call.t # None =>
        /\ call.t \in Threads /\ entry[call.t].c \in Cores /\ pc[call.t] = "run" /\ call.by = None
        /\ m_barrier_acquire_list[entry[call.t].c] /\ occupant[entry[call.t].c] = call.t
        /\ m_core_thread[entry[call.t].c] = call.t
  <2>1. call.t # None =>
        /\ call.t \in Threads /\ entry[call.t].c \in Cores /\ pc[call.t] = "run" /\ call.by = None
        /\ m_barrier_acquire_list[entry[call.t].c]
    BY Zenon DEF Good, TypeOK, CallShape
  <2>2. call.t # None => occupant[entry[call.t].c] = call.t
    BY Zenon, <2>1 DEF Good, KeepsCore, Inside
  <2> QED BY Zenon, <2>1, <2>2 DEF Good, Seats, Seat
<1>4. \A c \in R : c \in mine <=> call.t # None /\ c = entry[call.t].c
  <2>1. \A c \in R : c \in mine <=> call.t # None /\ occupant[c] = call.t
    BY Zenon, <1>2
  <2>2. \A c \in R : entry[occupant[c]].c = c
    BY Zenon, <1>2 DEF Taken
  <2> QED BY Zenon, <1>3, <2>1, <2>2
<1>5. \A c \in R \ mine : /\ occupant[c] \in Threads /\ InBarrier(occupant[c])
                          /\ entry[occupant[c]].c = c /\ occupant[c] # call.t
  <2>1. \A c \in R \ mine : occupant[c] \in Threads /\ entry[occupant[c]].c = c /\ occupant[c] # call.t
    BY <1>1, <1>2, <1>4 DEF Taken
  <2> QED BY Zenon, <1>2, <2>1 DEF Taken, Inside, InBarrier
<1>6. /\ call'.t = None /\ call'.by = call.by /\ ~call'.until /\ call' \in CallType
      /\ call'.op = (IF call.by # None THEN "stalled" ELSE "none")
      /\ call.by = None => call' = NoCall
  <2>1. CASE call.by = None
    BY Zenon, <2>1, CoresAreThreads DEF AfterRelease, NoCall, CallType
  <2>2. CASE call.by # None
    <3>1. call.t = None
      BY Zenon, <1>3, <2>2
    <3> QED BY Zenon, <1>2, <2>2, <3>1 DEF AfterRelease, Good, TypeOK, CallType
  <2> QED BY Zenon, <2>1, <2>2
<1>7. \A x \in Threads : x \in Woken(S) <=> pc[x] = "asleep" /\ entry[x].c \in S
  BY Zenon, <1>1, WokenThreads DEF Good
<1>8. /\ \A x \in Threads : x # call.t =>
            pc'[x] = (IF pc[x] = "asleep" /\ entry[x].c \in S THEN "woken" ELSE pc[x])
      /\ call.t # None => pc'[call.t] = (IF mine = {} THEN "prewait" ELSE "woken")
      /\ pc' \in [Threads -> Places]
  <2>1. /\ PcWoken(S) = [x \in Threads |-> IF pc[x] = "asleep" /\ entry[x].c \in S THEN "woken" ELSE pc[x]]
        /\ PcWoken(S) \in [Threads -> Places]
    BY Zenon, <1>1, <1>7, SignalTypes DEF PcWoken, Good
  <2>2. pc' = IF call.t # None THEN [PcWoken(S) EXCEPT ![call.t] = IF mine = {} THEN "prewait" ELSE "woken"]
              ELSE PcWoken(S)
    BY Zenon DEF WaitOn, CallerReturns
  <2> QED BY Zenon, <1>3, <2>1, <2>2 DEF Places
<1>9. /\ m_futx' = [c \in Cores |-> IF c \in S THEN 1 ELSE
                      IF call.t # None /\ mine = {} /\ c = entry[call.t].c THEN 0 ELSE m_futx[c]]
      /\ sleepers' = [c \in Cores |-> IF c \in S /\ sleepers[c] # <<>> THEN Tail(sleepers[c])
                                      ELSE sleepers[c]]
  <2>1. call.t # None /\ mine = {} => entry[call.t].c \notin S
    BY Zenon, <1>4
  <2> QED BY <2>1 DEF WaitOn, Signalled
<1> HIDE DEF WaitOn
<1>10. TypeOK'
  <2>1. m_futx' \in [Cores -> {0, 1}] /\ sleepers' \in [Cores -> Seq(Threads)]
    BY Zenon, <1>1, <1>9, SignalTypes DEF Good, TypeOK
  <2>2. m_barrier_acquire_list' \in [Cores -> BOOLEAN]
    BY Zenon DEF StillWaiting
  <2> QED BY Zenon, <1>1, <1>6, <1>8, <2>1, <2>2 DEF Good, TypeOK, CallType, modeVars, threadVars
<1>11. Placed'
  BY Zenon DEF Good, Placed, threadVars
<1>12. \A x \in Threads : Inside(x)' => Inside(x)
  BY Zenon, <1>1, <1>6, <1>8 DEF Inside
<1>13. KeepsCore'
  BY Zenon, <1>12 DEF Good, KeepsCore, threadVars
<1>14. CallShape'
  BY Zenon, <1>1, <1>3, <1>6, <1>8 DEF Good, CallShape, modeVars, TypeOK
<1>15. Seats'
  <2>1. ASSUME NEW d \in Cores, occupant[d] \in Threads => occupant[d] # call.t PROVE Seat(d)'
    <3>1. Seat(d)
      BY Zenon DEF Good, Seats
    <3>2. ~Taken(d) => ~Taken(d)'
      BY Zenon, <1>12 DEF Taken, threadVars
    <3>3. m_barrier_acquire_list'[d] =>
             m_barrier_acquire_list[d] /\ d \notin R /\ m_local_clock_list[d] >= next
      BY <1>1 DEF StillWaiting, Released, Good, TypeOK
    <3>4. d \in R => d \notin mine /\ ~m_barrier_acquire_list'[d]
      BY Zenon, <1>2, <2>1 DEF Taken, StillWaiting
    <3>5. m_barrier_acquire_list[d] /\ d \notin R => m_barrier_acquire_list'[d]
      BY Zenon DEF StillWaiting
    <3>6. Taken(d) => /\ occupant[d] \in Threads /\ entry[occupant[d]].c = d /\ occupant[d] # call.t
                      /\ pc'[occupant[d]] = IF pc[occupant[d]] = "asleep" /\ d \in S THEN "woken"
                                            ELSE pc[occupant[d]]
      BY ZenonT(60), <1>8, <2>1 DEF Taken
    <3>7. m_futx'[d] = IF d \in S THEN 1 ELSE m_futx[d]
      BY Zenon, <1>3, <1>9, <2>1
    <3>8. sleepers'[d] = IF d \in S /\ sleepers[d] # <<>> THEN Tail(sleepers[d]) ELSE sleepers[d]
      BY Zenon, <1>9
    <3>9. Kept(d, S)
      BY Zenon, <1>1, <1>2, <1>5, <1>6, <3>2, <3>3, <3>4, <3>5, <3>6, <3>7, <3>8 DEF Kept, threadVars
    <3> QED BY Zenon, <3>1, <3>9, SeatKept
  <2>2. ASSUME NEW d \in Cores, call.t # None, occupant[d] = call.t PROVE Seat(d)'
    <3>1. d = entry[call.t].c /\ occupant'[d] = call.t /\ entry'[call.t].c = d
      BY ZenonT(60), <1>3, <2>2 DEF Good, Placed, threadVars
    <3>2. sleepers'[d] = <<>>
      BY Zenon, <1>3, <1>9, <2>2 DEF Good, Seats, Seat
    <3>3. d \notin m_to_release' /\ (mine = {} <=> d \notin R)
      BY ZenonT(60), <1>4, <2>2, <3>1
    <3>4. m_barrier_acquire_list'[d] <=> mine = {}
      BY Zenon, <1>3, <2>2, <3>1, <3>3 DEF StillWaiting
    <3>5. mine = {} => m_futx'[d] # 1 /\ m_local_clock_list[d] >= next
      <4>1. mine = {} => d \notin S /\ m_futx'[d] = 0
        BY Zenon, <1>9, <2>2, <3>1, <3>3
      <4>2. d \notin R => m_local_clock_list[d] >= next
        BY <1>1, <1>3, <2>2, <3>1 DEF Released, Good, TypeOK
      <4> QED BY SMTT(60), <3>3, <4>1, <4>2
    <3>6. Taken(d)'
      BY Zenon, <1>3, <1>8, <2>2, <3>1 DEF Taken, Inside
    <3>7. pc'[call.t] = (IF mine = {} THEN "prewait" ELSE "woken")
      BY Zenon, <1>8, <2>2
    <3>8. call'.op \in {"none", "stalled"} /\ ~call'.until
      BY Zenon, <1>6
    <3>9. CASE mine = {}
      <4>1. /\ pc'[occupant'[d]] = "prewait" /\ m_core_thread'[d] = occupant'[d] /\ m_futx'[d] # 1
            /\ m_local_clock_list'[d] >= m_next_barrier_time' /\ m_barrier_acquire_list'[d]
        BY Zenon, <1>3, <2>2, <3>1, <3>4, <3>5, <3>7, <3>9
      <4> QED BY Zenon, <3>2, <3>3, <3>6, <3>8, <4>1 DEF Seat
    <3>10. CASE mine # {}
      BY Zenon, <2>2, <3>1, <3>2, <3>3, <3>4, <3>7, <3>10 DEF Seat, InBarrier
    <3> QED BY Zenon, <3>9, <3>10
  <2> QED BY Zenon, <1>1, <2>1, <2>2 DEF Seats
<1>16. Moves'
  <2>1. CASE mine = {}
    <3>1. \A x \in Threads : InBarrier(x) /\ entry[x].c \in S =>
             /\ status'[x] = "RUNNING" /\ entry'[x] = entry[x]
             /\ pc'[x] = (IF pc[x] = "asleep" THEN "woken" ELSE pc[x])
      <4>1. \A x \in Threads : InBarrier(x) => x # call.t /\ status[x] = "RUNNING"
        BY ZenonT(60), <1>1, <1>3 DEF Good, KeepsCore, Inside, InBarrier
      <4> QED BY Zenon, <1>8, <4>1 DEF threadVars
    <3>2. \A d \in S : m_futx'[d] = 1
      BY Zenon, <1>1, <1>9
    <3>3. R \ mine # {} /\ HostCores \in Nat \ {0}
      BY Zenon, <2>1, BarrierAssumption
    <3>4. PICK list : list = R \ mine
      BY Zenon
    <3>5. /\ DoRelease(list, HostCores, S) /\ list # {}
          /\ \A c \in list : occupant[c] \in Threads /\ InBarrier(occupant[c]) /\ entry[occupant[c]].c = c
      BY Zenon, <1>5, <3>3, <3>4
    <3> QED BY Zenon, <3>1, <3>2, <3>3, <3>5, ReleasedMoves
  <2>2. CASE mine # {}
    <3>1. call.t # None
      BY Zenon, <2>2
    <3>2. call.t \in Threads /\ status'[call.t] = "RUNNING" /\ pc'[call.t] = "woken"
      BY Zenon, <1>3, <1>8, <2>2, <3>1 DEF Good, KeepsCore, Inside, threadVars
    <3> QED BY Zenon, <3>2 DEF Moves, InBarrier
  <2> QED BY Zenon, <2>1, <2>2
<1> QED BY Zenon, <1>10, <1>11, <1>13, <1>14, <1>15, <1>16 DEF Good

\* The while loop of barrierRelease(): no core is behind the next barrier time, or some are.
LEMMA BodyGood ==
    ASSUME Good, BodyStep
    PROVE  Good'
<1> DEFINE next == m_next_barrier_time + Interval
           R == Released(next)
           mine == {c \in R : call.t # None /\ m_core_thread[c] = call.t}
<1> USE DEF modeVars, threadVars
<1>1. /\ call.op = "body" /\ ~m_disable /\ ~m_fastforward /\ m_to_release = {} /\ next \in Nat
      /\ UNCHANGED <<m_local_clock_list, m_core_thread, modeVars, m_next_sync_time, threadVars, entry>>
  <2>1. next \in Nat
    BY BarrierAssumption DEF Good, TypeOK
  <2> QED BY Zenon, <2>1 DEF BodyStep, Good, CallShape
<1>2. \/ /\ call.until /\ call' = AfterRelease /\ pc' = CallerReturns(pc)
         /\ UNCHANGED <<timeVars, m_barrier_acquire_list, m_to_release, condVars>>
      \/ /\ call.until /\ Aborts(call)
         /\ UNCHANGED <<timeVars, m_barrier_acquire_list, m_to_release, condVars, pc>>
      \/ /\ m_next_barrier_time' = next /\ m_barrier_acquire_list' = StillWaiting(R)
         /\ IF R = {}
            THEN /\ m_global_time' = next
                 /\ call' = [call EXCEPT !.op = "timeouts"]
                 /\ UNCHANGED <<m_to_release, condVars, pc>>
            ELSE \E S \in SUBSET (R \ mine) :
                 /\ DoRelease(R \ mine, HostCores, S)
                 /\ m_to_release' = (R \ mine) \ S
                 /\ call' = AfterRelease
                 /\ UNCHANGED m_global_time
                 /\ IF call.t # None /\ mine = {}
                    THEN WaitOn(call.t, entry[call.t].c, S)
                    ELSE Signalled(S) /\ pc' = CallerReturns(PcWoken(S))
  <2>1. m_to_release \cup (R \ mine) = R \ mine
    BY Zenon, <1>1
  <2> HIDE DEF next, R, mine
  <2> QED BY Zenon, <1>1, <2>1 DEF BodyStep, next, R, mine
<1>3. ASSUME call.until, call' = AfterRelease, pc' = CallerReturns(pc),
             UNCHANGED <<timeVars, m_barrier_acquire_list, m_to_release, condVars>>
      PROVE  Good'
  <2>1. call.t = None /\ pc' = pc /\ \A c \in Cores : ~m_barrier_acquire_list[c]
    BY Zenon, <1>3 DEF CallerReturns, Good, CallShape, Seats, Seat
  <2>2. call'.t = None /\ call' \in CallType
    BY Zenon, <1>3, <2>1, CoresAreThreads DEF AfterRelease, NoCall, CallType, Good, TypeOK
  <2>3. IF call.by = None THEN call' = NoCall ELSE call'.op = "stalled" /\ call'.by = call.by
    BY Zenon, <1>3 DEF AfterRelease, Good, TypeOK
  <2>4. TypeOK' /\ Placed'
    <3>1. Placed'
      BY Zenon, <1>1 DEF Good, Placed
    <3> QED BY Zenon, <1>1, <1>3, <2>1, <2>2, <3>1 DEF Good, TypeOK, CallType, timeVars, condVars
  <2>5. CallShape'
    BY <1>1, <1>3, <2>1, <2>2, <2>3 DEF Good, CallShape, NoCall
  <2>6. KeepsCore'
    BY ZenonT(30), <1>1, <1>3, <2>1, <2>2 DEF Good, KeepsCore, Inside
  <2>7. Seats'
    <3>1. \A c \in Cores : Taken(c)' <=> Taken(c)
      BY Zenon, <1>1, <1>3, <2>1, <2>2 DEF Taken, Inside
    <3> QED BY Zenon, <1>1, <1>3, <2>1, <3>1 DEF Good, Seats, Seat, InBarrier, condVars
  <2>8. Moves'
    BY Zenon, <1>1, <1>3, <2>1, <2>4, <2>6, <2>7, BehindMoves
  <2> QED BY Zenon, <2>4, <2>5, <2>6, <2>7, <2>8 DEF Good
<1>4. ASSUME call.until, Aborts(call),
             UNCHANGED <<timeVars, m_barrier_acquire_list, m_to_release, condVars, pc>>
      PROVE  Good'
  <2>1. /\ call'.op = "abort" /\ call'.t = call.t /\ call'.by = call.by /\ call'.until /\ call' \in CallType
        /\ \A c \in Cores : ~m_barrier_acquire_list[c]
    BY Zenon, <1>4 DEF Aborts, CallType, Good, TypeOK, Seats, Seat
  <2>2. TypeOK' /\ Placed'
    BY Zenon, <1>1, <1>4, <2>1 DEF Good, TypeOK, Placed, CallType, timeVars, condVars
  <2>3. CallShape' /\ Moves'
    BY Zenon, <1>1, <1>4, <2>1 DEF Good, CallShape, Moves
  <2>4. KeepsCore'
    BY Zenon, <1>1, <1>4, <2>1 DEF Good, KeepsCore, Inside
  <2>5. Seats'
    BY Zenon, <1>1, <1>4, <2>1 DEF Good, Seats, Seat, Taken, Inside, InBarrier, condVars
  <2> QED BY Zenon, <2>2, <2>3, <2>4, <2>5 DEF Good
<1>5. ASSUME m_next_barrier_time' = next, m_barrier_acquire_list' = StillWaiting(R), R = {},
             m_global_time' = next, call' = [call EXCEPT !.op = "timeouts"],
             UNCHANGED <<m_to_release, condVars, pc>>
      PROVE  Good'
  <2>1. m_barrier_acquire_list' = m_barrier_acquire_list
    BY Zenon, <1>5 DEF StillWaiting, Good, TypeOK
  <2>2. /\ call' \in CallType /\ call'.t = call.t /\ call'.by = call.by /\ call'.until = call.until
        /\ call'.op = "timeouts"
    BY Zenon, <1>5 DEF CallType, Good, TypeOK
  <2> HIDE DEF next
  <2>3. /\ UNCHANGED <<servVars, modeVars, m_to_release, condVars, occupant, status, timeout, pc, entry>>
        /\ elapsed' \in [Cores -> Nat] /\ m_next_sync_time' \in [Cores -> Nat]
        /\ m_next_barrier_time' \in Nat /\ m_global_time' \in Nat
    BY Zenon, <1>1, <1>5, <2>1 DEF servVars, Good, TypeOK
  <2> QED BY Zenon, <1>1, <2>2, <2>3, SimulatesGood
<1>6. ASSUME m_next_barrier_time' = next, m_barrier_acquire_list' = StillWaiting(R), R # {},
             NEW S \in SUBSET (R \ mine),
             DoRelease(R \ mine, HostCores, S), m_to_release' = (R \ mine) \ S,
             call' = AfterRelease, UNCHANGED m_global_time,
             IF call.t # None /\ mine = {}
             THEN WaitOn(call.t, entry[call.t].c, S)
             ELSE Signalled(S) /\ pc' = CallerReturns(PcWoken(S))
      PROVE  Good'
  BY Zenon, <1>1, <1>6, ReleaseGood
<1> QED BY Zenon, <1>2, <1>3, <1>4, <1>5, <1>6

=============================================================================
