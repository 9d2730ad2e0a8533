---------------------------- MODULE RuntimeRemap ----------------------------
(***************************************************************************)
(* The runtime intervention of the modified scheduler (MODIFIED_CODE with  *)
(* general/runtime_intervention): threads are placed by the mapping file   *)
(* they are started with, and at every interval SchedulerPinnedBase::      *)
(* periodic() hands the power trace to HotSpot, writes the current mapping,*)
(* runs the algorithm, moves threads (changeMapping) and sets the cores'   *)
(* frequencies (updateDVFS, MagicServer::setFrequency, DvfsManager).       *)
(*                                                                         *)
(* All of it runs under the thread lock, so that a handler is one step: it *)
(* maps the scheduler's state, a record, to the next one.  A thread has    *)
(* affinity to one core, so that a resumed thread never finds another free *)
(* core.  What the algorithm answers is any of the given files.  Every     *)
(* core with a thread uses one unit of energy per barrier interval.        *)
(***************************************************************************)
EXTENDS Integers, Sequences, FiniteSets, SequencesExt, FiniteSetsExt

CONSTANTS AppOf,      \* the application of each thread, in order of creation
          NumCores,
          StartMap,   \* the mapping file: [<<app, rank>> |-> core]
          MoveFiles,  \* what the algorithm may answer: sequences of <<from, to>>
          DvfsFiles,  \* and the frequencies, a sequence over the cores
          CoresPerSocket,
          Quantum, Every,   \* in barrier intervals: m_quantum, m_interval
          Passes            \* bound: barrier intervals

Cores == 0 .. NumCores - 1
Threads == 0 .. Len(AppOf) - 1
NoThread == -1
NoCore == -1

Tick == 10            \* a barrier interval, in units of the penalty per core

MaxTime == 1000       \* SubsecondTime::MaxTime()

VARIABLES created,    \* how many threads there are
          s,          \* the scheduler's and the threads' state
          time,       \* the barrier's time
          lastRemap,  \* m_last_periodic_interval
          trace,      \* the rows of the power trace
          given       \* the rows HotSpot has read

vars == <<created, s, time, lastRemap, trace, given>>

\* The fields of s: status of a thread ("none", "init", "run", "unsched",
\* "futex", "broken", "exit"), asleep (what its host thread waits for),
\* runnable, aff (its core), running (m_core_running), in and out
\* (m_last_scheduled_*), rank; per core: on (m_core_thread_running), left
\* (m_quantum_left), core (its state), list (threads_on_core), delay (queued
\* transitions), prev (m_energy_core_previous), energy; per domain: freq.

-----------------------------------------------------------------------------
(* Placing threads. *)

Free(st, t) == st.on[st.aff[t]] = NoThread

\* Mutant: a thread running elsewhere is a candidate.
Candidates_Elsewhere(st, c) == {t \in Threads : st.aff[t] = c /\ st.runnable[t]}

Candidates(st, c) == {t \in Threads : st.aff[t] = c /\ st.runnable[t] /\ st.running[t] \in {NoCore, c}}

Score(st, t, tm) == IF st.running[t] # NoCore THEN st.in[t] - tm ELSE tm - st.out[t]

\* The candidate with the highest score, the first of them.
Best(st, c, tm) ==
  LET cs == Candidates(st, c)
      top == {t \in cs : \A u \in cs : Score(st, u, tm) <= Score(st, t, tm)}
  IN IF cs = {} THEN NoThread ELSE Min(top)

\* time + PS(core), in 64 bits.
Penalised(tm, c) == IF tm = MaxTime /\ c > 0 THEN c - 1 ELSE tm + c

\* reschedule: the thread that leaves, then the one that arrives.  An arriving
\* thread that waits to be scheduled is woken up.
Left(st, t, c, tm) ==
  IF t = NoThread THEN st
  ELSE [st EXCEPT !.running[t] = NoCore, !.out[t] = Penalised(tm, c),
                  !.core[c] = IF st.status[t] = "exit" THEN @ ELSE "IDLE"]

Arrived(st, t, c, tm) ==
  IF t = NoThread THEN [st EXCEPT !.on[c] = NoThread]
  ELSE [st EXCEPT !.on[c] = t, !.running[t] = c, !.in[t] = tm, !.core[c] = "RUNNING",
                  !.status[t] = IF @ = "unsched" THEN "run" ELSE @,
                  !.asleep[t] = IF st.status[t] = "unsched" THEN "no" ELSE @]

Resched(st, c, tm) ==
  LET old == st.on[c]
      new == Best(st, c, tm)
      moved == IF old = new THEN st ELSE Arrived(Left(st, old, c, tm), new, c, tm)
  IN IF old # NoThread /\ st.status[old] = "init" THEN st
     ELSE [moved EXCEPT !.left[c] = Quantum * Tick]

ReschedFree(st, t, tm) == IF Free(st, t) THEN Resched(st, st.aff[t], tm) ELSE st

ReschedOwn(st, t, tm) == IF st.running[t] # NoCore THEN Resched(st, st.running[t], tm) ELSE st

-----------------------------------------------------------------------------
(* What threads do. *)

RankOf(t) == Cardinality({u \in 0 .. t - 1 : AppOf[u + 1] = AppOf[t + 1]})

\* A thread that is not in the mapping file goes to core 0.
CoreOf(t) ==
  LET key == <<AppOf[t + 1], RankOf(t)>>
  IN IF key \in DOMAIN StartMap THEN StartMap[key] ELSE 0

\* threadSetInitialAffinity, threadCreate.
Create ==
  /\ created < Len(AppOf)
  /\ created' = created + 1
  /\ LET t == created
         c == CoreOf(t)
         st == [s EXCEPT !.status[t] = "init", !.aff[t] = c, !.rank[t] = RankOf(t),
                         !.list[c] = Append(@, t)]
     IN s' = IF Free(st, t)
             THEN [st EXCEPT !.running[t] = c, !.on[c] = t, !.left[c] = Quantum * Tick,
                             !.core[c] = "INITIALIZING"]
             ELSE st
  /\ UNCHANGED <<time, lastRemap, trace, given>>

\* onThreadStart.
Start(t) ==
  /\ s.status[t] = "init"
  /\ LET st == ReschedFree([s EXCEPT !.status[t] = "run", !.runnable[t] = TRUE], t, time)
     IN s' = IF st.running[t] # NoCore THEN [st EXCEPT !.core[st.running[t]] = "RUNNING"]
             ELSE [st EXCEPT !.status[t] = "unsched", !.asleep[t] = "unsched"]
  /\ UNCHANGED <<created, time, lastRemap, trace, given>>

InUser(t) == s.status[t] \in {"run", "broken"} /\ s.asleep[t] = "no"

Stall(t) ==
  /\ InUser(t)
  /\ s.status[t] = "run"
  /\ s.running[t] # NoCore
  /\ s' = ReschedOwn([s EXCEPT !.status[t] = "futex", !.runnable[t] = FALSE, !.asleep[t] = "futex"],
                     t, time)
  /\ UNCHANGED <<created, time, lastRemap, trace, given>>

Resume(t) ==
  /\ s.asleep[t] = "futex"
  /\ s' = ReschedFree([s EXCEPT !.status[t] = "run", !.runnable[t] = TRUE, !.asleep[t] = "no"],
                      t, time)
  /\ UNCHANGED <<created, time, lastRemap, trace, given>>

\* Thread::reschedule of a thread that lost its core.
Notice(t) ==
  /\ InUser(t)
  /\ s.running[t] = NoCore
  /\ s' = [s EXCEPT !.status[t] = "unsched", !.asleep[t] = "unsched"]
  /\ UNCHANGED <<created, time, lastRemap, trace, given>>

Exit(t) ==
  /\ InUser(t)
  /\ s.status[t] = "run"
  /\ s.running[t] # NoCore
  /\ s' = ReschedOwn([s EXCEPT !.status[t] = "exit", !.runnable[t] = FALSE,
                               !.core[s.running[t]] = "IDLE"], t, time)
  /\ UNCHANGED <<created, time, lastRemap, trace, given>>

-----------------------------------------------------------------------------
(* The intervention. *)

\* A thread moved to another core: told to leave the core it runs on, or
\* placed at once when it waits and the new core is free.
Moved(st, t, to, tm) ==
  LET st1 == [st EXCEPT !.aff[t] = to]
  IN IF st1.running[t] \notin {NoCore, to} THEN [st1 EXCEPT !.left[st1.running[t]] = 0]
     ELSE IF st1.runnable[t] /\ st1.running[t] = NoCore THEN ReschedFree(st1, t, tm)
     ELSE st1

\* changeMapping: the lists of the cores that are moved away from are emptied
\* and collected, and appended once all moves are done.
ChangeMapping(st, moves, tm) ==
  LET start == [st |-> st, temp |-> [c \in Cores |-> <<>>]]
      one(acc, m) ==
        LET ts == acc.st.list[m[1]]
        IN [st |-> [FoldLeft(LAMBDA a, t : Moved(a, t, m[2], tm), acc.st, ts) EXCEPT !.list[m[1]] = <<>>],
            temp |-> [acc.temp EXCEPT ![m[2]] = @ \o ts]]
      end == FoldLeft(one, start, moves)
  IN [end.st EXCEPT !.list = [c \in Cores |-> @[c] \o end.temp[c]]]

Domain(c) == c \div CoresPerSocket

\* DvfsManager::setCoreDomain.
SetCoreDomain(st, c, f) ==
  [st EXCEPT !.freq[Domain(c)] = f, !.delay[c] = IF f # st.freq[Domain(c)] THEN @ + 1 ELSE @]

\* setFrequency: a core without frequency is broken.  Stalls the thread whose
\* number is the core's; for a number without a thread, nothing the model
\* has is changed.
SetFrequency(st, c, f) ==
  IF f > 0 THEN SetCoreDomain(st, c, f)
  ELSE LET st1 == IF c < created
                  THEN ReschedOwn([st EXCEPT !.status[c] = "broken", !.runnable[c] = FALSE], c, MaxTime)
                  ELSE st
       IN [st1 EXCEPT !.core[c] = "BROKEN"]

UpdateDVFS(st, fs) ==
  FoldLeft(LAMBDA a, k : SetFrequency(a, k - 1, fs[k]), st, [k \in 1 .. NumCores |-> k])

-----------------------------------------------------------------------------
(* The barrier. *)

Used(st, c) == IF st.on[c] # NoThread THEN 1 ELSE 0

\* One core's turn of periodic(): its energy since the last time, and its
\* quantum.
Turn(st, c, tm) ==
  LET st1 == [st EXCEPT !.prev[c] = st.energy[c]]
  IN IF Tick > st.left[c] \/ st.on[c] = NoThread THEN Resched(st1, c, tm)
     ELSE [st1 EXCEPT !.left[c] = @ - Tick]

Pass(st, tm) == FoldLeft(LAMBDA a, k : Turn(a, k - 1, tm), st, [k \in 1 .. NumCores |-> k])

Row(st) == [c \in Cores |-> st.energy[c] - st.prev[c]]

\* periodic(): the intervention first, when it is due, then every core's turn
\* and its column of a new row of the trace.
Periodic ==
  /\ time < Passes * Tick
  /\ LET tm == time + Tick
         due == tm >= lastRemap + Every * Tick
         used == [s EXCEPT !.energy = [c \in Cores |-> @[c] + Used(s, c)]]
     IN /\ time' = tm
        /\ lastRemap' = IF due THEN tm ELSE lastRemap
        /\ given' = IF due THEN given \o trace ELSE given
        /\ trace' = Append(IF due THEN <<>> ELSE trace, Row(used))
        /\ IF due
           THEN \E moves \in MoveFiles, fs \in DvfsFiles :
                  s' = Pass(UpdateDVFS(ChangeMapping(used, moves, tm), fs), tm)
           ELSE s' = Pass(used, tm)
  /\ UNCHANGED created

-----------------------------------------------------------------------------

Init ==
  /\ created = 0
  /\ s = [status |-> [t \in Threads |-> "none"], asleep |-> [t \in Threads |-> "no"],
          runnable |-> [t \in Threads |-> FALSE], aff |-> [t \in Threads |-> NoCore],
          running |-> [t \in Threads |-> NoCore], in |-> [t \in Threads |-> 0],
          out |-> [t \in Threads |-> 0], rank |-> [t \in Threads |-> 0],
          on |-> [c \in Cores |-> NoThread], left |-> [c \in Cores |-> 0],
          core |-> [c \in Cores |-> "IDLE"], list |-> [c \in Cores |-> <<>>],
          delay |-> [c \in Cores |-> 0], prev |-> [c \in Cores |-> 0],
          energy |-> [c \in Cores |-> 0], freq |-> [d \in {Domain(c) : c \in Cores} |-> 1]]
  /\ time = 0
  /\ lastRemap = 0
  /\ trace = <<>>
  /\ given = <<>>

Next ==
  \/ Create
  \/ Periodic
  \/ \E t \in Threads : Start(t) \/ Stall(t) \/ Resume(t) \/ Notice(t) \/ Exit(t)

Spec == Init /\ [][Next]_vars

-----------------------------------------------------------------------------
(* Properties. *)

\* The current mapping file's entries (print_core_thread_map).
MapFile == {<<c, k>> \in Cores \X (1 .. Len(AppOf)) : k <= Len(s.list[c])}

\* However the algorithm's moves are chained (swaps, cycles, a core moved away
\* from twice), every thread is listed once, on the core it has affinity to,
\* and no two entries of the mapping file name the same application and rank.
ListedOnce ==
  /\ \A t \in 0 .. created - 1 :
       Cardinality({e \in MapFile : s.list[e[1]][e[2]] = t}) = 1
  /\ \A e \in MapFile :
       LET t == s.list[e[1]][e[2]]
       IN s.aff[t] = e[1] /\ \A d \in MapFile :
            LET u == s.list[d[1]][d[2]]
            IN d # e => <<AppOf[t + 1], s.rank[t]>> # <<AppOf[u + 1], s.rank[u]>>

\* Threads and cores agree on who runs where, in spite of the reschedulings in
\* the middle of a change of mapping.
PlacesAgree ==
  /\ \A t \in Threads : s.running[t] # NoCore => s.on[s.running[t]] = t
  /\ \A c \in Cores : s.on[c] # NoThread => s.running[s.on[c]] = c

\* After the barrier no thread runs on a core it was moved away from, unless
\* it is starting up there.
MovedAtBarrierStep ==
  time' # time => \A t \in Threads :
    s'.running[t] \in {NoCore, s'.aff[t]} \/ s'.status[t] = "init"

\* After the barrier a core is idle while a thread waits for it only if that
\* thread was taken from a core with a higher number in this very pass, whose
\* turn came later.
IdleOnlyForMovedDownStep ==
  time' # time => \A t \in Threads :
    s'.runnable[t] /\ s'.running[t] = NoCore /\ s'.on[s'.aff[t]] = NoThread
      => s.running[t] > s'.aff[t]

\* A domain's frequency changes only when one of its cores pays the transition.
TransitionsPaidStep ==
  \A d \in DOMAIN s.freq : s'.freq[d] # s.freq[d] =>
    \E c \in Cores : Domain(c) = d /\ s'.delay[c] > s.delay[c]

\* Every unit of energy is in one row of one trace, for its core: reopening the
\* trace between HotSpot and the row of this pass loses and repeats nothing.
EnergyReportedOnce ==
  \A c \in Cores : s.prev[c] = FoldLeft(LAMBDA acc, row : acc + row[c], 0, given \o trace)

=============================================================================
