----------------------------- MODULE ThreadStats -----------------------------
(***************************************************************************)
(* The statistics per thread (thread_stats_manager.cc) and the data of     *)
(* bottle graphs (bottlegraph.cc), updated from the hooks the thread       *)
(* manager calls when a thread is created, starts, stalls, resumes, exits, *)
(* and before statistics are written.  One metric, the instruction count   *)
(* of the thread's core, stands for all; time is in units, and an event    *)
(* carries the clock of the core it happens on, which may lag by skew.     *)
(***************************************************************************)
EXTENDS Integers, FiniteSets, FiniteSetsExt, Functions

CONSTANTS
    Threads, Cores,
    Skews,       \* how far the time of an event may lag behind the clock
    MaxTime,     \* bound on the clock
    MaxEvents    \* bound on the number of events

NoCore == -1

VARIABLES
    status,      \* thread -> status and stall reason
    core,        \* thread -> core it is on, or NoCore
    insn,        \* core -> instructions executed on it
    now,         \* the clock
    skew,        \* the lag of this run
    events,      \* events so far
    stats,       \* thread -> its ThreadStats
    waiting,     \* m_waiting_time_last
    bottle,      \* the BottleGraphManager
    truth        \* thread -> what really happened to it

vars == <<status, core, insn, now, skew, events, stats, waiting, bottle, truth>>

Created == {t \in Threads : status[t] # "none"}

NewStats == [m_core_id |-> NoCore, insn |-> 0, elapsed |-> 0, unscheduled |-> 0,
             m_time_last |-> 0, m_last |-> 0, waiting_cost |-> 0]

Init ==
    /\ status = [t \in Threads |-> "none"]
    /\ core = [t \in Threads |-> NoCore]
    /\ insn = [c \in Cores |-> 0]
    /\ now = 0
    /\ skew \in Skews
    /\ events = 0
    /\ stats = [t \in Threads |-> NewStats]
    /\ waiting = 0
    /\ bottle = [m_running |-> [t \in Threads |-> FALSE], m_time_last |-> 0,
                 m_contrib |-> [t \in Threads |-> 0], m_runtime |-> [t \in Threads |-> 0]]
    /\ truth = [t \in Threads |-> [insn |-> 0, runnable |-> 0, fixed |-> TRUE]]

-----------------------------------------------------------------------------

Updated(s, st, at, time, init) ==
    IF st \in {"idle", "initializing"} THEN s
    ELSE LET delta == IF init \/ s.m_time_last > time THEN 0 ELSE time - s.m_time_last
         IN  [s EXCEPT !.elapsed = @ + delta,
                       !.unscheduled = IF s.m_core_id = NoCore THEN @ + delta ELSE @,
                       !.insn = IF s.m_core_id = NoCore THEN @
                                ELSE @ + (insn[s.m_core_id] - s.m_last),
                       !.m_core_id = at,
                       !.m_last = IF at = NoCore THEN @ ELSE insn[at],
                       !.m_time_last = Max({@, time})]

(* calculateWaitingCosts with the statuses st: whoever neither runs nor    *)
(* waits for a core counts as stalled.                                     *)
WithWaitingCosts(ss, st, time) ==
    LET there == {t \in Threads : st[t] # "none"}
        running == {t \in there : st[t] = "running"}
        stalled == there \ (running \cup {t \in there : st[t] = "unscheduled"})
        cost == ((Cardinality(Cores) - Cardinality(running)) * (time - waiting))
                    \div Cardinality(stalled)
    IN  IF time > waiting /\ stalled # {} /\ Cardinality(running) <= Cardinality(Cores)
        THEN [t \in Threads |->
                IF t \in stalled THEN [ss[t] EXCEPT !.waiting_cost = @ + cost] ELSE ss[t]]
        ELSE ss

(* BottleGraphManager::update; thread t takes the state running.           *)

BottleAt(b, time) ==
    LET running == {t \in Threads : b.m_running[t]}
        delta == time - b.m_time_last
    IN  IF time <= b.m_time_last THEN b
        ELSE [b EXCEPT !.m_time_last = time,
                !.m_contrib = [t \in Threads |->
                    IF t \in running THEN @[t] + (delta \div Cardinality(running)) ELSE @[t]],
                !.m_runtime = [t \in Threads |->
                    IF t \in running THEN @[t] + delta ELSE @[t]]]

BottleUpdate(b, time, t, running) == [BottleAt(b, time) EXCEPT !.m_running[t] = running]

BottleStart(b, t) == [b EXCEPT !.m_contrib[t] = 0, !.m_runtime[t] = 0]

(* The hook of an event of thread t at that time, which has changed the    *)
(* statuses to st already.                                                 *)
Hook(st, t, time) ==
    /\ stats' = [WithWaitingCosts(stats, st, time) EXCEPT
                    ![t] = Updated(@, st[t], core'[t], time, FALSE)]
    /\ waiting' = Max({waiting, time})

-----------------------------------------------------------------------------
Times == {time \in 0 .. now : time + skew >= now}

FreeCores == Cores \ {core[t] : t \in Threads}

(* createThread: the scheduler has a core for the thread, or none.         *)
ThreadCreate(t, c) ==
    /\ status[t] = "none" /\ c \in FreeCores \cup {NoCore}
    /\ status' = [status EXCEPT ![t] = "initializing"]
    /\ core' = [core EXCEPT ![t] = c]
    /\ stats' = [stats EXCEPT ![t] = NewStats]
    /\ UNCHANGED <<insn, now, skew, waiting, bottle, truth>>

ThreadStart(t, time) ==
    /\ status[t] = "initializing"
    /\ status' = [status EXCEPT ![t] = IF core[t] = NoCore THEN "unscheduled" ELSE "running"]
    /\ stats' = [stats EXCEPT ![t] = Updated(@, "running", core[t], time, TRUE)]
    /\ bottle' = BottleUpdate(BottleStart(bottle, t), time, t, TRUE)
    /\ UNCHANGED <<core, insn, now, skew, waiting, truth>>

(* stallThread for a futex, a join, a sleep: the core stays assigned.      *)
ThreadStall(t, time) ==
    /\ status[t] = "running" /\ core[t] # NoCore
    /\ status' = [status EXCEPT ![t] = "stalled"]
    /\ UNCHANGED core
    /\ Hook(status', t, time)
    /\ bottle' = BottleUpdate(bottle, time, t, FALSE)
    /\ UNCHANGED <<insn, now, skew, truth>>

(* A thread that finds itself without a core stalls as unscheduled.        *)
StallUnscheduled(t, time) ==
    /\ status[t] = "running" /\ core[t] = NoCore
    /\ status' = [status EXCEPT ![t] = "unscheduled"]
    /\ UNCHANGED core
    /\ Hook(status', t, time)
    /\ UNCHANGED <<insn, now, skew, bottle, truth>>

ThreadResume(t, time) ==
    /\ status[t] = "stalled"
    /\ status' = [status EXCEPT ![t] = "running"]
    /\ UNCHANGED core
    /\ Hook(status', t, time)
    /\ bottle' = BottleUpdate(bottle, time, t, TRUE)
    /\ UNCHANGED <<insn, now, skew, truth>>

(* moveThread: an unscheduled thread is resumed before it gets its core;   *)
(* nothing hooks the migration itself.                                     *)
MoveThread(t, c, time) ==
    /\ status[t] \in {"running", "stalled", "unscheduled"}
    /\ c # core[t] /\ c \in FreeCores \cup {NoCore}
    /\ IF status[t] = "unscheduled"
       THEN /\ status' = [status EXCEPT ![t] = "running"]
            /\ stats' = [WithWaitingCosts(stats, status', time) EXCEPT
                            ![t] = Updated(@, "running", NoCore, time, FALSE)]
            /\ waiting' = Max({waiting, time})
            /\ bottle' = BottleUpdate(bottle, time, t, TRUE)
       ELSE UNCHANGED <<status, stats, waiting, bottle>>
    /\ core' = [core EXCEPT ![t] = c]
    /\ truth' = [truth EXCEPT ![t].fixed = FALSE]
    /\ UNCHANGED <<insn, now, skew>>

(* onThreadExit: the thread is idle and off its core before the hook.      *)
ThreadExit(t, time) ==
    /\ status[t] = "running" /\ core[t] # NoCore
    /\ status' = [status EXCEPT ![t] = "idle"]
    /\ core' = [core EXCEPT ![t] = NoCore]
    /\ Hook(status', t, time)
    /\ bottle' = BottleUpdate(bottle, time, t, FALSE)
    /\ UNCHANGED <<insn, now, skew, truth>>

PreStatWrite ==
    /\ LET charged == WithWaitingCosts(stats, status, now) IN
       stats' = [t \in Threads |->
          IF t \in Created THEN Updated(charged[t], status[t], core[t], now, FALSE) ELSE charged[t]]
    /\ waiting' = Max({waiting, now})
    /\ bottle' = BottleAt(bottle, now)
    /\ UNCHANGED <<status, core, insn, now, skew, truth>>

(* A unit of time passes; the threads in ts execute an instruction each.   *)
Tick(ts) ==
    /\ now < MaxTime
    /\ \A t \in ts : status[t] = "running" /\ core[t] # NoCore
    /\ now' = now + 1
    /\ insn' = [c \in Cores |-> IF \E t \in ts : core[t] = c THEN insn[c] + 1 ELSE insn[c]]
    /\ truth' = [t \in Threads |->
          [truth[t] EXCEPT !.insn = IF t \in ts THEN @ + 1 ELSE @,
                           !.runnable = IF status[t] \in {"running", "unscheduled"}
                                        THEN @ + 1 ELSE @]]
    /\ UNCHANGED <<status, core, skew, events, stats, waiting, bottle>>

Event ==
    /\ events < MaxEvents
    /\ events' = events + 1
    /\ \/ \E t \in Threads, c \in Cores \cup {NoCore} : ThreadCreate(t, c)
       \/ \E t \in Threads, time \in Times :
             \/ ThreadStart(t, time) \/ ThreadStall(t, time) \/ StallUnscheduled(t, time)
             \/ ThreadResume(t, time) \/ ThreadExit(t, time)
             \/ \E c \in Cores \cup {NoCore} : MoveThread(t, c, time)
       \/ PreStatWrite

Next ==
    \/ Event
    \/ \E ts \in SUBSET Threads : Tick(ts)

Spec == Init /\ [][Next]_vars

-----------------------------------------------------------------------------
Sum(f) == FoldFunction(LAMBDA x, y : x + y, 0, f)

(* A thread that stays on the core it was created on is charged every      *)
(* instruction it executes once, while it lives: what ThreadStats::update  *)
(* has added up, and what the core did since its snapshot.                 *)
InstructionsCountedOnce ==
    \A t \in Threads :
        status[t] \in {"running", "stalled"} /\ truth[t].fixed =>
            stats[t].insn + (insn[core[t]] - stats[t].m_last) = truth[t].insn

(* No matter in which order events with lagging clocks arrive, a thread's  *)
(* elapsed time never exceeds the time that passed, and the time it was    *)
(* without a core is part of it.                                           *)
ElapsedIsBounded ==
    \A t \in Threads : stats[t].unscheduled <= stats[t].elapsed /\ stats[t].elapsed <= now

(* The bottle graph shares out no more time than has passed, and a thread  *)
(* is never given more than it ran (BottleGraphManager::update).           *)
SharesFit ==
    /\ Sum(bottle.m_contrib) <= bottle.m_time_last
    /\ \A t \in Threads : bottle.m_contrib[t] <= bottle.m_runtime[t]

(* With clocks in step, a thread's run time in the bottle graph is the     *)
(* time it ran or waited for a core, up to the last update.                *)
RuntimeIsExact ==
    skew = 0 => \A t \in Threads :
        bottle.m_runtime[t] + (IF bottle.m_running[t] THEN now - bottle.m_time_last ELSE 0)
        = truth[t].runnable
=============================================================================
