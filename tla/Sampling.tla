------------------------------ MODULE Sampling ------------------------------
(***************************************************************************)
(* Sampled simulation: SamplingManager with PeriodicSampling switches all  *)
(* cores between detailed simulation, fast-forwarding and cache warmup.    *)
(* PerformanceModel and FastforwardPerformanceModel keep the time of a     *)
(* core and the stack that says where it went, Core counts instructions    *)
(* and calls back after a given number of them, and the barrier of         *)
(* BarrierSyncServer calls the sampling algorithm when every running core  *)
(* has arrived.  A behaviour has one configuration cfg; s is the rest.     *)
(***************************************************************************)
EXTENDS Integers, FiniteSets

CONSTANTS
    Cores,
    Configs,     \* records with detailed, ff, sync, warmup, detailedWarmup, detailedSync, uncoordinated
    Quantum,     \* the interval of the barrier
    Period,      \* the period of a core's clock
    Costs,       \* the costs of an instruction in detailed mode
    Width,       \* dispatch width: the highest rate of a core is Width per period
    MaxTime,     \* bound: no core runs beyond this time
    MaxStalls    \* bound: how often threads go to sleep

VARIABLES cfg, s

vars == <<cfg, s>>

NoCallback == -1
Maximum(S) == CHOOSE x \in S : \A y \in S : y <= x
MaxOf(x, y) == IF x < y THEN y ELSE x
MinOf(x, y) == IF x < y THEN x ELSE y
Rounded(t, by) == (t + by \div 2) \div by
Running(t) == {c \in Cores : t.core[c].run = "running"}

-----------------------------------------------------------------------------
(* PerformanceModel, FastforwardPerformanceModel *)

\* incrementIdleElapsedTime
Idle(r, time, component) ==
    [r EXCEPT !.elapsed = @ + time, !.idle = @ + time, !.stack[component] = @ + time]

Forwarded(r, time) == [r EXCEPT !.elapsed = @ + time, !.stack.ff = @ + time]

SetInstructionsCallback(r, n) == [r EXCEPT !.callback = r.count + n]

\* SamplingManager::recalibrateInstructionsCallback; a CPI of 0 counts as one per cycle.
Recalibrated(r, target) ==
    IF r.elapsed > target THEN SetInstructionsCallback(r, 1)
    ELSE SetInstructionsCallback(r, Rounded(target - r.elapsed, IF r.cpi = 0 THEN Period ELSE r.cpi))

\* handleIdleInstruction for a SyncInstruction, the end of a wait at "until"
HandleSync(t, r, until) ==
    IF t.ff /\ ~cfg.detailedSync THEN r
    ELSE LET q == Idle(r, MaxOf(0, until - r.elapsed), "sync")
         IN  IF t.ff THEN Recalibrated(q, t.target) ELSE q

\* setElapsedTime for a SpawnInstruction
HandleSpawn(t, r, time) ==
    LET q == Idle(r, time - r.elapsed, IF r.elapsed > 0 THEN "sync" ELSE "start")
    IN  IF t.ff THEN Recalibrated(q, t.target) ELSE q

-----------------------------------------------------------------------------
(* SamplingManager *)

ResetHistoricCPIs(t) ==
    [t EXCEPT !.core = [c \in Cores |->
        [t.core[c] EXCEPT !.insns0 = t.core[c].insns, !.total0 = t.core[c].elapsed,
                          !.busy0 = t.core[c].elapsed - t.core[c].idle]]]

\* getCoreHistoricCPI: nothing executed, too little of it, or the CPI since the reset
HistoricCPI(r) ==
    LET time == IF cfg.detailedSync THEN r.elapsed - r.idle - r.busy0 ELSE r.elapsed - r.total0
    IN  IF r.insns = r.insns0 \/ time <= cfg.detailed \div 5 THEN 0 ELSE time \div (r.insns - r.insns0)

EnableFastForward_Running(t, until, warmup) ==
    [t EXCEPT !.ff = TRUE, !.warmup = warmup, !.target = until,
        !.core = [c \in Cores |-> IF c \in Running(t) THEN Recalibrated(t.core[c], until) ELSE t.core[c]],
        !.barFf = TRUE,
        !.next = MaxOf(@, Maximum({t.core[c].elapsed : c \in Cores})),
        !.asked = @ + until - t.now]

EnableFastForward(t, until, warmup) ==
    [t EXCEPT !.ff = TRUE, !.warmup = warmup, !.target = until,
        !.core = [c \in Cores |-> Recalibrated(t.core[c], until)],
        !.barFf = TRUE,
        !.next = MaxOf(@, Maximum({t.core[c].elapsed : c \in Cores})),
        !.asked = @ + until - t.now]

\* In uncoordinated mode every core is put forward to the front one.
DisableFastForward(t) ==
    LET front == Maximum({0} \cup {t.core[c].elapsed : c \in Running(t)})
        off == [c \in Cores |-> [t.core[c] EXCEPT !.callback = NoCallback]]
    IN  [t EXCEPT !.ff = FALSE, !.warmup = FALSE,
            !.core = IF cfg.uncoordinated
                     THEN [c \in Cores |-> Forwarded(off[c], front - off[c].elapsed)] ELSE off,
            !.barFf = FALSE,
            !.next = MaxOf(@, front)]

-----------------------------------------------------------------------------
(* PeriodicSampling *)

NextCPI(r) ==
    LET seen == IF HistoricCPI(r) = 0 THEN r.seen ELSE HistoricCPI(r)
        mean == IF seen = 0 THEN Period ELSE seen
    IN  [r EXCEPT !.seen = seen, !.cpi = MinOf(MaxOf(mean, Period \div Width), 100 * Period)]

StepFastForward(t, time) ==
    IF t.ffLeft > 0
    THEN EnableFastForward([t EXCEPT !.ffLeft = @ - MinOf(@, cfg.sync)], time + MinOf(t.ffLeft, cfg.sync), FALSE)
    ELSE EnableFastForward([t EXCEPT !.warmLeft = @ - MinOf(@, cfg.sync)], time + MinOf(t.warmLeft, cfg.sync), TRUE)

CallbackDetailed(t, time) ==
    IF time > t.last + cfg.detailed
    THEN LET u == [t EXCEPT !.ok = @ /\ t.dwLeft = 0,
                            !.core = [c \in Cores |-> NextCPI(t.core[c])],
                            !.ffLeft = cfg.ff, !.warmLeft = cfg.warmup, !.asked = 0]
         IN  [StepFastForward(u, time) EXCEPT !.last = time]
    ELSE IF t.dwLeft > 0 /\ time > t.last + cfg.detailedWarmup
    THEN [ResetHistoricCPIs(t) EXCEPT !.dwLeft = 0]
    ELSE t

CallbackFastForward(t, time) ==
    IF t.ffLeft > 0 \/ t.warmLeft > 0 THEN StepFastForward(t, time)
    ELSE [DisableFastForward(ResetHistoricCPIs(t)) EXCEPT !.last = time, !.dwLeft = cfg.detailedWarmup]

Periodic(t, time) ==
    IF t.ff THEN CallbackFastForward([t EXCEPT !.now = time], time)
    ELSE CallbackDetailed([t EXCEPT !.now = time], time)

-----------------------------------------------------------------------------
(* BarrierSyncServer, as far as sampling uses it *)

Reached(t) ==
    IF t.barFf
    THEN (\E c \in Cores : t.core[c].at) /\ \A c \in Running(t) : t.core[c].at
    ELSE Running(t) # {} /\ \A c \in Running(t) : t.core[c].clock >= t.next

\* The loop of barrierRelease: one call of the algorithm for each quantum,
\* until some core that waits is released.
RECURSIVE ReleaseLoop(_)
ReleaseLoop(t) ==
    LET u == Periodic(t, t.next)
        v == [u EXCEPT !.next = @ + Quantum]
        free == {c \in Cores : v.core[c].at /\ v.core[c].clock < v.next}
    IN  IF free = {} THEN ReleaseLoop(v)
        ELSE [v EXCEPT !.core = [c \in Cores |-> [v.core[c] EXCEPT !.at = @ /\ c \notin free]]]

BarrierRelease(t) ==
    ReleaseLoop(IF t.barFf
                THEN [t EXCEPT !.next = Maximum({@} \cup {t.core[c].clock : c \in Cores})] ELSE t)

Signal(t) == IF Reached(t) THEN BarrierRelease(t) ELSE t

ServerSynchronize(t, c) ==
    IF t.core[c].elapsed < t.next /\ ~t.barFf THEN t
    ELSE Signal([t EXCEPT !.core[c].at = TRUE, !.core[c].clock = t.core[c].elapsed])

\* BarrierSyncClient::synchronize, at its own pace or with ignore_time
Synchronize(t, c, ignoreTime) ==
    IF t.core[c].elapsed >= t.core[c].sync \/ ignoreTime
    THEN ServerSynchronize([t EXCEPT !.core[c].sync = (t.core[c].elapsed \div Quantum) * Quantum + Quantum], c)
    ELSE t

-----------------------------------------------------------------------------
(* Core::countInstructions, with SamplingManager::instr_count as its hook *)

InstrCount(t, c) ==
    LET all == [d \in Cores |-> IF cfg.uncoordinated THEN SetInstructionsCallback(t.core[d], 1) ELSE t.core[d]]
    IN  IF t.ff THEN Synchronize([t EXCEPT !.core = all], c, TRUE) ELSE t

CountInstructions(t, c, n) ==
    LET u == [t EXCEPT !.core[c] =
                  [(IF t.ff THEN Forwarded(@, n * @.cpi) ELSE @) EXCEPT !.count = @ + n]]
    IN  IF u.core[c].callback # NoCallback /\ u.core[c].count >= u.core[c].callback
        THEN InstrCount([u EXCEPT !.core[c].callback = NoCallback], c) ELSE u

-----------------------------------------------------------------------------
Active(c) == s.core[c].run = "running" /\ ~s.core[c].at /\ s.core[c].elapsed < MaxTime

\* An instruction in detailed mode: the timing model, then iterate() and synchronize().
Execute(c, cost) ==
    /\ Active(c) /\ ~s.ff
    /\ LET r == s.core[c]
           u == [s EXCEPT !.core[c] = [r EXCEPT !.elapsed = @ + cost, !.stack.exec = @ + cost, !.insns = @ + 1]]
       IN  s' = Synchronize(CountInstructions(u, c, 1), c, FALSE)

\* A basic block in fast-forward mode
FastForward(c, n) ==
    /\ Active(c) /\ s.ff
    /\ s' = CountInstructions(s, c, n)

Stall(c) ==
    /\ Active(c) /\ Running(s) # {c} /\ s.stalls < MaxStalls
    /\ s' = Signal([s EXCEPT !.core[c].run = "stalled", !.stalls = @ + 1])

\* c goes on at the time of the core w that wakes it, or starts a thread on it.
Wake(c, w) ==
    /\ Active(w) /\ s.core[c].run = "stalled"
    /\ s' = [s EXCEPT !.core[c] = [HandleSync(s, @, s.core[w].elapsed) EXCEPT !.run = "running"]]

Spawn(c, w) ==
    /\ Active(w) /\ s.core[c].run = "free" /\ s.core[w].elapsed >= s.core[c].elapsed
    /\ s' = [s EXCEPT !.core[c] = [HandleSpawn(s, @, s.core[w].elapsed) EXCEPT !.run = "running"]]

NewCore(run) ==
    [run |-> run, elapsed |-> 0, idle |-> 0, stack |-> [start |-> 0, sync |-> 0, exec |-> 0, ff |-> 0],
     count |-> 0, callback |-> NoCallback, cpi |-> 0, seen |-> 0, insns |-> 0, insns0 |-> 0,
     total0 |-> 0, busy0 |-> 0, at |-> FALSE, clock |-> 0, sync |-> Quantum]

Init ==
    /\ cfg \in Configs
    /\ s = [core |-> [c \in Cores |-> NewCore(IF c = 0 THEN "running" ELSE "free")],
            next |-> Quantum, barFf |-> FALSE, ff |-> FALSE, warmup |-> FALSE, target |-> 0,
            last |-> 0, ffLeft |-> 0, warmLeft |-> 0, dwLeft |-> 0, asked |-> 0, now |-> 0,
            ok |-> TRUE, stalls |-> 0]

Next ==
    /\ UNCHANGED cfg
    /\ \/ \E c \in Cores, cost \in Costs : Execute(c, cost)
       \/ \E c \in Cores, n \in 1..2 : FastForward(c, n)
       \/ \E c \in Cores : Stall(c)
       \/ \E c, w \in Cores : Wake(c, w)
       \/ \E c, w \in Cores : Spawn(c, w)

-----------------------------------------------------------------------------
(* The stack of a core accounts for all of its time and its idle time is   *)
(* what it waited, whatever the mode a wait started and ended in.          *)
StackAddsUp ==
    \A c \in Cores : LET r == s.core[c] IN
        /\ r.elapsed = r.stack.start + r.stack.sync + r.stack.exec + r.stack.ff
        /\ r.idle = r.stack.start + r.stack.sync

(* Fast-forwarding ends: every core that runs outside the barrier has an   *)
(* instruction callback that brings it there, also one that slept when     *)
(* fast-forwarding began or was spawned during it.                         *)
FastForwardReturns ==
    s.ff => \A c \in Running(s) : s.core[c].at \/ s.core[c].callback # NoCallback

(* The callback of a core aims at the end of the fast-forward phase: with  *)
(* its CPI it is there at most half an instruction late, or after one      *)
(* more instruction, also when a wait has moved its time since.            *)
CallbackAimsAtTarget ==
    s.ff => \A c \in Running(s) : LET r == s.core[c] IN
        r.at \/ r.callback = NoCallback \/ r.callback - r.count <= 1
             \/ r.elapsed + (r.callback - r.count) * r.cpi <= s.target + r.cpi \div 2

(* Between two detailed intervals exactly the fast-forward interval and    *)
(* the warmup interval are asked for, however they are cut.                *)
PhasesAddUp == s.ff => s.asked + s.ffLeft + s.warmLeft = cfg.ff + cfg.warmup

(* callbackDetailed: "Should not finish detailed simulation before         *)
(* detailed warmup is complete."                                           *)
DetailedWarmupCompletes == s.ok
=============================================================================
