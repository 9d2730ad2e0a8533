------------------------------ MODULE MCMachine -----------------------------
(***************************************************************************)
(* Small instances of the parts of the simulated machine that have their   *)
(* own module: cores, predictors, caches, queues and networks.  "kind"     *)
(* selects the model of a behaviour; the variables that it does not have   *)
(* are 0.                                                                  *)
(***************************************************************************)
EXTENDS Integers, Sequences, FiniteSets, TLC

VARIABLES kind, v1, v2, v3, v4, v5, v6, v7, v8, v9, v10
vars == <<kind, v1, v2, v3, v4, v5, v6, v7, v8, v9, v10>>

\* two cores; intervals of one to three quanta, cut at four time units
SamplingConfigs ==
    {x \in [detailed : {4}, ff : {6}, sync : {4}, warmup : {2}, detailedWarmup : {0, 2},
            detailedSync : BOOLEAN, uncoordinated : BOOLEAN] : x.detailedSync => x.detailedWarmup = 0}
Samp == INSTANCE Sampling WITH cfg <- v1, s <- v2, Cores <- {0, 1}, Configs <- SamplingConfigs,
    Quantum <- 2, Period <- 2, Costs <- {2, 6}, Width <- 2, MaxTime <- 16, MaxStalls <- 1

\* lines of four bytes, accesses of up to three lines
Acc == INSTANCE CoreAccess WITH memLock <- v1, pc <- v2, job <- v3, lastBlock <- v4, result <- v5,
    Block <- 4, Addresses <- {3, 4, 6}, Sizes <- {1, 5, 8}, InsnSizes <- {1, 3}, Levels <- {1, 2}

\* a loop of one or three iterations and one other branch
Bp == INSTANCE BranchPredictors WITH ways <- v1, p <- v2, loop <- v3, n <- v4, LoopIp <- 1,
    OtherIp <- 2, PirBits <- 3, GlobalWays <- 2, BtbWays <- 2, LoopWays <- {1, 2},
    Lengths <- {1, 3}, MaxBranches <- 13

\* up to four requests, each queue model
DramSetup == [model |-> "history", dram |-> "constant", sizes |-> {2}, min |-> 2, analytical |-> FALSE,
              mean |-> FALSE, times |-> 0..5, backup |-> 2]
DramSetups ==
    {DramSetup,
     [DramSetup EXCEPT !.sizes = {1, 3}, !.min = 1],
     [DramSetup EXCEPT !.dram = "split", !.analytical = TRUE, !.times = {0, 1, 4}],
     [DramSetup EXCEPT !.model = "contention"],
     [DramSetup EXCEPT !.model = "basic", !.dram = "shared", !.times = {0, 2, 3}],
     [DramSetup EXCEPT !.model = "basic", !.mean = TRUE],
     [DramSetup EXCEPT !.model = "windowed", !.sizes = {1, 2}, !.times = {0, 2, 7, 8, 9, 11}]}
Dram == INSTANCE DramTiming WITH setup <- v1, queue <- v2, global <- v3, served <- v4,
    Setups <- DramSetups, TimeBits <- 6, MaxIntervals <- 3, MeanWindow <- 2, Window <- 4,
    Quantum <- 2, MaxRequests <- 4, MaxTime <- 12

\* meshes and tori of up to twelve routers, one packet or broadcast
MeshOf(w, h, conc, wrap, extra) ==
    [model |-> "mesh", w |-> w, h |-> h, conc |-> conc, wrap |-> wrap, extra |-> extra]
MeshNetworks ==
    {MeshOf(2, 2, 2, FALSE, 1), MeshOf(3, 3, 1, TRUE, 0), MeshOf(4, 2, 1, TRUE, 1), MeshOf(3, 4, 1, FALSE, 0),
     MeshOf(6, 1, 1, TRUE, 0)}
    \cup {[MeshOf(2, 2, 1, FALSE, 1) EXCEPT !.model = model] : model \in {"mesh", "bus", "counter", "magic"}}
Mesh == INSTANCE MeshNetwork WITH net <- v1, todo <- v2, transit <- v3, received <- v4, path <- v5,
    stats <- v6, sends <- v7, Networks <- MeshNetworks, Delays <- {0, 1}, HopLatency <- 2,
    Processing <- 1, MaxSends <- 1, MaxBroadcast <- 5

\* one set of three or four ways under each replacement policy
SetOf(policy, assoc, attempts, max, does) ==
    [policy |-> policy, assoc |-> assoc, attempts |-> attempts, max |-> max, does |-> does]
SetSetups ==
    {SetOf(policy, 3, 1, 0, {"invalidate", "upgrade"}) :
        policy \in {"round_robin", "lru", "mru", "nmru", "nru", "random"}}
    \cup {SetOf("round_robin", 3, 1, 0, {"invalidate"}), SetOf("lru", 3, 3, 0, {"invalidate", "upgrade"}),
          SetOf("plru", 4, 1, 0, {"invalidate"}), SetOf("srrip", 4, 1, 3, {}),
          SetOf("srrip", 3, 1, 1, {"invalidate", "upgrade"}), SetOf("srrip", 3, 2, 1, {"invalidate"})}
Set == INSTANCE CacheSets WITH setup <- v1, set <- v2, recent <- v3, failed <- v4,
    Setups <- SetSetups

\* caches of two lines in front of a DRAM of three; homes with up to three modules
MemSetups ==
    {[nuca |-> TRUE, cache |-> FALSE, queue |-> TRUE, prefetches |-> 0],
     [nuca |-> FALSE, cache |-> TRUE, queue |-> FALSE, prefetches |-> 2],
     [nuca |-> TRUE, cache |-> TRUE, queue |-> FALSE, prefetches |-> 0]}
MemHomes ==
    {[modules |-> mods, bits |-> bits, block |-> 1, sets |-> sets] : mods \in 1..3, bits \in 1..3, sets \in {2, 3, 4}}
Mem == INSTANCE MemorySide WITH setup <- v1, nuca <- v2, cache <- v3, mshr <- v4, now <- v5,
    perf <- v6, stats <- v7, owed <- v8, due <- v9, last <- v10, Setups <- MemSetups,
    Addresses <- 1..3, Strays <- {1}, Assoc <- 2, TagsTime <- 1, DataTime <- 1, BusTime <- 1,
    DramTime <- 2, Delays <- {0, 2}, Mshrs <- 2, MaxTime <- 2, Homes <- MemHomes

\* one set of two entries for three addresses, two cores
Dir == INSTANCE Directory WITH slots <- v1, replaced <- v2, ptr <- v3, queue <- v4, inv <- v5,
    copies <- v6, stuck <- v7, Addresses <- 1..3, Cores <- 1..2, NumSets <- 1, Assoc <- 2,
    Pending <- 3

\* the prefetchers
PfGhb(size, table, max) == [pf |-> "ghb", size |-> size, table |-> table, width |-> 2, depth |-> 2,
                            own |-> FALSE, stop |-> FALSE, queue |-> FALSE, max |-> max]
PfSimple(own, stop, queue, max) == [pf |-> "simple", size |-> 2, table |-> 1, width |-> 1, depth |-> 3,
                                    own |-> own, stop |-> stop, queue |-> queue, max |-> max]
PfSetups == {PfGhb(2, 2, 7), PfGhb(3, 1, 7), PfGhb(5, 2, 7),
             PfSimple(TRUE, FALSE, FALSE, 4), PfSimple(FALSE, TRUE, FALSE, 4), PfSimple(FALSE, FALSE, TRUE, 3)}
PfFirst == [cc \in {0, 1} |-> 9 + cc]
Pf == INSTANCE Prefetchers WITH setup <- v1, pf <- v2, trail <- v3, deltas <- v4, list <- v5,
    queue <- v6, next <- v7, popped <- v8, missed <- v9, started <- v10, Setups <- PfSetups,
    Cores <- {0, 1}, FirstAddress <- PfFirst, Deltas <- {1, 3}, PageSize <- 8, Times <- 0 .. 2,
    MaxQueue <- 1

(* Micro-ops and cores of the reorder-buffer models *)

Nop == [kind |-> "exec", src |-> {}, addr |-> {}, dst |-> {}, mem |-> 0, lat |-> 1,
        icache |-> 0, wrong |-> FALSE, port |-> "015", alu |-> FALSE, barrier |-> FALSE]
Uop(class, src, dst, lat) == [Nop EXCEPT !.kind = class, !.src = src, !.dst = dst, !.lat = lat]
Exec(src, dst, lat) == Uop("exec", src, dst, lat)
Load(addr, dst, at, lat) == [Uop("load", addr, dst, lat) EXCEPT !.mem = at, !.port = "2"]
Store(src, addr, at, lat) == [Uop("store", src \cup addr, {}, lat) EXCEPT !.addr = addr, !.mem = at, !.port = "34"]
Branch(src) == [Uop("branch", src, {}, 1) EXCEPT !.wrong = TRUE, !.port = "5"]
Divide(src, dst) == [Uop("exec", src, dst, 3) EXCEPT !.port = "0", !.alu = TRUE]
Special(class) == Uop(class, {}, {}, 1)
Miss(u) == [u EXCEPT !.icache = 2]

Core(program) == [width |-> 2, commit |-> 2, window |-> 4, rs |-> 3, loads |-> 1, stores |-> 1,
    penalty |-> 4, fwd |-> FALSE, disambiguate |-> TRUE, inorder |-> FALSE, contention |-> FALSE,
    program |-> program]
RobPrograms == [
    alu |-> {Divide({"a"}, {"b"}), Divide({}, {}), [Exec({}, {"a"}, 1) EXCEPT !.port = "05"], Load({"b"}, {}, 1, 2)},
    data |-> {Exec({"a"}, {"b"}, 3), Exec({"b"}, {"a"}, 1), Load({}, {"a"}, 1, 3), Store({"b"}, {"a"}, 1, 2)},
    front |-> {Miss(Exec({"a"}, {"a"}, 3)), Exec({"a"}, {"b"}, 1), Branch({"b"}), Load({}, {"b"}, 1, 4)},
    order |-> {Load({}, {"a"}, 1, 3), Store({"a"}, {}, 1, 3), Special("fence"), Special("serial")} ]
RobConfigs == {Core("data"), [Core("front") EXCEPT !.rs = 2], [Core("data") EXCEPT !.fwd = TRUE],
    Core("order"), [Core("alu") EXCEPT !.contention = TRUE],
    [Core("data") EXCEPT !.contention = TRUE, !.disambiguate = FALSE],
    [Core("order") EXCEPT !.inorder = TRUE]}
Rob == INSTANCE RobTimer WITH cfg <- v1, core <- v2, retired <- v3, jumps <- v4,
    Configs <- RobConfigs, Programs <- RobPrograms, MaxUops <- 4, MaxNops <- 6, MaxJumps <- 1

SmtCore(program) == Core(program) @@ [threads |-> 2, repartition |-> TRUE, simultaneous |-> TRUE, sleeps |-> 0]
SmtPrograms == [
    data |-> {Exec({"a"}, {"a"}, 3), Store({"a"}, {}, 1, 2)},
    front |-> {Miss(Exec({"a"}, {"a"}, 3)), Branch({"a"})},
    order |-> {Store({"a"}, {}, 1, 3), Special("fence")} ]
SmtConfigs == {[s EXCEPT !.width = 1] : s \in {SmtCore("data"), SmtCore("front"),
    [SmtCore("order") EXCEPT !.sleeps = 1],
    [SmtCore("data") EXCEPT !.simultaneous = FALSE, !.repartition = FALSE],
    [SmtCore("data") EXCEPT !.contention = TRUE]}}
Smt == INSTANCE RobSmtTimer WITH cfg <- v1, th <- v2, sh <- v3, retired <- v4, sleeps <- v5,
    Configs <- SmtConfigs, Programs <- SmtPrograms, MaxUops <- 2, MaxNops <- 4

(* Micro-ops and cores of the interval model *)

Fenced == [Special("exec") EXCEPT !.barrier = TRUE]
IntervalCore(program) == [window |-> 3, width |-> 2, cutoff |-> 5, penalty |-> 2, units |-> 1,
    contention |-> FALSE, atDispatch |-> FALSE, program |-> program]
IntervalPrograms == [
    data |-> {Exec({"a"}, {"b"}, 2), Exec({"b"}, {"a"}, 4), Load({"a"}, {"b"}, 1, 3), Store({"b"}, {}, 1, 3)},
    front |-> {Miss(Exec({"a"}, {"b"}, 3)), Miss(Branch({"b"})), Exec({"b"}, {"a"}, 2), Branch({"a"})},
    miss |-> {Load({"a"}, {"b"}, 1, 6), Load({"b"}, {"a"}, 2, 3), Exec({"b"}, {"a"}, 1), Branch({"a"})},
    order |-> {Load({}, {"b"}, 1, 6), Load({}, {"a"}, 2, 2), Fenced, Special("serial")} ]
IntervalConfigs == {[IntervalCore("data") EXCEPT !.contention = TRUE], IntervalCore("front"), IntervalCore("miss"),
    IntervalCore("order"), [IntervalCore("miss") EXCEPT !.atDispatch = TRUE]}
Interval == INSTANCE IntervalTimer WITH cfg <- v1, s <- v2, Configs <- IntervalConfigs,
    Programs <- IntervalPrograms, One <- 16384, MaxUops <- 6

(* Instructions of the decoder *)

Insn(op, loads, stores, src, dst) ==
    [op |-> op, loads |-> loads, stores |-> stores, src |-> src, dst |-> dst, atomic |-> FALSE]
UopsInstructions == {
    Insn("alu", <<{"a"}>>, <<{"a"}>>, {"b"}, {"a"}), Insn("alu", <<{"a"}, {"a"}, {"a"}>>, <<>>, {}, {"b"}),
    Insn("fpadd", <<{}, {}>>, <<{"a"}, {"a"}>>, {"b"}, {}), Insn("mov", <<{"b"}>>, <<>>, {}, {"a"}),
    Insn("branch", <<>>, <<>>, {"b"}, {}), Insn("mov", <<>>, <<>>, {"a"}, {"b"}), Insn("movhp", <<{"a"}>>, <<>>, {}, {"b"})}
Pseudo(type, cost, fence) == [type |-> type, cost |-> cost, fence |-> fence]
UopsPseudos == {Pseudo("tlb_miss", 5, FALSE), Pseudo("mem_access", 5, FALSE),
    Pseudo("mem_access", 13, TRUE), Pseudo("mem_access", 0, FALSE)}
Uops == INSTANCE MicroOps WITH window <- v1, producers <- v2, clock <- v3, insns <- v4, ok <- v5,
    Instructions <- UopsInstructions, Pseudos <- UopsPseudos, Lines <- {1, 2},
    AccessTime <- <<3, 9>>, Period <- 2, Cutoff <- 5, MaxDependencies <- 14, MaxInsns <- 2

-----------------------------------------------------------------------------
Init ==
    \/ kind = "sampling" /\ Samp!Init /\ v3 = 0 /\ v4 = 0 /\ v5 = 0 /\ v6 = 0 /\ v7 = 0 /\ v8 = 0
       /\ v9 = 0 /\ v10 = 0
    \/ kind = "access" /\ Acc!Init /\ v6 = 0 /\ v7 = 0 /\ v8 = 0 /\ v9 = 0 /\ v10 = 0
    \/ kind = "branch" /\ Bp!Init /\ v5 = 0 /\ v6 = 0 /\ v7 = 0 /\ v8 = 0 /\ v9 = 0 /\ v10 = 0
    \/ kind = "dram" /\ Dram!Init /\ v5 = 0 /\ v6 = 0 /\ v7 = 0 /\ v8 = 0 /\ v9 = 0 /\ v10 = 0
    \/ kind = "mesh" /\ Mesh!Init /\ v8 = 0 /\ v9 = 0 /\ v10 = 0
    \/ kind = "sets" /\ Set!Init /\ v5 = 0 /\ v6 = 0 /\ v7 = 0 /\ v8 = 0 /\ v9 = 0 /\ v10 = 0
    \/ kind = "memory" /\ Mem!Init
    \/ kind = "directory" /\ Dir!Init /\ v8 = 0 /\ v9 = 0 /\ v10 = 0
    \/ kind = "pref" /\ Pf!Init
    \/ kind = "rob" /\ Rob!Init /\ v5 = 0 /\ v6 = 0 /\ v7 = 0 /\ v8 = 0 /\ v9 = 0 /\ v10 = 0
    \/ kind = "robsmt" /\ Smt!Init /\ v6 = 0 /\ v7 = 0 /\ v8 = 0 /\ v9 = 0 /\ v10 = 0
    \/ kind = "interval" /\ Interval!Init /\ v3 = 0 /\ v4 = 0 /\ v5 = 0 /\ v6 = 0 /\ v7 = 0 /\ v8 =
       0 /\ v9 = 0 /\ v10 = 0
    \/ kind = "uops" /\ Uops!Init /\ v6 = 0 /\ v7 = 0 /\ v8 = 0 /\ v9 = 0 /\ v10 = 0

Next ==
    /\ kind' = kind
    /\ \/ kind = "sampling" /\ Samp!Next /\ UNCHANGED <<v3, v4, v5, v6, v7, v8, v9, v10>>
       \/ kind = "access" /\ Acc!Next /\ UNCHANGED <<v6, v7, v8, v9, v10>>
       \/ kind = "branch" /\ Bp!Next /\ UNCHANGED <<v5, v6, v7, v8, v9, v10>>
       \/ kind = "dram" /\ Dram!Next /\ UNCHANGED <<v5, v6, v7, v8, v9, v10>>
       \/ kind = "mesh" /\ Mesh!Next /\ UNCHANGED <<v8, v9, v10>>
       \/ kind = "sets" /\ Set!Next /\ UNCHANGED <<v5, v6, v7, v8, v9, v10>>
       \/ kind = "memory" /\ Mem!Next
       \/ kind = "directory" /\ Dir!Next /\ UNCHANGED <<v8, v9, v10>>
       \/ kind = "pref" /\ Pf!Next
       \/ kind = "rob" /\ Rob!Next /\ UNCHANGED <<v5, v6, v7, v8, v9, v10>>
       \/ kind = "robsmt" /\ Smt!Next /\ UNCHANGED <<v6, v7, v8, v9, v10>>
       \/ kind = "interval" /\ Interval!Next /\ UNCHANGED <<v3, v4, v5, v6, v7, v8, v9, v10>>
       \/ kind = "uops" /\ Uops!Next /\ UNCHANGED <<v6, v7, v8, v9, v10>>

Spec == Init /\ [][Next]_vars

-----------------------------------------------------------------------------
(* Properties: what each of them says is stated in the modules *)

\* Sampling: every core returns from fast-forwarding, at the time it is asked
\* to; the phases add up to the configured intervals and the stack of a core
\* to its time; detailed warmup ends within the detailed interval.
SamplingAccounts ==
    kind = "sampling" =>
          /\ Samp!StackAddsUp
          /\ Samp!FastForwardReturns
          /\ Samp!CallbackAimsAtTarget
          /\ Samp!PhasesAddUp
          /\ Samp!DetailedWarmupCompletes

\* CoreAccess: the lines of an access cover it exactly once, and no access of
\* another thread comes between the two of an atomic pair.
AccessesWhole ==
    kind = "access" => Acc!PiecesTileAccess /\ Acc!PairIsAtomic

\* BranchPredictors: a loop is foreseen after it ran once, no entry hides
\* another one, and the entry used last is not replaced.
BranchesLearned ==
    kind = "branch" => Bp!LoopLearned /\ Bp!OneEntryPerTag /\ Bp!RecentBranchKept

\* DramTiming: no two requests use the bus together and none waits while it
\* is free; a free interval is always found, writes wait for earlier reads,
\* and the rings and windows keep what is recent.
BusSharedFairly ==
    kind = "dram" =>
          /\ Dram!BusExclusive
          /\ Dram!NoIdleWait
          /\ Dram!IntervalFound
          /\ Dram!WritesYield
          /\ Dram!MeanOfLatest
          /\ Dram!WindowKept

\* MeshNetwork: every route ends, first along x and then along y; every
\* receiver gets a packet once; the contention accounted for was met; memory
\* controllers have routers of their own.
PacketsDelivered ==
    kind = "mesh" =>
          /\ Mesh!RouteEnds
          /\ Mesh!DimensionOrder
          /\ Mesh!ContentionIsWaiting
          /\ Mesh!EachOnce
          /\ Mesh!ControllersApart
          /\ Mesh!CounterMeshFits

\* MemorySide and Directory: dirty data is not forgotten, the reasons add up
\* to the latency, a read does not end before the prefetch of its line; an
\* address has one directory entry, which knows of every copy and is replaced
\* only when nobody uses it.
MemorySideSound ==
    /\ kind = "memory" =>
            /\ Mem!DirtyIsNotForgotten
            /\ Mem!TimeIsAccountedFor
            /\ Mem!PrefetchIsAwaited
            /\ Mem!UsefulOnce
            /\ Mem!HomesSpread
    /\ kind = "directory" =>
            /\ Dir!OneEntry
            /\ Dir!CopiesAreTracked
            /\ Dir!NullifiedInOrder
            /\ Dir!BusyWhenStuck

\* Prefetchers: the linked lists of the global history buffer are those of
\* the history, streams of one core are its own, the queue holds one
\* prediction, and a prefetch starts after its miss.
PrefetchesFollowHistory ==
    kind = "pref" =>
          /\ Pf!LatestFollowerFirst
          /\ Pf!PredictsHistory
          /\ Pf!StreamsApart
          /\ Pf!QueueFromLatestMiss
          /\ Pf!StartsAfterMiss

\* IntervalTimer: both windows are in program order and account for what they
\* hold; a branch is resolved after its longest chain of producers, what is
\* hidden under a miss does not depend on it, and a full window is dispatched
\* in time.
IntervalsExact ==
    kind = "interval" =>
          /\ Interval!RingInOrder
          /\ Interval!PathAccounted
          /\ Interval!BranchResolutionExact
          /\ Interval!OverlapIndependent
          /\ Interval!DispatchesSoon

\* MicroOps: a micro-op waits for exactly its producers, squashing or not; an
\* instruction counts once, one access to a line remains, and the cost of a
\* pseudo instruction is charged once.
MicroOpsExact ==
    kind = "uops" =>
          /\ Uops!DependenciesExact
          /\ Uops!CountedOnce
          /\ Uops!OneAccessPerLine
          /\ Uops!CostChargedOnce

\* RobTimer and RobSmtTimer: a micro-op issues after the results it needs and
\* no micro-op or thread starves; loads, stores and fences keep their order;
\* a cycle that is skipped, or a thread that is not looked at, would have
\* done nothing.
ReorderBufferSound ==
    [][/\ kind = "rob" =>
               /\ Rob!TypeOK'
               /\ Rob!ResultsInTime'
               /\ Rob!MemoryOrder'
               /\ Rob!FenceWaits'
               /\ Rob!Progress'
               /\ Rob!SkipStep
       /\ kind = "robsmt" =>
               /\ Smt!TypeOK'
               /\ Smt!ResultsInTime'
               /\ Smt!FenceWaits'
               /\ Smt!Progress'
               /\ Smt!SkippedThreadIdle']_vars

\* CacheSets: free ways are taken first and a line that is being upgraded is
\* kept; lru and round_robin replace the oldest line, plru and nmru keep the
\* newest, srrip replaces the one predicted furthest away; ranks stay a
\* permutation, and every policy finds a victim.
ReplacementSound ==
    [][kind = "sets" =>
             /\ Set!RanksAreAPermutation'
             /\ Set!VictimIsFound'
             /\ Set!FreeWaysFirstStep
             /\ Set!VictimIsOldestStep
             /\ Set!UpgradingIsKeptStep
             /\ Set!NewestIsKeptStep
             /\ Set!FarthestIsReplacedStep]_vars
=============================================================================
