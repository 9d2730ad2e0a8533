------------------------------ MODULE MCSupport -----------------------------
(***************************************************************************)
(* Small instances of the tools and libraries around the simulator.        *)
(* "kind" selects the model of a behaviour; the variables that it does not *)
(* have are 0.                                                             *)
(***************************************************************************)
EXTENDS Integers, Sequences, FiniteSets, TLC

VARIABLES kind, v1, v2, v3, v4, v5, v6, v7, v8, v9, v10, v11, v12, v13, v14
vars == <<kind, v1, v2, v3, v4, v5, v6, v7, v8, v9, v10, v11, v12, v13, v14>>

\* one sim thread, two packets, two calls of netRecv
Port == INSTANCE SimThreads WITH sim <- v1, core <- v2, registered <- v3, active <- v4, main <- v5,
    stopped <- v6, node <- v7, inbox <- v8, recv <- v9, log <- v10, NumCores <- 1, Times <- {1, 2},
    MaxSends <- 2, MaxRecvs <- 2

\* two sim threads and one packet
Quit == INSTANCE SimThreads WITH sim <- v1, core <- v2, registered <- v3, active <- v4, main <- v5,
    stopped <- v6, node <- v7, inbox <- v8, recv <- v9, log <- v10, NumCores <- 2, Times <- {1},
    MaxSends <- 1, MaxRecvs <- 0

\* the floorplans of four blocks, two of which can be rotated
TreeShapes ==
    <<<<[x |-> 1, y |-> 4], [x |-> 4, y |-> 1]>>, <<[x |-> 2, y |-> 3], [x |-> 3, y |-> 2]>>,
      <<[x |-> 2, y |-> 2]>>, <<[x |-> 3, y |-> 4]>>>>
TreeRatios == {<<-1, 1>>, <<0, 1>>, <<1, 2>>}
Tree == INSTANCE SlicingTree WITH ratio <- v1, expr <- v2, fatal <- v3, Shapes <- TreeShapes,
    Ratios <- TreeRatios

\* the annealing of three core blocks with an L2 and a rim
FlpShapes == <<<<[x |-> 2, y |-> 8], [x |-> 8, y |-> 2]>>, <<[x |-> 4, y |-> 4]>>, <<[x |-> 4, y |-> 8]>>>>
FlpSetups ==
    {[l2 |-> TRUE, rim |-> TRUE, ratio |-> <<1, 2>>], [l2 |-> TRUE, rim |-> FALSE, ratio |-> <<1, 2>>],
     [l2 |-> FALSE, rim |-> TRUE, ratio |-> <<0, 1>>]}
FlpWires == {<<1, 2>>, <<1, 0>>}
Flp == INSTANCE Floorplanner WITH setup <- v1, expr <- v2, best <- v3, cost <- v4, bestCost <- v5,
    loop <- v6, flp <- v7, units <- v8, rows <- v9, power <- v10, phase <- v11,
    Shapes <- FlpShapes, L2Area <- 160, Rim <- 2, Wires <- FlpWires, Setups <- FlpSetups,
    MovesPerStep <- 1, Nmax <- 2

\* the heat network of the grid model
Grid(nl, nr, nc, sec, det) == [nl |-> nl, nr |-> nr, nc |-> nc, sec |-> sec, det |-> det]
HeatModels == {Grid(3, 2, 4, FALSE, FALSE), Grid(4, 3, 2, FALSE, FALSE), Grid(3, 3, 3, FALSE, TRUE),
               Grid(6, 2, 2, TRUE, FALSE), Grid(6, 3, 4, TRUE, FALSE), Grid(7, 2, 3, TRUE, TRUE)}
Heat == INSTANCE ThermalGrid WITH model <- v1, row <- v2, coo <- v3, dia <- v4, csc <- v5,
    Models <- HeatModels

\* blocks and grid cells
Unit(left, low, wide, high, dens) == [x |-> left, y |-> low, w |-> wide, h |-> high, q |-> dens]
Halves == <<Unit(0, 0, 20, 16, 3), Unit(20, 0, 12, 16, 5)>>
Quarters == <<Unit(0, 0, 8, 4, 1), Unit(0, 4, 8, 12, 2), Unit(8, 0, 24, 16, 7)>>
Island == <<Unit(0, 0, 32, 1, 2), Unit(0, 1, 32, 14, 4), Unit(0, 15, 32, 1, 6)>>
Sliver == <<Unit(0, 0, 1, 16, 4), Unit(1, 0, 31, 16, 2)>>
MapChips == {[w |-> 32, h |-> 16, flps |-> <<Halves, Quarters>>], [w |-> 32, h |-> 16, flps |-> <<Island, Sliver>>]}
MapGrids == {[rows |-> 4, cols |-> 1, sec |-> TRUE], [rows |-> 4, cols |-> 4, sec |-> FALSE], [rows |-> 2, cols |-> 8, sec |-> TRUE], [rows |-> 8, cols |-> 4, sec |-> FALSE]}
MapFiles == {<<>>, <<0, 1>>, <<1, 0>>, <<1, 1>>, <<0, 0>>, <<0, 2>>}
Map == INSTANCE GridMap WITH chip <- v1, grid <- v2, file <- v3, layers <- v4, stopped <- v5,
    phase <- v6, at <- v7, b2g <- v8, g2b <- v9, now <- v10, stack <- v11, level <- v12,
    weights <- v13, out <- v14, Chips <- MapChips, Grids <- MapGrids, Files <- MapFiles

\* the runtime intervention
RemapApps == <<0, 0>>
RemapStart == [key \in {<<0, 0>>} |-> 2]
RemapMoves == {<<>>, <<<<0, 2>>, <<2, 0>>>>, <<<<2, 0>>, <<0, 1>>>>, <<<<2, 1>>, <<0, 1>>>>}
RemapDvfs == {<<1, 1, 1>>, <<2, 0, 1>>}
Remap == INSTANCE RuntimeRemap WITH created <- v1, s <- v2, time <- v3, lastRemap <- v4,
    trace <- v5, given <- v6, AppOf <- RemapApps, NumCores <- 3, StartMap <- RemapStart,
    MoveFiles <- RemapMoves, DvfsFiles <- RemapDvfs, CoresPerSocket <- 1, Quantum <- 1, Every <- 1,
    Passes <- 2

\* the call-stack tracer
RtnWatched == {<<1>>, <<1, 2>>}
Rtn == INSTANCE RoutineTracer WITH front <- v1, real <- v2, checked <- v3, last <- v4, tr <- v5,
    roi <- v6, rois <- v7, owner <- v8, clean <- v9, Routines <- {1, 2}, Watched <- RtnWatched,
    Late <- {2}, Frontends <- {"pin", "sift"}, MaxFrames <- 2, MaxDepth <- 3, MaxStat <- 1,
    MaxRoi <- 1

\* statistics per thread

Ts == INSTANCE ThreadStats WITH status <- v1, core <- v2, insn <- v3, now <- v4, skew <- v5,
    events <- v6, stats <- v7, waiting <- v8, bottle <- v9, truth <- v10, Threads <- {1, 2},
    Cores <- {0, 1}, Skews <- {0, 1}, MaxTime <- 2, MaxEvents <- 5

\* the spin loop detector
Sp == INSTANCE SpinLoops WITH regs <- v1, memory <- v2, icount <- v3, m_sdt <- v4, m_rub <- v5,
    m_sdt_bitmask <- v6, m_sdt_nextid <- v7, spins <- v8, detected <- v9, seen <- v10, held <- v11,
    Eips <- 1 .. 3, Regs <- {"r"}, Values <- 0 .. 2, SdtMax <- 2, MaxInstructions <- 6

\* two hardware threads, three software threads
Ctx == INSTANCE SmtTimer WITH thread <- v1, running <- v2, inBarrier <- v3, surplus <- v4,
    inSync <- v5, executor <- v6, pc <- v7, at <- v8, woken <- v9, hung <- v10, moves <- v11,
    stalls <- v12, Contexts <- {1, 2}, Threads <- {1, 2, 3}, Enough <- 1, Ahead <- 2,
    Preempted <- {"run"}, MaxMoves <- 2, MaxStalls <- 2

\* three threads and what they call, with one futex or with two
Ops(ops, addrs, calls) == [ops |-> ops, addrs |-> addrs, calls |-> calls]
SyscallSetups == {Ops({"bitset", "store", "wake"}, {1}, 3), Ops({"wait", "requeue"}, {1, 2}, 3),
    Ops({"wait", "wakeop"}, {1, 2}, 3), Ops({"bitset", "sleep", "exit"}, {1}, 3),
    Ops({"wait", "native"}, {1}, 3), Ops({"wait", "bitset"}, {1}, 2),
    Ops({"clock", "write", "native"}, {1}, 2)}
Sys == INSTANCE SyscallServer WITH setup <- v1, mem <- v2, waiting <- v3, sleeping <- v4,
    status <- v5, pc <- v6, msg <- v7, signalled <- v8, call <- v9, holder <- v10, time <- v11,
    aborted <- v12, calls <- v13, Threads <- {1, 2, 3}, Addrs <- {1, 2}, Setups <- SyscallSetups,
    TimeStart <- 10, Width <- 64, Skews <- {1}, MaxTime <- 4

\* three instructions: a branch, one that crosses a page and may be a prefetch
\* of an unmapped page, and a predicated one
Ins(size, mem, branch, predicate, prefetch) ==
    [size |-> size, mem |-> mem, branch |-> branch, predicate |-> predicate, prefetch |-> prefetch]
SiftCode == (0 :> Ins(2, FALSE, TRUE, FALSE, FALSE)) @@ (2 :> Ins(3, TRUE, FALSE, FALSE, TRUE))
                @@ (5 :> Ins(1, TRUE, FALSE, TRUE, FALSE))
Sift == INSTANCE Sift WITH perInsn <- v1, w <- v2, todo <- v3, awaiting <- v4, buf <- v5,
    pipe <- v6, resp <- v7, r <- v8, t <- v9, mapped <- v10, simMode <- v11, sent <- v12,
    last <- v13, failed <- v14, Code <- SiftCode, IcacheSize <- 4, DataPages <- {1},
    FlowControl <- 1, FlowControlFF <- 1, MaxPipe <- 3, MaxEvents <- 3

\* two applications, four threads
Trace == INSTANCE TraceManager WITH options <- v1, threads <- v2, apps <- v3, running <- v4,
    nonfinish <- v5, started <- v6, done <- v7, NumApps <- 2, MaxThreads <- 4, MaxApps <- 2

-----------------------------------------------------------------------------
Init ==
    \/ kind = "ports" /\ Port!Init /\ v11 = 0 /\ v12 = 0 /\ v13 = 0 /\ v14 = 0
    \/ kind = "quit" /\ Quit!Init /\ v11 = 0 /\ v12 = 0 /\ v13 = 0 /\ v14 = 0
    \/ kind = "slicing" /\ Tree!Init /\ v4 = 0 /\ v5 = 0 /\ v6 = 0 /\ v7 = 0 /\ v8 = 0 /\ v9 = 0 /\
       v10 = 0 /\ v11 = 0 /\ v12 = 0 /\ v13 = 0 /\ v14 = 0
    \/ kind = "anneal" /\ Flp!Init /\ v12 = 0 /\ v13 = 0 /\ v14 = 0
    \/ kind = "thermal" /\ Heat!Init /\ v6 = 0 /\ v7 = 0 /\ v8 = 0 /\ v9 = 0 /\ v10 = 0 /\ v11 = 0
       /\ v12 = 0 /\ v13 = 0 /\ v14 = 0
    \/ kind = "gridmap" /\ Map!Init
    \/ kind = "remap" /\ Remap!Init /\ v7 = 0 /\ v8 = 0 /\ v9 = 0 /\ v10 = 0 /\ v11 = 0 /\ v12 = 0
       /\ v13 = 0 /\ v14 = 0
    \/ kind = "rtn" /\ Rtn!Init /\ v10 = 0 /\ v11 = 0 /\ v12 = 0 /\ v13 = 0 /\ v14 = 0
    \/ kind = "tstats" /\ Ts!Init /\ v11 = 0 /\ v12 = 0 /\ v13 = 0 /\ v14 = 0
    \/ kind = "spin" /\ Sp!Init /\ v12 = 0 /\ v13 = 0 /\ v14 = 0
    \/ kind = "smt" /\ Ctx!Init /\ v13 = 0 /\ v14 = 0
    \/ kind = "syscall" /\ Sys!Init /\ v14 = 0
    \/ kind = "sift" /\ Sift!Init
    \/ kind = "trace" /\ Trace!Init /\ v8 = 0 /\ v9 = 0 /\ v10 = 0 /\ v11 = 0 /\ v12 = 0 /\ v13 = 0
       /\ v14 = 0

Next ==
    /\ kind' = kind
    /\ \/ kind = "ports" /\ Port!Next /\ UNCHANGED <<v11, v12, v13, v14>>
       \/ kind = "quit" /\ Quit!Next /\ UNCHANGED <<v11, v12, v13, v14>>
       \/ kind = "slicing" /\ Tree!Next /\ UNCHANGED <<v4, v5, v6, v7, v8, v9, v10, v11, v12, v13, v14>>
       \/ kind = "anneal" /\ Flp!Next /\ UNCHANGED <<v12, v13, v14>>
       \/ kind = "thermal" /\ Heat!Next /\ UNCHANGED <<v6, v7, v8, v9, v10, v11, v12, v13, v14>>
       \/ kind = "gridmap" /\ Map!Next
       \/ kind = "remap" /\ Remap!Next /\ UNCHANGED <<v7, v8, v9, v10, v11, v12, v13, v14>>
       \/ kind = "rtn" /\ Rtn!Next /\ UNCHANGED <<v10, v11, v12, v13, v14>>
       \/ kind = "tstats" /\ Ts!Next /\ UNCHANGED <<v11, v12, v13, v14>>
       \/ kind = "spin" /\ Sp!Next /\ UNCHANGED <<v12, v13, v14>>
       \/ kind = "smt" /\ Ctx!Next /\ UNCHANGED <<v13, v14>>
       \/ kind = "syscall" /\ Sys!Next /\ UNCHANGED <<v14>>
       \/ kind = "sift" /\ Sift!Next
       \/ kind = "trace" /\ Trace!Next /\ UNCHANGED <<v8, v9, v10, v11, v12, v13, v14>>

Spec == Init /\ [][Next]_vars

-----------------------------------------------------------------------------
(* Properties: what each of them says is stated in the modules *)


\* SyscallServer: a thread that waits is in one queue; those counted as woken
\* are told so, a timeout is late by a bounded number of barriers, and the
\* simulator gives up only when no timeout is left.
SyscallsAnswered ==
    kind = "syscall" =>
          /\ Sys!QueuedOnce
          /\ Sys!CountedWake
          /\ Sys!LatenessBounded
          /\ Sys!AbortIsDeadlock

\* Sift and TraceManager: an instruction is simulated as it was recorded, on
\* a core, with the page the recorder knew; the two sides of the pipes agree
\* on its records and do not wait for each other; the counters are those of
\* the threads not signed off, and the simulation ends with the applications
\* it waits for.
TracesReplayed ==
    /\ kind = "sift" =>
            /\ Sift!RoundTrip
            /\ Sift!PhysicalKnown
            /\ Sift!ProtocolAsserts
            /\ Sift!NoStandoff
            /\ Sift!RunsOnCore
    /\ kind = "trace" => Trace!CountsMatch /\ Trace!EndsInTime

\* SimThreads: messages of the simulation threads are handled in order, all
\* of them, without a lost wakeup, and the threads end before their manager
\* does.
MessagesHandled ==
    /\ kind = "ports" =>
            /\ Port!NoSleepOnPackets
            /\ Port!HandledInOrder
            /\ Port!ReceivedInOrder
    /\ kind = "quit" => Quit!AllExited

\* ThermalGrid and GridMap: the transient equations settle where the steady
\* ones do (but for the solder), both solvers have the same equations, heat
\* leaving a node arrives at another; cells cover the blocks, every level has
\* their power, and neither the order of the units nor the iteration changes
\* the grid.
HeatBalances ==
    /\ kind = "thermal" =>
            /\ Heat!MeansAreWeighted
            /\ Heat!TransientSettles
            /\ Heat!SolversAgree
            /\ Heat!AmbientBalances
            /\ Heat!EntriesFit
            /\ Heat!HeatIsConserved
            /\ Heat!CompressedIsTheSame
    /\ kind = "gridmap" =>
            /\ Map!LayersAreUnique
            /\ Map!CellsAreCovered
            /\ Map!OrderDoesNotMatter
            /\ Map!PowerIsKept
            /\ Map!GridIsRestored
            /\ Map!HeuristicBalances
            /\ Map!InterpolationIsLinear
            /\ Map!BlocksAreWithin



\* SlicingTree and Floorplanner: moves keep the slicing expression normalized
\* and can be undone, blocks tile the chip, the shape curve has the smallest
\* one; the best floorplan costs what it cost when found, and turning,
\* trimming or wrapping it keeps blocks, power and cells.
FloorplansTiled ==
    /\ kind = "slicing" =>
            /\ Tree!Normalized
            /\ Tree!PositionsCurrent
            /\ Tree!ChipIsTiled
            /\ Tree!CurveHasTheBest
            /\ Tree!MovesCanBeUndone
    /\ kind = "anneal" =>
            /\ Flp!BestIsReproduced
            /\ Flp!ChipIsTiled
            /\ Flp!RoomForAll
            /\ Flp!PowerFollows
            /\ Flp!GridIsEquivalent
            /\ Flp!TurnedIsTiled
            /\ Flp!PerimeterIsShared

\* RuntimeRemap: after changeMapping() every thread is listed once, where it
\* runs or waits; a moved thread leaves its core at the barrier, no core
\* idles while a thread waits for it, frequency changes are paid for and
\* energy is reported once.
RemapConsistent ==
    [][kind = "remap" =>
             /\ Remap!ListedOnce'
             /\ Remap!PlacesAgree'
             /\ Remap!EnergyReportedOnce'
             /\ Remap!MovedAtBarrierStep
             /\ Remap!IdleOnlyForMovedDownStep
             /\ Remap!TransitionsPaidStep]_vars

\* SpinLoops: an iteration counted as spinning stored nothing, a loop that
\* counts does not spin, and a quiet iteration does.
SpinsDetected ==
    [][kind = "spin" =>
             /\ Sp!NoStoreInSpinStep
             /\ Sp!CountingIsNoSpinStep
             /\ Sp!QuietIsSpinStep]_vars
=============================================================================
