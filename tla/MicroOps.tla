------------------------------ MODULE MicroOps ------------------------------
(***************************************************************************)
(* From an instruction to the micro-ops of a core model.                   *)
(* InstructionDecoder::decode splits an instruction into loads, an execute *)
(* and stores.  MicroOpPerformanceModel::handleInstruction makes dynamic   *)
(* micro-ops of them, matches the memory accesses with the loads and       *)
(* stores, squashes those that touch a cache line a second time, and hands *)
(* the rest to the core model, which numbers them and keeps, in            *)
(* DynamicMicroOp, the micro-ops that each one still waits for: the ones   *)
(* of its own instruction as a range that ends just before the micro-ops   *)
(* of its own type, the others as a list.                                  *)
(***************************************************************************)
EXTENDS Integers, Sequences, FiniteSetsExt, SequencesExt

CONSTANTS
    Instructions,     \* decoded instructions that the program may execute
    Pseudos,          \* pseudo instructions: their type, cost and fence flag
    Lines,            \* cache lines
    AccessTime,       \* function from Lines to the latency of an access, in time units
    Period,           \* the period of the core's clock, in time units
    Cutoff,           \* lll_cutoff: the cycles of a long-latency load
    MaxDependencies,  \* MAXIMUM_NUMBER_OF_DEPENDENCIES
    MaxInsns          \* bound: instructions handled

VARIABLES
    window,     \* the micro-ops in the core model, with their completion
    producers,  \* RegisterDependencies: the last micro-op that writes a register
    clock,      \* time added to the core out of band, and the pseudo costs so far
    insns,      \* instructions handled
    ok          \* no assertion has failed

vars == <<window, producers, clock, insns, ok>>

Registers == UNION {i.src \cup i.dst \cup UNION Range(i.loads) \cup UNION Range(i.stores) : i \in Instructions}
Rounded(t) == (t + Period \div 2) \div Period

\* CoreModelNehalem::getInstructionLatency
InstructionLatency(i) ==
    CASE i.op = "fpadd" -> 3
      [] i.op = "fpmul" -> 5
      [] OTHER -> 1

-----------------------------------------------------------------------------
(* InstructionDecoder *)

IsMove(i) == i.op \in {"mov", "movhp"}
\* A move to or from memory needs no execute micro-op, unless it merges halves.
NumExecs(i) ==
    IF IsMove(i)
    THEN (IF i.op = "movhp" THEN 1 ELSE 0) + (IF i.loads = <<>> /\ i.stores = <<>> THEN 1 ELSE 0)
    ELSE 1

\* A micro-op, with the fields of the dynamic one that is made of it
UopOf(type, offset, intra, i) ==
    [type |-> type, op |-> i.op, static |-> offset, offset |-> offset, intra |-> intra,
     src |-> {}, dst |-> {}, membar |-> FALSE, first |-> FALSE, last |-> FALSE,
     squashed |-> FALSE, deps |-> <<>>, lat |-> InstructionLatency(i), line |-> 0,
     wrong |-> FALSE, forced |-> FALSE, seq |-> 0, insn |-> 0, done |-> FALSE]

LoadUop(i, k) ==
    [UopOf("load", k - 1, 0, i) EXCEPT
        !.src = i.loads[k] \cup (IF NumExecs(i) = 0 THEN i.src ELSE {}),
        !.dst = IF NumExecs(i) = 0 /\ i.stores = <<>> THEN i.dst ELSE {}]

ExecUop(i, k) ==
    [UopOf("exec", k - 1, Len(i.loads), i) EXCEPT
        !.src = i.src \cup (IF i.op = "movhp" THEN i.dst ELSE {}),
        !.dst = i.dst,
        !.membar = i.op = "fence"]

StoreUop(i, k) ==
    [UopOf("store", k - 1, NumExecs(i), i) EXCEPT
        !.src = i.stores[k] \cup (IF NumExecs(i) = 0 /\ i.loads = <<>> THEN i.src ELSE {}),
        !.dst = IF NumExecs(i) = 0 THEN i.dst ELSE {},
        !.membar = i.atomic]

Decode(i) ==
    LET us == [k \in DOMAIN i.loads |-> LoadUop(i, k)]
              \o [k \in 1..NumExecs(i) |-> ExecUop(i, k)]
              \o [k \in DOMAIN i.stores |-> StoreUop(i, k)]
    IN  [us EXCEPT ![1].first = TRUE, ![Len(us)].last = TRUE]

-----------------------------------------------------------------------------
(* The micro-ops of a Nehalem core *)

\* MicroOp::getSubtype_Exec: what the execute part of the instruction is.
ExecSubtype(u) ==
    CASE u.op = "branch" -> "branch"
      [] u.op = "fpadd" -> "fp_addsub"
      [] u.op = "fpmul" -> "fp_muldiv"
      [] OTHER -> "generic"

IsFpLoadStore(u) ==
    u.type \in {"load", "store"} /\ (ExecSubtype(u) \in {"fp_addsub", "fp_muldiv"} \/ u.op = "movhp")

\* getBypassType with the bypass latencies of CoreModelNehalem
BypassLatency(u) ==
    CASE u.type = "load" /\ IsFpLoadStore(u) -> 2
      [] u.type = "store" /\ IsFpLoadStore(u) -> 1
      [] OTHER -> 0

-----------------------------------------------------------------------------
(* DynamicMicroOp::squash and MicroOpPerformanceModel::doSquashing *)

Kept(us) == {k \in DOMAIN us : ~us[k].squashed}
Lowest(S) == CHOOSE x \in S : \A y \in S : x <= y
Highest(S) == CHOOSE x \in S : \A y \in S : y <= x

Squash(us, n) ==
    LET vs == [us EXCEPT ![n].squashed = TRUE] IN
    [vs EXCEPT ![Lowest(Kept(vs))].first = TRUE, ![Highest(Kept(vs))].last = TRUE]

\* squashedCount: the squashed micro-ops up to and including number k
SquashedCount(us, k) == Cardinality({j \in 1..k : us[j].squashed})

NewIntra(us, k) ==
    LET base == k - us[k].static IN
    us[k].intra - (SquashedCount(us, base) - SquashedCount(us, base - us[k].intra))

DoSquashing(us) ==
    [k \in DOMAIN us |->
        IF us[k].squashed THEN us[k]
        ELSE [us[k] EXCEPT
                 !.offset = Cardinality({j \in 1..(k - 1) : j \in Kept(us) /\ us[j].type = us[k].type}),
                 !.intra = IF @ = 0 THEN 0 ELSE NewIntra(us, k)]]

-----------------------------------------------------------------------------
(* MicroOpPerformanceModel::handleInstruction: memory operands *)

\* One operand: the load or store it belongs to is squashed when an earlier
\* access of the instruction in the same direction touched its cache line.
Access_Previous(us, n, lines, k) ==
    LET vs == IF k > 1 /\ lines[k - 1] = lines[k] THEN Squash(us, n) ELSE us
    IN  [vs EXCEPT ![n].line = lines[k],
                   ![n].lat = Rounded(AccessTime[lines[k]]) + BypassLatency(us[n])]

Access(us, n, lines, k) ==
    LET vs == IF \E j \in 1..(k - 1) : lines[j] = lines[k] THEN Squash(us, n) ELSE us
    IN  [vs EXCEPT ![n].line = lines[k],
                   ![n].lat = Rounded(AccessTime[lines[k]]) + BypassLatency(us[n])]

BaseIndex(us, type) == Lowest({k \in DOMAIN us : us[k].type = type})

Accesses(us, type, lines) ==
    IF lines = <<>> THEN us
    ELSE FoldLeft(LAMBDA vs, k : Access(vs, BaseIndex(us, type) + k - 1, lines, k),
                  us, [k \in DOMAIN lines |-> k])

\* The branch outcome goes to the execute micro-op.
Prepared(i, reads, writes, wrong) ==
    LET us == Accesses(Accesses(Decode(i), "load", reads), "store", writes)
        vs == IF i.op = "branch" THEN [us EXCEPT ![BaseIndex(us, "exec")].wrong = wrong] ELSE us
    IN  IF Kept(vs) # DOMAIN vs THEN DoSquashing(vs) ELSE vs

-----------------------------------------------------------------------------
(* Pseudo instructions *)

PseudoUop(type) ==
    [UopOf(type, 0, 0, [op |-> "dynamic"]) EXCEPT !.first = TRUE, !.last = TRUE, !.membar = type = "load"]
FenceUop == [PseudoUop("exec") EXCEPT !.membar = TRUE]

IsLongLatency(p) == Cutoff > 0 /\ p.cost > Cutoff * Period

MemAccessUop(p) ==
    [PseudoUop("load") EXCEPT
        !.lat = IF IsLongLatency(p) THEN 1 ELSE Rounded(p.cost),
        !.forced = IsLongLatency(p)]

PseudoUops(p) ==
    CASE p.cost = 0 -> <<>>
      [] p.cost > 0 /\ p.type # "mem_access" -> <<PseudoUop("exec")>>
      [] p.cost > 0 /\ p.type = "mem_access" ->
            IF p.fence THEN <<FenceUop, MemAccessUop(p), FenceUop>> ELSE <<MemAccessUop(p)>>

\* What is added to the elapsed time at once, past the core model
OutOfBand(p) == IF p.type # "mem_access" \/ IsLongLatency(p) THEN p.cost ELSE 0

-----------------------------------------------------------------------------
(* DynamicMicroOp: the micro-ops that one waits for *)

IntraBase(u) == u.seq - u.offset - u.intra
Dependencies(u) == {IntraBase(u) + j : j \in 0..(u.intra - 1)} \cup Range(u.deps)

AddDependency(u, s) == IF s \in Range(u.deps) THEN u ELSE [u EXCEPT !.deps = Append(@, s)]

\* The earlier ones of the instruction move to the list, so that the range
\* can be cut at its lower end.
RemoveIntra(u, s) ==
    [u EXCEPT !.deps = @ \o [j \in 1..(s - IntraBase(u)) |-> IntraBase(u) + j - 1],
              !.intra = @ - (s - IntraBase(u)) - 1]

RemoveInter(u, s) ==
    LET k == CHOOSE j \in DOMAIN u.deps : u.deps[j] = s
    IN  [u EXCEPT !.deps = Front([@ EXCEPT ![k] = u.deps[Len(u.deps)]])]

RemoveDependency(u, s) == IF s >= IntraBase(u) THEN RemoveIntra(u, s) ELSE RemoveInter(u, s)

\* The assertions of removeDependency: the micro-op is there, the list is large enough.
CanRemove(u, s) ==
    IF s >= IntraBase(u)
    THEN s - IntraBase(u) < u.intra /\ Len(u.deps) + s - IntraBase(u) < MaxDependencies
    ELSE s \in Range(u.deps)

\* A dependant is entered once for each time its list names the producer.
Times(u, s) == Cardinality({j \in 0..(u.intra - 1) : IntraBase(u) + j = s})
               + Cardinality({j \in DOMAIN u.deps : u.deps[j] = s})
Finished(u, s) ==
    CASE Times(u, s) = 0 -> u
      [] Times(u, s) = 1 -> RemoveDependency(u, s)
      [] OTHER -> RemoveDependency(RemoveDependency(u, s), s)

-----------------------------------------------------------------------------
(* The core model takes the micro-ops in *)

Numbered(us, from, n) ==
    [k \in DOMAIN us |-> [us[k] EXCEPT !.seq = from + k, !.insn = n]]

\* RegisterDependencies::setDependencies, one micro-op after the other
Enter(ws, ps, u) ==
    LET needed == {ps[r] : r \in u.src} \ {0}
        linked == FoldSet(LAMBDA s, v : AddDependency(v, s), u, needed)
        gone == {s \in needed : s <= Len(ws) /\ ws[s].done}
    IN  [ws |-> Append(ws, FoldSet(LAMBDA s, v : Finished(v, s), linked, gone)),
         ps |-> [r \in DOMAIN ps |-> IF r \in u.dst THEN u.seq ELSE ps[r]]]

Simulate(us) ==
    LET kept == Numbered(SelectSeq(us, LAMBDA u : ~u.squashed), Len(window), insns + 1)
        in == FoldLeft(LAMBDA st, u : Enter(st.ws, st.ps, u), [ws |-> window, ps |-> producers], kept)
    IN  /\ window' = in.ws
        /\ producers' = in.ps

-----------------------------------------------------------------------------
Init ==
    /\ window = <<>>
    /\ producers = [r \in Registers |-> 0]
    /\ clock = [added |-> 0, costs |-> 0]
    /\ insns = 0
    /\ ok = TRUE

HandleInstruction ==
    /\ insns < MaxInsns
    /\ \E i \in Instructions : \E reads \in [DOMAIN i.loads -> Lines], writes \in [DOMAIN i.stores -> Lines],
                                  wrong \in (IF i.op = "branch" THEN BOOLEAN ELSE {FALSE}) :
          Simulate(Prepared(i, reads, writes, wrong))
    /\ insns' = insns + 1
    /\ UNCHANGED <<clock, ok>>

HandlePseudo ==
    /\ insns < MaxInsns
    /\ \E p \in Pseudos :
          /\ Simulate(PseudoUops(p))
          /\ clock' = [added |-> clock.added + OutOfBand(p), costs |-> clock.costs + p.cost]
    /\ insns' = insns + 1
    /\ UNCHANGED ok

\* A micro-op that waits for nothing completes, and leaves every list.
Complete ==
    /\ \E n \in DOMAIN window :
          /\ ~window[n].done /\ Dependencies(window[n]) = {}
          /\ ok' = \A u \in Range(window) : n \in Dependencies(u) => CanRemove(u, n)
          /\ window' = IF ok' THEN [k \in DOMAIN window |-> [Finished(window[k], n) EXCEPT !.done = @ \/ k = n]]
                       ELSE window
    /\ UNCHANGED <<producers, clock, insns>>

Next == HandleInstruction \/ HandlePseudo \/ Complete
Spec == Init /\ [][Next]_vars

-----------------------------------------------------------------------------
(* Properties *)

Decoded == {n \in 1..insns : \E u \in Range(window) : u.insn = n /\ u.op # "dynamic"}
OfInsn(n) == {k \in DOMAIN window : window[k].insn = n}

\* What a micro-op has to wait for, read off the window: the execute waits
\* for all loads of its instruction and a store for its execute, and both for
\* the last writer of each register they read.
WaitsFor(k) ==
    {j \in OfInsn(window[k].insn) :
        \/ window[k].type = "exec" /\ window[j].type = "load"
        \/ window[k].type = "store" /\ window[j].type = "exec"}
    \cup {j \in 1..(k - 1) : \E r \in window[k].src :
             /\ r \in window[j].dst
             /\ \A l \in (j + 1)..(k - 1) : r \notin window[l].dst}

\* However many micro-ops of an instruction doSquashing dropped, and in
\* whatever order producers complete, the range and the list that getDependency
\* reads name exactly the micro-ops that are still to be waited for, and the
\* assertions of removeDependency hold.
DependenciesExact ==
    /\ ok
    /\ \A k \in DOMAIN window :
          window[k].op # "dynamic" /\ ~window[k].done =>
             Dependencies(window[k]) = {j \in WaitsFor(k) : ~window[j].done}

\* The core model counts instructions by their first and last micro-op:
\* squashing leaves one of each, at the ends.
CountedOnce ==
    \A n \in Decoded : \A k \in OfInsn(n) :
        /\ window[k].first <=> k = Lowest(OfInsn(n))
        /\ window[k].last <=> k = Highest(OfInsn(n))

\* Of the accesses of an instruction to a line one remains in each direction,
\* with the latency of that line.
OneAccessPerLine ==
    \A n \in Decoded : \A j, k \in OfInsn(n) :
        /\ j # k /\ window[j].type = window[k].type /\ window[k].type # "exec" => window[j].line # window[k].line
        /\ window[k].type # "exec" =>
               window[k].lat = Rounded(AccessTime[window[k].line]) + BypassLatency(window[k])

\* The cost of a pseudo instruction is charged once: at once, or as the
\* latency of its load, up to the rounding to cycles.
CostChargedOnce ==
    LET pending == {k \in DOMAIN window : window[k].op = "dynamic" /\ window[k].type = "load"}
        charged == clock.added + Period * MapThenSumSet(LAMBDA k : window[k].lat - (IF window[k].forced THEN 1 ELSE 0), pending)
    IN  2 * (IF charged > clock.costs THEN charged - clock.costs ELSE clock.costs - charged) <= insns * Period
=============================================================================
