---------------------------- MODULE IntervalTimer ----------------------------
(***************************************************************************)
(* The interval core model.  Micro-ops wait in the window and, dispatched, *)
(* stay in the old window; both are one ring of 2 * window entries.  The   *)
(* rate of dispatch follows from the critical path of the old window.  A   *)
(* miss adds its latency at once and empties the old window; under a long  *)
(* latency load, what does not depend on it is marked as overlapped.       *)
(* A micro-op is one instruction.  fetchTime is never set in the code and  *)
(* is left out, as are the CPI stack and other statistics.                 *)
(***************************************************************************)
EXTENDS ContentionModel, SequencesExt, TLC

CONSTANTS Configs,   \* [window, width, cutoff, penalty, units, contention, atDispatch, program]
          Programs,  \* program -> set of micro-ops
          One,       \* FixedPoint: 16384 stands for 1
          MaxUops    \* bound: micro-ops added

VARIABLES cfg, s
vars == <<cfg, s>>

Regs == {"a", "b"}
Ports == {"0", "1", "2", "34", "5", "05", "015"}
Size == 2 * cfg.window
Bigger(x, y) == IF x > y THEN x ELSE y

IsLoad(e) == e.uop.kind = "load"
IsMem(e) == e.uop.kind \in {"load", "store"}
IsBarrier(e) == e.uop.barrier
IsLongLatencyLoad(e) == IsLoad(e) /\ cfg.cutoff > 0 /\ e.lat > cfg.cutoff

\* WindowEntry::initialize()
Unset == [exec |-> 0, contr |-> 0, overlap |-> {}, dependent |-> "no"]
\* WindowEntry; the latency of an access is known once it is issued
NewEntry(uop, seq) ==
    Unset @@ [uop |-> uop, seq |-> seq, deps |-> {}, issued |-> ~cfg.atDispatch,
              lat |-> IF cfg.atDispatch /\ uop.kind \in {"load", "store"} THEN 0 ELSE uop.lat]
Empty == [seq |-> -1]

-----------------------------------------------------------------------------
(* Windows *)

IncrementIndex(i) == (i + 1) % Size
DecrementIndex(i) == (i + Size - 1) % Size
WindowIndex(i) == ((i % Size) + Size) % Size

HeadEntry(w) == w.ring[w.head]                      \* getInstructionToDispatch()
\* getInstruction(): the index of a sequence number
IndexOf(w, seq) == WindowIndex(w.head - (HeadEntry(w).seq - seq))
WindowContains(w, seq) == seq >= HeadEntry(w).seq /\ seq <= w.ring[DecrementIndex(w.tail)].seq
OldWindowContains(w, seq) == seq >= w.ring[w.old].seq /\ seq <= w.ring[DecrementIndex(w.head)].seq

\* the indices from one of them up to, and without, another one
Indices(from, n) == [k \in 1 .. n |-> (from + k - 1) % Size]
WindowIterator(w) == Indices(w.head, w.len)
OldWindowIterator(w) == Indices(w.old, w.oldLen)

CriticalPathLength(w) == IF w.cpHead <= w.cpTail THEN w.cpTail - w.cpHead ELSE 0
MinimalFlushLatency(w) == (w.oldLen + (cfg.width - 1)) \div cfg.width

NoStats(w) == [w EXCEPT !.total = 0, !.ports = [p \in Ports |-> 0]]
AddStats(w, e) == [w EXCEPT !.total = @ + e.contr, !.ports[e.uop.port] = @ + 1]
RemoveStats(w, e) == [w EXCEPT !.total = @ - e.contr, !.ports[e.uop.port] = @ - 1]

ClearOldWindow(w, cp) == NoStats([w EXCEPT !.cpHead = cp, !.cpTail = cp, !.oldLen = 0, !.old = w.head])

\* the oldest micro-op leaves a full old window
MakeRoom(w) ==
    IF w.oldLen = cfg.window
    THEN [RemoveStats(w, w.ring[w.old]) EXCEPT !.cpHead = Bigger(@, w.ring[w.old].exec),
                                               !.old = IncrementIndex(@), !.oldLen = @ - 1]
    ELSE w
\* Windows::dispatchInstruction()
ToOldWindow(w) ==
    [AddStats(MakeRoom(w), HeadEntry(w)) EXCEPT !.head = IncrementIndex(@), !.len = @ - 1, !.oldLen = @ + 1]

\* RegisterDependencies and MemoryDependencies::setDependencies()
Dependencies(w, e, lowest) ==
    LET latest == {p.seq : p \in {q \in ToSet(w.stores) : q.addr = e.uop.mem /\ q.seq >= lowest}}
        fence == IF w.membar > lowest THEN {w.membar} ELSE {}
    IN ({w.regs[r] : r \in e.uop.src} \cap (lowest .. e.seq))
       \cup (IF IsLoad(e) /\ latest # {} THEN {Max(latest)} ELSE {})
       \cup (IF IsMem(e) \/ IsBarrier(e) THEN fence ELSE {})

\* Windows::add()
AddUop(w, uop) ==
    LET e == NewEntry(uop, w.seq)
        lowest == IF w.len = 0 /\ w.oldLen = 0 THEN w.seq ELSE w.ring[w.old].seq
    IN [w EXCEPT !.ring[w.tail] = [e EXCEPT !.deps = Dependencies(w, e, lowest)],
                 !.tail = IncrementIndex(@), !.len = @ + 1, !.seq = @ + 1,
                 !.regs = [r \in Regs |-> IF r \in uop.dst THEN w.seq
                                          ELSE IF r \in uop.src /\ @[r] < lowest THEN -1 ELSE @[r]],
                 !.stores = SelectSeq(@, LAMBDA p : p.seq >= lowest)
                               \o (IF uop.kind = "store" THEN <<[seq |-> w.seq, addr |-> uop.mem]>> ELSE <<>>),
                 !.membar = IF uop.barrier /\ ~IsMem(e) THEN w.seq ELSE @]

\* mutant of MarkProducers: the marks stay
MarkProducers_Kept(w, acc, i) ==
    LET e == w.ring[i]
        producers == {IndexOf(w, d) : d \in {q \in e.deps : OldWindowContains(w, q)}}
    IN IF acc.map[i] = 0 THEN acc
       ELSE [map |-> [k \in DOMAIN acc.map |->
                         IF k \in producers THEN Bigger(w.ring[k].lat + acc.map[i], acc.map[k]) ELSE acc.map[k]],
             latency |-> Bigger(acc.latency, acc.map[i])]
\* a micro-op with a path to the branch marks its producers
MarkProducers(w, acc, i) ==
    LET e == w.ring[i]
        producers == {IndexOf(w, d) : d \in {q \in e.deps : OldWindowContains(w, q)}}
    IN IF acc.map[i] = 0 THEN acc
       ELSE [map |-> [k \in DOMAIN acc.map |->
                         IF k = i THEN 0
                         ELSE IF k \in producers THEN Bigger(w.ring[k].lat + acc.map[i], acc.map[k])
                         ELSE acc.map[k]],
             latency |-> Bigger(acc.latency, acc.map[i])]
\* calculateBranchResolutionLatency(): from the youngest to the oldest
BranchResolution(w) ==
    LET direct == {IndexOf(w, d) : d \in {q \in HeadEntry(w).deps : OldWindowContains(w, q)}}
        map == [i \in 0 .. Size - 1 |-> IF i \in direct THEN w.ring[i].lat ELSE w.execMap[i]]
    IN FoldLeft(LAMBDA acc, i : MarkProducers(w, acc, i), [map |-> map, latency |-> 0], Reverse(OldWindowIterator(w)))

\* IntervalContentionNehalem::getEffectiveCriticalPathLength()
EffectiveLength(w, length) ==
    LET single == Max({length} \cup {w.ports[p] : p \in Ports \ {"05", "015"}})
        use05 == w.ports["0"] + w.ports["5"] + w.ports["05"]
        both == IF use05 > 2 * single THEN (use05 + 1) \div 2 ELSE single
        use015 == w.ports["0"] + w.ports["1"] + w.ports["5"] + w.ports["015"]
    IN IF ~cfg.contention THEN length
       ELSE IF use015 > 3 * both THEN (use015 + 2) \div 3 ELSE both

-----------------------------------------------------------------------------
(* IntervalTimer *)

\* issueMemOp()
IssueMemOp(w, i) ==
    IF IsMem(w.ring[i]) /\ ~w.ring[i].issued
    THEN [w EXCEPT !.ring[i].issued = TRUE, !.ring[i].lat = @ + w.ring[i].uop.lat]
    ELSE w

\* getMaxProducerExecTime()
MaxProducer(w) ==
    Max({0} \cup {w.ring[IndexOf(w, d)].exec : d \in {q \in HeadEntry(w).deps : OldWindowContains(w, q)}})

\* a time that is so far away that the old window is emptied instead; what it
\* adds to the latency is 1 (longLatencyOperationLatency() returns true)
LongExtension(w, exec) == exec >= w.cpTail /\ exec - w.cpTail >= cfg.cutoff
\* updateCriticalPath(): the head executes at a given time
UpdateCriticalPath(w, exec) ==
    LET x == [w EXCEPT !.ring[w.head].exec = exec]
    IN IF LongExtension(w, exec) THEN ClearOldWindow(x, exec)
       ELSE IF exec > w.cpTail
       THEN [x EXCEPT !.ring[w.head].contr = exec - w.cpTail, !.cpTail = exec]
       ELSE x
Extra(w, exec) == IF LongExtension(w, exec) THEN 1 ELSE 0

\* a micro-op that cannot execute under the load that blocks the window
DependsOnMiss(w, e) ==
    \E d \in e.deps : /\ WindowContains(w, d)
                      /\ LET p == w.ring[IndexOf(w, d)]
                         IN p.dependent = "data" \/ (p.dependent = "indep" /\ IsLongLatencyLoad(p))

\* blockWindow(), one micro-op after the head
Overlap(acc, i) ==
    LET w == [acc.w EXCEPT !.ring[i].dependent = "no", !.ring[i].overlap = @ \cup {"icache"}]
        e == w.ring[i]
        barrier == acc.barrier \/ IsBarrier(e)
        data == DependsOnMiss(w, e) \/ (IsLoad(e) /\ e.uop.mem = HeadEntry(w).uop.mem)
        marked == IF data THEN [w EXCEPT !.ring[i].dependent = "data"] ELSE w
    IN IF acc.stop THEN acc
       ELSE IF e.uop.kind = "serial" THEN [acc EXCEPT !.w = w, !.stop = TRUE]
       ELSE [stop |-> FALSE, barrier |-> barrier,
             w |-> IF e.uop.kind = "branch" /\ ~data
                   THEN [marked EXCEPT !.ring[i].overlap = @ \cup {"bpred"}, !.overlapped = @ \cup {e.seq}]
                   ELSE IF IsLoad(e) /\ ~data /\ ~barrier /\ "dcache" \notin e.overlap
                   THEN [IssueMemOp([marked EXCEPT !.ring[i].overlap = @ \cup {"dcache"}], i)
                            EXCEPT !.ring[i].dependent = "indep", !.ring[i].exec = w.cpHead,
                                   !.overlapped = @ \cup {e.seq}]
                   ELSE marked]
BlockWindow(w) ==
    LET start == [w EXCEPT !.ring[w.head].dependent = "indep", !.overlapped = {}, !.blocker = HeadEntry(w).seq]
    IN FoldLeft(Overlap, [w |-> start, barrier |-> FALSE, stop |-> FALSE], Tail(WindowIterator(w))).w

\* a load goes through the load/store queue; a fence waits for all of it
LoadDone(w, at) ==
    IF IsBarrier(HeadEntry(w)) THEN BarrierTime(w.queue, at, HeadEntry(w).lat)
    ELSE CompletionTime(w.queue, at, HeadEntry(w).lat)
LoadQueue(w, at) ==
    IF IsBarrier(HeadEntry(w)) THEN BarrierAll(w.queue, at, HeadEntry(w).lat, 0)
    ELSE Occupy(w.queue, at, HeadEntry(w).lat, 0)

\* misses in the front end: instruction cache, then branch prediction
FrontEnd(w) ==
    LET e == HeadEntry(w)
        tail == w.cpTail
        missed == e.uop.icache > 0 /\ "icache" \notin e.overlap
        wrong == e.uop.kind = "branch" /\ e.uop.wrong /\ "bpred" \notin e.overlap
        fetch == IF missed THEN e.uop.icache ELSE 0
        Wrong(v, found) ==
            [w |-> [ClearOldWindow(v, tail + cfg.penalty + found.latency) EXCEPT !.execMap = found.map],
             stop |-> TRUE, latency |-> fetch + cfg.penalty + found.latency]
        Fetched(v) == IF wrong THEN Wrong(v, BranchResolution(v)) ELSE [w |-> v, stop |-> missed, latency |-> fetch]
    IN Fetched(IF missed THEN ClearOldWindow(w, tail + fetch) ELSE w)

\* execution; producer is the time of the last result that the head needs
Back(w, producer) ==
    LET e == HeadEntry(w)
        ready == Bigger(producer, w.cpHead)
        fence == Max({producer, w.maxStore, w.maxLoad}) + e.lat
        done == LoadDone(w, ready)
        queued == [w EXCEPT !.queue = LoadQueue(w, ready)]
        long == ClearOldWindow([queued EXCEPT !.ring[w.head].exec = w.cpTail], w.cpTail + done - ready)
    IN CASE e.uop.kind = "serial" ->
              [w |-> ClearOldWindow([w EXCEPT !.ring[w.head].exec = w.cpTail], w.cpTail),
               latency |-> Bigger(CriticalPathLength(w), MinimalFlushLatency(w)) + e.lat]
         [] e.uop.kind = "exec" /\ IsBarrier(e) ->
              [w |-> UpdateCriticalPath(w, fence), latency |-> Extra(w, fence)]
         [] IsLoad(e) /\ "dcache" \in e.overlap ->
              [w |-> [w EXCEPT !.maxLoad = Bigger(@, e.exec)], latency |-> 0]
         [] IsLoad(e) /\ "dcache" \notin e.overlap /\ IsLongLatencyLoad(e) ->
              [w |-> [BlockWindow(long) EXCEPT !.maxLoad = Bigger(@, w.cpTail)], latency |-> done - ready]
         [] IsLoad(e) /\ "dcache" \notin e.overlap /\ ~IsLongLatencyLoad(e) ->
              [w |-> [UpdateCriticalPath(queued, done) EXCEPT !.maxLoad = Bigger(@, done)],
               latency |-> Extra(w, done)]
         [] e.uop.kind = "store" ->
              [w |-> [UpdateCriticalPath(w, ready + 1) EXCEPT !.maxStore = Bigger(@, ready + e.lat)],
               latency |-> Extra(w, ready + 1)]
         [] e.uop.kind \in {"exec", "branch"} /\ ~IsBarrier(e) ->
              [w |-> UpdateCriticalPath(w, ready + e.lat), latency |-> Extra(w, ready + e.lat)]

\* dispatchInstruction(), then Windows::dispatchInstruction()
DispatchInstruction(w) ==
    LET Old(front, back) ==
            [w |-> ToOldWindow(back.w), latency |-> front.latency + back.latency, stop |-> front.stop]
        Executed(front, producer) == Old(front, Back(front.w, producer))
        Issued(v) == Executed(FrontEnd(v), MaxProducer(v))
    IN Issued(IssueMemOp(w, w.head))

RECURSIVE DispatchLoop(_, _, _)
DispatchLoop(w, count, latency) ==
    IF w.len = 0 \/ count.done = cfg.width \/ count.done >= count.rate THEN [w |-> w, done |-> count.done, latency |-> latency]
    ELSE LET n == [count EXCEPT !.done = @ + 1]
             Dispatched(d) ==
                IF d.stop THEN [w |-> d.w, done |-> n.done, latency |-> latency + d.latency]
                ELSE DispatchLoop(d.w, n, latency + d.latency)
         IN Dispatched(DispatchInstruction(w))

\* calculateCurrentDispatchRate(): in raw FixedPoint; the rate, and what is left of it
Ipc(w) == (One * w.oldLen) \div EffectiveLength(w, CriticalPathLength(w)) + w.rest
Rate(w) == IF CriticalPathLength(w) > 0 THEN Ipc(w) \div One ELSE cfg.width
Rest(w) == IF CriticalPathLength(w) > 0 /\ Rate(w) < cfg.width THEN Ipc(w) - Rate(w) * One ELSE 0

-----------------------------------------------------------------------------
\* simulate(): a micro-op enters a window that is not full
Simulate ==
    /\ s.len < cfg.window /\ s.seq < MaxUops
    /\ \E uop \in Programs[cfg.program] : s' = AddUop(s, uop)
    /\ UNCHANGED cfg

\* dispatchWindow(), as long as the window is full
DispatchWindow ==
    /\ s.len = cfg.window
    /\ \E d \in {DispatchLoop([s EXCEPT !.rest = Rest(s), !.overlapped = {}], [done |-> 0, rate |-> Rate(s)], 0)} :
          s' = [d.w EXCEPT !.time = @ + (IF d.latency = 0 THEN 1 ELSE d.latency),
                           !.idle = IF d.done = 0 THEN @ + 1 ELSE 0]
    /\ UNCHANGED cfg

Init ==
    /\ cfg \in Configs
    /\ s = [ring |-> [i \in 0 .. Size - 1 |-> Empty], head |-> 0, tail |-> 0, old |-> 0, len |-> 0, oldLen |-> 0,
            seq |-> 0, cpHead |-> 0, cpTail |-> 0, total |-> 0, ports |-> [p \in Ports |-> 0],
            regs |-> [r \in Regs |-> -1], stores |-> <<>>, membar |-> -1, execMap |-> [i \in 0 .. Size - 1 |-> 0],
            rest |-> 0, maxLoad |-> 0, maxStore |-> 0, queue |-> NewQueue(cfg.units),
            overlapped |-> {}, blocker |-> -1, time |-> 0, idle |-> 0]

Next == Simulate \/ DispatchWindow
Spec == Init /\ [][Next]_vars

-----------------------------------------------------------------------------
(* Properties *)

\* The ring holds the old window and, behind it, the window: the micro-ops are
\* in program order without gaps, so that getInstruction() finds every producer
\* ("Getting an instruction that is not in the window").
RingInOrder ==
    /\ s.oldLen <= cfg.window /\ s.head = WindowIndex(s.old + s.oldLen) /\ s.tail = WindowIndex(s.head + s.len)
    /\ \A k \in 0 .. s.oldLen + s.len - 1 :
          s.ring[WindowIndex(s.old + k)].seq = s.seq - (s.oldLen + s.len) + k

\* The contributions and ports that are counted are those of the old window, and
\* the contributions are within its critical path (getCpContrFraction() divides
\* by its length).
PathAccounted ==
    LET old == ToSet(OldWindowIterator(s))
    IN /\ s.cpHead <= s.cpTail /\ \A i \in old : s.ring[i].exec <= s.cpTail
       /\ s.total = MapThenSumSet(LAMBDA i : s.ring[i].contr, old)
       /\ s.total <= s.cpTail - s.cpHead
       /\ \A p \in Ports : s.ports[p] = Cardinality({i \in old : s.ring[i].uop.port = p})

\* The time to resolve a branch is the longest chain of producers in the old
\* window, and the map it is computed in is empty before and after ("The
\* m_exec_time_map is empty when the algorithm starts !").
BranchResolutionExact ==
    LET old == [q \in {s.ring[i].seq : i \in ToSet(OldWindowIterator(s))} |->
                   CHOOSE i \in ToSet(OldWindowIterator(s)) : s.ring[i].seq = q]
        chain[q \in DOMAIN old] ==
            s.ring[old[q]].lat + Max({0} \cup {chain[d] : d \in s.ring[old[q]].deps \cap DOMAIN old})
        found == BranchResolution(s)
    IN s.len > 0 =>
          /\ found.latency = Max({0} \cup {chain[d] : d \in HeadEntry(s).deps \cap DOMAIN old})
          /\ \A i \in DOMAIN found.map : found.map[i] = 0
          /\ \A i \in DOMAIN s.execMap : s.execMap[i] = 0

\* What is hidden under a long latency load neither depends on it, directly or
\* through others in the window, nor is a load behind a fence (blockWindow()).
OverlapIndependent ==
    LET window == [q \in {s.ring[i].seq : i \in ToSet(WindowIterator(s))} |->
                      CHOOSE i \in ToSet(WindowIterator(s)) : s.ring[i].seq = q]
        needs[q \in DOMAIN window] ==
            \/ s.blocker \in s.ring[window[q]].deps
            \/ \E d \in s.ring[window[q]].deps \cap DOMAIN window : needs[d]
    IN \A q \in s.overlapped \cap DOMAIN window :
          /\ ~needs[q]
          /\ IsLoad(s.ring[window[q]]) =>
                \A d \in DOMAIN window : d <= q /\ d > s.blocker => ~IsBarrier(s.ring[window[d]])

\* A full window does not wait longer than its critical path for a dispatch:
\* fractions of a micro-op add up to one (calculateCurrentDispatchRate()).
DispatchesSoon == s.idle <= EffectiveLength(s, CriticalPathLength(s))
=============================================================================
