------------------------------- MODULE RobCore -------------------------------
(***************************************************************************)
(* What the two reorder-buffer timing models, rob_timer.cc and             *)
(* rob_smt_timer.cc, have in common: the entries of the buffer, register   *)
(* and memory dependencies, dispatch, issue with its ports and queues, and *)
(* commit.  "s" is a timer: its buffer and what the stages share.  The     *)
(* latency of a micro-op is what its execution or memory access will take. *)
(* An instruction is one micro-op.                                         *)
(***************************************************************************)
EXTENDS ContentionModel, SequencesExt, TLC

VARIABLE cfg   \* perf_model/core/rob_timer: width, commit, window, rs, loads, stores,
               \* penalty, fwd, disambiguate, inorder, contention

Never == 9999      \* SubsecondTime::MaxTime
Later(a, b) == IF a > b THEN a ELSE b
Sooner(a, b) == IF a < b THEN a ELSE b

Regs == {"a", "b"}
Nop == [kind |-> "exec", src |-> {}, addr |-> {}, dst |-> {}, mem |-> 0, lat |-> 1,
        icache |-> 0, wrong |-> FALSE, port |-> "015", alu |-> FALSE]
NoPorts == [used |-> {}, generic |-> 0, generic05 |-> 0]

NewCore == [
    rob |-> <<>>, num |-> 0, rs |-> 0,     \* rob, m_num_in_rob, m_rs_entries_used
    now |-> 1, stalled |-> 0, inMiss |-> FALSE, lastStore |-> 0, alu |-> 0,
    loads |-> NewQueue(cfg.loads), stores |-> NewQueue(cfg.stores),
    seq |-> 1, regs |-> [r \in Regs |-> 0], mem |-> <<>>, membar |-> 0,
    front |-> "none", cpi |-> "none", ok |-> TRUE]

-----------------------------------------------------------------------------
(* Dependencies *)

\* RobEntry::init
Entry(uop, seq) == [uop |-> uop, seq |-> seq, deps |-> {}, ready |-> Never, readyMax |-> 0,
    addrDeps |-> {}, addrReady |-> Never, addrMax |-> 0, issued |-> Never, done |-> Never]

IsLoad(e) == e.uop.kind = "load"
IsStore(e) == e.uop.kind = "store"
IsFence(e) == e.uop.kind = "fence"

Lowest(s) == s.rob[1].seq
At(s, seq) == seq - Lowest(s) + 1                 \* findEntryBySequenceNumber
Done(s, seq) == s.rob[At(s, seq)].done

\* RegisterDependencies: the producers that are still in the ROB
Producers(s, R) == {s.regs[r] : r \in R} \cap (Lowest(s)..s.seq)

\* setDependencies forgets a producer that has left, and notes the new ones
RegsAfter(s, e) ==
    [r \in Regs |-> IF r \in e.uop.dst THEN e.seq
                    ELSE IF r \in e.uop.src /\ s.regs[r] < Lowest(s) THEN 0 ELSE s.regs[r]]

\* MemoryDependencies: the latest store to the address, and the memory barrier
Fence(s) == IF s.membar > Lowest(s) THEN {s.membar} ELSE {}
StoresInRob(s) == SelectSeq(s.mem, LAMBDA p : p.seq >= Lowest(s))
MemDeps(s, e) ==
    LET same == {p.seq : p \in {q \in ToSet(StoresInRob(s)) : q.addr = e.uop.mem}}
    IN  CASE IsLoad(e) -> (IF same = {} THEN {} ELSE {Max(same)}) \cup Fence(s)
          [] IsStore(e) \/ IsFence(e) -> Fence(s)
          [] OTHER -> {}
MemAfter(s, e) ==
    IF IsStore(e) THEN Append(StoresInRob(s), [seq |-> e.seq, addr |-> e.uop.mem]) ELSE StoresInRob(s)

\* store-to-load forwarding: wait for what the store waits for instead of for it
Forwarded(s, e, deps) ==
    LET stores == {d \in deps : IsStore(s.rob[At(s, d)])}
    IN  IF cfg.fwd /\ IsLoad(e) /\ stores # {}
        THEN LET d == Min(stores) IN (deps \ {d}) \cup s.rob[At(s, d)].deps
        ELSE deps

\* setDependencies of the entry at position i
SetDependencies(s, i) ==
    LET e0 == s.rob[i]
        Waits(P) == {p \in P : Done(s, p) = Never}
        LastOf(P) == Max({0} \cup {Done(s, p) : p \in P \ Waits(P)})
        Waiting(addr, deps) ==
            [e0 EXCEPT !.addrDeps = Waits(addr), !.addrMax = LastOf(addr),
                       !.addrReady = IF IsStore(e0) /\ Waits(addr) = {} THEN LastOf(addr) ELSE Never,
                       !.deps = Waits(deps), !.readyMax = LastOf(deps),
                       !.ready = IF Waits(deps) = {} THEN LastOf(deps) ELSE Never]
        Entered(e) ==
            [s EXCEPT !.rob[i] = e, !.regs = RegsAfter(s, e), !.mem = MemAfter(s, e),
                      !.membar = IF IsFence(e) THEN e.seq ELSE @]
    IN  Entered(Waiting(IF IsStore(e0) THEN Producers(s, e0.uop.addr) ELSE {},
                        Forwarded(s, e0, Producers(s, e0.uop.src) \cup MemDeps(s, e0))))

\* the loop of simulate() and pushInstructions(): a micro-op enters the buffer
PushUop(s, uop) == [s EXCEPT !.rob = Append(@, Entry(uop, s.seq)), !.seq = @ + 1]

-----------------------------------------------------------------------------
(* Issue *)

\* RobContentionNehalem::tryIssue, the ports: 015 and 05 stand for any of those;
\* a port stays taken when the micro-op then fails to get its ALU
PortFree(p, port) ==
    CASE port = "015" -> p.generic < 3
      [] port = "05" -> p.generic05 < 2
      [] port \in {"2", "34"} -> port \notin p.used
      [] OTHER -> port \notin p.used /\ p.generic < 3 /\ (port # "1" => p.generic05 < 2)
TakePort(p, port) ==
    [used |-> IF port \in {"015", "05"} THEN p.used ELSE p.used \cup {port},
     generic |-> IF port \in {"015", "0", "1", "5"} THEN p.generic + 1 ELSE p.generic,
     generic05 |-> IF port \in {"05", "0", "5"} THEN p.generic05 + 1 ELSE p.generic05]
AluFree(s, uop) == uop.alu => s.alu <= s.now
NoMore(ports) == {"2", "34"} \subseteq ports.used /\ ports.generic >= 3

\* issueInstruction: when its result can be used, and when it can be committed
Result(s, e) == IF IsStore(e) THEN s.now + 1 ELSE s.now + e.uop.lat
\* when a micro-op whose dependencies are now deps becomes ready
ReadyAt(d, deps, max) == IF deps = {} THEN max ELSE d.ready

\* last_store_done: when all stores so far have reached memory
StoresDone_Issued(s, e) == IF IsStore(e) THEN Later(s.lastStore, s.now + 1) ELSE s.lastStore
StoresDone(s, e) == IF IsStore(e) THEN Later(s.lastStore, s.now + e.uop.lat + 1) ELSE s.lastStore

Wake(s, e, d) ==
    LET deps == d.deps \ {e.seq}
        max == Later(d.readyMax, Result(s, e))
        addrMax == IF e.seq \in d.addrDeps THEN Later(d.addrMax, Result(s, e)) ELSE d.addrMax
        open == {p \in d.addrDeps \ {e.seq} : p >= Lowest(s) /\ Done(s, p) = Never}
    IN  IF e.seq \notin d.deps THEN d
        ELSE [d EXCEPT !.deps = deps, !.readyMax = max, !.ready = ReadyAt(d, deps, max),
                       !.addrMax = IF IsStore(d) /\ d.addrReady = Never THEN addrMax ELSE @,
                       !.addrReady = IF IsStore(d) /\ @ = Never /\ open = {} THEN addrMax ELSE @]

IssueInstruction(s, i) ==
    LET e == s.rob[i]
        done == s.now + e.uop.lat + 1
        issued == [e EXCEPT !.issued = s.now, !.done = IF IsStore(e) THEN s.now + 1 ELSE done]
        rob == [[j \in DOMAIN s.rob |-> Wake(s, e, s.rob[j])] EXCEPT ![i] = issued]
    IN  [s EXCEPT !.rob = rob, !.rs = @ - 1,
            !.loads = IF IsLoad(e) THEN Occupy(@, s.now, e.uop.lat, e.uop.mem) ELSE @,
            !.stores = IF IsStore(e) THEN Occupy(@, s.now, e.uop.lat, e.uop.mem) ELSE @,
            !.lastStore = StoresDone(s, e),
            !.alu = IF cfg.contention /\ e.uop.alu THEN s.now + e.uop.lat ELSE @,
            !.stalled = IF e.uop.wrong THEN s.now + (cfg.penalty - 2) ELSE @,
            !.ok = @ /\ (IsStore(e) => e.addrReady <= e.ready)]

\* the loop of doIssue over the ROB; f are its flags, next its next event
RECURSIVE IssueLoop(_, _, _, _)
IssueLoop(s, i, f, next) ==
    LET e == s.rob[i]
        kind == e.uop.kind
        atHead == f.head /\ s.lastStore <= s.now
        port == PortFree(f.ports, e.uop.port)
        may == CASE e.ready > s.now -> FALSE
                 [] f.fenced /\ kind \in {"load", "store"} -> FALSE
                 [] kind \in {"serial", "fence"} -> atHead
                 [] ~cfg.contention /\ f.count = cfg.width -> FALSE
                 [] kind = "load" -> /\ HasFreeSlot(s.loads, s.now, -1)
                                     /\ cfg.disambiguate \/ ~f.unresolved
                 [] kind = "store" -> f.head /\ HasFreeSlot(s.stores, s.now, -1)
                 [] OTHER -> TRUE
        Flags(can) ==
             [f EXCEPT !.ports = IF cfg.contention /\ may /\ port THEN TakePort(@, e.uop.port) ELSE @,
                       !.count = IF can THEN @ + 1 ELSE @,
                       !.head = @ /\ can,
                       !.fenced = @ \/ (kind = "fence" /\ e.ready <= s.now /\ ~atHead),
                       !.unresolved = @ \/ (~can /\ kind = "store" /\ e.addrReady > s.now)]
        Looked(can, t, g, seen) ==
            IF \/ kind = "serial" /\ e.ready <= s.now /\ ~atHead
               \/ ~can /\ cfg.inorder
               \/ cfg.contention /\ NoMore(g.ports)
               \/ ~cfg.contention /\ g.count = cfg.width
            THEN [s |-> t, next |-> seen, f |-> g]
            ELSE IssueLoop(t, i + 1, g, seen)
        IssuedOrNot(can, t) == Looked(can, t, Flags(can), Sooner(Sooner(next, e.ready), t.rob[i].done))
        Tried(can) == IssuedOrNot(can, IF can THEN IssueInstruction(s, i) ELSE s)
    IN  IF i > s.num THEN [s |-> s, next |-> next, f |-> f]
        ELSE IF e.done # Never THEN IssueLoop(s, i + 1, f, Sooner(next, e.done))
        ELSE Tried(may /\ (cfg.contention => port /\ AluFree(s, e.uop)))

NewFlags(ports) == [head |-> TRUE, fenced |-> FALSE, unresolved |-> FALSE, count |-> 0, ports |-> ports]

-----------------------------------------------------------------------------
(* Commit *)

\* doCommit: how many entries leave at the front
Committing(s) ==
    Max({k \in 0..Sooner(cfg.commit, Len(s.rob)) : \A i \in 1..k : s.rob[i].done <= s.now})
DoCommit(s) == [s EXCEPT !.rob = SubSeq(@, Committing(s) + 1, Len(@)), !.num = @ - Committing(s)]
NextCommit(s) == IF s.rob = <<>> THEN Never ELSE s.rob[1].done
=============================================================================
