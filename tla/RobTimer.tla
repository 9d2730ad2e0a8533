------------------------------ MODULE RobTimer ------------------------------
(***************************************************************************)
(* The reorder-buffer timing model of one core (rob_timer.cc).             *)
(*                                                                         *)
(* simulate() appends the micro-ops of an instruction and then executes    *)
(* cycles until the front end wants more of them; a cycle dispatches,      *)
(* issues and commits, and then skips to the next event it has seen.       *)
(* "core" is the state of the timer; "retired" keeps the committed entries *)
(* for the properties only.                                                *)
(***************************************************************************)
EXTENDS RobCore

CONSTANTS
    Configs,   \* the configurations; the "program" of one selects its micro-ops
    Programs,  \* Programs[c]: the micro-ops that may come, [kind, src, addr, dst, mem, lat,
               \* icache, wrong, port, alu]
    MaxUops,   \* bound: micro-ops of a run,
    MaxNops,   \* bound: and of those that follow them
    MaxJumps   \* bound: times that the clock is moved from outside

VARIABLES core, retired, jumps
vars == <<cfg, core, retired, jumps>>

-----------------------------------------------------------------------------
(* Dispatch *)

\* the loop of doDispatch: n micro-ops so far; next is the next event
RECURSIVE DispatchLoop(_, _, _)
DispatchLoop(s, n, next) ==
    LET i == s.num + 1
        miss == s.rob[i].uop.icache > 0
        back == [s EXCEPT !.inMiss = @ /\ ~miss]      \* the miss is over
        D == [back EXCEPT !.num = i, !.rs = @ + 1, !.rob[i].ready = Later(@, s.now + 1)]
        Stop(t, front) == [s |-> [t EXCEPT !.front = front], next |-> next]
    IN  IF s.num >= cfg.window THEN Stop(s, "none")
        ELSE IF s.num >= Len(s.rob) THEN Stop([s EXCEPT !.ok = FALSE], "none")
        ELSE IF n = cfg.width THEN Stop(s, "none")
        ELSE IF miss /\ ~s.inMiss
        THEN Stop([s EXCEPT !.stalled = s.now + s.rob[i].uop.icache, !.inMiss = TRUE], "icache")
        ELSE IF s.rs = cfg.rs THEN Stop(back, "rsfull")
        ELSE IF s.rob[i].uop.wrong
        THEN [s |-> [D EXCEPT !.stalled = Never, !.front = "branch"],
              next |-> Sooner(next, D.rob[i].ready)]
        ELSE DispatchLoop(D, n + 1, Sooner(next, D.rob[i].ready))

\* findCpiComponent: what the oldest unfinished instruction waits for
RobHead(s) ==
    LET open == {i \in 1..s.num : s.rob[i].done >= s.now}
        e == s.rob[Min(open)]
    IN  IF open = {} THEN "none"
        ELSE IF e.uop.kind \in {"fence", "serial"} THEN "serial"
        ELSE IF e.uop.kind \in {"load", "store"} THEN "data" ELSE "none"

\* doDispatch, with the component that the cycle is charged to
DoDispatch(s) ==
    LET D == IF s.stalled <= s.now THEN DispatchLoop(s, 0, Never) ELSE [s |-> s, next |-> Never]
        head == RobHead(D.s)
        cpi == IF D.s.front # "none" THEN (IF head # "none" THEN head ELSE D.s.front)
               ELSE IF D.s.num = cfg.window /\ head # "none" THEN head ELSE "base"
    IN  [s |-> [D.s EXCEPT !.cpi = cpi],
         next |-> IF D.s.num = cfg.window THEN D.next ELSE Sooner(D.s.stalled, D.next)]

-----------------------------------------------------------------------------
(* The cycle *)

\* execute() asks for more micro-ops before it does anything
WantsMore(s) == s.stalled <= s.now /\ Len(s.rob) < s.num + 2 * cfg.width

\* one cycle, without the time it takes
Stages(s) ==
    LET D == DoDispatch(s)
        I == IssueLoop(D.s, 1, NewFlags(NoPorts), Never)
        C == DoCommit(I.s)
    IN  [s |-> C, issued |-> I.s, next |-> Sooner(D.next, Sooner(I.next, NextCommit(C)))]

\* how far execute() moves the clock
Skip(s, next) == IF next # Never /\ next > s.now + 1 THEN next - s.now ELSE 1

Execute ==
    LET S == Stages(core)
    IN  /\ ~WantsMore(core)
        /\ core' = [S.s EXCEPT !.now = @ + Skip(core, S.next)]
        /\ retired' = retired \o SubSeq(S.issued.rob, 1, Committing(S.issued))
        /\ UNCHANGED <<cfg, jumps>>

\* simulate(): after MaxUops micro-ops of the program only Nop follows
Simulate(uop) ==
    /\ WantsMore(core) /\ core.seq <= MaxUops + MaxNops
    /\ uop = Nop <=> core.seq > MaxUops
    /\ core' = SetDependencies(PushUop(core, uop), Len(core.rob) + 1)
    /\ UNCHANGED <<cfg, retired, jumps>>

\* synchronize(): the clock of the core was moved from outside
Synchronize(k) ==
    /\ WantsMore(core) /\ core.rob # <<>> /\ jumps < MaxJumps
    /\ core' = [core EXCEPT !.now = @ + k]
    /\ jumps' = jumps + 1
    /\ UNCHANGED <<cfg, retired>>

Init ==
    /\ cfg \in Configs
    /\ core = NewCore /\ retired = <<>> /\ jumps = 0

Next == Execute \/ (\E u \in Programs[cfg.program] \cup {Nop} : Simulate(u)) \/ Synchronize(3)

Spec == Init /\ [][Next]_vars

-----------------------------------------------------------------------------
(* Properties *)

All == retired \o core.rob
Issued(e) == e.issued # Never
Writer(i, r) == {j \in 1..(i - 1) : r \in All[j].uop.dst}

\* The counters of the window agree with the entries: the reservation stations in
\* use are the dispatched micro-ops that have not issued, within their limits.
TypeOK ==
    /\ core.ok
    /\ core.num \in 0..Sooner(cfg.window, Len(core.rob))
    /\ core.rs = Cardinality({i \in 1..core.num : ~Issued(core.rob[i])}) /\ core.rs <= cfg.rs
    /\ \A i \in DOMAIN All : All[i].seq = i

\* No micro-op issues before the latest earlier writer of each of its source
\* registers has issued and its result is there, however the two were pushed,
\* dispatched, issued and committed.
ResultsInTime ==
    \A i \in DOMAIN All : Issued(All[i]) =>
        \A r \in All[i].uop.src : Writer(i, r) # {} =>
            LET p == All[Max(Writer(i, r))]
            IN  Issued(p) /\ All[i].issued >= p.issued + p.uop.lat

\* A load never overtakes the latest earlier store to its address unless the store
\* can forward its value, and no memory access overtakes an earlier fence.
MemoryOrder ==
    \A i \in DOMAIN All : Issued(All[i]) /\ All[i].uop.kind \in {"load", "store"} =>
        /\ \A j \in 1..(i - 1) : IsFence(All[j]) => All[j].issued <= All[i].issued
        /\ LET st == {j \in 1..(i - 1) : IsStore(All[j]) /\ All[j].uop.mem = All[i].uop.mem}
           IN  st # {} /\ IsLoad(All[i]) /\ ~cfg.fwd => All[Max(st)].issued < All[i].issued

\* A fence issues when everything before it has issued and every earlier store
\* has reached memory; a store issues when everything before it has.
FenceWaits ==
    \A i \in DOMAIN All : Issued(All[i]) /\ All[i].uop.kind \in {"fence", "serial", "store"} =>
        \A j \in 1..(i - 1) :
            /\ All[j].issued <= All[i].issued
            /\ ~IsStore(All[i]) /\ IsStore(All[j]) =>
                  All[j].issued + All[j].uop.lat + 1 <= All[i].issued

\* "Cycle would have been skipped but stuff happened": in every cycle that the
\* timer skips nothing would have been dispatched, issued or committed, and the
\* cycle would have been charged to the same component.
SkipStep ==
      (core'.now > core.now + 1 /\ ~WantsMore(core) =>
          \A t \in (core.now + 1)..(core'.now - 1) :
              LET s == [core' EXCEPT !.now = t]
                  S == Stages(s)
              IN  S.s = [s EXCEPT !.cpi = Stages(core).s.cpi, !.front = S.s.front])

\* Micro-ops keep leaving the buffer: the oldest one is never stuck while more arrive.
Progress == core.rob # <<>> /\ core.num > 0 => core.now <= core.rob[1].seq * 8 + 3 * jumps
=============================================================================
