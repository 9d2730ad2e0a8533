----------------------------- MODULE RobSmtTimer -----------------------------
(***************************************************************************)
(* The reorder-buffer timing model of a core with hardware threads         *)
(* (rob_smt_timer.cc).  Each thread has its part of the window; the        *)
(* reservation stations, the load and store queues, the issue ports and    *)
(* the clock are shared.  One thread dispatches in a cycle, by turns; all  *)
(* may issue unless simultaneous issue is off.                             *)
(*                                                                         *)
(* th[t] is a RobThread (with "at" for its now and "next" for its          *)
(* next_event) and the running flag of its SmtThread; sh is what they      *)
(* share.  "retired" keeps the committed entries for the properties only.  *)
(***************************************************************************)
EXTENDS RobCore

CONSTANTS
    Configs,     \* as for RobTimer, with threads, repartition, simultaneous, and
                 \* the bound "sleeps": times that a thread goes to sleep
    Programs,    \* Programs[c]: the micro-ops that may come
    MaxUops,     \* bound: micro-ops of a thread that are chosen from them,
    MaxNops      \* bound: and of those that follow

VARIABLES th, sh, retired, sleeps
vars == <<cfg, th, sh, retired, sleeps>>

Threads == 1..cfg.threads
After(t) == (t % cfg.threads) + 1

\* the thread with the shared state, and the parts of it again
View(t) == th[t] @@ sh
ViewOf(c, t) == c.th[t] @@ c.sh
Put(c, t, v) == [th |-> [c.th EXCEPT ![t] = [k \in DOMAIN c.th[t] |-> v[k]]],
                 sh |-> [k \in DOMAIN c.sh |-> v[k]]]

NewThread == [rob |-> <<>>, num |-> 0, stalled |-> 0, inMiss |-> FALSE, seq |-> 1,
    regs |-> [r \in Regs |-> 0], mem |-> <<>>, membar |-> 0, front |-> "smt", cpi |-> "none",
    running |-> TRUE, at |-> 0, next |-> 0, ok |-> TRUE]
NewShared == [now |-> 1, rs |-> 0, lastStore |-> 0, alu |-> 0,
    loads |-> NewQueue(cfg.loads), stores |-> NewQueue(cfg.stores), dispatch |-> 1, issue |-> 1]

\* computeCurrentWindowsize
Awake == {t \in Threads : th[t].running}
Window == IF cfg.repartition THEN cfg.window \div Max({1, Cardinality(Awake)})
          ELSE cfg.window \div cfg.threads

-----------------------------------------------------------------------------
(* Dispatch *)

\* tryDispatch: n micro-ops of the thread so far
RECURSIVE TryDispatch(_, _, _)
TryDispatch(s, n, next) ==
    LET i == s.num + 1
        miss == s.rob[i].uop.icache > 0
        back == [s EXCEPT !.inMiss = @ /\ ~miss]
        Stop(v, m, e) ==
            [s |-> v, some |-> m > 0, next |-> IF v.num < Window THEN Sooner(v.stalled, e) ELSE e]
        Dispatched(D, soon) ==
            IF s.rob[i].uop.wrong
            THEN Stop([D EXCEPT !.next = Sooner(@, soon), !.stalled = Never, !.front = "branch"], n + 1, soon)
            ELSE TryDispatch([D EXCEPT !.next = Sooner(@, soon)], n + 1, soon)
        Entered(v) ==
            Dispatched([v EXCEPT !.rob[i].ready = Later(@, s.now + 1)],
                       Sooner(next, Later(v.rob[i].ready, s.now + 1)))
    IN  IF s.num >= Window THEN Stop([s EXCEPT !.front = "none"], n, next)
        ELSE IF s.num >= Len(s.rob) THEN Stop([s EXCEPT !.ok = FALSE], n, next)
        ELSE IF n = cfg.width THEN Stop([s EXCEPT !.front = "none"], n, next)
        ELSE IF miss /\ ~s.inMiss
        THEN Stop([s EXCEPT !.stalled = s.now + s.rob[i].uop.icache, !.inMiss = TRUE,
                            !.front = "icache"], n, next)
        ELSE IF s.rs = cfg.rs THEN Stop([back EXCEPT !.front = "rsfull"], n, next)
        ELSE Entered(SetDependencies([back EXCEPT !.num = i, !.rs = @ + 1], i))

\* findCpiComponent: what the oldest unfinished instruction waits for
SmtHead(s) ==
    LET open == {i \in 1..s.num : s.rob[i].done >= s.now}
        e == s.rob[Min(open)]
    IN  IF open = {} THEN "none"
        ELSE IF e.issued >= s.now THEN "none"
        ELSE IF e.uop.kind \in {"fence", "serial"} THEN "serial"
        ELSE IF e.uop.kind \in {"load", "store"} THEN "data" ELSE "none"

\* doDispatch: one round over the threads; from is the one that dispatched
Stalled(s) == s.stalled > s.now
Idle(s) == ~s.running \/ s.at > s.now
RECURSIVE DispatchRound(_, _, _, _, _)
DispatchRound(c, k, t, from, next) ==
    LET v == ViewOf(c, t)
        head == SmtHead(v)
        Cpi(T) ==
               IF Stalled(v) THEN (IF head # "none" THEN head ELSE v.front)
               ELSE IF Idle(v) THEN "idle"
               ELSE IF v.num >= Window THEN (IF head # "none" THEN head ELSE "base")
               ELSE IF from # 0 THEN "smt"
               ELSE IF T.s.front # "none" THEN T.s.front ELSE "base"
        Seen(T) ==
            DispatchRound(Put(c, t, [T.s EXCEPT !.cpi = Cpi(T)]), k + 1, After(t),
                          IF T.some THEN t ELSE from, T.next)
    IN  IF k = cfg.threads THEN [c |-> c, from |-> from, next |-> next]
        ELSE Seen(IF ~Stalled(v) /\ ~Idle(v) /\ v.num < Window /\ from = 0
                  THEN TryDispatch(v, 0, next) ELSE [s |-> v, some |-> FALSE, next |-> next])

DoDispatch(c) ==
    LET NextTurn(D) ==
            [c |-> [D.c EXCEPT !.sh.dispatch = After(IF D.from = 0 THEN c.sh.dispatch ELSE D.from)],
             next |-> D.next]
    IN  NextTurn(DispatchRound(c, 0, c.sh.dispatch, 0, Never))

-----------------------------------------------------------------------------
(* Issue and commit *)

\* tryIssue, with the ports that are taken already
TryIssue(v, ports) ==
    LET Tried(I) ==
            [s |-> [I.s EXCEPT !.next = I.next], next |-> I.next, some |-> I.f.count > 0, ports |-> I.f.ports]
    IN  Tried(IssueLoop(v, 1, NewFlags(ports), Never))

\* doIssue: one round; a thread whose next event has not come is not looked at
RECURSIVE IssueRound(_, _, _, _, _)
IssueRound(c, k, t, ports, next) ==
    LET v == ViewOf(c, t)
        Seen(T, d, soon) ==
            IF T.some /\ ~cfg.simultaneous
            THEN [c |-> [d EXCEPT !.sh.issue = After(t)], next |-> soon]
            ELSE IssueRound(d, k + 1, After(t), T.ports, soon)
        Tried(T) == Seen(T, Put(c, t, T.s), Sooner(next, T.next))
    IN  IF k = cfg.threads THEN [c |-> [c EXCEPT !.sh.issue = After(t)], next |-> next]
        ELSE IF v.next <= v.now /\ v.num > 0 THEN Tried(TryIssue(v, ports))
        ELSE IssueRound(c, k + 1, After(t), ports, next)
DoIssue(c) == IssueRound(c, 0, c.sh.issue, NoPorts, Never)

\* doCommit
CommitAll(c) == [c EXCEPT !.th = [t \in Threads |->
    LET v == ViewOf(c, t) IN [c.th[t] EXCEPT !.rob = DoCommit(v).rob, !.num = DoCommit(v).num]]]

-----------------------------------------------------------------------------
(* The cycle *)

\* canExecute
CanExecute(t) ==
    LET v == View(t)
    IN  Stalled(v) \/ Idle(v) \/ v.num >= Window \/ Len(v.rob) >= v.num + 2 * cfg.width

Stages ==
    LET Cycle(D, I, C) ==
            [c |-> C, issued |-> I.c, next |-> Sooner(D.next, Sooner(I.next, NextCommit(C.th[1])))]
        Committed(D, I) == Cycle(D, I, CommitAll(I.c))
        Issue(D) == Committed(D, DoIssue(D.c))
    IN  Issue(DoDispatch([th |-> th, sh |-> sh]))

ExecuteCycle ==
    /\ \A t \in Threads : CanExecute(t)
    /\ \E S \in {Stages} :
          /\ th' = S.c.th
          /\ sh' = [S.c.sh EXCEPT !.now = @ +
                       (IF cfg.threads = 1 /\ S.next # Never /\ S.next > @ + 1 THEN S.next - @ ELSE 1)]
          /\ retired' = [t \in Threads |-> retired[t] \o
                            SubSeq(S.issued.th[t].rob, 1, Committing(ViewOf(S.issued, t)))]
    /\ UNCHANGED <<cfg, sleeps>>

\* the threads push in turn: what one of them pushes does not concern the others
PushInstructions(t, uop) ==
    /\ ~CanExecute(t) /\ \A u \in 1..(t - 1) : CanExecute(u)
    /\ th[t].seq <= MaxUops + MaxNops
    /\ uop = Nop <=> th[t].seq > MaxUops
    /\ th' = [th EXCEPT ![t] = PushUop(@, uop)]
    /\ UNCHANGED <<cfg, sh, retired, sleeps>>

\* threadStall, and threadResume followed by the synchronize() that it announces
Sleep(t) ==
    /\ th[t].running /\ sleeps < cfg.sleeps /\ \E u \in Threads \ {t} : th[u].running
    /\ th' = [th EXCEPT ![t].running = FALSE]
    /\ sleeps' = sleeps + 1
    /\ UNCHANGED <<cfg, sh, retired>>

Synchronize(t, later) ==
    LET at == [th EXCEPT ![t].running = TRUE, ![t].at = sh.now + later]
    IN  /\ ~th[t].running
        /\ th' = at
        /\ sh' = [sh EXCEPT !.now = Later(@, Min({at[u].at : u \in Threads}))]
        /\ UNCHANGED <<cfg, retired, sleeps>>

Init ==
    /\ cfg \in Configs
    /\ th = [t \in Threads |-> NewThread] /\ sh = NewShared
    /\ retired = [t \in Threads |-> <<>>] /\ sleeps = 0

Next ==
    \/ ExecuteCycle
    \/ \E t \in Threads : (\E u \in Programs[cfg.program] \cup {Nop} : PushInstructions(t, u))
    \/ \E t \in Threads : Sleep(t) \/ Synchronize(t, 2)

Spec == Init /\ [][Next]_vars

-----------------------------------------------------------------------------
(* Properties *)

All(t) == retired[t] \o th[t].rob
Issued(e) == e.issued # Never

\* The shared reservation stations are those of the dispatched micro-ops of all
\* threads that have not issued; they never run over, whoever dispatches.
TypeOK ==
    /\ \A t \in Threads : th[t].ok /\ th[t].num \in 0..Len(th[t].rob) /\ th[t].num <= cfg.window
    /\ sh.rs = Cardinality({x \in Threads \X (1..cfg.window) :
                              x[2] <= th[x[1]].num /\ ~Issued(th[x[1]].rob[x[2]])})
    /\ sh.rs <= cfg.rs

\* Dependencies are kept inside each thread and only there: no micro-op issues
\* before the results of its producers.
ResultsInTime ==
    \A t \in Threads : \A i \in DOMAIN All(t) : Issued(All(t)[i]) =>
        \A r \in All(t)[i].uop.src :
            LET w == {j \in 1..(i - 1) : r \in All(t)[j].uop.dst}
                p == All(t)[Max(w)]
            IN  w # {} => Issued(p) /\ All(t)[i].issued >= p.issued + p.uop.lat

\* A fence waits for the stores of every thread, as they share the store queue.
FenceWaits ==
    \A t \in Threads : \A i \in DOMAIN All(t) :
        LET e == All(t)[i]
        IN  Issued(e) /\ e.uop.kind \in {"fence", "serial"} =>
              \A u \in Threads : \A j \in DOMAIN All(u) :
                  IsStore(All(u)[j]) /\ All(u)[j].issued < e.issued =>
                      All(u)[j].issued + All(u)[j].uop.lat + 1 <= e.issued

\* Threads share the core fairly: the thread whose turn it is dispatches, or the
\* turn passes; a thread that can dispatch waits for each other thread once.
Progress == \A t \in Threads :
    th[t].rob # <<>> /\ th[t].num > 0 => sh.now <= 8 * (th[t].rob[1].seq + MaxUops) + 4 * sleeps

\* "Cycle would have been skipped but stuff happened": a thread that is not looked
\* at because its next event is still to come could not have issued anything, when
\* only the issue width limits what issues (when the ports do, tryIssue stops at
\* the first entry after the ports have been taken by another thread).
SkippedThreadIdle ==
    \A t \in Threads : ~cfg.contention /\ th[t].next > sh.now /\ th[t].num > 0
                          => ~TryIssue(View(t), NoPorts).some
=============================================================================
