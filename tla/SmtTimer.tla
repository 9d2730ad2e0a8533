------------------------------ MODULE SmtTimer ------------------------------
(***************************************************************************)
(* The barrier between the hardware threads (contexts) of an SMT core      *)
(* (smt_timer.cc).  The simulation threads of the contexts push micro-ops; *)
(* one that is far enough ahead waits, and the last to arrive chooses who  *)
(* executes the timing model for all of them.  The executor gives the lock *)
(* away while it is in the global barrier, where threads may be moved.     *)
(*                                                                         *)
(* All code of the timer runs under m_lock; the atomic steps end where it  *)
(* is given up: in cond.wait and in client->synchronize().                 *)
(***************************************************************************)
EXTENDS Integers, FiniteSets, FiniteSetsExt

CONSTANTS
    Contexts,  \* m_threads: the SmtThreads of the core, integers
    Threads,   \* application threads
    Enough,    \* threadHasEnoughInstructions: more than this many (2 * dispatchWidth)
    Ahead,     \* simulate() waits above this many (128)
    Preempted, \* where a thread may be when it loses its context: run, wait or sync
    MaxMoves,  \* bound: times that the scheduler moves a thread
    MaxStalls  \* bound: times that a thread stalls

VARIABLES
    thread,    \* SmtThread::thread
    running,   \* SmtThread::running
    inBarrier, \* SmtThread::in_barrier
    surplus,   \* threadNumSurplusInstructions
    inSync,    \* in_sync
    executor,  \* execute_thread
    pc,        \* of a thread: run, wait (cond.wait), sync (global barrier), asleep, out, done
    at,        \* the context whose simulate() a waiting or synchronizing thread is in
    woken,     \* threads that have been signalled
    hung,      \* a loop of the timer does not end
    moves, stalls
timer == <<thread, running, inBarrier, surplus, inSync, executor, woken, hung>>
vars == <<thread, running, inBarrier, surplus, inSync, executor, pc, at, woken, hung, moves, stalls>>

None == 0      \* INVALID_SMTTHREAD_ID, no thread, no core

Place(t) == IF \E x \in Contexts : thread[x] = t THEN CHOOSE x \in Contexts : thread[x] = t ELSE None

\* isBarrierReached
IsBarrierReached(run, bar) ==
    ~inSync /\ (\A x \in Contexts : run[x] => bar[x]) /\ (\E x \in Contexts : bar[x])

\* barrierRelease(all, me): the contexts it releases and the executor it names
HasEnough(x) == surplus[x] > Enough
BarrierRelease(all, me, run, bar) ==
    LET passed == IF all THEN Contexts
                  ELSE LET stop == {x \in Contexts : bar[x] /\ ~HasEnough(x)}
                       IN  IF stop = {} THEN Contexts ELSE {x \in Contexts : x <= Min(stop)}
        first == {x \in passed : bar[x] /\ ~HasEnough(x)}
        some == \E x \in passed : run[x] /\ (bar[x] => ~HasEnough(x))
        ready == {x \in Contexts : bar[x] /\ run[x]}
        limit(x) == CHOOSE k \in {1, 2, 4, 8} : surplus[x] < k /\ \A j \in {1, 2, 4, 8} : j < k => surplus[x] >= j
        least == {x \in ready : \A y \in ready : limit(x) <= limit(y)}
        second == IF some \/ ready = {} THEN {} ELSE IF all THEN least ELSE {Min(least)}
        chosen == IF all THEN {} ELSE first \cup second
    IN  [free |-> first \cup second, hang |-> ~some /\ ready = {},
         executor |-> IF chosen = {} THEN me ELSE IF second # {} THEN Min(second) ELSE Min(first)]

\* signals to the contexts X: a thread that waits there has been woken
Signalled(X) == {t \in Threads : pc[t] = "wait" /\ at[t] \in X}

-----------------------------------------------------------------------------
(* A thread pushes instructions, waits and executes *)

\* where a thread is when it leaves simulate()
Leaves(t) == IF Place(t) = None THEN "out" ELSE "run"

\* execute(): cycles until a context that can dispatch has too few micro-ops,
\* and then the global barrier
Execute(t, x) ==
    /\ \E s \in [Contexts -> 0..(Ahead + 1)] :
         /\ \A y \in Contexts : IF running[y] THEN s[y] <= surplus[y] ELSE s[y] = surplus[y]
         /\ (\E y \in Contexts : running[y]) => \E y \in Contexts : running[y] /\ s[y] < Enough
         /\ surplus' = s
    /\ hung' = (hung \/ \A y \in Contexts : ~running[y])
    /\ executor' = None /\ inSync' = TRUE
    /\ pc' = [pc EXCEPT ![t] = "sync"] /\ at' = [at EXCEPT ![t] = x]

\* simulate(), with barrier() when the thread is ahead
Simulate(t) ==
    LET x == Place(t)
        bar == [inBarrier EXCEPT ![x] = TRUE]
        R == BarrierRelease(FALSE, x, running, bar)
    IN  /\ pc[t] = "run" /\ x # None
        /\ IF surplus[x] < Ahead
           THEN /\ surplus' = [surplus EXCEPT ![x] = @ + 1]
                /\ UNCHANGED <<inBarrier, inSync, executor, pc, at, woken, hung>>
           ELSE IF ~IsBarrierReached(running, bar)
           THEN /\ inBarrier' = bar /\ pc' = [pc EXCEPT ![t] = "wait"] /\ at' = [at EXCEPT ![t] = x]
                /\ UNCHANGED <<surplus, inSync, executor, woken, hung>>
           ELSE /\ inBarrier' = [y \in Contexts |-> bar[y] /\ y \notin R.free]
                /\ woken' = woken \cup Signalled(R.free \ {x})
                /\ IF x \in R.free /\ R.executor = x
                   THEN Execute(t, x)
                   ELSE /\ executor' = R.executor /\ hung' = (hung \/ R.hang)
                        /\ pc' = IF x \in R.free THEN pc ELSE [pc EXCEPT ![t] = "wait"]
                        /\ at' = [at EXCEPT ![t] = x]
                        /\ UNCHANGED <<surplus, inSync>>
        /\ UNCHANGED <<thread, running, moves, stalls>>

\* the return from cond.wait
WakeUp(t) ==
    /\ pc[t] = "wait" /\ t \in woken
    /\ woken' = woken \ {t}
    /\ IF at[t] = executor THEN Execute(t, at[t])
       ELSE pc' = [pc EXCEPT ![t] = Leaves(t)] /\ UNCHANGED <<surplus, inSync, executor, hung, at>>
    /\ UNCHANGED <<thread, running, inBarrier, moves, stalls>>

\* the executor is back from the global barrier
EndSync(t) ==
    LET R == BarrierRelease(TRUE, at[t], running, inBarrier)
    IN  /\ pc[t] = "sync"
        /\ inSync' = FALSE /\ executor' = R.executor /\ hung' = (hung \/ R.hang)
        /\ inBarrier' = [y \in Contexts |-> inBarrier[y] /\ y \notin (R.free \ {at[t]})]
        /\ woken' = woken \cup Signalled(R.free \ {at[t]})
        /\ pc' = [pc EXCEPT ![t] = Leaves(t)]
        /\ UNCHANGED <<thread, running, surplus, at, moves, stalls>>

-----------------------------------------------------------------------------
(* The hooks *)

\* threadMigrate: t leaves its context, and x, if it is one of ours, gets it
Migrated(t, x) ==
    LET old == Place(t)
        gone == IF old = None THEN thread ELSE [thread EXCEPT ![old] = None]
        off == IF old = None THEN running ELSE [running EXCEPT ![old] = FALSE]
    IN  [thread |-> IF x = None THEN gone ELSE [gone EXCEPT ![x] = t],
         running |-> IF x = None THEN off ELSE [off EXCEPT ![x] = TRUE],
         inBarrier |-> IF old = None THEN inBarrier ELSE [inBarrier EXCEPT ![old] = FALSE],
         woken |-> IF old # None /\ inBarrier[old] THEN woken \cup Signalled({old}) ELSE woken]

SignalBarrier(run, bar, wok) ==
    LET R == BarrierRelease(FALSE, None, run, bar)
    IN  IF IsBarrierReached(run, bar)
        THEN /\ inBarrier' = [y \in Contexts |-> bar[y] /\ y \notin R.free]
             /\ woken' = wok \cup Signalled(R.free)
             /\ executor' = R.executor /\ hung' = (hung \/ R.hang)
        ELSE inBarrier' = bar /\ woken' = wok /\ UNCHANGED <<executor, hung>>

\* threadStall and threadExit: the thread keeps its context, or the scheduler has
\* taken it away and may have given the context to another thread u
Stops(t, next) ==
    LET x == Place(t)
    IN  /\ pc[t] = "run" /\ x # None
        /\ \/ /\ thread' = thread
              /\ running' = [running EXCEPT ![x] = FALSE]
              /\ pc' = [pc EXCEPT ![t] = next]
           \/ /\ moves < MaxMoves
              /\ thread' = [thread EXCEPT ![x] = None]
              /\ running' = [running EXCEPT ![x] = FALSE]
              /\ pc' = [pc EXCEPT ![t] = next]
           \/ \E u \in Threads :
              /\ moves < MaxMoves /\ pc[u] = "out"
              /\ thread' = [thread EXCEPT ![x] = u] /\ running' = running
              /\ pc' = [pc EXCEPT ![t] = next, ![u] = "run"]
        /\ SignalBarrier(running', inBarrier, woken)
        /\ moves' = IF thread' = thread THEN moves ELSE moves + 1
        /\ UNCHANGED <<surplus, inSync, at>>

ThreadStall(t) == stalls < MaxStalls /\ stalls' = stalls + 1 /\ Stops(t, "asleep")
ThreadExit(t) == stalls' = stalls /\ Stops(t, "done")

\* threadResume; a thread without a context is scheduled later, by Move
ThreadResume(t) ==
    /\ pc[t] = "asleep"
    /\ pc' = [pc EXCEPT ![t] = Leaves(t)]
    /\ running' = IF Place(t) = None THEN running ELSE [running EXCEPT ![Place(t)] = TRUE]
    /\ UNCHANGED <<thread, inBarrier, surplus, inSync, executor, at, woken, hung, moves, stalls>>

\* threadMigrate, twice: in the global barrier the scheduler takes t off its
\* context, where u goes on
Leave(t, u) ==
    LET x == Place(t)
        M == Migrated(t, None)
    IN  /\ inSync /\ moves < MaxMoves /\ moves' = moves + 1
        /\ pc[t] \in Preempted /\ x # None /\ pc[u] = "out"
        /\ thread' = [M.thread EXCEPT ![x] = u]
        /\ running' = [M.running EXCEPT ![x] = TRUE]
        /\ inBarrier' = M.inBarrier /\ woken' = M.woken
        /\ pc' = [v \in Threads |-> IF v = u THEN "run" ELSE IF v = t /\ pc[t] = "run" THEN "out" ELSE pc[v]]
        /\ UNCHANGED <<surplus, inSync, executor, at, hung, stalls>>

\* a thread that has no context is given a free one
Arrive(t, x) ==
    LET M == Migrated(t, x)
    IN  /\ pc[t] = "out" /\ thread[x] \notin {u \in Threads : pc[u] # "done"}
        /\ thread' = M.thread /\ running' = M.running
        /\ pc' = [pc EXCEPT ![t] = "run"]
        /\ UNCHANGED <<inBarrier, surplus, inSync, executor, at, woken, hung, moves, stalls>>

-----------------------------------------------------------------------------
Home == [x \in Contexts |-> x]     \* threads are numbered like the contexts they start on

Init ==
    /\ thread = Home /\ running = [x \in Contexts |-> TRUE]
    /\ inBarrier = [x \in Contexts |-> FALSE] /\ surplus = [x \in Contexts |-> 0]
    /\ inSync = FALSE /\ executor = Min(Contexts)
    /\ pc = [t \in Threads |-> IF t \in Contexts THEN "run" ELSE "out"]
    /\ at = [t \in Threads |-> None] /\ woken = {} /\ hung = FALSE /\ moves = 0 /\ stalls = 0

\* a loop that does not end keeps m_lock
Next == ~hung /\ \E t \in Threads :
    \/ Simulate(t) \/ WakeUp(t) \/ EndSync(t)
    \/ ThreadStall(t) \/ ThreadExit(t) \/ ThreadResume(t)
    \/ \E u \in Threads : Leave(t, u)
    \/ \E x \in Contexts : Arrive(t, x)

Spec == Init /\ [][Next]_vars

-----------------------------------------------------------------------------
(* Properties *)

\* A context is marked in_barrier exactly while a thread waits on its condition
\* variable without having been signalled.
TypeOK == \A x \in Contexts : inBarrier[x] =
    (\E t \in Threads : pc[t] = "wait" /\ at[t] = x /\ t \notin woken)

\* The loops of barrierRelease and execute end: they never run without a context
\* that is running.
NeverHangs == ~hung

\* When everybody that runs waits in the barrier, one of them has been woken or
\* the executor is about to release them: a stall, an exit or a move never leaves
\* the others waiting for a thread that is gone.
NobodyForgotten ==
    (\E x \in Contexts : inBarrier[x]) =>
        inSync \/ woken # {} \/ \E x \in Contexts : running[x] /\ ~inBarrier[x]
=============================================================================
