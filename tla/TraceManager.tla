---------------------------- MODULE TraceManager ----------------------------
(***************************************************************************)
(* TraceManager: which threads of which applications are simulated, and    *)
(* when the simulation ends.  A thread ends by itself (its trace ends, or  *)
(* it sees m_stop) or is signed off by endApplication() when another       *)
(* thread of its application calls exit_group.  signalDone() and           *)
(* createThread() hold m_lock; endApplication() and start() walk over      *)
(* m_threads without it.  That a vector that grows under such a walk moves *)
(* its elements is not modelled: the walk sees them at their new place.    *)
(***************************************************************************)
EXTENDS Integers, Sequences, FiniteSets

CONSTANTS NumApps,      \* traceinput/num_apps
          MaxThreads,   \* bound: threads ever created
          MaxApps       \* bound: applications

VARIABLES
    options,    \* [first, restart]: stop_with_first_app, restart_apps
    threads,    \* m_threads: [app, num, spawns, stop, stopped, pc, at]
    apps,       \* m_app_info: [threads, count, runs]
    running,    \* m_num_threads_running
    nonfinish,  \* m_num_apps_nonfinish
    started,    \* start(): position in m_threads
    done        \* m_done

vars == <<options, threads, apps, running, nonfinish, started, done>>

Ids == DOMAIN threads
State == [threads |-> threads, apps |-> apps, running |-> running, nonfinish |-> nonfinish, done |-> done]
Update(s) ==
    /\ threads' = s.threads /\ apps' = s.apps /\ running' = s.running
    /\ nonfinish' = s.nonfinish /\ done' = s.done

\* newThread(): the first thread of an application (re)sets its counters
NewThread(s, app, first, spawn) ==
    LET num == IF first THEN 0 ELSE s.apps[app].count
    IN [s EXCEPT !.apps[app] = IF first THEN [@ EXCEPT !.threads = 1, !.count = 1]
                               ELSE [@ EXCEPT !.threads = @ + 1, !.count = @ + 1],
                 !.running = @ + 1,
                 !.threads = Append(@, [app |-> app, num |-> num, spawns |-> IF spawn THEN 1 ELSE 0,
                                        stop |-> FALSE, stopped |-> FALSE, pc |-> "run", at |-> 0])]

\* stop(): ask all threads to stop and let run() return
Stop(s) == [s EXCEPT !.threads = [i \in DOMAIN @ |-> [@[i] EXCEPT !.stop = TRUE]], !.done = @ + 1]

\* the last thread of an application has ended
AppEnd(s, app) ==
    LET n == [s EXCEPT !.apps[app].runs = @ + 1,
                       !.nonfinish = IF s.apps[app].runs = 0 THEN @ - 1 ELSE @]
    IN IF options.first \/ n.nonfinish = 0 THEN Stop(n)
       ELSE IF options.restart THEN NewThread(n, app, TRUE, TRUE) ELSE n

\* signalDone(): once per thread; only a thread that was not aborted ends the application
SignalDone(s, i, aborted) ==
    IF s.threads[i].stopped THEN s
    ELSE LET app == s.threads[i].app
             n == [s EXCEPT !.threads[i].stopped = TRUE, !.apps[app].threads = @ - 1]
             e == IF ~aborted /\ n.apps[app].threads = 0 THEN AppEnd(n, app) ELSE n
         IN [e EXCEPT !.running = @ - 1]

-----------------------------------------------------------------------------
\* start(): spawn the threads of m_threads one by one
Start ==
    /\ started < Len(threads)
    /\ started' = started + 1
    /\ threads' = [threads EXCEPT ![started + 1].spawns = @ + 1]
    /\ UNCHANGED <<options, apps, running, nonfinish, done>>

Runs(i) == threads[i].spawns > 0 /\ threads[i].pc = "run"

\* createThread(): the application cloned a thread
CreateThread(i) ==
    /\ Runs(i) /\ Len(threads) < MaxThreads
    /\ Update(NewThread(State, threads[i].app, FALSE, TRUE))
    /\ UNCHANGED <<options, started>>

\* createApplication(): the application forked
CreateApplication(i) ==
    /\ Runs(i) /\ Len(threads) < MaxThreads /\ Len(apps) < MaxApps
    /\ LET s == [State EXCEPT !.apps = Append(@, [threads |-> 1, count |-> 1, runs |-> 0]), !.nonfinish = @ + 1]
       IN Update(NewThread(s, Len(apps) + 1, TRUE, TRUE))
    /\ UNCHANGED <<options, started>>

\* endApplication(): exit_group, one thread of m_threads at a time
ExitGroup(i) ==
    /\ Runs(i)
    /\ threads' = [threads EXCEPT ![i].pc = "end", ![i].at = 1]
    /\ UNCHANGED <<options, apps, running, nonfinish, started, done>>
EndApplication(i) ==
    /\ threads[i].pc = "end"
    /\ LET n == threads[i].at
           s == [State EXCEPT !.threads[i].at = n + 1]
       IN IF n > Len(threads) THEN Update([State EXCEPT !.threads[i].pc = "last", !.threads[i].at = 0])
          ELSE IF threads[n].app = threads[i].app /\ n # i
          THEN Update(SignalDone([s EXCEPT !.threads[n].stop = TRUE], n, TRUE))
          ELSE Update(s)
    /\ UNCHANGED <<options, started>>

\* run() ends: end of the trace, or m_stop was seen
ThreadEnd(i) ==
    /\ Runs(i) \/ threads[i].pc = "last"
    /\ Len(threads) < MaxThreads \/ ~options.restart
    /\ LET s == [State EXCEPT !.threads[i].pc = "gone"] IN Update(SignalDone(s, i, threads[i].stop))
    /\ UNCHANGED <<options, started>>

Init ==
    /\ options \in [first : BOOLEAN, restart : BOOLEAN]
    /\ apps = [a \in 1 .. NumApps |-> [threads |-> 1, count |-> 1, runs |-> 0]]
    /\ threads = [a \in 1 .. NumApps |-> [app |-> a, num |-> 0, spawns |-> 0, stop |-> FALSE,
                                          stopped |-> FALSE, pc |-> "run", at |-> 0]]
    /\ running = NumApps /\ nonfinish = NumApps /\ started = 0 /\ done = 0

Next ==
    \/ Start
    \/ \E i \in Ids : CreateThread(i) \/ CreateApplication(i) \/ ExitGroup(i) \/ EndApplication(i) \/ ThreadEnd(i)

Spec == Init /\ [][Next]_vars

-----------------------------------------------------------------------------
(* Properties *)

\* The counters of threads, of the manager and of each application, are those
\* of the threads not yet signed off, although a thread may be signed off both
\* by endApplication() and by itself.
CountsMatch ==
    /\ running = Cardinality({i \in Ids : ~threads[i].stopped})
    /\ \A a \in DOMAIN apps : apps[a].threads = Cardinality({i \in Ids : threads[i].app = a /\ ~threads[i].stopped})

\* The manager knows how many applications have yet to complete a run, which
\* restarted runs do not change, and simulates on only while the applications
\* that it waits for (the first one to end, or all) have not completed one.
EndsInTime ==
    /\ nonfinish = Cardinality({a \in DOMAIN apps : apps[a].runs = 0})
    /\ done = 0 => IF options.first THEN \A a \in DOMAIN apps : apps[a].runs = 0 ELSE nonfinish > 0
=============================================================================
