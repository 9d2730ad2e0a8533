----------------------------- MODULE SimThreads -----------------------------
(***************************************************************************)
(* The simulation threads, one per core, and the messages they exchange:   *)
(* SimThreadManager spawns and quits them, CoreManager gives each its      *)
(* core, SmTransport carries the messages, Network::netPullFromTransport   *)
(* hands them to a callback or queues them for Network::netRecv.  Queues   *)
(* are guarded by a lock and waited for with a ConditionVariable, which is *)
(* a futex word: wait() clears it before it lets go of the lock.           *)
(***************************************************************************)
EXTENDS Integers, Sequences, FiniteSets, SequencesExt

CONSTANTS
    NumCores,   \* cores and sim threads are 0..(NumCores - 1)
    Times,      \* time stamps of packets
    MaxSends,   \* packets that the cores send each other
    MaxRecvs    \* calls of netRecv, by the application thread of core 0

VARIABLES
    sim,        \* per sim thread: where it is in run() and what that calls
    core,       \* per sim thread: the core it registered for, or -1
    registered, \* m_num_registered_sim_threads
    active,     \* m_active_threads
    main,       \* quitSimThreads: the core it sends to next, then NumCores while it waits
    stopped,    \* the sim threads that were told to stop: ~cont
    node,       \* per core: the transport's queue and its condition variable
    inbox,      \* core 0: _netQueue and its condition variable
    recv,       \* core 0: the application thread in netRecv
    log         \* what happened: messages sent to and handled by each core, answers of netRecv

vars == <<sim, core, registered, active, main, stopped, node, inbox, recv, log>>

Threads == 0..(NumCores - 1)
Cores == Threads
Types == {"shmem", "user"}      \* with a callback, and without
Quit == [type |-> "quit", time |-> 0, id |-> 0]

-----------------------------------------------------------------------------
(* ConditionVariable on a queue: [queue, futex, owed], where owed counts the *)
(* threads that pushed something and are still to call broadcast()           *)

NewPort == [queue |-> <<>>, futex |-> 0, owed |-> 0]
Push(port, m) == [port EXCEPT !.queue = Append(@, m), !.owed = @ + 1]

\* wait(): the word is cleared while the lock is still held
PrepareWait(port) == [port EXCEPT !.futex = 0]
Broadcast(port) == [port EXCEPT !.futex = 1, !.owed = @ - 1]

-----------------------------------------------------------------------------
(* SmTransport and netPullFromTransport *)

\* send: the queue under its lock; the broadcast follows once the lock is released
Send(c, type, time) ==
    LET id == 1 + FoldSet(LAMBDA x, n : Len(log.sent[x]) + n, 0, Cores)
        m == [type |-> type, time |-> time, id |-> id]
    IN  /\ id <= MaxSends /\ main = 0
        /\ node' = [node EXCEPT ![c] = Push(@, m)]
        /\ log' = [log EXCEPT !.sent[c] = Append(@, m)]
        /\ UNCHANGED <<sim, core, registered, active, main, stopped, inbox, recv>>

SendSignal(c) ==
    /\ node[c].owed > 0
    /\ node' = [node EXCEPT ![c] = Broadcast(@)]
    /\ sim' = [t \in Threads |-> IF core[t] = c /\ sim[t] = "asleep" THEN "recv" ELSE sim[t]]
    /\ UNCHANGED <<core, registered, active, main, stopped, inbox, recv, log>>

\* recv with nothing there: wait(), first the word, then the futex call, which
\* returns at once if the word has been set
RecvWait(t) ==
    /\ sim[t] = "recv" /\ node[core[t]].queue = <<>>
    /\ node' = [node EXCEPT ![core[t]] = PrepareWait(@)]
    /\ sim' = [sim EXCEPT ![t] = "wait"]
    /\ UNCHANGED <<core, registered, active, main, stopped, inbox, recv, log>>

FutexWait_Clears(t) ==
    /\ sim[t] = "wait"
    /\ sim' = [sim EXCEPT ![t] = "asleep"]
    /\ UNCHANGED <<core, registered, active, main, stopped, node, inbox, recv, log>>

FutexWait(t) ==
    /\ sim[t] = "wait"
    /\ sim' = [sim EXCEPT ![t] = IF node[core[t]].futex = 0 THEN "asleep" ELSE "recv"]
    /\ UNCHANGED <<core, registered, active, main, stopped, node, inbox, recv, log>>

\* m_queue is first in, first out
Oldest(queue) == 1

\* recv with a packet: it goes to its callback, or to the queue of netRecv.  The
\* callback of the quit message ends the loop of run().
PullPacket(t) ==
    /\ sim[t] = "recv" /\ node[core[t]].queue # <<>>
    /\ LET c == core[t]
           m == node[c].queue[Oldest(node[c].queue)]
           queued == m.type = "user" /\ c = 0
       IN  /\ node' = [node EXCEPT ![c].queue = RemoveAt(@, Oldest(@))]
           /\ log' = [log EXCEPT !.handled[c] = IF m = Quit THEN @ ELSE Append(@, m)]
           /\ inbox' = IF queued THEN Push(inbox, m) ELSE inbox
           /\ sim' = [sim EXCEPT ![t] = IF queued THEN "signal" ELSE "query"]
           /\ stopped' = IF m = Quit THEN stopped \cup {t} ELSE stopped
    /\ UNCHANGED <<core, registered, active, main, recv>>

\* _netQueueCond.broadcast()
SignalInbox(t) ==
    /\ sim[t] = "signal"
    /\ inbox' = Broadcast(inbox)
    /\ recv' = IF recv.pc = "asleep" THEN [recv EXCEPT !.pc = "scan"] ELSE recv
    /\ sim' = [sim EXCEPT ![t] = "query"]
    /\ UNCHANGED <<core, registered, active, main, stopped, node, log>>

\* The loop of netPullFromTransport goes on while there is another packet, that of
\* run() until the thread is told to stop.
Query(t) ==
    /\ sim[t] = "query"
    /\ sim' = [sim EXCEPT ![t] = IF node[core[t]].queue = <<>> /\ t \in stopped THEN "stop" ELSE "recv"]
    /\ UNCHANGED <<core, registered, active, main, stopped, node, inbox, recv, log>>

-----------------------------------------------------------------------------
(* SimThread::run, CoreManager::registerSimThread and SimThreadManager *)

\* A sim thread registers for the next core, under the lock of the core manager.
RegisterSimThread(t) ==
    /\ sim[t] = "new"
    /\ core' = [core EXCEPT ![t] = registered]
    /\ registered' = registered + 1
    /\ sim' = [sim EXCEPT ![t] = "registered"]
    /\ UNCHANGED <<active, main, stopped, node, inbox, recv, log>>

SimThreadStart(t) ==
    /\ sim[t] = "registered"
    /\ active' = active + 1
    /\ sim' = [sim EXCEPT ![t] = "recv"]
    /\ UNCHANGED <<core, registered, main, stopped, node, inbox, recv, log>>

SimThreadExit(t) ==
    /\ sim[t] = "stop"
    /\ active' = active - 1
    /\ sim' = [sim EXCEPT ![t] = "exited"]
    /\ UNCHANGED <<core, registered, main, stopped, node, inbox, recv, log>>

\* quitSimThreads: a message to every core, then it waits for the threads that are active
QuitSend ==
    /\ main \in Cores
    /\ node' = [node EXCEPT ![main] = Push(@, Quit)]
    /\ main' = main + 1
    /\ log' = [log EXCEPT !.late = @ \/ (main = 0 /\ active < NumCores)]
    /\ UNCHANGED <<sim, core, registered, active, stopped, inbox, recv>>

QuitWait ==
    /\ main = NumCores /\ active = 0
    /\ main' = NumCores + 1
    /\ UNCHANGED <<sim, core, registered, active, stopped, node, inbox, recv, log>>

-----------------------------------------------------------------------------
(* Network::netRecv, by the application thread of core 0 *)

NetRecv(timeout) ==
    /\ recv.pc = "idle" /\ recv.calls < MaxRecvs
    /\ recv' = [recv EXCEPT !.pc = "scan", !.timeout = timeout, !.retry = TRUE, !.calls = @ + 1]
    /\ UNCHANGED <<sim, core, registered, active, main, stopped, node, inbox, log>>

Matching == {i \in DOMAIN inbox.queue : inbox.queue[i].type = "user"}

\* the earliest of the packets that match, the first of those
EarliestPacket ==
    CHOOSE i \in Matching : \A j \in Matching :
        inbox.queue[i].time < inbox.queue[j].time \/ (inbox.queue[i].time = inbox.queue[j].time /\ i <= j)

\* One pass over the queue, under its lock.  With a timeout it looks once more after
\* it was woken, for whatever reason, and then gives up.
Scan ==
    /\ recv.pc = "scan"
    /\ IF Matching # {}
       THEN /\ recv' = [recv EXCEPT !.pc = "idle"]
            /\ inbox' = [inbox EXCEPT !.queue = RemoveAt(@, EarliestPacket)]
            /\ log' = [log EXCEPT !.answers = Append(@, inbox.queue[EarliestPacket])]
       ELSE IF recv.retry
       THEN /\ recv' = [recv EXCEPT !.pc = "wait", !.retry = ~recv.timeout]
            /\ inbox' = PrepareWait(inbox)
            /\ UNCHANGED log
       ELSE /\ recv' = [recv EXCEPT !.pc = "idle"]
            /\ UNCHANGED <<inbox, log>>
    /\ UNCHANGED <<sim, core, registered, active, main, stopped, node>>

RecvFutex ==
    /\ recv.pc = "wait"
    /\ recv' = [recv EXCEPT !.pc = IF inbox.futex = 0 THEN "asleep" ELSE "scan"]
    /\ UNCHANGED <<sim, core, registered, active, main, stopped, node, inbox, log>>

RecvTimeout ==
    /\ recv.pc = "asleep" /\ recv.timeout
    /\ recv' = [recv EXCEPT !.pc = "scan"]
    /\ UNCHANGED <<sim, core, registered, active, main, stopped, node, inbox, log>>

-----------------------------------------------------------------------------
Init ==
    /\ sim = [t \in Threads |-> "new"]
    /\ core = [t \in Threads |-> -1]
    /\ registered = 0
    /\ active = 0
    /\ main = 0
    /\ stopped = {}
    /\ node = [c \in Cores |-> NewPort]
    /\ inbox = NewPort
    /\ recv = [pc |-> "idle", timeout |-> FALSE, retry |-> FALSE, calls |-> 0]
    /\ log = [sent |-> [c \in Cores |-> <<>>], handled |-> [c \in Cores |-> <<>>], answers |-> <<>>, late |-> FALSE]

Next ==
    \/ \E c \in Cores, type \in Types, time \in Times : Send(c, type, time)
    \/ \E c \in Cores : SendSignal(c)
    \/ \E t \in Threads :
         \/ RegisterSimThread(t) \/ SimThreadStart(t) \/ SimThreadExit(t)
         \/ RecvWait(t) \/ FutexWait(t) \/ PullPacket(t) \/ SignalInbox(t) \/ Query(t)
    \/ QuitSend
    \/ QuitWait
    \/ \E timeout \in BOOLEAN : NetRecv(timeout)
    \/ Scan
    \/ RecvFutex
    \/ RecvTimeout

Spec == Init /\ [][Next]_vars

-----------------------------------------------------------------------------
(* Properties *)

\* A thread sleeps on a queue only while that is empty, or while whoever filled it
\* is still to call broadcast(): no wakeup is lost between the release of the lock
\* and the futex call (SmNode::recv and netRecv over ConditionVariable; each queue
\* has one reader).
NoSleepOnPackets ==
    /\ \A t \in Threads : sim[t] = "asleep" /\ node[core[t]].queue # <<>> => node[core[t]].owed > 0
    /\ recv.pc = "asleep" /\ Matching # {} => inbox.owed > 0

\* Messages are handled in the order they were sent to a core, and a thread that has
\* left did not leave any behind (SmNode::send and recv, netPullFromTransport).
HandledInOrder ==
    \A c \in Cores :
        /\ IsPrefix(log.handled[c], log.sent[c])
        /\ \A t \in Threads : core[t] = c /\ sim[t] = "exited" => log.handled[c] = log.sent[c]

\* netRecv returns packets with the same time stamp in the order they were sent.
ReceivedInOrder ==
    \A time \in Times :
        LET at(s) == SelectSeq(s, LAMBDA m : m.type = "user" /\ m.time = time)
        IN  IsPrefix(at(log.answers), at(log.sent[0]))

\* Once quitSimThreads has returned, and with it "All threads have exited.", no sim
\* thread is left, if all of them were active when it was called.
AllExited == main = NumCores + 1 /\ ~log.late => \A t \in Threads : sim[t] = "exited"
=============================================================================
