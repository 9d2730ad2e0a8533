---------------------------- MODULE SyscallServer ----------------------------
(***************************************************************************)
(* System calls of the simulated threads: SyscallMdl (entry and exit of a  *)
(* call, emulated or native) and SyscallServer with its SimFutex queues,   *)
(* together with the thread states of ThreadManager that they change.      *)
(*                                                                         *)
(* Every handler holds ThreadManager::m_thread_lock to its end; the one    *)
(* that may keep it for longer is stallThread(), which lets the barrier    *)
(* advance time while nobody runs: "holder" is the thread in it.  Every    *)
(* thread has a core of its own.  A mask is a set of bits.                 *)
(***************************************************************************)
EXTENDS Integers, SequencesExt, FiniteSetsExt

CONSTANTS
    Threads, Addrs,
    Setups,      \* a behaviour uses the operations and the addresses of one of them,
                 \* and makes as many calls as it says (bound)
    TimeStart,   \* getOSEmuTimeStart()
    Width,       \* times are kept modulo Width
    Skews,       \* how far the clock of a thread may be ahead of the barrier
    MaxTime      \* bound: periodic calls

VARIABLES
    setup,
    mem,         \* the futex words
    waiting,     \* SimFutex::m_waiting of every address
    sleeping,    \* SyscallServer::m_sleeping
    status,      \* m_thread_state[t].status: "running", "stalled" or "idle"
    pc,          \* user, stalling (in stallThread), wait (in Thread::wait), woken, native, leaving, gone
    msg,         \* m_wakeup_msg
    signalled,   \* threads in wait that have been signalled
    call,        \* m_ret_val and m_emulated, whether it is a nanosleep, and, for the
                 \* properties, whether a waker has counted the thread
    holder, time, aborted, calls
vars == <<setup, mem, waiting, sleeping, status, pc, msg, signalled, call, holder, time, aborted, calls>>

NoThread == 0
Never == Width - 1          \* SubsecondTime::MaxTime()
WouldBlock == -1
TimedOut == -2
Native == -9                \* what the host's system call returned
MatchAny == {1, 2}               \* FUTEX_BITSET_MATCH_ANY
Waiter(t, mask, timeout) == [thread |-> t, mask |-> mask, timeout |-> timeout]

AnyRunning(st) == \E t \in Threads : st[t] = "running"

-----------------------------------------------------------------------------
(* The queues *)

\* dequeueWaiter, called up to n times: who is woken, and who stays
Woken(q, mask, n) ==
    LET match == SelectSeq(q, LAMBDA w : w.mask \cap mask # {})
    IN  SubSeq(match, 1, Min({n, Len(match)}))
Others(q, woken) == SelectSeq(q, LAMBDA w : w \notin ToSet(woken))
WokenThreads(woken) == {w.thread : w \in ToSet(woken)}

\* wakeTimedOut, and the loop of futexPeriodic over m_sleeping: one per call
TimedOutFirst_Head(q, now) == IF q # <<>> /\ q[1].timeout <= now THEN <<q[1]>> ELSE <<>>
TimedOutFirst(q, now) ==
    LET late == SelectSeq(q, LAMBDA w : w.timeout <= now) IN SubSeq(late, 1, Min({1, Len(late)}))

\* getNextTimeout, of which only whether there is one is used
NextTimeout(sleep, wait) ==
    \/ \E w \in ToSet(sleep) : w.timeout < Never
    \/ \E a \in Addrs : \E w \in ToSet(wait[a]) : w.timeout < Never

\* resumeThread for the threads T: signal() and the new status
ResumeWith(T, message, st) ==
    /\ status' = [t \in Threads |-> IF t \in T THEN "running" ELSE st[t]]
    /\ msg' = [t \in Threads |-> IF t \in T THEN message ELSE msg[t]]
    /\ signalled' = signalled \cup {t \in T : pc[t] = "wait"}

-----------------------------------------------------------------------------
(* SyscallMdl::runEnter and runExit *)

\* a thread may enter a call of this kind now
MayCall(t, kind) ==
    /\ pc[t] = "user" /\ holder = NoThread /\ ~aborted
    /\ kind \in setup.ops /\ calls < setup.calls /\ calls' = calls + 1

\* the call has been emulated and returns r
Emulated(t, r) == [call[t] EXCEPT !.ret = r, !.emulated = TRUE]
Leaves(t, r) == pc' = [pc EXCEPT ![t] = "leaving"] /\ call' = [call EXCEPT ![t] = Emulated(t, r)]

RunExit(t) ==
    /\ pc[t] \in {"leaving", "native"} /\ holder = NoThread /\ ~aborted
    /\ status' = [status EXCEPT ![t] = "running"]
    /\ pc' = [pc EXCEPT ![t] = "user"]
    /\ call' = [call EXCEPT ![t] = [ret |-> IF @.emulated THEN @.ret ELSE Native,
                                    emulated |-> FALSE, sleep |-> FALSE, granted |-> FALSE]]
    /\ UNCHANGED <<setup, mem, waiting, sleeping, msg, signalled, holder, time, aborted, calls>>

\* SYS_read and the other calls that the host executes and that may block:
\* stallThread_async, and resumeThread_async at the exit
BlockingCall(t) ==
    /\ MayCall(t, "native")
    /\ status' = [status EXCEPT ![t] = "stalled"]
    /\ pc' = [pc EXCEPT ![t] = "native"]
    /\ UNCHANGED <<setup, mem, waiting, sleeping, msg, signalled, call, holder, time, aborted>>

\* SYS_clock_gettime and SYS_write: emulated if so configured (the clock is replaced,
\* the output is suppressed), and else left to the host, which does not block
ImmediateCall(t, kind, emulated) ==
    /\ MayCall(t, kind)
    /\ pc' = [pc EXCEPT ![t] = "leaving"]
    /\ call' = IF emulated THEN [call EXCEPT ![t] = Emulated(t, 0)] ELSE call
    /\ UNCHANGED <<setup, mem, waiting, sleeping, status, msg, signalled, holder, time, aborted>>
ClockGettime(t, replace) == ImmediateCall(t, "clock", replace)
WriteCall(t, suppress) == ImmediateCall(t, "write", suppress)

\* stallThread: the thread is stalled, and holds the lock in its loop
StartStall(t) ==
    /\ status' = [status EXCEPT ![t] = "stalled"]
    /\ pc' = [pc EXCEPT ![t] = "stalling"]
    /\ holder' = t
    /\ UNCHANGED <<setup, mem, msg, signalled, call, time, aborted>>

EndStall(t) ==
    /\ holder = t /\ AnyRunning(status) /\ ~aborted
    /\ holder' = NoThread
    /\ IF status[t] = "running"
       THEN pc' = [pc EXCEPT ![t] = "woken"] /\ UNCHANGED msg
       ELSE pc' = [pc EXCEPT ![t] = "wait"] /\ msg' = [msg EXCEPT ![t] = FALSE]
    /\ UNCHANGED <<setup, mem, waiting, sleeping, status, signalled, call, time, aborted, calls>>

\* the return from stallThread to enqueueWaiter or handleSleepCall
Wakes(t) ==
    /\ holder = NoThread /\ ~aborted
    /\ pc[t] = "woken" \/ (pc[t] = "wait" /\ t \in signalled)
    /\ signalled' = signalled \ {t}
    /\ Leaves(t, IF msg[t] \/ call[t].sleep THEN 0 ELSE TimedOut)
    /\ UNCHANGED <<setup, mem, waiting, sleeping, status, msg, holder, time, aborted, calls>>

-----------------------------------------------------------------------------
(* SyscallServer::handleSleepCall and handleFutexCall *)

\* nanosleep, which always succeeds
HandleSleepCall(t, sec, skew) ==
    /\ MayCall(t, "sleep")
    /\ sleeping' = Append(sleeping, Waiter(t, {}, time + skew + sec))
    /\ status' = [status EXCEPT ![t] = "stalled"] /\ pc' = [pc EXCEPT ![t] = "stalling"]
    /\ holder' = t /\ call' = [call EXCEPT ![t].sleep = TRUE]
    /\ UNCHANGED <<setup, mem, waiting, msg, signalled, time, aborted>>

\* the timeout of FUTEX_WAIT_BITSET is a time of the emulated clock, which starts
\* at TimeStart; that of FUTEX_WAIT is relative, and has TimeStart taken off as well
TimeoutTime(cmd, sec, curr) ==
    LET val == (sec - TimeStart) % Width
    IN  IF sec = Never THEN Never ELSE IF cmd = "bitset" THEN val ELSE (curr + val) % Width

FutexWait(t, a, val, mask, timeout) ==
    IF mem[a] # val
    THEN Leaves(t, WouldBlock) /\ UNCHANGED <<setup, mem, waiting, sleeping, status, msg, signalled,
                                              holder, time, aborted>>
    ELSE /\ waiting' = [waiting EXCEPT ![a] = Append(@, Waiter(t, mask, timeout))]
         /\ StartStall(t)
         /\ UNCHANGED sleeping

\* what a caller t does for those that it has woken
Wake(t, woken) ==
    LET T == WokenThreads(woken)
    IN  /\ ResumeWith(T, TRUE, status)
        /\ pc' = [pc EXCEPT ![t] = "leaving"]
        /\ call' = [u \in Threads |-> IF u = t THEN Emulated(t, Len(woken))
                                      ELSE [call[u] EXCEPT !.granted = @ \/ u \in T]]
        /\ UNCHANGED <<setup, sleeping, holder, time, aborted>>

\* FUTEX_WAKE and FUTEX_WAKE_BITSET; the mask of the latter is not looked at
FutexWake(t, a, n) ==
    LET woken == Woken(waiting[a], MatchAny, n)
    IN  /\ MayCall(t, "wake")
        /\ waiting' = [waiting EXCEPT ![a] = Others(@, woken)]
        /\ Wake(t, woken) /\ UNCHANGED mem

\* futexDoOp and FUTEX_WAKE_OP: op is the new value as a function of the old one,
\* cmp the condition on the old one
FutexWakeOp(t, a, a2, n, n2, op, cmp) ==
    LET first == Woken(waiting[a], MatchAny, n)
        rest == [waiting EXCEPT ![a] = Others(@, first)]
        second == IF mem[a2] \in cmp THEN Woken(rest[a2], MatchAny, n2) ELSE <<>>
    IN  /\ MayCall(t, "wakeop")
        /\ mem' = [mem EXCEPT ![a2] = op[@]]
        /\ waiting' = [rest EXCEPT ![a2] = Others(@, second)]
        /\ Wake(t, first \o second)

\* FUTEX_CMP_REQUEUE: all that are not woken go to the other queue
FutexCmpRequeue(t, a, n, a2, val3) ==
    LET woken == Woken(waiting[a], MatchAny, n)
    IN  /\ MayCall(t, "requeue") /\ a # a2
        /\ UNCHANGED mem
        /\ IF mem[a] # val3
           THEN Leaves(t, WouldBlock) /\ UNCHANGED <<setup, waiting, sleeping, status, msg, signalled,
                                                     holder, time, aborted>>
           ELSE /\ waiting' = [waiting EXCEPT ![a] = <<>>, ![a2] = @ \o Others(waiting[a], woken)]
                /\ Wake(t, woken)

\* onThreadExit with CLONE_CHILD_CLEARTID: the futex that joiners wait for
ThreadExit(t, a) ==
    LET woken == Woken(waiting[a], MatchAny, 1)
    IN  /\ MayCall(t, "exit")
        /\ mem' = [mem EXCEPT ![a] = 0]
        /\ waiting' = [waiting EXCEPT ![a] = Others(@, woken)]
        /\ ResumeWith(WokenThreads(woken), TRUE, [status EXCEPT ![t] = "idle"])
        /\ pc' = [pc EXCEPT ![t] = "gone"]
        /\ call' = [u \in Threads |-> [call[u] EXCEPT !.granted = @ \/ u \in WokenThreads(woken)]]
        /\ UNCHANGED <<setup, sleeping, holder, time, aborted>>

\* the application writes a futex word; it needs no lock
Store(t, a, v) ==
    /\ pc[t] = "user" /\ ~aborted /\ "store" \in setup.ops /\ calls < setup.calls /\ calls' = calls + 1
    /\ mem[a] # v /\ mem' = [mem EXCEPT ![a] = v]
    /\ UNCHANGED <<setup, waiting, sleeping, status, pc, msg, signalled, call, holder, time, aborted>>

-----------------------------------------------------------------------------
(* HOOK_PERIODIC: futexPeriodic, from a barrier that is reached, or from the  *)
(* loop of stallThread, which gives up when nobody has a timeout              *)

FutexPeriodic ==
    LET now == time + 1
        slept == TimedOutFirst(sleeping, now)
        late == [a \in Addrs |-> TimedOutFirst(waiting[a], now)]
        T == WokenThreads(slept) \cup UNION {WokenThreads(late[a]) : a \in Addrs}
    IN  /\ time < MaxTime /\ ~aborted
        /\ holder # NoThread \/ AnyRunning(status)
        /\ sleeping # <<>> \/ \E a \in Addrs : waiting[a] # <<>>      \* else nothing but time changes
        /\ time' = now
        /\ sleeping' = Others(sleeping, slept)
        /\ waiting' = [a \in Addrs |-> Others(waiting[a], late[a])]
        /\ ResumeWith(T, FALSE, status)
        /\ aborted' = (~AnyRunning(status) /\ T = {} /\ ~NextTimeout(sleeping, waiting))
        /\ UNCHANGED <<setup, mem, pc, call, holder, calls>>

-----------------------------------------------------------------------------
Init ==
    /\ setup \in Setups
    /\ mem = [a \in Addrs |-> 1]
    /\ waiting = [a \in Addrs |-> <<>>] /\ sleeping = <<>>
    /\ status = [t \in Threads |-> "running"] /\ pc = [t \in Threads |-> "user"]
    /\ msg = [t \in Threads |-> FALSE] /\ signalled = {}
    /\ call = [t \in Threads |-> [ret |-> 0, emulated |-> FALSE, sleep |-> FALSE, granted |-> FALSE]]
    /\ holder = NoThread /\ time = 0 /\ aborted = FALSE /\ calls = 0

\* futex calls of t, with the arguments that matter
FutexCall(t) ==
    \E a \in setup.addrs :
        \/ \E val \in {0, 1}, skew \in Skews, sec \in {1, Never} :
             MayCall(t, "wait") /\ FutexWait(t, a, val, MatchAny, TimeoutTime("wait", sec, time + skew))
        \/ \E sec \in {TimeStart + time + 1, TimeStart + time + 2}, mask \in {{}, {1}} :
             MayCall(t, "bitset") /\ FutexWait(t, a, 1, mask, TimeoutTime("bitset", sec, time))
        \/ \E n \in {1, 2} : FutexWake(t, a, n)
        \/ \E b \in setup.addrs, op \in {[v \in 0..9 |-> 0], [v \in 0..9 |-> v + 1]}, cmp \in {{0}, {1}} :
             FutexWakeOp(t, a, b, 1, 1, op, cmp)
        \/ \E b \in setup.addrs, n \in {0, 1}, v \in {0, 1} : FutexCmpRequeue(t, a, n, b, v)
        \/ ThreadExit(t, a)
        \/ \E v \in {0, 1} : Store(t, a, v)

Next ==
    \/ FutexPeriodic
    \/ \E t \in Threads :
        \/ FutexCall(t)
        \/ BlockingCall(t) \/ (\E b \in BOOLEAN : ClockGettime(t, b) \/ WriteCall(t, b))
        \/ (\E sec \in {1, 3}, skew \in Skews : HandleSleepCall(t, sec, skew))
        \/ EndStall(t) \/ Wakes(t) \/ RunExit(t)

Spec == Init /\ [][Next]_vars

-----------------------------------------------------------------------------
(* Properties *)

Queues == {sleeping} \cup {waiting[a] : a \in Addrs}
Entries(t) == {<<"sleep", i>> : i \in {i \in DOMAIN sleeping : sleeping[i].thread = t}} \cup
              {<<a, i>> \in Addrs \X (1..Cardinality(Threads)) : i \in DOMAIN waiting[a] /\ waiting[a][i].thread = t}

\* A thread that sleeps in the kernel is in exactly one queue until somebody wakes
\* it, whether it is moved to another queue, woken, or timed out; a thread that has
\* been woken is in none, so that nobody's wake-up is spent on it again.
QueuedOnce ==
    \A t \in Threads :
        Cardinality(Entries(t)) = IF pc[t] \in {"stalling", "wait"} /\ status[t] = "stalled" THEN 1 ELSE 0

\* A wake-up is neither lost nor counted twice: futex(FUTEX_WAIT) returns 0 to the
\* threads that some waker has counted in its result and to nobody else, even when
\* the timeout of the waiter expires while it is being woken.
CountedWake ==
    \A t \in Threads :
        /\ pc[t] \in {"wait", "woken"} /\ status[t] = "running" => (msg[t] <=> call[t].granted)
        /\ pc[t] = "leaving" /\ call[t].granted => call[t].ret = 0

\* The comment in futexPeriodic: those that have timed out together wake up in the
\* next barriers, one after the other.  Nobody is later than the number of threads.
LatenessBounded ==
    \A q \in Queues : \A i \in DOMAIN q : time < q[i].timeout + Cardinality(Threads)

\* "No threads running, no timeout. Application has deadlocked...": the simulator
\* gives up only when nobody who waits in it would be woken by the passage of time.
AbortIsDeadlock ==
    aborted => \A q \in Queues : \A i \in DOMAIN q : q[i].timeout >= Never
=============================================================================
