----------------------------- MODULE SyncServer -----------------------------
(***************************************************************************)
(* Mutexes, condition variables and barriers of the simulated program:     *)
(* SyncServer with SimMutex, SimCond and SimBarrier, called by SyncClient. *)
(*                                                                         *)
(* Every handler holds ThreadManager::m_thread_lock.  A thread that has to *)
(* wait stalls inside its call and is resumed by the thread that hands it  *)
(* what it waits for; it returns to the application some time later.       *)
(* broadcast() is a loop of the lock holder ("broadcasting"), the other    *)
(* handlers are one step.  Simulated time is left out.                     *)
(***************************************************************************)
EXTENDS Integers, Sequences, FiniteSets

CONSTANTS
    Threads, Mutexes, Conds,
    BarrierUsers,       \* the threads that meet at the barrier
    MaxRounds,          \* bound: how often they do
    None                \* NO_OWNER, INVALID_THREAD_ID

ASSUME SyncAssumption ==
    /\ None \notin Threads \cup Mutexes \cup Conds
    /\ BarrierUsers \subseteq Threads /\ IsFiniteSet(BarrierUsers) /\ MaxRounds \in Nat

VARIABLES
    m_owner, m_waiting,     \* SimMutex
    c_waiting,              \* SimCond::m_waiting
    b_waiting,              \* SimBarrier::m_waiting
    stalled,                \* stalled by STALL_MUTEX, STALL_COND or STALL_BARRIER
    broadcasting,           \* the condition variable whose broadcast() is under way
    \* the application: the call a thread is in, the mutexes it holds, how often it
    \* came to the barrier and left it
    pending, holds, arrived, left

mutexVars == <<m_owner, m_waiting>>
roundVars == <<arrived, left>>
vars == <<mutexVars, c_waiting, b_waiting, stalled, broadcasting, pending, holds, roundVars>>

NoCall == [op |-> "none", m |-> None, c |-> None]
CondWaiter == [thread : Threads, mutex : Mutexes]

TypeOK ==
    /\ m_owner \in [Mutexes -> Threads \cup {None}]
    /\ m_waiting \in [Mutexes -> Seq(Threads)]
    /\ c_waiting \in [Conds -> Seq(CondWaiter)]
    /\ b_waiting \in Seq(Threads)
    /\ stalled \in [Threads -> BOOLEAN]
    /\ broadcasting \in Conds \cup {None}
    /\ pending \in [Threads -> [op : {"none", "mutex", "cond", "barrier"},
                                m : Mutexes \cup {None}, c : Conds \cup {None}]]
    /\ holds \in [Threads -> SUBSET Mutexes]
    /\ arrived \in [Threads -> Nat] /\ left \in [Threads -> Nat]

Init ==
    /\ m_owner = [m \in Mutexes |-> None]
    /\ m_waiting = [m \in Mutexes |-> <<>>]
    /\ c_waiting = [c \in Conds |-> <<>>]
    /\ b_waiting = <<>>
    /\ stalled = [t \in Threads |-> FALSE]
    /\ broadcasting = None
    /\ pending = [t \in Threads |-> NoCall]
    /\ holds = [t \in Threads |-> {}]
    /\ arrived = [t \in Threads |-> 0] /\ left = [t \in Threads |-> 0]

-----------------------------------------------------------------------------
\* t executes application code and can take the lock
Calls(t) == pending[t] = NoCall /\ broadcasting = None

Enters(t, op, m, c) == pending' = [pending EXCEPT ![t] = [op |-> op, m |-> m, c |-> c]]

LockBlind(t, m) ==           \* mutant: the owner is not looked at
    m_owner' = [m_owner EXCEPT ![m] = t] /\ UNCHANGED <<m_waiting, stalled>>

\* SimMutex::lock()
Lock(t, m) ==
    IF m_owner[m] = None
    THEN /\ m_owner' = [m_owner EXCEPT ![m] = t]
         /\ UNCHANGED <<m_waiting, stalled>>
    ELSE /\ m_waiting' = [m_waiting EXCEPT ![m] = Append(@, t)]
         /\ stalled' = [stalled EXCEPT ![t] = TRUE]
         /\ UNCHANGED m_owner

LockAsyncBlind(t, m) ==      \* mutant: the woken thread takes the mutex from its owner
    /\ m_owner' = [m_owner EXCEPT ![m] = t]
    /\ stalled' = [stalled EXCEPT ![t] = FALSE]
    /\ UNCHANGED m_waiting

\* SimMutex::lock_async(): as lock(), for a thread that is stalled already
LockAsync(t, m) ==
    IF m_owner[m] = None
    THEN /\ m_owner' = [m_owner EXCEPT ![m] = t]
         /\ stalled' = [stalled EXCEPT ![t] = FALSE]
         /\ UNCHANGED m_waiting
    ELSE /\ m_waiting' = [m_waiting EXCEPT ![m] = Append(@, t)]
         /\ UNCHANGED <<m_owner, stalled>>

UnlockLast(m, S) ==          \* mutant: a stack instead of a queue
    LET q == m_waiting[m]
        waiter == IF q = <<>> THEN None ELSE q[Len(q)] IN
    /\ m_waiting' = [m_waiting EXCEPT ![m] = SubSeq(@, 1, Len(@) - 1)]
    /\ m_owner' = [m_owner EXCEPT ![m] = waiter]
    /\ stalled' = [t \in Threads |-> t # waiter /\ (stalled[t] \/ t \in S)]

\* SimMutex::unlock(), by its owner; S: the threads that stall in the same handler
Unlock(m, S) ==
    IF m_waiting[m] = <<>>
    THEN /\ m_owner' = [m_owner EXCEPT ![m] = None]
         /\ stalled' = [t \in Threads |-> stalled[t] \/ t \in S]
         /\ UNCHANGED m_waiting
    ELSE LET waiter == Head(m_waiting[m]) IN
         /\ m_waiting' = [m_waiting EXCEPT ![m] = Tail(@)]
         /\ m_owner' = [m_owner EXCEPT ![m] = waiter]
         /\ stalled' = [t \in Threads |-> t # waiter /\ (stalled[t] \/ t \in S)]

-----------------------------------------------------------------------------
\* SyncServer::mutexLock(); a thread that owns the mutex already waits for itself
MutexLock(t, m) ==
    /\ Calls(t)
    /\ Lock(t, m)
    /\ Enters(t, "mutex", m, None)
    /\ UNCHANGED <<c_waiting, b_waiting, broadcasting, holds, roundVars>>

\* ... with tryLock, which returns at once when another thread owns the mutex
\* (isLocked()), and does as lock() otherwise
MutexTrylock(t, m) ==
    /\ m_owner[m] \in {None, t}
    /\ MutexLock(t, m)

\* SyncServer::mutexUnlock()
MutexUnlock(t, m) ==
    /\ Calls(t) /\ m \in holds[t]
    /\ Unlock(m, {})
    /\ holds' = [holds EXCEPT ![t] = @ \ {m}]
    /\ UNCHANGED <<c_waiting, b_waiting, broadcasting, pending, roundVars>>

\* SyncServer::condWait()
CondWait(t, c, m) ==
    /\ Calls(t) /\ m \in holds[t]
    /\ Unlock(m, {t})
    /\ c_waiting' = [c_waiting EXCEPT ![c] = Append(@, [thread |-> t, mutex |-> m])]
    /\ holds' = [holds EXCEPT ![t] = @ \ {m}]
    /\ Enters(t, "cond", m, c)
    /\ UNCHANGED <<b_waiting, broadcasting, roundVars>>

\* SimCond::signal(): the first waiter takes its mutex or queues for it
SignalFirst(c) ==
    /\ c_waiting[c] # <<>>
    /\ c_waiting' = [c_waiting EXCEPT ![c] = Tail(@)]
    /\ LET woken == Head(c_waiting[c]) IN LockAsync(woken.thread, woken.mutex)
    /\ UNCHANGED <<b_waiting, pending, holds, roundVars>>

\* SyncServer::condSignal()
CondSignal(t, c) ==
    /\ Calls(t)
    /\ SignalFirst(c)
    /\ UNCHANGED broadcasting

\* SyncServer::condBroadcast() ...
CondBroadcast(t, c) ==
    /\ Calls(t) /\ c_waiting[c] # <<>>
    /\ broadcasting' = c
    /\ UNCHANGED <<mutexVars, c_waiting, b_waiting, stalled, pending, holds, roundVars>>

\* ... and its loop
BroadcastStep ==
    /\ broadcasting # None
    /\ SignalFirst(broadcasting)
    /\ broadcasting' = IF c_waiting'[broadcasting] = <<>> THEN None ELSE broadcasting

OneShort == Cardinality(BarrierUsers) - 1     \* mutant

m_count == Cardinality(BarrierUsers)

\* SyncServer::barrierWait()
BarrierWait(t) ==
    /\ Calls(t) /\ t \in BarrierUsers /\ arrived[t] < MaxRounds
    /\ IF Len(b_waiting) = m_count - 1
       THEN /\ b_waiting' = <<>>
            /\ stalled' = [u \in Threads |->
                             stalled[u] /\ \A i \in DOMAIN b_waiting : b_waiting[i] # u]
       ELSE /\ b_waiting' = Append(b_waiting, t)
            /\ stalled' = [stalled EXCEPT ![t] = TRUE]
    /\ arrived' = [arrived EXCEPT ![t] = @ + 1]
    /\ Enters(t, "barrier", None, None)
    /\ UNCHANGED <<mutexVars, c_waiting, broadcasting, holds, left>>

\* SyncClient: the call returns to the application
Return(t) ==
    /\ pending[t] # NoCall /\ ~stalled[t]
    /\ pending' = [pending EXCEPT ![t] = NoCall]
    /\ IF pending[t].op = "barrier"
       THEN left' = [left EXCEPT ![t] = @ + 1] /\ UNCHANGED holds
       ELSE holds' = [holds EXCEPT ![t] = @ \cup {pending[t].m}] /\ UNCHANGED left
    /\ UNCHANGED <<mutexVars, c_waiting, b_waiting, stalled, broadcasting, arrived>>

Next ==
    \/ BroadcastStep
    \/ \E t \in Threads :
          \/ Return(t) \/ BarrierWait(t)
          \/ \E m \in Mutexes : MutexLock(t, m) \/ MutexTrylock(t, m) \/ MutexUnlock(t, m)
          \/ \E c \in Conds : CondSignal(t, c) \/ CondBroadcast(t, c)
          \/ \E c \in Conds, m \in Mutexes : CondWait(t, c, m)

Spec == Init /\ [][Next]_vars

-----------------------------------------------------------------------------
(***************************************************************************)
(* Properties                                                              *)
(***************************************************************************)

\* A thread that holds a mutex, as far as it knows, owns it for the server: the
\* assertion of unlock() holds and no two threads hold the same mutex.
HolderOwns == \A t \in Threads : \A m \in holds[t] : m_owner[m] = t

\* A mutex is never left with somebody who does not know of it: its owner holds
\* it or has been resumed and returns with it; nobody waits for a free mutex
\* (hand-over in unlock() and lock_async()).
OwnerGoesOn ==
    \A m \in Mutexes :
       IF m_owner[m] = None THEN m_waiting[m] = <<>>
       ELSE LET t == m_owner[m] IN
            \/ m \in holds[t]
            \/ pending[t].op \in {"mutex", "cond"} /\ pending[t].m = m /\ ~stalled[t]

\* A stalled thread is in the queue its call waits in, once, and in no other:
\* it is resumed by what it waits for, and by nothing else.
QueuedOnce ==
    /\ \A m \in Mutexes : \A i \in DOMAIN m_waiting[m] :
          LET t == m_waiting[m][i] IN
          /\ stalled[t] /\ pending[t].op \in {"mutex", "cond"} /\ pending[t].m = m
          /\ \A c \in Conds : \A j \in DOMAIN c_waiting[c] : c_waiting[c][j].thread # t
          /\ \A j \in DOMAIN m_waiting[m] : m_waiting[m][j] = t => j = i
    /\ \A c \in Conds : \A i \in DOMAIN c_waiting[c] :
          LET w == c_waiting[c][i] IN
          /\ stalled[w.thread]
          /\ pending[w.thread] = [op |-> "cond", m |-> w.mutex, c |-> c]
          /\ \A j \in DOMAIN c_waiting[c] : c_waiting[c][j].thread = w.thread => j = i
    /\ \A i \in DOMAIN b_waiting :
          /\ stalled[b_waiting[i]] /\ pending[b_waiting[i]].op = "barrier"
          /\ \A j \in DOMAIN b_waiting : b_waiting[j] = b_waiting[i] => j = i
    /\ \A t \in Threads : stalled[t] =>
          \/ \E i \in DOMAIN b_waiting : b_waiting[i] = t
          \/ \E m \in Mutexes : \E i \in DOMAIN m_waiting[m] : m_waiting[m][i] = t
          \/ \E c \in Conds : \E i \in DOMAIN c_waiting[c] : c_waiting[c][i].thread = t

\* Mutexes and queues together: whoever owns a mutex goes on, whoever waits for one
\* is in its queue, and what a thread believes to hold it owns.
LocksSound == HolderOwns /\ OwnerGoesOn /\ QueuedOnce

\* Nobody passes the barrier before all its users have come, in any round,
\* although early ones may be back before late ones have left.
RoundsSeparate == \A t, u \in BarrierUsers : left[t] <= arrived[u]

OnCond(t) == \E c \in Conds : \E i \in DOMAIN c_waiting[c] : c_waiting[c][i].thread = t

\* The server implements Monitor: mutual exclusion, waiting on condition variables
\* and meeting at the barrier as the simulated program sees them.
Abstract == INSTANCE Monitor WITH
    holder <- [m \in Mutexes |-> IF m_owner[m] # None /\ m \in holds[m_owner[m]]
                                 THEN m_owner[m] ELSE None],
    wants <- [t \in Threads |-> pending[t].m],
    waits <- [t \in Threads |-> IF OnCond(t) THEN pending[t].c ELSE None]
ImplementsMonitor == Abstract!MSpec

-----------------------------------------------------------------------------
(***************************************************************************)
(* Liveness: calls that can return do, broadcast() goes on, and a thread   *)
(* that is not itself blocked gives up its mutexes.                        *)
(***************************************************************************)

Fairness ==
    /\ WF_vars(BroadcastStep)
    /\ \A t \in Threads :
          /\ WF_vars(Return(t))
          /\ \A m \in Mutexes : SF_vars(MutexUnlock(t, m))

LiveSpec == Spec /\ Fairness

\* t waits for a mutex only: it called lock(), or was taken off its condition variable
Due(t) == pending[t].op \in {"mutex", "cond"} /\ ~OnCond(t)

OwnerStalled(m) == m_owner[m] # None /\ stalled[m_owner[m]]

\* Whoever waits for a mutex gets it, however many others come, unless from some
\* moment on the owner of that very mutex is itself stalled for good (in another
\* queue, or in this one: lock() by the owner). Others that stall, and an owner that
\* stalls for a while, are no excuse: mutexes are handed over first come first served.
LockGranted ==
    \A t \in Threads, m \in Mutexes :
       (Due(t) /\ pending[t].m = m) ~> (pending[t] = NoCall \/ []OwnerStalled(m))

=============================================================================
