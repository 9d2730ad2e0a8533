------------------------------ MODULE Monitor ------------------------------
(***************************************************************************)
(* What the simulated program may rely on: mutexes with at most one        *)
(* holder, condition variables on which a thread releases its mutex, waits *)
(* to be notified and takes the mutex again, and a barrier that no user    *)
(* passes before all have come.                                            *)
(***************************************************************************)
EXTENDS Naturals

CONSTANTS Threads, Mutexes, Conds, BarrierUsers, None

VARIABLES
    holder,     \* of each mutex, or None
    wants,      \* the mutex a thread is waiting to take, or None
    waits,      \* the condition variable a thread waits on, or None
    arrived,    \* how often a thread has come to the barrier ...
    left        \* ... and gone on

mvars == <<holder, wants, waits, arrived, left>>

Running(t) == wants[t] = None /\ waits[t] = None /\ arrived[t] = left[t]

MInit ==
    /\ holder = [m \in Mutexes |-> None]
    /\ wants = [t \in Threads |-> None] /\ waits = [t \in Threads |-> None]
    /\ arrived = [t \in Threads |-> 0] /\ left = [t \in Threads |-> 0]

Want(t, m) ==
    /\ Running(t)
    /\ wants' = [wants EXCEPT ![t] = m]
    /\ UNCHANGED <<holder, waits, arrived, left>>

Acquire(t, m) ==
    /\ wants[t] = m /\ waits[t] = None /\ holder[m] = None
    /\ wants' = [wants EXCEPT ![t] = None]
    /\ holder' = [holder EXCEPT ![m] = t]
    /\ UNCHANGED <<waits, arrived, left>>

Release(t, m) ==
    /\ Running(t) /\ holder[m] = t
    /\ holder' = [holder EXCEPT ![m] = None]
    /\ UNCHANGED <<wants, waits, arrived, left>>

Wait(t, c, m) ==
    /\ Running(t) /\ holder[m] = t
    /\ holder' = [holder EXCEPT ![m] = None]
    /\ wants' = [wants EXCEPT ![t] = m] /\ waits' = [waits EXCEPT ![t] = c]
    /\ UNCHANGED <<arrived, left>>

Notify(c, u) ==
    /\ waits[u] = c
    /\ waits' = [waits EXCEPT ![u] = None]
    /\ UNCHANGED <<holder, wants, arrived, left>>

Arrive(t) ==
    /\ Running(t) /\ t \in BarrierUsers
    /\ arrived' = [arrived EXCEPT ![t] = @ + 1]
    /\ UNCHANGED <<holder, wants, waits, left>>

Leave(t) ==
    /\ left[t] < arrived[t]
    /\ \A u \in BarrierUsers : left[t] < arrived[u]
    /\ left' = [left EXCEPT ![t] = @ + 1]
    /\ UNCHANGED <<holder, wants, waits, arrived>>

MNext ==
    \/ \E t \in Threads, m \in Mutexes :
          Want(t, m) \/ Acquire(t, m) \/ Release(t, m)
    \/ \E t \in Threads, c \in Conds, m \in Mutexes : Wait(t, c, m)
    \/ \E u \in Threads, c \in Conds : Notify(c, u)
    \/ \E t \in Threads : Arrive(t) \/ Leave(t)

MSpec == MInit /\ [][MNext]_mvars
=============================================================================
