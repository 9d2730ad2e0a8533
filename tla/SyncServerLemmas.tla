-------------------------- MODULE SyncServerLemmas --------------------------
(***************************************************************************)
(* The inductive invariant of SyncServer, for any threads, mutexes,        *)
(* condition variables and barrier users; SimMutex and SimCond preserve    *)
(* what it says of locks and queues.                                       *)
(***************************************************************************)
EXTENDS SyncServer, TLAPS

(***************************************************************************)
(* The inductive invariant.  QueuedOnce, queue by queue, and three things  *)
(* LocksSound does not say: what a call in progress looks like, that a     *)
(* thread resumed in a lock call is the owner already and does not think   *)
(* it was before, and how many rounds of the barrier everybody has seen.   *)
(***************************************************************************)

InQueue(t, q) == \E i \in DOMAIN q : q[i] = t
OnMutex(t) == \E m \in Mutexes : InQueue(t, m_waiting[m])
AtBarrier(t) == InQueue(t, b_waiting)

\* no element of q, a queue, is there twice
Once(q) == \A i, j \in DOMAIN q : q[i] = q[j] => i = j

MutexQueued ==
    \A m \in Mutexes :
       /\ Once(m_waiting[m])
       /\ \A t \in Threads : InQueue(t, m_waiting[m]) =>
             /\ stalled[t] /\ pending[t].op \in {"mutex", "cond"} /\ pending[t].m = m
             /\ ~OnCond(t)

CondQueued ==
    \A c \in Conds : \A i \in DOMAIN c_waiting[c] :
       LET w == c_waiting[c][i] IN
       /\ stalled[w.thread] /\ pending[w.thread].op = "cond"
       /\ pending[w.thread].m = w.mutex /\ pending[w.thread].c = c
       /\ \A j \in DOMAIN c_waiting[c] : c_waiting[c][j].thread = w.thread => j = i

BarrierQueued ==
    /\ Once(b_waiting)
    /\ \A t \in Threads : AtBarrier(t) => stalled[t] /\ pending[t].op = "barrier"

StalledQueued ==
    \A t \in Threads : stalled[t] => AtBarrier(t) \/ OnMutex(t) \/ OnCond(t)

\* the call a thread is in
PendingInv ==
    \A t \in Threads :
       /\ pending[t].op = "none" => pending[t] = NoCall /\ ~stalled[t]
       /\ pending[t].op \in {"mutex", "cond"} => pending[t].m \in Mutexes
       /\ pending[t].op = "barrier" => pending[t].m = None /\ t \in BarrierUsers

\* a thread resumed in lock() or in a condition's wait owns the mutex, and did not
\* hold it when it asked
ResumedOwns ==
    \A t \in Threads : pending[t].op \in {"mutex", "cond"} /\ ~stalled[t] =>
       m_owner[pending[t].m] = t /\ pending[t].m \notin holds[t]

\* how often t has been let through the barrier
Passed(t) == arrived[t] - (IF AtBarrier(t) THEN 1 ELSE 0)

BarrierInv ==
    /\ \A t \in Threads : arrived[t] = left[t] + (IF pending[t].op = "barrier" THEN 1 ELSE 0)
    /\ \A t, u \in BarrierUsers : Passed(t) = Passed(u)

QueueInv == MutexQueued /\ CondQueued /\ BarrierQueued /\ StalledQueued

LockInv ==
    /\ TypeOK /\ HolderOwns /\ OwnerGoesOn /\ QueueInv /\ PendingInv /\ ResumedOwns

IInv == LockInv /\ BarrierInv

-----------------------------------------------------------------------------
(***************************************************************************)
(* Queues                                                                  *)
(***************************************************************************)

LEMMA AppendAt ==
    ASSUME NEW S, NEW q \in Seq(S), NEW e \in S
    PROVE  /\ Append(q, e) \in Seq(S) /\ Append(q, e) # <<>>
           /\ DOMAIN q = 1 .. Len(q) /\ Len(q) \in Nat
           /\ DOMAIN Append(q, e) = 1 .. Len(q) + 1
           /\ \A i \in 1 .. Len(q) : Append(q, e)[i] = q[i]
           /\ Append(q, e)[Len(q) + 1] = e
OBVIOUS

LEMMA TailAt ==
    ASSUME NEW S, NEW q \in Seq(S), q # <<>>
    PROVE  /\ Tail(q) \in Seq(S) /\ Head(q) \in S /\ Head(q) = q[1]
           /\ Len(q) \in Nat /\ Len(q) >= 1 /\ DOMAIN q = 1 .. Len(q)
           /\ DOMAIN Tail(q) = 1 .. Len(q) - 1
           /\ \A i \in 1 .. Len(q) - 1 : Tail(q)[i] = q[i + 1]
OBVIOUS

LEMMA AppendQueue ==
    ASSUME NEW S, NEW q \in Seq(S), NEW e \in S
    PROVE  /\ \A t : InQueue(t, Append(q, e)) <=> InQueue(t, q) \/ t = e
           /\ Once(q) /\ ~InQueue(e, q) => Once(Append(q, e))
<1>1. /\ DOMAIN q = 1 .. Len(q) /\ Len(q) \in Nat
      /\ DOMAIN Append(q, e) = 1 .. Len(q) + 1
      /\ \A i \in 1 .. Len(q) : Append(q, e)[i] = q[i]
      /\ Append(q, e)[Len(q) + 1] = e
    BY AppendAt
<1>2. \A i \in 1 .. Len(q) + 1 : i \in 1 .. Len(q) \/ i = Len(q) + 1
    BY <1>1
<1>3. Len(q) + 1 \in 1 .. Len(q) + 1 /\ 1 .. Len(q) \subseteq 1 .. Len(q) + 1
    BY <1>1
<1>4. \A t : InQueue(t, Append(q, e)) <=> InQueue(t, q) \/ t = e
    BY Zenon, <1>1, <1>2, <1>3 DEF InQueue
<1>5. ASSUME Once(q), ~InQueue(e, q) PROVE Once(Append(q, e))
    BY Zenon, <1>1, <1>2, <1>5 DEF InQueue, Once
<1> QED
    BY Zenon, <1>4, <1>5

LEMMA TailQueue ==
    ASSUME NEW S, NEW q \in Seq(S), q # <<>>, Once(q)
    PROVE  /\ InQueue(Head(q), q) /\ Once(Tail(q))
           /\ \A t : InQueue(t, Tail(q)) <=> InQueue(t, q) /\ t # Head(q)
<1>1. /\ Head(q) = q[1] /\ Len(q) \in Nat /\ Len(q) >= 1 /\ DOMAIN q = 1 .. Len(q)
      /\ DOMAIN Tail(q) = 1 .. Len(q) - 1
      /\ \A i \in 1 .. Len(q) - 1 : Tail(q)[i] = q[i + 1]
    BY Zenon, TailAt
<1>2. InQueue(Head(q), q)
    BY <1>1 DEF InQueue
<1>3. Once(Tail(q))
    BY <1>1 DEF Once
<1>4. ASSUME NEW t, InQueue(t, Tail(q)) PROVE InQueue(t, q) /\ t # Head(q)
    <2>1. PICK i \in 1 .. Len(q) - 1 : q[i + 1] = t
        BY Zenon, <1>1, <1>4 DEF InQueue
    <2>2. i + 1 \in 1 .. Len(q) /\ 1 \in 1 .. Len(q) /\ i + 1 # 1
        BY <1>1
    <2> QED
        BY Zenon, <1>1, <2>1, <2>2 DEF InQueue, Once
<1>5. ASSUME NEW t, InQueue(t, q), t # Head(q) PROVE InQueue(t, Tail(q))
    <2>1. PICK i \in 1 .. Len(q) : q[i] = t
        BY Zenon, <1>1, <1>5 DEF InQueue
    <2>2. i - 1 \in 1 .. Len(q) - 1 /\ (i - 1) + 1 = i
        BY <1>1, <1>5, <2>1
    <2>3. Tail(q)[i - 1] = t
        BY Zenon, <1>1, <2>1, <2>2
    <2> QED
        BY Zenon, <1>1, <2>2, <2>3 DEF InQueue
<1> QED
    BY Zenon, <1>2, <1>3, <1>4, <1>5

LEMMA CondWaiterAt ==
    ASSUME TypeOK, NEW c \in Conds, NEW i \in DOMAIN c_waiting[c]
    PROVE  c_waiting[c][i].thread \in Threads /\ c_waiting[c][i].mutex \in Mutexes
<1>1. c_waiting[c] \in Seq(CondWaiter)
    BY Zenon DEF TypeOK
<1>2. c_waiting[c][i] \in CondWaiter
    BY <1>1
<1> QED
    BY Zenon, <1>2 DEF CondWaiter

\* the queues, as LocksSound states them
LEMMA QueuesSound == ASSUME LockInv PROVE QueuedOnce
<1> USE DEF LockInv, QueueInv
<1>1. ASSUME NEW m \in Mutexes, NEW i \in DOMAIN m_waiting[m]
      PROVE  LET t == m_waiting[m][i] IN
             /\ stalled[t] /\ pending[t].op \in {"mutex", "cond"} /\ pending[t].m = m
             /\ \A c \in Conds : \A j \in DOMAIN c_waiting[c] : c_waiting[c][j].thread # t
             /\ \A j \in DOMAIN m_waiting[m] : m_waiting[m][j] = t => j = i
    <2>1. m_waiting[m][i] \in Threads /\ InQueue(m_waiting[m][i], m_waiting[m])
        BY DEF TypeOK, InQueue
    <2> QED
        BY ZenonT(30), <2>1 DEF MutexQueued, Once, OnCond
<1>2. ASSUME NEW c \in Conds, NEW i \in DOMAIN c_waiting[c]
      PROVE  LET w == c_waiting[c][i] IN
             /\ stalled[w.thread]
             /\ pending[w.thread] = [op |-> "cond", m |-> w.mutex, c |-> c]
             /\ \A j \in DOMAIN c_waiting[c] : c_waiting[c][j].thread = w.thread => j = i
    <2>1. c_waiting[c][i].thread \in Threads
        BY Zenon, CondWaiterAt
    <2>2. /\ stalled[c_waiting[c][i].thread]
          /\ pending[c_waiting[c][i].thread].op = "cond"
          /\ pending[c_waiting[c][i].thread].m = c_waiting[c][i].mutex
          /\ pending[c_waiting[c][i].thread].c = c
          /\ \A j \in DOMAIN c_waiting[c] :
                c_waiting[c][j].thread = c_waiting[c][i].thread => j = i
        BY DEF CondQueued
    <2>3. pending[c_waiting[c][i].thread] \in
            [op : {"none", "mutex", "cond", "barrier"}, m : Mutexes \cup {None}, c : Conds \cup {None}]
        BY Zenon, <2>1 DEF TypeOK
    <2>4. pending[c_waiting[c][i].thread] = [op |-> "cond", m |-> c_waiting[c][i].mutex, c |-> c]
        BY Zenon, <2>2, <2>3
    <2> QED
        BY Zenon, <2>2, <2>4
<1>3. ASSUME NEW i \in DOMAIN b_waiting
      PROVE  /\ stalled[b_waiting[i]] /\ pending[b_waiting[i]].op = "barrier"
             /\ \A j \in DOMAIN b_waiting : b_waiting[j] = b_waiting[i] => j = i
    <2>1. b_waiting[i] \in Threads /\ AtBarrier(b_waiting[i])
        BY DEF TypeOK, AtBarrier, InQueue
    <2> QED
        BY Zenon, <2>1 DEF BarrierQueued, Once
<1>4. ASSUME NEW t \in Threads, stalled[t]
      PROVE  \/ \E i \in DOMAIN b_waiting : b_waiting[i] = t
             \/ \E m \in Mutexes : \E i \in DOMAIN m_waiting[m] : m_waiting[m][i] = t
             \/ \E c \in Conds : \E i \in DOMAIN c_waiting[c] : c_waiting[c][i].thread = t
    BY Zenon, <1>4 DEF StalledQueued, AtBarrier, OnMutex, OnCond, InQueue
<1> QED
    BY Zenon, <1>1, <1>2, <1>3, <1>4 DEF QueuedOnce

-----------------------------------------------------------------------------
(***************************************************************************)
(* Mutexes and queues, one lemma per handler                               *)
(***************************************************************************)

PendingType == [op : {"none", "mutex", "cond", "barrier"}, m : Mutexes \cup {None},
                c : Conds \cup {None}]

\* a thread in application code is in no queue
LEMMA CallerFree ==
    ASSUME LockInv, NEW t \in Threads, Calls(t)
    PROVE  /\ pending[t].op = "none" /\ pending[t].m = None /\ pending[t].c = None
           /\ ~stalled[t] /\ ~AtBarrier(t) /\ ~OnMutex(t) /\ ~OnCond(t)
<1>1. pending[t].op = "none" /\ pending[t].m = None /\ pending[t].c = None /\ ~stalled[t]
    BY DEF Calls, NoCall, LockInv, PendingInv
<1>2. ~AtBarrier(t) /\ ~OnMutex(t)
    BY Zenon, <1>1 DEF LockInv, QueueInv, BarrierQueued, MutexQueued, OnMutex
<1>3. ~OnCond(t)
    BY ZenonT(30), <1>1 DEF LockInv, QueueInv, CondQueued, OnCond
<1> QED
    BY Zenon, <1>1, <1>2, <1>3

LEMMA EntersCall ==
    ASSUME LockInv, NEW t \in Threads, NEW op \in {"mutex", "cond", "barrier"},
           NEW m \in Mutexes \cup {None}, NEW c \in Conds \cup {None}, Enters(t, op, m, c)
    PROVE  /\ pending' \in [Threads -> PendingType]
           /\ pending'[t].op = op /\ pending'[t].m = m /\ pending'[t].c = c
           /\ \A u \in Threads \ {t} : pending'[u] = pending[u]
<1>1. pending \in [Threads -> PendingType]
    BY Zenon DEF LockInv, TypeOK, PendingType
<1>2. [op |-> op, m |-> m, c |-> c] \in PendingType
    BY Zenon DEF PendingType
<1>3. pending' = [pending EXCEPT ![t] = [op |-> op, m |-> m, c |-> c]]
    BY Zenon DEF Enters
<1>4. /\ pending' \in [Threads -> PendingType] /\ pending'[t] = [op |-> op, m |-> m, c |-> c]
      /\ \A u \in Threads \ {t} : pending'[u] = pending[u]
    BY Zenon, <1>1, <1>2, <1>3
<1> QED
    BY <1>4

\* SimMutex::lock(), of a free mutex and of one that has an owner
LEMMA MutexLockInv ==
    ASSUME LockInv, NEW t \in Threads, NEW m \in Mutexes, MutexLock(t, m)
    PROVE  LockInv'
<1> USE DEF LockInv, QueueInv
<1>a. /\ UNCHANGED <<c_waiting, b_waiting, broadcasting, holds, arrived, left>>
      /\ Lock(t, m)
    BY Zenon DEF MutexLock, roundVars
<1>b. /\ pending[t].op = "none" /\ ~stalled[t] /\ ~AtBarrier(t) /\ ~OnMutex(t) /\ ~OnCond(t)
    BY Zenon, CallerFree DEF MutexLock
<1>c. /\ pending' \in [Threads -> PendingType]
      /\ pending'[t].op = "mutex" /\ pending'[t].m = m
      /\ \A u \in Threads \ {t} : pending'[u] = pending[u]
    BY Zenon, EntersCall DEF MutexLock
<1>d. \A u \in Threads : (OnCond(u)' <=> OnCond(u)) /\ (AtBarrier(u)' <=> AtBarrier(u))
    BY Zenon, <1>a DEF OnCond, AtBarrier, InQueue
<1>e. None \notin Threads /\ None \notin Mutexes
    BY Zenon, SyncAssumption
<1>f. CondQueued' /\ BarrierQueued'
    <2>1. \A u \in Threads : u # t => (stalled'[u] <=> stalled[u])
        BY Zenon, <1>a DEF Lock, TypeOK
    <2>2. ASSUME NEW c \in Conds, NEW i \in DOMAIN c_waiting[c]
          PROVE  c_waiting[c][i].thread \in Threads \ {t}
        BY Zenon, <1>b, CondWaiterAt DEF OnCond
    <2>3. CondQueued'
        BY <1>a, <1>c, <2>1, <2>2 DEF CondQueued
    <2>4. BarrierQueued'
        BY Zenon, <1>a, <1>b, <1>c, <1>d, <2>1 DEF BarrierQueued
    <2> QED
        BY Zenon, <2>3, <2>4
<1>1. CASE m_owner[m] = None
    <2>1. m_owner' = [m_owner EXCEPT ![m] = t] /\ UNCHANGED <<m_waiting, stalled>>
        BY Zenon, <1>a, <1>1 DEF Lock
    <2>a. \A n \in Mutexes : m_owner'[n] = IF n = m THEN t ELSE m_owner[n]
        BY Zenon, <2>1 DEF TypeOK
    <2>2. TypeOK'
        BY Zenon, <1>a, <1>c, <2>1 DEF TypeOK, PendingType
    <2>3. HolderOwns'
        BY <1>a, <1>1, <1>e, <2>1 DEF HolderOwns, TypeOK
    <2>4. OwnerGoesOn'
        <3> SUFFICES ASSUME NEW n \in Mutexes
                     PROVE  IF m_owner'[n] = None THEN m_waiting[n] = <<>>
                            ELSE \/ n \in holds[m_owner'[n]]
                                 \/ /\ pending'[m_owner'[n]].op \in {"mutex", "cond"}
                                    /\ pending'[m_owner'[n]].m = n /\ ~stalled[m_owner'[n]]
            BY Zenon, <1>a, <2>1 DEF OwnerGoesOn
        <3>1. CASE n = m
            BY ZenonT(30), <1>b, <1>c, <1>e, <2>a, <3>1
        <3>2. CASE n # m
            <4>1. m_owner'[n] = m_owner[n] /\ m_owner[n] \in Threads \cup {None}
                BY Zenon, <2>a, <3>2 DEF TypeOK
            <4> QED
                BY <1>b, <1>c, <4>1 DEF OwnerGoesOn
        <3> QED
            BY Zenon, <3>1, <3>2
    <2>5. MutexQueued'
        BY <1>b, <1>c, <1>d, <2>1 DEF MutexQueued, OnMutex
    <2>6. StalledQueued'
        BY Zenon, <1>d, <2>1 DEF StalledQueued, OnMutex
    <2>7. PendingInv'
        BY Zenon, <1>c, <2>1 DEF PendingInv
    <2>8. ResumedOwns'
        <3>1. m \notin holds[t]
            BY Zenon, <1>1, <1>e DEF HolderOwns
        <3> SUFFICES ASSUME NEW u \in Threads, pending'[u].op \in {"mutex", "cond"}, ~stalled[u]
                     PROVE  m_owner'[pending'[u].m] = u /\ pending'[u].m \notin holds[u]
            BY Zenon, <1>a, <2>1 DEF ResumedOwns
        <3>2. CASE u # t
            BY <1>1, <1>c, <1>e, <2>a, <3>2 DEF ResumedOwns, PendingInv
        <3> QED
            BY Zenon, <1>c, <2>a, <3>1, <3>2
    <2> QED
        BY Zenon, <1>f, <2>2, <2>3, <2>4, <2>5, <2>6, <2>7, <2>8
<1>2. CASE m_owner[m] # None
    <2>1. /\ m_waiting' = [m_waiting EXCEPT ![m] = Append(m_waiting[m], t)]
          /\ stalled' = [stalled EXCEPT ![t] = TRUE] /\ UNCHANGED m_owner
        BY Zenon, <1>a, <1>2 DEF Lock
    <2>2. /\ m_waiting[m] \in Seq(Threads) /\ Append(m_waiting[m], t) \in Seq(Threads)
          /\ m_waiting'[m] = Append(m_waiting[m], t)
          /\ \A n \in Mutexes \ {m} : m_waiting'[n] = m_waiting[n]
        BY <2>1 DEF TypeOK
    <2>3. /\ \A u : InQueue(u, m_waiting'[m]) <=> InQueue(u, m_waiting[m]) \/ u = t
          /\ Once(m_waiting'[m])
        BY <1>b, <2>2, AppendQueue DEF MutexQueued, OnMutex
    <2>4. \A u \in Threads : stalled'[u] <=> u = t \/ stalled[u]
        BY Zenon, <2>1 DEF TypeOK
    <2>5. TypeOK'
        BY Zenon, <1>a, <1>c, <2>1, <2>2 DEF TypeOK, PendingType
    <2>6. HolderOwns'
        BY Zenon, <1>a, <2>1 DEF HolderOwns
    <2>7. OwnerGoesOn'
        <3> SUFFICES ASSUME NEW n \in Mutexes
                     PROVE  IF m_owner[n] = None THEN m_waiting'[n] = <<>>
                            ELSE \/ n \in holds[m_owner[n]]
                                 \/ /\ pending'[m_owner[n]].op \in {"mutex", "cond"}
                                    /\ pending'[m_owner[n]].m = n /\ ~stalled'[m_owner[n]]
            BY Zenon, <1>a, <2>1 DEF OwnerGoesOn
        <3>1. CASE m_owner[n] = None
            BY Zenon, <1>2, <2>2, <3>1 DEF OwnerGoesOn
        <3>2. CASE m_owner[n] # None
            <4>1. m_owner[n] \in Threads
                BY Zenon, <3>2 DEF TypeOK
            <4> QED
                BY <1>b, <1>c, <2>4, <3>2, <4>1 DEF OwnerGoesOn
        <3> QED
            BY Zenon, <3>1, <3>2
    <2>8. MutexQueued'
        <3> SUFFICES ASSUME NEW n \in Mutexes
                     PROVE  /\ Once(m_waiting'[n])
                            /\ \A u \in Threads : InQueue(u, m_waiting'[n]) =>
                                  /\ stalled'[u] /\ pending'[u].op \in {"mutex", "cond"}
                                  /\ pending'[u].m = n /\ ~OnCond(u)'
            BY Zenon DEF MutexQueued
        <3>1. CASE n = m
            BY <1>b, <1>c, <1>d, <2>3, <2>4, <3>1 DEF MutexQueued
        <3>2. CASE n # m
            BY <1>b, <1>c, <1>d, <2>2, <2>4, <3>2 DEF MutexQueued, OnMutex
        <3> QED
            BY Zenon, <3>1, <3>2
    <2>9. StalledQueued'
        <3>1. \A u \in Threads : OnMutex(u) \/ u = t => OnMutex(u)'
            BY Zenon, <2>2, <2>3 DEF OnMutex
        <3> QED
            BY Zenon, <1>d, <2>4, <3>1 DEF StalledQueued
    <2>10. PendingInv'
        BY Zenon, <1>c, <2>4 DEF PendingInv
    <2>11. ResumedOwns'
        BY Zenon, <1>a, <1>c, <2>1, <2>4 DEF ResumedOwns
    <2> QED
        BY Zenon, <1>f, <2>5, <2>6, <2>7, <2>8, <2>9, <2>10, <2>11
<1> QED
    BY Zenon, <1>1, <1>2

\* SimMutex::unlock() makes w, the first in the queue, the owner, or nobody
Handed(m, w, S) ==
    /\ w \in Threads \cup {None}
    /\ w # None => InQueue(w, m_waiting[m])
    /\ m_owner' = [m_owner EXCEPT ![m] = w]
    /\ m_waiting' \in [Mutexes -> Seq(Threads)]
    /\ \A n \in Mutexes \ {m} : m_waiting'[n] = m_waiting[n]
    /\ w = None => m_waiting'[m] = <<>>
    /\ Once(m_waiting'[m])
    /\ \A u \in Threads : InQueue(u, m_waiting'[m]) <=> InQueue(u, m_waiting[m]) /\ u # w
    /\ stalled' \in [Threads -> BOOLEAN]
    /\ \A u \in Threads : stalled'[u] <=> u # w /\ (stalled[u] \/ u \in S)

LEMMA UnlockHands ==
    ASSUME LockInv, NEW m \in Mutexes, NEW S \in SUBSET Threads, Unlock(m, S)
    PROVE  \E w : Handed(m, w, S)
<1>a. /\ m_waiting \in [Mutexes -> Seq(Threads)] /\ m_waiting[m] \in Seq(Threads)
      /\ Once(m_waiting[m]) /\ stalled \in [Threads -> BOOLEAN] /\ None \notin Threads
    BY Zenon, SyncAssumption DEF LockInv, TypeOK, QueueInv, MutexQueued
<1>1. CASE m_waiting[m] = <<>>
    <2>1. /\ m_owner' = [m_owner EXCEPT ![m] = None]
          /\ stalled' = [u \in Threads |-> stalled[u] \/ u \in S] /\ m_waiting' = m_waiting
        BY Zenon, <1>1 DEF Unlock
    <2>2. /\ stalled' \in [Threads -> BOOLEAN]
          /\ \A u \in Threads : stalled'[u] <=> u # None /\ (stalled[u] \/ u \in S)
        BY Zenon, <1>a, <2>1
    <2> QED
        <3>1. \A u \in Threads : u # None
            BY Zenon, <1>a
        <3>2. Handed(m, None, S)
            BY Zenon, <1>1, <1>a, <2>1, <2>2, <3>1 DEF Handed
        <3> QED
            BY Zenon, <3>2
<1>2. CASE m_waiting[m] # <<>>
    <2> DEFINE w == Head(m_waiting[m])
    <2>1. /\ m_waiting' = [m_waiting EXCEPT ![m] = Tail(m_waiting[m])]
          /\ m_owner' = [m_owner EXCEPT ![m] = w]
          /\ stalled' = [u \in Threads |-> u # w /\ (stalled[u] \/ u \in S)]
        BY Zenon, <1>2 DEF Unlock
    <2>2. w \in Threads /\ Tail(m_waiting[m]) \in Seq(Threads)
        BY Zenon, <1>2, <1>a, TailAt
    <2>3. /\ m_waiting' \in [Mutexes -> Seq(Threads)]
          /\ m_waiting'[m] = Tail(m_waiting[m])
          /\ \A n \in Mutexes \ {m} : m_waiting'[n] = m_waiting[n]
        BY Zenon, <1>a, <2>1, <2>2
    <2>4. /\ InQueue(w, m_waiting[m]) /\ Once(m_waiting'[m])
          /\ \A u : InQueue(u, m_waiting'[m]) <=> InQueue(u, m_waiting[m]) /\ u # w
        BY <1>2, <1>a, <2>3, TailQueue
    <2>5. /\ stalled' \in [Threads -> BOOLEAN]
          /\ \A u \in Threads : stalled'[u] <=> u # w /\ (stalled[u] \/ u \in S)
        BY Zenon, <2>1
    <2>6. w # None
        BY Zenon, <1>a, <2>2
    <2> HIDE DEF w
    <2>7. Handed(m, w, S)
        BY Zenon, <2>1, <2>2, <2>3, <2>4, <2>5, <2>6 DEF Handed
    <2> QED
        BY Zenon, <2>7
<1> QED
    BY Zenon, <1>1, <1>2

\* what mutexUnlock() and condWait() have in common: t gives its mutex up, and goes
\* on (S is empty) or stalls on a condition variable (S is {t})
LEMMA ReleaseInv ==
    ASSUME LockInv, NEW t \in Threads, NEW m \in Mutexes, NEW S \in {{}, {t}}, NEW w,
           Calls(t), m \in holds[t], Handed(m, w, S),
           holds' = [holds EXCEPT ![t] = holds[t] \ {m}], b_waiting' = b_waiting,
           \A u \in Threads \ {t} : pending'[u] = pending[u] /\ (OnCond(u)' <=> OnCond(u)),
           S = {} => pending'[t] = pending[t] /\ ~OnCond(t)',
           S = {t} => pending'[t].op = "cond" /\ pending'[t].m = m /\ OnCond(t)'
    PROVE  /\ HolderOwns' /\ OwnerGoesOn' /\ MutexQueued' /\ BarrierQueued'
           /\ StalledQueued' /\ ResumedOwns'
           /\ w # t /\ \A u \in Threads : w = u => pending[u].op \in {"mutex", "cond"}
<1> USE DEF LockInv, QueueInv
<1>a. /\ pending[t].op = "none" /\ ~stalled[t] /\ ~AtBarrier(t) /\ ~OnMutex(t) /\ ~OnCond(t)
    BY Zenon, CallerFree
<1>b. /\ m_owner[m] = t /\ None \notin Threads /\ t # None
      /\ \A u \in Threads : m \in holds[u] => u = t
    BY SyncAssumption DEF HolderOwns
<1>c. \A n \in Mutexes : m_owner'[n] = IF n = m THEN w ELSE m_owner[n]
    BY Zenon DEF Handed, TypeOK
<1>d. \A u \in Threads : holds'[u] = IF u = t THEN holds[t] \ {m} ELSE holds[u]
    BY Zenon DEF TypeOK
<1>e. w \in Threads => /\ w # t /\ stalled[w] /\ pending[w].op \in {"mutex", "cond"}
                       /\ pending[w].m = m /\ ~OnCond(w) /\ ~AtBarrier(w) /\ pending'[w] = pending[w]
    <2> SUFFICES ASSUME w \in Threads
                 PROVE  /\ w # t /\ stalled[w] /\ pending[w].op \in {"mutex", "cond"}
                        /\ pending[w].m = m /\ ~OnCond(w) /\ ~AtBarrier(w)
                        /\ pending'[w] = pending[w]
        BY Zenon
    <2>1. InQueue(w, m_waiting[m])
        BY Zenon, <1>b DEF Handed
    <2>2. /\ w # t /\ stalled[w] /\ pending[w].op \in {"mutex", "cond"}
          /\ pending[w].m = m /\ ~OnCond(w)
        BY Zenon, <1>a, <2>1 DEF MutexQueued, OnMutex
    <2> QED
        BY Zenon, <2>2 DEF BarrierQueued
<1>f. w \in Threads \cup {None} /\ (w # None => w \in Threads)
    BY Zenon DEF Handed
<1>g. \A u \in Threads : stalled'[u] <=> u # w /\ (stalled[u] \/ u \in S)
    BY Zenon DEF Handed
<1>1. HolderOwns'
    BY <1>b, <1>c, <1>d DEF HolderOwns, TypeOK
<1>2. OwnerGoesOn'
    <2> SUFFICES ASSUME NEW n \in Mutexes
                 PROVE  IF m_owner'[n] = None THEN m_waiting'[n] = <<>>
                        ELSE \/ n \in holds'[m_owner'[n]]
                             \/ /\ pending'[m_owner'[n]].op \in {"mutex", "cond"}
                                /\ pending'[m_owner'[n]].m = n /\ ~stalled'[m_owner'[n]]
        BY Zenon DEF OwnerGoesOn
    <2>1. CASE n = m
        BY <1>c, <1>e, <1>f, <1>g, <2>1 DEF Handed
    <2>2. CASE n # m
        <3>1. /\ m_owner'[n] = m_owner[n] /\ m_owner[n] \in Threads \cup {None}
              /\ m_waiting'[n] = m_waiting[n]
            BY Zenon, <1>c, <2>2 DEF TypeOK, Handed
        <3>2. CASE m_owner[n] = t
            BY <1>a, <1>b, <1>d, <2>2, <3>1, <3>2 DEF OwnerGoesOn
        <3>3. CASE m_owner[n] # t
            BY <1>d, <1>g, <3>1, <3>3 DEF OwnerGoesOn
        <3> QED
            BY Zenon, <3>2, <3>3
    <2> QED
        BY Zenon, <2>1, <2>2
<1>3. MutexQueued'
    <2> SUFFICES ASSUME NEW n \in Mutexes
                 PROVE  /\ Once(m_waiting'[n])
                        /\ \A u \in Threads : InQueue(u, m_waiting'[n]) =>
                              /\ stalled'[u] /\ pending'[u].op \in {"mutex", "cond"}
                              /\ pending'[u].m = n /\ ~OnCond(u)'
        BY Zenon DEF MutexQueued
    <2>1. Once(m_waiting'[n]) /\ \A u \in Threads : InQueue(u, m_waiting'[n]) =>
                InQueue(u, m_waiting[n]) /\ (n = m => u # w)
        BY Zenon DEF Handed, MutexQueued
    <2>2. \A u \in Threads : InQueue(u, m_waiting[n]) =>
            u # t /\ stalled[u] /\ pending[u].op \in {"mutex", "cond"} /\ pending[u].m = n /\ ~OnCond(u)
        BY Zenon, <1>a DEF MutexQueued, OnMutex
    <2>3. \A u \in Threads : InQueue(u, m_waiting'[n]) => u # w
        BY Zenon, <1>e, <2>1, <2>2
    <2> QED
        BY <1>g, <2>1, <2>2, <2>3
<1>h. \A u \in Threads : AtBarrier(u)' <=> AtBarrier(u)
    BY Zenon DEF AtBarrier, InQueue
<1>4. BarrierQueued'
    BY ZenonT(30), <1>a, <1>e, <1>g, <1>h DEF BarrierQueued
<1>5. StalledQueued'
    <2>1. \A u \in Threads : OnMutex(u) /\ u # w => OnMutex(u)'
        BY Zenon DEF OnMutex, Handed
    <2> QED
        BY Zenon, <1>a, <1>g, <1>h, <2>1 DEF StalledQueued
<1>6. ResumedOwns'
    <2> SUFFICES ASSUME NEW u \in Threads, pending'[u].op \in {"mutex", "cond"}, ~stalled'[u]
                 PROVE  m_owner'[pending'[u].m] = u /\ pending'[u].m \notin holds'[u]
        BY Zenon DEF ResumedOwns
    <2>1. u # t /\ pending'[u] = pending[u] /\ holds'[u] = holds[u]
        BY Zenon, <1>a, <1>d, <1>e, <1>g
    <2>2. CASE u = w
        BY <1>b, <1>c, <1>e, <2>1, <2>2
    <2>3. CASE u # w
        <3>1. ~stalled[u] /\ pending[u].m \in Mutexes /\ m_owner[pending[u].m] = u
            BY Zenon, <1>g, <2>1, <2>3 DEF ResumedOwns, PendingInv
        <3> QED
            BY SMTT(60), <1>b, <1>c, <2>1, <3>1 DEF ResumedOwns
    <2> QED
        BY Zenon, <2>2, <2>3
<1> QED
    BY Zenon, <1>1, <1>2, <1>3, <1>4, <1>5, <1>6, <1>b, <1>e, <1>f

LEMMA MutexUnlockInv ==
    ASSUME LockInv, NEW t \in Threads, NEW m \in Mutexes, MutexUnlock(t, m)
    PROVE  LockInv'
<1>a. /\ UNCHANGED <<c_waiting, b_waiting, broadcasting, pending, arrived, left>>
      /\ Calls(t) /\ m \in holds[t] /\ Unlock(m, {})
      /\ holds' = [holds EXCEPT ![t] = holds[t] \ {m}]
    BY Zenon DEF MutexUnlock, roundVars
<1>b. \A u \in Threads : OnCond(u)' <=> OnCond(u)
    BY Zenon, <1>a DEF OnCond
<1>c. ~OnCond(t)
    BY Zenon, <1>a, CallerFree
<1>d. PICK w : Handed(m, w, {})
    BY Zenon, <1>a, UnlockHands
<1>1. /\ HolderOwns' /\ OwnerGoesOn' /\ MutexQueued' /\ BarrierQueued'
      /\ StalledQueued' /\ ResumedOwns'
      /\ w # t /\ \A u \in Threads : w = u => pending[u].op \in {"mutex", "cond"}
    BY Zenon, <1>a, <1>b, <1>c, <1>d, ReleaseInv
<1>2. TypeOK'
    BY Zenon, <1>a, <1>d DEF LockInv, TypeOK, Handed
<1>3. PendingInv'
    BY Zenon, <1>a, <1>d DEF LockInv, PendingInv, Handed
<1>4. CondQueued'
    <2>1. ASSUME NEW c \in Conds, NEW i \in DOMAIN c_waiting[c]
          PROVE  c_waiting[c][i].thread \in Threads /\ c_waiting[c][i].thread # w
        <3>1. c_waiting[c][i].thread \in Threads /\ OnCond(c_waiting[c][i].thread)
            BY Zenon, CondWaiterAt DEF OnCond, LockInv
        <3>2. w \in Threads => ~OnCond(w)
            BY Zenon, <1>d, SyncAssumption DEF Handed, LockInv, QueueInv, MutexQueued
        <3> QED
            BY Zenon, <3>1, <3>2
    <2> QED
        BY SMTT(60), <1>a, <1>d, <2>1 DEF CondQueued, LockInv, QueueInv, Handed
<1> QED
    BY Zenon, <1>1, <1>2, <1>3, <1>4 DEF LockInv, QueueInv

LEMMA CondWaitInv ==
    ASSUME LockInv, NEW t \in Threads, NEW c \in Conds, NEW m \in Mutexes, CondWait(t, c, m)
    PROVE  LockInv' /\ OnCond(t)' /\ \A u \in Threads \ {t} : OnCond(u)' <=> OnCond(u)
<1> DEFINE e == [thread |-> t, mutex |-> m]
           q == c_waiting[c]
<1>a. /\ UNCHANGED <<b_waiting, broadcasting, arrived, left>>
      /\ Calls(t) /\ m \in holds[t] /\ Unlock(m, {t})
      /\ c_waiting' = [c_waiting EXCEPT ![c] = Append(q, e)]
      /\ holds' = [holds EXCEPT ![t] = holds[t] \ {m}]
    BY Zenon DEF CondWait, roundVars
<1>b. /\ pending' \in [Threads -> PendingType]
      /\ pending'[t].op = "cond" /\ pending'[t].m = m /\ pending'[t].c = c
      /\ \A u \in Threads \ {t} : pending'[u] = pending[u]
    BY Zenon, EntersCall DEF CondWait
<1>c. ~OnCond(t)
    BY Zenon, <1>a, CallerFree
<1>d. PICK w : Handed(m, w, {t})
    BY Zenon, <1>a, UnlockHands
<1>e. /\ c_waiting \in [Conds -> Seq(CondWaiter)] /\ q \in Seq(CondWaiter)
      /\ e \in CondWaiter /\ e.thread = t /\ e.mutex = m
    BY Zenon DEF LockInv, TypeOK, CondWaiter
<1> HIDE DEF e, q
<1>f. /\ Append(q, e) \in Seq(CondWaiter) /\ DOMAIN q = 1 .. Len(q) /\ Len(q) \in Nat
      /\ DOMAIN Append(q, e) = 1 .. Len(q) + 1
      /\ \A i \in 1 .. Len(q) : Append(q, e)[i] = q[i]
      /\ Append(q, e)[Len(q) + 1] = e
    BY <1>e, AppendAt
<1>g. /\ c_waiting' \in [Conds -> Seq(CondWaiter)] /\ c_waiting'[c] = Append(q, e)
      /\ \A d \in Conds \ {c} : c_waiting'[d] = c_waiting[d]
    BY Zenon, <1>a, <1>e, <1>f
\* a place in a queue is the new one, or one there was before
<1>h. ASSUME NEW d \in Conds, NEW i \in DOMAIN c_waiting'[d]
      PROVE  \/ d = c /\ i = Len(q) + 1 /\ c_waiting'[d][i] = e
             \/ i \in DOMAIN c_waiting[d] /\ c_waiting'[d][i] = c_waiting[d][i]
    <2>1. CASE d = c
        <3>1. /\ c_waiting'[d] = Append(q, e) /\ c_waiting[d] = q
              /\ i \in 1 .. Len(q) \/ i = Len(q) + 1
            BY <1>f, <1>g, <2>1 DEF q
        <3> QED
            BY Zenon, <1>f, <2>1, <3>1
    <2>2. CASE d # c
        BY Zenon, <1>g, <2>2
    <2> QED
        BY Zenon, <2>1, <2>2
<1>i. ASSUME NEW d \in Conds, NEW i \in DOMAIN c_waiting[d]
      PROVE  i \in DOMAIN c_waiting'[d] /\ c_waiting'[d][i] = c_waiting[d][i]
    <2>1. CASE d = c
        <3>1. c_waiting'[d] = Append(q, e) /\ c_waiting[d] = q /\ i \in 1 .. Len(q)
            BY Zenon, <1>f, <1>g, <2>1 DEF q
        <3> QED
            BY <1>f, <2>1, <3>1
    <2>2. CASE d # c
        BY Zenon, <1>g, <2>2
    <2> QED
        BY Zenon, <2>1, <2>2
<1>j. OnCond(t)' /\ \A u \in Threads \ {t} : OnCond(u)' <=> OnCond(u)
    <2>1. Len(q) + 1 \in DOMAIN c_waiting'[c] /\ c_waiting'[c][Len(q) + 1].thread = t
        BY <1>e, <1>f, <1>g
    <2>2. OnCond(t)'
        BY Zenon, <2>1 DEF OnCond
    <2>3. \A u \in Threads \ {t} : OnCond(u)' => OnCond(u)
        BY ZenonT(60), <1>e, <1>h DEF OnCond
    <2>4. \A u \in Threads \ {t} : OnCond(u) => OnCond(u)'
        BY Zenon, <1>i DEF OnCond
    <2> QED
        BY Zenon, <2>2, <2>3, <2>4
<1>1. /\ HolderOwns' /\ OwnerGoesOn' /\ MutexQueued' /\ BarrierQueued'
      /\ StalledQueued' /\ ResumedOwns'
      /\ w # t /\ \A u \in Threads : w = u => pending[u].op \in {"mutex", "cond"}
    <2>1. {t} # {}
        BY Zenon
    <2> QED
        BY Zenon, <1>a, <1>b, <1>d, <1>j, <2>1, ReleaseInv
<1>2. TypeOK'
    BY Zenon, <1>a, <1>b, <1>d, <1>g DEF LockInv, TypeOK, Handed, PendingType
<1>3. PendingInv'
    BY SMTT(60), <1>1, <1>b, <1>d DEF LockInv, PendingInv, Handed
<1>4. CondQueued'
    <2>0. w \in Threads => ~OnCond(w)
        BY Zenon, <1>d, SyncAssumption DEF Handed, LockInv, QueueInv, MutexQueued
    <2> SUFFICES ASSUME NEW d \in Conds, NEW i \in DOMAIN c_waiting'[d]
                 PROVE  LET x == c_waiting'[d][i] IN
                        /\ stalled'[x.thread] /\ pending'[x.thread].op = "cond"
                        /\ pending'[x.thread].m = x.mutex /\ pending'[x.thread].c = d
                        /\ \A j \in DOMAIN c_waiting'[d] : c_waiting'[d][j].thread = x.thread => j = i
        BY Zenon DEF CondQueued
    <2>1. ASSUME NEW j \in DOMAIN c_waiting[d]
          PROVE  /\ c_waiting[d][j].thread \in Threads \ {t} /\ c_waiting[d][j].thread # w
        <3>1. c_waiting[d][j].thread \in Threads /\ OnCond(c_waiting[d][j].thread)
            BY Zenon, CondWaiterAt DEF OnCond, LockInv
        <3> QED
            BY Zenon, <1>c, <2>0, <3>1
    <2>2. CASE d = c /\ i = Len(q) + 1 /\ c_waiting'[d][i] = e
        <3>1. stalled'[t]
            BY Zenon, <1>1, <1>d DEF Handed
        <3>2. \A j \in DOMAIN c_waiting'[d] : c_waiting'[d][j].thread = t => j = i
            BY Zenon, <1>h, <2>1, <2>2
        <3> QED
            BY <1>b, <1>e, <2>2, <3>1, <3>2
    <2>3. CASE i \in DOMAIN c_waiting[d] /\ c_waiting'[d][i] = c_waiting[d][i]
        <3>1. /\ stalled[c_waiting[d][i].thread] /\ pending[c_waiting[d][i].thread].op = "cond"
              /\ pending[c_waiting[d][i].thread].m = c_waiting[d][i].mutex
              /\ pending[c_waiting[d][i].thread].c = d
              /\ \A j \in DOMAIN c_waiting[d] :
                    c_waiting[d][j].thread = c_waiting[d][i].thread => j = i
            BY SMTT(60), <2>3 DEF LockInv, QueueInv, CondQueued
        <3>2. c_waiting[d][i].thread \in Threads \ {t} /\ c_waiting[d][i].thread # w
            BY Zenon, <2>1, <2>3
        <3>3. stalled'[c_waiting[d][i].thread]
            BY Zenon, <1>d, <3>1, <3>2 DEF Handed
        <3>4. \A j \in DOMAIN c_waiting'[d] :
                c_waiting'[d][j].thread = c_waiting[d][i].thread => j = i
            BY <1>e, <1>h, <3>1, <3>2
        <3> QED
            BY Zenon, <1>b, <2>3, <3>1, <3>2, <3>3, <3>4
    <2> QED
        BY Zenon, <1>h, <2>2, <2>3
<1> QED
    BY Zenon, <1>1, <1>2, <1>3, <1>4, <1>j DEF LockInv, QueueInv

\* SimCond::signal() takes u off its condition variable, and nobody else
LEMMA SignalTakes ==
    ASSUME LockInv, NEW c \in Conds, SignalFirst(c)
    PROVE  \E u \in Threads :
           /\ OnCond(u) /\ pending[u].op = "cond" /\ pending[u].c = c /\ stalled[u]
           /\ pending[u].m \in Mutexes /\ LockAsync(u, pending[u].m)
           /\ c_waiting' \in [Conds -> Seq(CondWaiter)]
           /\ \A v \in Threads : OnCond(v)' <=> OnCond(v) /\ v # u
           /\ \A d \in Conds : \A i \in DOMAIN c_waiting'[d] :
                 /\ c_waiting'[d][i].thread \in Threads \ {u}
                 /\ \E k \in DOMAIN c_waiting[d] : c_waiting[d][k] = c_waiting'[d][i]
                 /\ \A j \in DOMAIN c_waiting'[d] :
                       c_waiting'[d][j].thread = c_waiting'[d][i].thread => j = i
<1> DEFINE q == c_waiting[c]
           u == q[1].thread
<1>a. /\ q # <<>> /\ c_waiting' = [c_waiting EXCEPT ![c] = Tail(q)]
      /\ LockAsync(Head(q).thread, Head(q).mutex)
    BY Zenon DEF SignalFirst
<1>b. c_waiting \in [Conds -> Seq(CondWaiter)] /\ q \in Seq(CondWaiter) /\ TypeOK /\ CondQueued
    BY Zenon DEF LockInv, TypeOK, QueueInv
<1>c. /\ Tail(q) \in Seq(CondWaiter) /\ Head(q) = q[1]
      /\ Len(q) \in Nat /\ Len(q) >= 1 /\ DOMAIN q = 1 .. Len(q)
      /\ DOMAIN Tail(q) = 1 .. Len(q) - 1
      /\ \A i \in 1 .. Len(q) - 1 : Tail(q)[i] = q[i + 1]
    BY Zenon, <1>a, <1>b, TailAt
<1>d. 1 \in DOMAIN q
    BY <1>c
<1>e. /\ u \in Threads /\ q[1].mutex \in Mutexes
      /\ stalled[u] /\ pending[u].op = "cond" /\ pending[u].m = q[1].mutex /\ pending[u].c = c
      /\ \A j \in DOMAIN q : q[j].thread = u => j = 1
    BY <1>b, <1>d, CondWaiterAt DEF CondQueued
<1>f. OnCond(u) /\ LockAsync(u, pending[u].m) /\ pending[u].m \in Mutexes
    BY Zenon, <1>a, <1>c, <1>d, <1>e DEF OnCond
<1>g. /\ c_waiting' \in [Conds -> Seq(CondWaiter)] /\ c_waiting'[c] = Tail(q)
      /\ \A d \in Conds \ {c} : c_waiting'[d] = c_waiting[d]
    BY Zenon, <1>a, <1>b, <1>c
<1>h. ASSUME NEW d \in Conds, NEW i \in DOMAIN c_waiting'[d]
      PROVE  /\ c_waiting'[d][i].thread \in Threads \ {u}
             /\ \E k \in DOMAIN c_waiting[d] : c_waiting[d][k] = c_waiting'[d][i]
             /\ \A j \in DOMAIN c_waiting'[d] :
                   c_waiting'[d][j].thread = c_waiting'[d][i].thread => j = i
    <2>1. CASE d = c
        <3>1. i \in 1 .. Len(q) - 1 /\ i + 1 \in DOMAIN q /\ i + 1 # 1 /\ c_waiting'[d][i] = q[i + 1]
            BY <1>c, <1>g, <2>1
        <3>2. q[i + 1].thread \in Threads \ {u}
            BY Zenon, <1>b, <1>e, <3>1, CondWaiterAt
        <3>3. ASSUME NEW j \in DOMAIN c_waiting'[d], c_waiting'[d][j].thread = c_waiting'[d][i].thread
              PROVE  j = i
            <4>0. c_waiting'[d] = Tail(q) /\ j \in 1 .. Len(q) - 1
                BY Zenon, <1>c, <1>g, <2>1
            <4>1. j \in 1 .. Len(q) - 1 /\ j + 1 \in DOMAIN q /\ c_waiting'[d][j] = q[j + 1]
                BY SMTT(60), <1>c, <4>0
            <4>2. q[j + 1].thread = q[i + 1].thread
                BY Zenon, <3>1, <3>3, <4>1
            <4>3. j + 1 = i + 1
                BY <1>b, <3>1, <4>1, <4>2 DEF CondQueued
            <4> QED
                BY <3>1, <4>1, <4>3
        <3> QED
            BY Zenon, <2>1, <3>1, <3>2, <3>3
    <2>2. CASE d # c
        <3>1. c_waiting'[d] = c_waiting[d]
            BY Zenon, <1>g, <2>2
        <3>2. c_waiting[d][i].thread \in Threads /\ pending[c_waiting[d][i].thread].c = d
            BY Zenon, <1>b, <3>1, CondWaiterAt DEF CondQueued
        <3> QED
            BY SMTT(60), <1>b, <1>e, <2>2, <3>1, <3>2 DEF CondQueued
    <2> QED
        BY Zenon, <2>1, <2>2
<1>i. ASSUME NEW v \in Threads, OnCond(v), v # u PROVE OnCond(v)'
    <2>1. PICK d \in Conds : \E i \in DOMAIN c_waiting[d] : c_waiting[d][i].thread = v
        BY Zenon, <1>i DEF OnCond
    <2>2. PICK i \in DOMAIN c_waiting[d] : c_waiting[d][i].thread = v
        BY Zenon, <2>1
    <2>3. CASE d = c
        <3>1. i \in 1 .. Len(q) /\ i # 1 /\ q[i].thread = v
            BY Zenon, <1>c, <1>i, <2>2, <2>3
        <3>2. i - 1 \in 1 .. Len(q) - 1 /\ (i - 1) + 1 = i
            BY <1>c, <3>1
        <3>3. i - 1 \in DOMAIN c_waiting'[c] /\ c_waiting'[c][i - 1].thread = v
            BY Zenon, <1>c, <1>g, <3>1, <3>2
        <3> QED
            BY Zenon, <3>3 DEF OnCond
    <2>4. CASE d # c
        <3>1. c_waiting'[d] = c_waiting[d]
            BY Zenon, <1>g, <2>4
        <3> QED
            BY Zenon, <2>2, <3>1 DEF OnCond
    <2> QED
        BY Zenon, <2>3, <2>4
<1>j. \A v \in Threads : OnCond(v)' => OnCond(v) /\ v # u
    BY <1>h DEF OnCond
<1> HIDE DEF q, u
<1>k. \A v \in Threads : OnCond(v)' <=> OnCond(v) /\ v # u
    BY Zenon, <1>i, <1>j
<1> QED
    BY Zenon, <1>e, <1>f, <1>g, <1>h, <1>k

LEMMA SignalInv ==
    ASSUME LockInv, NEW c \in Conds, SignalFirst(c), broadcasting' \in Conds \cup {None}
    PROVE  LockInv'
<1> USE DEF LockInv, QueueInv
<1>a. UNCHANGED <<b_waiting, pending, holds, arrived, left>>
    BY Zenon DEF SignalFirst, roundVars
<1>b. PICK u \in Threads :
        /\ OnCond(u) /\ pending[u].op = "cond" /\ pending[u].c = c /\ stalled[u]
        /\ pending[u].m \in Mutexes /\ LockAsync(u, pending[u].m)
        /\ c_waiting' \in [Conds -> Seq(CondWaiter)]
        /\ \A v \in Threads : OnCond(v)' <=> OnCond(v) /\ v # u
        /\ \A d \in Conds : \A i \in DOMAIN c_waiting'[d] :
              /\ c_waiting'[d][i].thread \in Threads \ {u}
              /\ \E k \in DOMAIN c_waiting[d] : c_waiting[d][k] = c_waiting'[d][i]
              /\ \A j \in DOMAIN c_waiting'[d] :
                    c_waiting'[d][j].thread = c_waiting'[d][i].thread => j = i
    BY Zenon, SignalTakes
<1> DEFINE m == pending[u].m
<1>c. /\ ~AtBarrier(u) /\ \A n \in Mutexes : ~InQueue(u, m_waiting[n])
      /\ None \notin Threads /\ m \in Mutexes
    BY Zenon, <1>b, SyncAssumption DEF BarrierQueued, MutexQueued
<1>d. \A v \in Threads : AtBarrier(v)' <=> AtBarrier(v)
    BY Zenon, <1>a DEF AtBarrier, InQueue
<1>e. PendingInv'
    <2>1. \A v \in Threads : stalled'[v] => stalled[v]
        BY Zenon, <1>b DEF LockAsync, TypeOK
    <2> QED
        BY Zenon, <1>a, <2>1 DEF PendingInv
<1>f. CondQueued' /\ BarrierQueued'
    <2>1. \A v \in Threads \ {u} : stalled'[v] <=> stalled[v]
        BY Zenon, <1>b DEF LockAsync, TypeOK
    <2>2. CondQueued'
        <3> SUFFICES ASSUME NEW d \in Conds, NEW i \in DOMAIN c_waiting'[d]
                     PROVE  /\ stalled'[c_waiting'[d][i].thread]
                            /\ pending'[c_waiting'[d][i].thread].op = "cond"
                            /\ pending'[c_waiting'[d][i].thread].m = c_waiting'[d][i].mutex
                            /\ pending'[c_waiting'[d][i].thread].c = d
                            /\ \A j \in DOMAIN c_waiting'[d] :
                                  c_waiting'[d][j].thread = c_waiting'[d][i].thread => j = i
            <4> HIDE DEF LockInv
            <4> QED BY SMTT(60) DEF CondQueued
        <3>1. PICK k \in DOMAIN c_waiting[d] : c_waiting[d][k] = c_waiting'[d][i]
            BY Zenon, <1>b
        <3>2. /\ stalled[c_waiting[d][k].thread] /\ pending[c_waiting[d][k].thread].op = "cond"
              /\ pending[c_waiting[d][k].thread].m = c_waiting[d][k].mutex
              /\ pending[c_waiting[d][k].thread].c = d
            BY SMTT(60) DEF CondQueued
        <3> QED
            BY SMTT(60), <1>a, <1>b, <2>1, <3>1, <3>2
    <2>3. BarrierQueued'
        BY Zenon, <1>a, <1>c, <1>d, <2>1 DEF BarrierQueued
    <2> QED
        BY Zenon, <2>2, <2>3
<1> HIDE DEF m
<1>1. CASE m_owner[m] = None
    <2>1. /\ m_owner' = [m_owner EXCEPT ![m] = u] /\ stalled' = [stalled EXCEPT ![u] = FALSE]
          /\ m_waiting' = m_waiting
        BY Zenon, <1>1, <1>b DEF LockAsync, m
    <2>2. \A n \in Mutexes : m_owner'[n] = IF n = m THEN u ELSE m_owner[n]
        BY Zenon, <2>1 DEF TypeOK
    <2>3. \A v \in Threads : stalled'[v] <=> stalled[v] /\ v # u
        BY Zenon, <2>1 DEF TypeOK
    <2>4. TypeOK'
        BY Zenon, <1>a, <1>b, <1>c, <2>1 DEF TypeOK
    <2>5. HolderOwns'
        BY Zenon, <1>1, <1>a, <1>c, <2>2 DEF HolderOwns, TypeOK
    <2>6. OwnerGoesOn'
        <3> SUFFICES ASSUME NEW n \in Mutexes
                     PROVE  IF m_owner'[n] = None THEN m_waiting[n] = <<>>
                            ELSE \/ n \in holds[m_owner'[n]]
                                 \/ /\ pending[m_owner'[n]].op \in {"mutex", "cond"}
                                    /\ pending[m_owner'[n]].m = n /\ ~stalled'[m_owner'[n]]
            BY Zenon, <1>a, <2>1 DEF OwnerGoesOn
        <3>1. CASE n = m
            <4>1. m_owner'[m] = u /\ u # None /\ ~stalled'[u]
                BY Zenon, <1>c, <2>2, <2>3
            <4> QED
                BY Zenon, <1>b, <1>c, <3>1, <4>1 DEF m
        <3>2. CASE n # m
            <4>1. m_owner'[n] = m_owner[n] /\ m_owner[n] \in Threads \cup {None}
                BY Zenon, <2>2, <3>2 DEF TypeOK
            <4> QED
                BY Zenon, <2>3, <4>1 DEF OwnerGoesOn
        <3> QED
            BY Zenon, <3>1, <3>2
    <2>7. MutexQueued'
        <3>1. \A n \in Mutexes :
                /\ Once(m_waiting[n])
                /\ \A v \in Threads : InQueue(v, m_waiting[n]) =>
                      /\ stalled[v] /\ pending[v].op \in {"mutex", "cond"}
                      /\ pending[v].m = n /\ ~OnCond(v) /\ v # u
            BY Zenon, <1>c DEF MutexQueued
        <3>2. \A v \in Threads : (v # u /\ stalled[v] => stalled'[v]) /\ (~OnCond(v) => ~OnCond(v)')
            BY Zenon, <1>b, <2>3
        <3> HIDE DEF LockInv
        <3> QED
            BY Zenon, <1>a, <2>1, <3>1, <3>2 DEF MutexQueued
    <2>8. StalledQueued'
        <3>1. \A v \in Threads : OnMutex(v)' <=> OnMutex(v)
            BY Zenon, <2>1 DEF OnMutex
        <3> QED
            BY Zenon, <1>b, <1>d, <2>3, <3>1 DEF StalledQueued
    <2>9. ResumedOwns'
        <3> SUFFICES ASSUME NEW v \in Threads, pending[v].op \in {"mutex", "cond"}, ~stalled'[v]
                     PROVE  m_owner'[pending[v].m] = v /\ pending[v].m \notin holds[v]
            BY Zenon, <1>a DEF ResumedOwns
        <3>1. CASE v = u
            BY Zenon, <1>1, <1>c, <2>2, <3>1 DEF HolderOwns, m
        <3>2. CASE v # u
            BY SMTT(60), <1>1, <1>c, <2>2, <2>3, <3>2 DEF ResumedOwns, PendingInv
        <3> QED
            BY Zenon, <3>1, <3>2
    <2> QED
        BY Zenon, <1>e, <1>f, <2>4, <2>5, <2>6, <2>7, <2>8, <2>9
<1>2. CASE m_owner[m] # None
    <2>1. /\ m_waiting' = [m_waiting EXCEPT ![m] = Append(m_waiting[m], u)]
          /\ UNCHANGED <<m_owner, stalled>>
        BY Zenon, <1>2, <1>b DEF LockAsync, m
    <2>2. /\ m_waiting[m] \in Seq(Threads) /\ Append(m_waiting[m], u) \in Seq(Threads)
          /\ m_waiting'[m] = Append(m_waiting[m], u)
          /\ \A n \in Mutexes \ {m} : m_waiting'[n] = m_waiting[n]
        BY <1>c, <2>1 DEF TypeOK
    <2>3. /\ \A v : InQueue(v, m_waiting'[m]) <=> InQueue(v, m_waiting[m]) \/ v = u
          /\ Once(m_waiting'[m])
        BY SMTT(60), <1>c, <2>2, AppendQueue DEF MutexQueued
    <2>4. TypeOK'
        BY Zenon, <1>a, <1>b, <1>c, <2>1, <2>2 DEF TypeOK
    <2>5. HolderOwns' /\ ResumedOwns'
        BY Zenon, <1>a, <2>1 DEF HolderOwns, ResumedOwns
    <2>6. OwnerGoesOn'
        <3>1. \A n \in Mutexes : m_owner[n] = None => m_waiting'[n] = m_waiting[n]
            BY Zenon, <1>2, <2>2
        <3> QED
            BY Zenon, <1>a, <2>1, <3>1 DEF OwnerGoesOn
    <2>7. MutexQueued'
        <3> SUFFICES ASSUME NEW n \in Mutexes
                     PROVE  /\ Once(m_waiting'[n])
                            /\ \A v \in Threads : InQueue(v, m_waiting'[n]) =>
                                  /\ stalled'[v] /\ pending'[v].op \in {"mutex", "cond"}
                                  /\ pending'[v].m = n /\ ~OnCond(v)'
            <4> HIDE DEF LockInv
            <4> QED BY Zenon DEF MutexQueued
        <3>1. CASE n = m
            BY Zenon, <1>a, <1>b, <2>1, <2>3, <3>1 DEF MutexQueued, m
        <3>2. CASE n # m
            <4>1. m_waiting'[n] = m_waiting[n] /\ stalled' = stalled /\ pending' = pending
                BY Zenon, <1>a, <2>1, <2>2, <3>2
            <4>2. /\ Once(m_waiting[n])
                  /\ \A v \in Threads : InQueue(v, m_waiting[n]) =>
                        /\ stalled[v] /\ pending[v].op \in {"mutex", "cond"}
                        /\ pending[v].m = n /\ ~OnCond(v)
                BY Zenon DEF MutexQueued
            <4> HIDE DEF LockInv
            <4> QED BY Zenon, <1>b, <4>1, <4>2
        <3> QED
            BY Zenon, <3>1, <3>2
    <2>8. StalledQueued'
        <3>1. \A v \in Threads : OnMutex(v) \/ v = u => OnMutex(v)'
            BY Zenon, <1>c, <2>2, <2>3 DEF OnMutex
        <3> QED
            BY Zenon, <1>b, <1>d, <2>1, <3>1 DEF StalledQueued
    <2> QED
        BY Zenon, <1>e, <1>f, <2>4, <2>5, <2>6, <2>7, <2>8
<1> QED
    BY Zenon, <1>1, <1>2

=============================================================================
