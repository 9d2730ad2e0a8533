------------------------- MODULE SyncServerTheorems -------------------------
(***************************************************************************)
(* SimBarrier and returning calls keep the queues of SyncServer sound; the *)
(* rounds of SimBarrier, what holds of SyncServer in every state, and that *)
(* it implements Monitor.                                                  *)
(***************************************************************************)
EXTENDS SyncServerLemmas, FiniteSetTheorems

LEMMA BarrierWaitInv ==
    ASSUME LockInv, NEW t \in Threads, BarrierWait(t)
    PROVE  /\ LockInv'
           /\ \/ /\ Len(b_waiting) = m_count - 1 /\ \A u \in Threads : ~AtBarrier(u)'
              \/ \A u \in Threads : AtBarrier(u)' <=> AtBarrier(u) \/ u = t
<1> USE DEF LockInv, QueueInv
<1>a. /\ UNCHANGED <<m_owner, m_waiting, c_waiting, broadcasting, holds, left>>
      /\ t \in BarrierUsers /\ arrived' = [arrived EXCEPT ![t] = arrived[t] + 1]
    BY Zenon DEF BarrierWait, mutexVars
<1>b. /\ pending[t].op = "none" /\ ~stalled[t] /\ ~AtBarrier(t) /\ ~OnMutex(t) /\ ~OnCond(t)
    BY Zenon, CallerFree DEF BarrierWait
<1>c. /\ pending' \in [Threads -> PendingType]
      /\ pending'[t].op = "barrier" /\ pending'[t].m = None
      /\ \A u \in Threads \ {t} : pending'[u] = pending[u]
    BY Zenon, EntersCall DEF BarrierWait
<1>d. \A u \in Threads : (OnCond(u)' <=> OnCond(u)) /\ (OnMutex(u)' <=> OnMutex(u))
    BY Zenon, <1>a DEF OnCond, OnMutex
\* a new b_waiting, with everybody in it stalled and nobody else's stall changed
<1>e. /\ b_waiting' \in Seq(Threads) /\ Once(b_waiting') /\ stalled' \in [Threads -> BOOLEAN]
      /\ \A u \in Threads :
            /\ AtBarrier(u)' => stalled'[u] /\ (AtBarrier(u) \/ u = t)
            /\ ~AtBarrier(u)' => (stalled'[u] <=> stalled[u] /\ ~AtBarrier(u))
      /\ \/ /\ Len(b_waiting) = m_count - 1 /\ \A u \in Threads : ~AtBarrier(u)'
         \/ \A u \in Threads : AtBarrier(u)' <=> AtBarrier(u) \/ u = t
    <2>a. /\ b_waiting \in Seq(Threads) /\ stalled \in [Threads -> BOOLEAN] /\ Once(b_waiting)
        BY Zenon DEF TypeOK, BarrierQueued
    <2>1. CASE Len(b_waiting) = m_count - 1
        <3>1. /\ b_waiting' = <<>>
              /\ stalled' = [u \in Threads |->
                               stalled[u] /\ \A i \in DOMAIN b_waiting : b_waiting[i] # u]
            BY Zenon, <2>1 DEF BarrierWait
        <3>2. b_waiting' \in Seq(Threads) /\ Once(b_waiting') /\ \A u \in Threads : ~AtBarrier(u)'
            BY <3>1 DEF Once, AtBarrier, InQueue
        <3>3. /\ stalled' \in [Threads -> BOOLEAN]
              /\ \A u \in Threads : stalled'[u] <=> stalled[u] /\ ~AtBarrier(u)
            BY Zenon, <2>a, <3>1 DEF AtBarrier, InQueue
        <3> QED
            BY Zenon, <2>1, <3>2, <3>3
    <2>2. CASE Len(b_waiting) # m_count - 1
        <3>1. b_waiting' = Append(b_waiting, t) /\ stalled' = [stalled EXCEPT ![t] = TRUE]
            BY Zenon, <2>2 DEF BarrierWait
        <3>2. /\ b_waiting' \in Seq(Threads) /\ Once(b_waiting')
              /\ \A u \in Threads : AtBarrier(u)' <=> AtBarrier(u) \/ u = t
            BY <1>b, <2>a, <3>1, AppendQueue, AppendAt DEF AtBarrier
        <3>3. /\ stalled' \in [Threads -> BOOLEAN]
              /\ \A u \in Threads : stalled'[u] <=> stalled[u] \/ u = t
            BY Zenon, <2>a, <3>1
        <3> QED
            BY Zenon, <3>2, <3>3 DEF BarrierQueued
    <2> QED
        BY Zenon, <2>1, <2>2
<1>1. TypeOK'
    <2>1. arrived' \in [Threads -> Nat]
        BY <1>a DEF TypeOK
    <2> QED
        BY Zenon, <1>a, <1>c, <1>e, <2>1 DEF TypeOK, PendingType
<1>2. HolderOwns'
    BY Zenon, <1>a DEF HolderOwns
<1>f. \A u \in Threads \ {t} : pending[u].op # "barrier" => (stalled'[u] <=> stalled[u])
    BY Zenon, <1>e DEF BarrierQueued
<1>3. OwnerGoesOn'
    <2> SUFFICES ASSUME NEW n \in Mutexes, m_owner[n] # None
                 PROVE  \/ n \in holds[m_owner[n]]
                        \/ /\ pending'[m_owner[n]].op \in {"mutex", "cond"}
                           /\ pending'[m_owner[n]].m = n /\ ~stalled'[m_owner[n]]
        BY Zenon, <1>a DEF OwnerGoesOn
    <2>1. m_owner[n] \in Threads
        BY Zenon DEF TypeOK
    <2> QED
        BY ZenonT(30), <1>b, <1>c, <1>f, <2>1 DEF OwnerGoesOn
<1>4. MutexQueued'
    BY <1>a, <1>b, <1>c, <1>d, <1>f DEF MutexQueued, OnMutex
<1>5. CondQueued'
    <2>1. ASSUME NEW c \in Conds, NEW i \in DOMAIN c_waiting[c]
          PROVE  c_waiting[c][i].thread \in Threads \ {t}
        BY Zenon, <1>b, CondWaiterAt DEF OnCond
    <2>2. ASSUME NEW c \in Conds, NEW i \in DOMAIN c_waiting[c]
          PROVE  /\ stalled'[c_waiting[c][i].thread]
                 /\ pending'[c_waiting[c][i].thread] = pending[c_waiting[c][i].thread]
        <3>1. stalled[c_waiting[c][i].thread] /\ pending[c_waiting[c][i].thread].op = "cond"
            BY Zenon DEF CondQueued
        <3> QED
            BY Zenon, <1>c, <1>f, <2>1, <3>1
    <2> QED
        BY <1>a, <2>2 DEF CondQueued
<1>6. BarrierQueued'
    BY Zenon, <1>c, <1>e DEF BarrierQueued
<1>7. StalledQueued'
    BY Zenon, <1>b, <1>d, <1>e DEF StalledQueued
<1>8. PendingInv'
    <2>1. \A u \in Threads : pending'[u].op = "none" => u # t /\ (stalled'[u] <=> stalled[u])
        BY Zenon, <1>c, <1>f
    <2> QED
        BY Zenon, <1>a, <1>c, <2>1 DEF PendingInv
<1>9. ResumedOwns'
    BY Zenon, <1>a, <1>c, <1>f DEF ResumedOwns
<1> QED
    BY Zenon, <1>1, <1>2, <1>3, <1>4, <1>5, <1>6, <1>7, <1>8, <1>9, <1>e

LEMMA ReturnInv ==
    ASSUME LockInv, NEW t \in Threads, Return(t)
    PROVE  LockInv'
<1> USE DEF LockInv, QueueInv
<1>a. /\ UNCHANGED <<m_owner, m_waiting, c_waiting, b_waiting, stalled, broadcasting, arrived>>
      /\ pending' = [pending EXCEPT ![t] = NoCall] /\ ~stalled[t]
    BY Zenon DEF Return, mutexVars
<1>b. /\ NoCall \in PendingType /\ NoCall.op = "none"
      /\ pending' \in [Threads -> PendingType] /\ pending'[t] = NoCall
      /\ \A u \in Threads \ {t} : pending'[u] = pending[u]
    BY Zenon, <1>a DEF TypeOK, PendingType, NoCall
<1>c. \A u \in Threads : /\ (OnCond(u)' <=> OnCond(u)) /\ (OnMutex(u)' <=> OnMutex(u))
                         /\ (AtBarrier(u)' <=> AtBarrier(u))
    BY Zenon, <1>a DEF OnCond, OnMutex, AtBarrier, InQueue
<1>d. ~AtBarrier(t) /\ ~OnMutex(t) /\ ~OnCond(t)
    BY <1>a DEF BarrierQueued, MutexQueued, CondQueued, OnMutex, OnCond
\* what t held it still holds, and the mutex it was waiting for it has been given
<1>e. /\ holds' \in [Threads -> SUBSET Mutexes] /\ left' \in [Threads -> Nat]
      /\ \A u \in Threads \ {t} : holds'[u] = holds[u]
      /\ \A n \in Mutexes : n \in holds'[t] <=>
            \/ n \in holds[t]
            \/ pending[t].op \in {"mutex", "cond"} /\ pending[t].m = n
    <2>1. CASE pending[t].op = "barrier"
        <3>1. UNCHANGED holds /\ left' = [left EXCEPT ![t] = left[t] + 1]
            BY Zenon, <2>1 DEF Return
        <3> QED
            BY <2>1, <3>1 DEF TypeOK
    <2>2. CASE pending[t].op # "barrier"
        <3>1. UNCHANGED left /\ holds' = [holds EXCEPT ![t] = holds[t] \cup {pending[t].m}]
            BY Zenon, <2>2 DEF Return
        <3>2. pending[t].op \in {"mutex", "cond"} /\ pending[t].m \in Mutexes
            BY Zenon, <2>2 DEF Return, PendingInv, TypeOK
        <3> QED
            BY Zenon, <3>1, <3>2 DEF TypeOK
    <2> QED
        BY Zenon, <2>1, <2>2
<1>1. TypeOK'
    BY Zenon, <1>a, <1>b, <1>e DEF TypeOK, PendingType
<1>2. HolderOwns'
    <2> SUFFICES ASSUME NEW u \in Threads, NEW n \in holds'[u] PROVE m_owner[n] = u
        BY Zenon, <1>a DEF HolderOwns
    <2>1. n \in Mutexes
        BY Zenon, <1>e
    <2> QED
        BY Zenon, <1>a, <1>e, <2>1 DEF HolderOwns, ResumedOwns
<1>3. OwnerGoesOn'
    <2> SUFFICES ASSUME NEW n \in Mutexes, m_owner[n] # None
                 PROVE  \/ n \in holds'[m_owner[n]]
                        \/ /\ pending'[m_owner[n]].op \in {"mutex", "cond"}
                           /\ pending'[m_owner[n]].m = n /\ ~stalled[m_owner[n]]
        BY Zenon, <1>a DEF OwnerGoesOn
    <2>1. m_owner[n] \in Threads
        BY Zenon DEF TypeOK
    <2> QED
        BY <1>b, <1>e, <2>1 DEF OwnerGoesOn
<1>4. MutexQueued'
    BY <1>a, <1>b, <1>c, <1>d DEF MutexQueued, OnMutex
<1>5. CondQueued'
    <2>1. ASSUME NEW c \in Conds, NEW i \in DOMAIN c_waiting[c]
          PROVE  c_waiting[c][i].thread \in Threads \ {t}
        BY Zenon, <1>d, CondWaiterAt DEF OnCond
    <2> QED
        BY SMTT(60), <1>a, <1>b, <2>1 DEF CondQueued
<1>6. BarrierQueued' /\ StalledQueued'
    BY Zenon, <1>a, <1>b, <1>c, <1>d DEF BarrierQueued, StalledQueued
<1>7. PendingInv'
    BY Zenon, <1>a, <1>b DEF PendingInv
<1>8. ResumedOwns'
    BY ZenonT(30), <1>a, <1>b, <1>e DEF ResumedOwns
<1> QED
    BY Zenon, <1>1, <1>2, <1>3, <1>4, <1>5, <1>6, <1>7, <1>8

-----------------------------------------------------------------------------
(***************************************************************************)
(* The barrier                                                             *)
(***************************************************************************)

\* m_count - 1 threads in b_waiting, all different, are all the others
LEMMA EverybodyElse ==
    ASSUME LockInv, NEW t \in BarrierUsers, ~AtBarrier(t), Len(b_waiting) = m_count - 1
    PROVE  \A u \in BarrierUsers \ {t} : AtBarrier(u)
<1> DEFINE n == Len(b_waiting)
           Others == BarrierUsers \ {t}
<1>1. b_waiting \in Seq(Threads) /\ n \in Nat /\ DOMAIN b_waiting = 1 .. n /\ Once(b_waiting)
    BY DEF LockInv, TypeOK, QueueInv, BarrierQueued
<1>2. \A i \in 1 .. n : b_waiting[i] \in Others
    <2> SUFFICES ASSUME NEW i \in 1 .. n PROVE b_waiting[i] \in Others
        BY Zenon
    <2>1. b_waiting[i] \in Threads /\ AtBarrier(b_waiting[i])
        BY <1>1 DEF AtBarrier, InQueue
    <2> QED
        BY Zenon, <2>1 DEF LockInv, QueueInv, BarrierQueued, PendingInv
<1>3. b_waiting \in [1 .. n -> Others]
    BY <1>1, <1>2
<1>4. b_waiting \in Injection(1 .. n, Others)
    BY Zenon, <1>1, <1>3 DEF Injection, IsInjective, Once
<1>5. IsFiniteSet(BarrierUsers) /\ IsFiniteSet(Others) /\ Cardinality(Others) = m_count - 1
    BY Zenon, SyncAssumption, FS_RemoveElement DEF m_count
<1>6. Cardinality(1 .. n) = n
    BY <1>1, FS_Interval
<1> HIDE DEF Others
<1>7. b_waiting \in Surjection(1 .. n, Others)
    BY Zenon, <1>4, <1>5, <1>6, FS_Injection
<1> QED
    BY Zenon, <1>1, <1>7 DEF Surjection, AtBarrier, InQueue, Others

LEMMA BarrierFrame ==
    ASSUME BarrierInv, UNCHANGED <<arrived, left, b_waiting>>,
           \A u \in Threads : pending'[u].op = "barrier" <=> pending[u].op = "barrier"
    PROVE  BarrierInv'
<1>1. \A u : AtBarrier(u)' <=> AtBarrier(u)
    BY Zenon DEF AtBarrier, InQueue
<1> QED
    BY Zenon, <1>1 DEF BarrierInv, Passed

\* the last user to come lets everybody through: the count of each goes up by one
LEMMA BarrierRounds ==
    ASSUME LockInv, BarrierInv, NEW t \in Threads, BarrierWait(t)
    PROVE  BarrierInv'
<1>a. /\ t \in BarrierUsers /\ BarrierUsers \subseteq Threads /\ left' = left
      /\ arrived \in [Threads -> Nat] /\ left \in [Threads -> Nat]
      /\ arrived' = [arrived EXCEPT ![t] = arrived[t] + 1]
    BY Zenon, SyncAssumption DEF BarrierWait, LockInv, TypeOK
<1>b. pending[t].op = "none" /\ ~AtBarrier(t)
    BY Zenon, CallerFree DEF BarrierWait
<1>c. pending'[t].op = "barrier" /\ \A u \in Threads \ {t} : pending'[u] = pending[u]
    BY Zenon, EntersCall DEF BarrierWait
<1>d. \A u \in Threads : arrived'[u] = IF u = t THEN arrived[t] + 1 ELSE arrived[u]
    BY Zenon, <1>a
<1>1. \A u \in Threads :
        arrived'[u] = left'[u] + (IF pending'[u].op = "barrier" THEN 1 ELSE 0)
    BY <1>a, <1>b, <1>c, <1>d DEF BarrierInv
<1>2. \A u, v \in BarrierUsers : Passed(u)' = Passed(v)'
    <2>1. CASE Len(b_waiting) = m_count - 1 /\ \A u \in Threads : ~AtBarrier(u)'
        <3>1. \A u \in BarrierUsers : Passed(u)' = Passed(u) + 1
            <4> SUFFICES ASSUME NEW u \in BarrierUsers PROVE Passed(u)' = Passed(u) + 1
                BY Zenon
            <4>1. u # t => AtBarrier(u)
                BY Zenon, <1>a, <1>b, <2>1, EverybodyElse
            <4> QED
                BY <1>a, <1>b, <1>d, <2>1, <4>1 DEF Passed
        <3> QED
            BY Zenon, <3>1 DEF BarrierInv
    <2>2. CASE \A u \in Threads : AtBarrier(u)' <=> AtBarrier(u) \/ u = t
        <3>1. \A u \in BarrierUsers : Passed(u)' = Passed(u)
            BY <1>a, <1>b, <1>d, <2>2 DEF Passed
        <3> QED
            BY Zenon, <3>1 DEF BarrierInv
    <2> QED
        BY Zenon, <2>1, <2>2, BarrierWaitInv
<1> QED
    BY Zenon, <1>1, <1>2 DEF BarrierInv

LEMMA BarrierReturn ==
    ASSUME LockInv, BarrierInv, NEW t \in Threads, Return(t)
    PROVE  BarrierInv'
<1>a. /\ UNCHANGED <<arrived, b_waiting>> /\ pending' = [pending EXCEPT ![t] = NoCall]
      /\ pending \in [Threads -> PendingType] /\ left \in [Threads -> Nat]
    BY Zenon DEF Return, LockInv, TypeOK, PendingType
<1>b. pending'[t].op = "none" /\ \A u \in Threads \ {t} : pending'[u] = pending[u]
    BY Zenon, <1>a DEF NoCall
<1>c. \A u : AtBarrier(u)' <=> AtBarrier(u)
    BY Zenon, <1>a DEF AtBarrier, InQueue
<1>1. CASE pending[t].op = "barrier"
    <2>1. left' = [left EXCEPT ![t] = left[t] + 1]
        BY Zenon, <1>1 DEF Return
    <2>2. \A u \in Threads : left'[u] = IF u = t THEN left[t] + 1 ELSE left[u]
        BY Zenon, <1>a, <2>1
    <2> QED
        BY <1>1, <1>a, <1>b, <1>c, <2>2 DEF BarrierInv, Passed
<1>2. CASE pending[t].op # "barrier"
    <2>1. UNCHANGED left
        BY Zenon, <1>2 DEF Return
    <2> QED
        BY Zenon, <1>2, <1>a, <1>b, <1>c, <2>1 DEF BarrierInv, Passed
<1> QED
    BY Zenon, <1>1, <1>2

-----------------------------------------------------------------------------
(***************************************************************************)
(* The invariant holds                                                     *)
(***************************************************************************)

LEMMA InitInv == Init => IInv
<1> SUFFICES ASSUME Init PROVE IInv
    BY Zenon
<1>1. NoCall \in PendingType /\ NoCall.op = "none"
    BY Zenon DEF NoCall, PendingType
<1>2. TypeOK
    BY <1>1 DEF Init, TypeOK, PendingType
<1>3. \A t : ~AtBarrier(t) /\ ~OnMutex(t) /\ ~OnCond(t)
    BY DEF Init, AtBarrier, OnMutex, OnCond, InQueue
<1>4. HolderOwns /\ OwnerGoesOn
    BY Zenon DEF Init, HolderOwns, OwnerGoesOn
<1>5. QueueInv
    <2>1. \A m \in Mutexes : Once(m_waiting[m]) /\ \A t \in Threads : ~InQueue(t, m_waiting[m])
        BY DEF Init, Once, InQueue
    <2>2. \A c \in Conds : DOMAIN c_waiting[c] = {}
        BY DEF Init
    <2>3. Once(b_waiting) /\ \A t \in Threads : ~stalled[t]
        BY DEF Init, Once
    <2> QED
        BY Zenon, <1>3, <2>1, <2>2, <2>3 DEF QueueInv, MutexQueued, CondQueued, BarrierQueued, StalledQueued
<1>6. PendingInv /\ ResumedOwns
    BY Zenon, <1>1 DEF Init, PendingInv, ResumedOwns
<1>7. BarrierInv
    BY <1>1, <1>3, SyncAssumption DEF Init, BarrierInv, Passed
<1> QED
    BY Zenon, <1>2, <1>4, <1>5, <1>6, <1>7 DEF IInv, LockInv

\* condBroadcast() before its first signal, and steps that change nothing
LEMMA BroadcastFrame ==
    ASSUME IInv, broadcasting' \in Conds \cup {None},
           UNCHANGED <<m_owner, m_waiting, c_waiting, b_waiting, stalled, pending, holds, arrived, left>>
    PROVE  IInv'
<1>1. \A t : /\ (OnCond(t)' <=> OnCond(t)) /\ (OnMutex(t)' <=> OnMutex(t))
             /\ (AtBarrier(t)' <=> AtBarrier(t))
    BY Zenon DEF OnCond, OnMutex, AtBarrier, InQueue
<1>2. TypeOK' /\ HolderOwns' /\ OwnerGoesOn'
    BY Zenon DEF IInv, LockInv, TypeOK, HolderOwns, OwnerGoesOn
<1>3. MutexQueued' /\ CondQueued' /\ BarrierQueued' /\ StalledQueued'
    BY SMTT(60), <1>1 DEF IInv, LockInv, QueueInv, MutexQueued, CondQueued, BarrierQueued, StalledQueued
<1>4. PendingInv' /\ ResumedOwns'
    BY Zenon DEF IInv, LockInv, PendingInv, ResumedOwns
<1>5. BarrierInv'
    BY Zenon, BarrierFrame DEF IInv
<1> QED
    BY Zenon, <1>2, <1>3, <1>4, <1>5 DEF IInv, LockInv, QueueInv

LEMMA NextInv == IInv /\ [Next]_vars => IInv'
<1> SUFFICES ASSUME IInv, [Next]_vars PROVE IInv'
    BY Zenon
<1> USE DEF IInv
<1>a. ASSUME NEW c \in Conds, SignalFirst(c), broadcasting' \in Conds \cup {None} PROVE IInv'
    <2>1. UNCHANGED <<b_waiting, pending, arrived, left>>
        BY Zenon, <1>a DEF SignalFirst, roundVars
    <2> QED
        BY Zenon, <1>a, <2>1, SignalInv, BarrierFrame
<1>1. CASE BroadcastStep
    <2>1. /\ broadcasting \in Conds /\ SignalFirst(broadcasting)
          /\ broadcasting' \in Conds \cup {None}
        BY Zenon, <1>1 DEF BroadcastStep, LockInv, TypeOK
    <2> QED
        BY Zenon, <1>a, <2>1
<1>2. ASSUME NEW t \in Threads, Return(t) PROVE IInv'
    BY Zenon, <1>2, ReturnInv, BarrierReturn
<1>3. ASSUME NEW t \in Threads, BarrierWait(t) PROVE IInv'
    BY Zenon, <1>3, BarrierWaitInv, BarrierRounds
<1>4. ASSUME NEW t \in Threads, NEW m \in Mutexes, MutexLock(t, m) \/ MutexTrylock(t, m)
      PROVE  IInv'
    <2>1. MutexLock(t, m)
        BY Zenon, <1>4 DEF MutexTrylock
    <2>2. /\ UNCHANGED <<arrived, left, b_waiting>> /\ pending[t].op = "none"
          /\ pending'[t].op = "mutex" /\ \A u \in Threads \ {t} : pending'[u] = pending[u]
        BY Zenon, <2>1, CallerFree, EntersCall DEF MutexLock, roundVars
    <2>3. \A u \in Threads : pending'[u].op = "barrier" <=> pending[u].op = "barrier"
        BY Zenon, <2>2
    <2> QED
        BY Zenon, <2>1, <2>2, <2>3, MutexLockInv, BarrierFrame
<1>5. ASSUME NEW t \in Threads, NEW m \in Mutexes, MutexUnlock(t, m) PROVE IInv'
    <2>1. UNCHANGED <<arrived, left, b_waiting, pending>>
        BY Zenon, <1>5 DEF MutexUnlock, roundVars
    <2> QED
        BY Zenon, <1>5, <2>1, MutexUnlockInv, BarrierFrame
<1>6. ASSUME NEW t \in Threads, NEW c \in Conds, CondSignal(t, c) PROVE IInv'
    <2>1. SignalFirst(c) /\ broadcasting' \in Conds \cup {None}
        BY Zenon, <1>6 DEF CondSignal, LockInv, TypeOK
    <2> QED
        BY Zenon, <1>a, <2>1
<1>7. ASSUME NEW t \in Threads, NEW c \in Conds, CondBroadcast(t, c) PROVE IInv'
    BY Zenon, <1>7, BroadcastFrame DEF CondBroadcast, mutexVars, roundVars
<1>8. ASSUME NEW t \in Threads, NEW c \in Conds, NEW m \in Mutexes, CondWait(t, c, m) PROVE IInv'
    <2>2. /\ UNCHANGED <<arrived, left, b_waiting>> /\ pending[t].op = "none"
          /\ pending'[t].op = "cond" /\ \A u \in Threads \ {t} : pending'[u] = pending[u]
        BY Zenon, <1>8, CallerFree, EntersCall DEF CondWait, roundVars
    <2>3. \A u \in Threads : pending'[u].op = "barrier" <=> pending[u].op = "barrier"
        BY Zenon, <2>2
    <2> QED
        BY Zenon, <1>8, <2>2, <2>3, CondWaitInv, BarrierFrame
<1>9. CASE UNCHANGED vars
    BY Zenon, <1>9, BroadcastFrame DEF vars, mutexVars, roundVars, LockInv, TypeOK
<1> QED
    BY Zenon, <1>1, <1>2, <1>3, <1>4, <1>5, <1>6, <1>7, <1>8, <1>9 DEF Next

LEMMA SpecInv == Spec => []IInv
BY InitInv, NextInv, PTL DEF Spec

\* SyncServer's mutexes and queues are sound whatever the threads do: a mutex a
\* thread believes to hold it owns (the assertion of SimMutex::unlock() holds), an
\* owner is never one that sleeps for that mutex, and every stalled thread is in
\* exactly the queue that will resume it.
THEOREM LocksAlwaysSound == Spec => []LocksSound
<1>1. IInv => LocksSound
    BY Zenon, QueuesSound DEF IInv, LockInv, LocksSound
<1> QED
    BY <1>1, SpecInv, PTL

\* SimBarrier: no user of the barrier is through a round more often than every user
\* has come to it, for any number of users and rounds.
THEOREM RoundsAlwaysSeparate == Spec => []RoundsSeparate
<1>1. IInv => RoundsSeparate
    <2> SUFFICES ASSUME IInv, NEW t \in BarrierUsers, NEW u \in BarrierUsers
                 PROVE  left[t] <= arrived[u]
        BY Zenon DEF RoundsSeparate
    <2>1. /\ t \in Threads /\ u \in Threads /\ arrived[t] \in Nat /\ arrived[u] \in Nat
          /\ left[t] \in Nat
        BY Zenon, SyncAssumption DEF IInv, LockInv, TypeOK
    <2>2. AtBarrier(t) => pending[t].op = "barrier"
        BY Zenon, <2>1 DEF IInv, LockInv, QueueInv, BarrierQueued
    <2>3. Passed(t) = Passed(u)
        BY Zenon DEF IInv, BarrierInv
    <2>4. arrived[t] = left[t] + (IF pending[t].op = "barrier" THEN 1 ELSE 0)
        BY Zenon, <2>1 DEF IInv, BarrierInv
    <2> QED
        BY <2>1, <2>2, <2>3, <2>4 DEF Passed
<1> QED
    BY <1>1, SpecInv, PTL

-----------------------------------------------------------------------------
(***************************************************************************)
(* Every step is a step of Monitor or leaves it alone                      *)
(***************************************************************************)

\* Monitor's variables, as SyncServer has them
Holder == [m \in Mutexes |-> IF m_owner[m] # None /\ m \in holds[m_owner[m]]
                             THEN m_owner[m] ELSE None]
Wants == [t \in Threads |-> pending[t].m]
Waits == [t \in Threads |-> IF OnCond(t) THEN pending[t].c ELSE None]

MStep == [Abstract!MNext]_(Abstract!mvars)

Free(t) == Wants[t] = None /\ Waits[t] = None /\ arrived[t] = left[t]

LEMMA StutterRefines ==
    ASSUME Holder' = Holder, Wants' = Wants, Waits' = Waits, UNCHANGED <<arrived, left>>
    PROVE  MStep
BY Zenon DEF MStep, Holder, Wants, Waits, Abstract!mvars

LEMMA WantRefines ==
    ASSUME NEW t \in Threads, NEW m \in Mutexes, Free(t), Wants' = [Wants EXCEPT ![t] = m],
           Holder' = Holder, Waits' = Waits, UNCHANGED <<arrived, left>>
    PROVE  MStep
<1>1. Abstract!Want(t, m)
    BY Zenon DEF Free, Holder, Wants, Waits, Abstract!Want, Abstract!Running
<1> QED
    BY Zenon, <1>1 DEF MStep, Abstract!MNext

LEMMA AcquireRefines ==
    ASSUME NEW t \in Threads, NEW m \in Mutexes, Wants[t] = m, Waits[t] = None, Holder[m] = None,
           Wants' = [Wants EXCEPT ![t] = None], Holder' = [Holder EXCEPT ![m] = t],
           Waits' = Waits, UNCHANGED <<arrived, left>>
    PROVE  MStep
<1>1. Abstract!Acquire(t, m)
    BY Zenon DEF Holder, Wants, Waits, Abstract!Acquire
<1> QED
    BY Zenon, <1>1 DEF MStep, Abstract!MNext

LEMMA ReleaseRefines ==
    ASSUME NEW t \in Threads, NEW m \in Mutexes, Free(t), Holder[m] = t,
           Holder' = [Holder EXCEPT ![m] = None], Wants' = Wants, Waits' = Waits,
           UNCHANGED <<arrived, left>>
    PROVE  MStep
<1>1. Abstract!Release(t, m)
    BY Zenon DEF Free, Holder, Wants, Waits, Abstract!Release, Abstract!Running
<1> QED
    BY Zenon, <1>1 DEF MStep, Abstract!MNext

LEMMA WaitRefines ==
    ASSUME NEW t \in Threads, NEW c \in Conds, NEW m \in Mutexes, Free(t), Holder[m] = t,
           Holder' = [Holder EXCEPT ![m] = None], Wants' = [Wants EXCEPT ![t] = m],
           Waits' = [Waits EXCEPT ![t] = c], UNCHANGED <<arrived, left>>
    PROVE  MStep
<1>1. Abstract!Wait(t, c, m)
    BY Zenon DEF Free, Holder, Wants, Waits, Abstract!Wait, Abstract!Running
<1> QED
    BY Zenon, <1>1 DEF MStep, Abstract!MNext

LEMMA NotifyRefines ==
    ASSUME NEW u \in Threads, NEW c \in Conds, Waits[u] = c, Waits' = [Waits EXCEPT ![u] = None],
           Holder' = Holder, Wants' = Wants, UNCHANGED <<arrived, left>>
    PROVE  MStep
<1>1. Abstract!Notify(c, u)
    BY Zenon DEF Holder, Wants, Waits, Abstract!Notify
<1> QED
    BY Zenon, <1>1 DEF MStep, Abstract!MNext

LEMMA ArriveRefines ==
    ASSUME NEW t \in BarrierUsers, Free(t), arrived' = [arrived EXCEPT ![t] = arrived[t] + 1],
           Holder' = Holder, Wants' = Wants, Waits' = Waits, left' = left
    PROVE  MStep
<1>1. Abstract!Arrive(t)
    BY Zenon DEF Free, Holder, Wants, Waits, Abstract!Arrive, Abstract!Running
<1> QED
    BY Zenon, <1>1, SyncAssumption DEF MStep, Abstract!MNext

LEMMA LeaveRefines ==
    ASSUME NEW t \in Threads, left[t] < arrived[t], \A u \in BarrierUsers : left[t] < arrived[u],
           left' = [left EXCEPT ![t] = left[t] + 1],
           Holder' = Holder, Wants' = Wants, Waits' = Waits, arrived' = arrived
    PROVE  MStep
<1>1. Abstract!Leave(t)
    BY Zenon DEF Holder, Wants, Waits, Abstract!Leave
<1> QED
    BY Zenon, <1>1 DEF MStep, Abstract!MNext

\* the monitor's holder is whoever believes to hold the mutex
LEMMA HolderOf ==
    ASSUME TypeOK, HolderOwns, NEW m \in Mutexes
    PROVE  /\ Holder[m] \in Threads \cup {None}
           /\ \A t \in Threads : Holder[m] = t <=> m \in holds[t]
<1>1. None \notin Threads /\ m_owner[m] \in Threads \cup {None}
    BY Zenon, SyncAssumption DEF TypeOK
<1>2. \A t \in Threads : m \in holds[t] => m_owner[m] = t
    BY Zenon DEF HolderOwns
<1> QED
    BY Zenon, <1>1, <1>2 DEF Holder

LEMMA HolderChange ==
    ASSUME TypeOK, HolderOwns, TypeOK', HolderOwns', NEW m \in Mutexes,
           NEW h \in Threads \cup {None},
           \A u \in Threads : m \in holds'[u] <=> u = h,
           \A u \in Threads, n \in Mutexes \ {m} : n \in holds'[u] <=> n \in holds[u]
    PROVE  Holder' = [Holder EXCEPT ![m] = h]
<1>1. \A n \in Mutexes : /\ Holder[n] \in Threads \cup {None}
                         /\ \A t \in Threads : Holder[n] = t <=> n \in holds[t]
    BY Zenon, HolderOf
<1>2. \A n \in Mutexes : /\ Holder'[n] \in Threads \cup {None}
                         /\ \A t \in Threads : Holder'[n] = t <=> n \in holds'[t]
    <2> SUFFICES ASSUME NEW n \in Mutexes
                 PROVE  /\ Holder'[n] \in Threads \cup {None}
                        /\ \A t \in Threads : Holder'[n] = t <=> n \in holds'[t]
        BY Zenon
    <2>2. None \notin Threads /\ m_owner'[n] \in Threads \cup {None}
        BY Zenon, SyncAssumption DEF TypeOK
    <2>3. \A t \in Threads : n \in holds'[t] => m_owner'[n] = t
        BY Zenon DEF HolderOwns
    <2> QED
        BY Zenon, <2>2, <2>3 DEF Holder
<1>3. \A n \in Mutexes : Holder'[n] = IF n = m THEN h ELSE Holder[n]
    BY <1>1, <1>2
<1>4. /\ Holder = [n \in Mutexes |-> Holder[n]] /\ Holder' = [n \in Mutexes |-> Holder'[n]]
    BY Zenon DEF Holder
<1> QED
    BY Zenon, <1>3, <1>4

LEMMA HolderSame ==
    ASSUME TypeOK, HolderOwns, TypeOK', HolderOwns', UNCHANGED holds
    PROVE  Holder' = Holder
<1>1. \A n \in Mutexes : Holder'[n] = Holder[n]
    <2> SUFFICES ASSUME NEW n \in Mutexes PROVE Holder'[n] = Holder[n]
        BY Zenon
    <2>1. None \notin Threads /\ m_owner[n] \in Threads \cup {None} /\ m_owner'[n] \in Threads \cup {None}
        BY Zenon, SyncAssumption DEF TypeOK
    <2>2. \A t \in Threads : n \in holds[t] => m_owner[n] = t /\ m_owner'[n] = t
        BY Zenon DEF HolderOwns
    <2> QED
        BY Zenon, <2>1, <2>2 DEF Holder
<1> QED
    BY Zenon, <1>1 DEF Holder

\* a thread in application code runs, for the monitor too
LEMMA CallerRuns ==
    ASSUME IInv, NEW t \in Threads, Calls(t)
    PROVE  Free(t) /\ ~OnCond(t)
<1>1. pending[t].op = "none" /\ pending[t].m = None /\ ~OnCond(t)
    BY Zenon, CallerFree DEF IInv
<1>2. arrived[t] = left[t] + 0 /\ left[t] \in Nat
    BY Zenon, <1>1 DEF IInv, LockInv, TypeOK, BarrierInv
<1> QED
    BY <1>1, <1>2 DEF Free, Wants, Waits

\* pending changes for t only: so do Wants and Waits
LEMMA CallChange ==
    ASSUME NEW t \in Threads, NEW m, NEW c,
           \A u \in Threads \ {t} : pending'[u] = pending[u] /\ (OnCond(u)' <=> OnCond(u)),
           pending'[t].m = m, IF OnCond(t)' THEN pending'[t].c = c ELSE None = c
    PROVE  Wants' = [Wants EXCEPT ![t] = m] /\ Waits' = [Waits EXCEPT ![t] = c]
<1>1. Wants' = [Wants EXCEPT ![t] = m]
    BY Zenon DEF Wants
<1>2. \A u \in Threads : Waits'[u] = IF u = t THEN c ELSE Waits[u]
    BY Zenon DEF Waits
<1>3. Waits = [u \in Threads |-> Waits[u]] /\ Waits' = [u \in Threads |-> Waits'[u]]
    BY Zenon DEF Waits
<1> QED
    BY Zenon, <1>1, <1>2, <1>3

LEMMA SameAt ==
    ASSUME NEW t \in Threads
    PROVE  /\ [Wants EXCEPT ![t] = Wants[t]] = Wants
           /\ [Waits EXCEPT ![t] = Waits[t]] = Waits
BY Zenon DEF Wants, Waits

LEMMA LockRefines ==
    ASSUME IInv, IInv', NEW t \in Threads, NEW m \in Mutexes, MutexLock(t, m)
    PROVE  MStep
<1>1. /\ UNCHANGED <<c_waiting, holds, arrived, left>> /\ Calls(t)
      /\ pending'[t].m = m /\ \A u \in Threads \ {t} : pending'[u] = pending[u]
    BY Zenon, EntersCall DEF IInv, MutexLock, roundVars
<1>2. \A u : OnCond(u)' <=> OnCond(u)
    BY Zenon, <1>1 DEF OnCond
<1>3. Free(t) /\ ~OnCond(t) /\ Waits[t] = None
    BY Zenon, <1>1, CallerRuns DEF Free
<1>4. Wants' = [Wants EXCEPT ![t] = m] /\ Waits' = [Waits EXCEPT ![t] = None]
    BY Zenon, <1>1, <1>2, <1>3, CallChange
<1>5. Holder' = Holder
    BY Zenon, <1>1, HolderSame DEF IInv, LockInv
<1> QED
    BY Zenon, <1>1, <1>3, <1>4, <1>5, SameAt, WantRefines

LEMMA UnlockRefines ==
    ASSUME IInv, IInv', NEW t \in Threads, NEW m \in Mutexes, MutexUnlock(t, m)
    PROVE  MStep
<1>1. /\ UNCHANGED <<c_waiting, pending, arrived, left>> /\ Calls(t) /\ m \in holds[t]
      /\ holds' = [holds EXCEPT ![t] = holds[t] \ {m}]
    BY Zenon DEF MutexUnlock, roundVars
<1>2. Holder' = [Holder EXCEPT ![m] = None] /\ Holder[m] = t
    <2>1. /\ \A u \in Threads : m \in holds'[u] <=> u = None
          /\ \A u \in Threads, n \in Mutexes \ {m} : n \in holds'[u] <=> n \in holds[u]
        BY <1>1, SyncAssumption DEF IInv, LockInv, TypeOK, HolderOwns
    <2> QED
        BY Zenon, <1>1, <2>1, HolderChange, HolderOf DEF IInv, LockInv
<1>3. Wants' = Wants /\ Waits' = Waits
    BY Zenon, <1>1 DEF Wants, Waits, OnCond
<1> QED
    BY Zenon, <1>1, <1>2, <1>3, CallerRuns, ReleaseRefines

LEMMA CondWaitRefines ==
    ASSUME IInv, IInv', NEW t \in Threads, NEW c \in Conds, NEW m \in Mutexes, CondWait(t, c, m)
    PROVE  MStep
<1>1. /\ UNCHANGED <<arrived, left>> /\ Calls(t) /\ m \in holds[t]
      /\ holds' = [holds EXCEPT ![t] = holds[t] \ {m}]
      /\ pending'[t].m = m /\ pending'[t].c = c
      /\ \A u \in Threads \ {t} : pending'[u] = pending[u]
    BY ZenonT(60), EntersCall DEF IInv, CondWait, roundVars
<1>2. Holder' = [Holder EXCEPT ![m] = None] /\ Holder[m] = t
    <2>1. /\ \A u \in Threads : m \in holds'[u] <=> u = None
          /\ \A u \in Threads, n \in Mutexes \ {m} : n \in holds'[u] <=> n \in holds[u]
        BY SMTT(60), <1>1, SyncAssumption DEF IInv, LockInv, TypeOK, HolderOwns
    <2> QED
        BY SMTT(60), <1>1, <2>1, HolderChange, HolderOf DEF IInv, LockInv
<1>3. Wants' = [Wants EXCEPT ![t] = m] /\ Waits' = [Waits EXCEPT ![t] = c]
    <2>1. OnCond(t)' /\ \A u \in Threads \ {t} : OnCond(u)' <=> OnCond(u)
        BY Zenon, CondWaitInv DEF IInv
    <2> QED
        BY Zenon, <1>1, <2>1, CallChange
<1> QED
    BY Zenon, <1>1, <1>2, <1>3, CallerRuns, WaitRefines

\* SimCond::signal(), in condSignal() and in condBroadcast()'s loop
LEMMA SignalRefines ==
    ASSUME IInv, IInv', NEW c \in Conds, SignalFirst(c)
    PROVE  MStep
<1>1. UNCHANGED <<pending, holds, arrived, left>>
    BY Zenon DEF SignalFirst, roundVars
<1>2. PICK u \in Threads : /\ OnCond(u) /\ pending[u].c = c
                           /\ \A v \in Threads : OnCond(v)' <=> OnCond(v) /\ v # u
    BY SignalTakes DEF IInv
<1>3. Wants' = [Wants EXCEPT ![u] = Wants[u]] /\ Waits' = [Waits EXCEPT ![u] = None]
    <2>1. pending'[u].m = Wants[u]
        BY Zenon, <1>1 DEF Wants
    <2> QED
        BY Zenon, <1>1, <1>2, <2>1, CallChange
<1>4. Waits[u] = c
    BY Zenon, <1>2 DEF Waits
<1>5. Holder' = Holder
    BY Zenon, <1>1, HolderSame DEF IInv, LockInv
<1> QED
    BY Zenon, <1>1, <1>3, <1>4, <1>5, SameAt, NotifyRefines

LEMMA BarrierRefines ==
    ASSUME IInv, IInv', NEW t \in Threads, BarrierWait(t)
    PROVE  MStep
<1>1. /\ UNCHANGED <<c_waiting, holds, left>> /\ Calls(t) /\ t \in BarrierUsers
      /\ arrived' = [arrived EXCEPT ![t] = arrived[t] + 1]
      /\ pending'[t].m = None /\ \A u \in Threads \ {t} : pending'[u] = pending[u]
    BY Zenon, EntersCall DEF IInv, BarrierWait
<1>2. \A u : OnCond(u)' <=> OnCond(u)
    BY Zenon, <1>1 DEF OnCond
<1>3. Free(t) /\ ~OnCond(t) /\ Waits[t] = None /\ Wants[t] = None
    BY Zenon, <1>1, CallerRuns DEF Free
<1>4. Wants' = [Wants EXCEPT ![t] = None] /\ Waits' = [Waits EXCEPT ![t] = None]
    BY Zenon, <1>1, <1>2, <1>3, CallChange
<1>5. Holder' = Holder
    BY Zenon, <1>1, HolderSame DEF IInv, LockInv
<1> QED
    BY Zenon, <1>1, <1>3, <1>4, <1>5, SameAt, ArriveRefines

\* a call that returns takes the mutex it waited for, or leaves the barrier, to which
\* everybody has come
LEMMA ReturnRefines ==
    ASSUME IInv, IInv', NEW t \in Threads, Return(t)
    PROVE  MStep
<1>1. /\ UNCHANGED <<c_waiting, arrived>> /\ ~stalled[t]
      /\ pending' = [pending EXCEPT ![t] = NoCall]
    BY Zenon DEF Return
<1>2. pending'[t].m = None /\ \A u \in Threads \ {t} : pending'[u] = pending[u]
    BY Zenon, <1>1 DEF IInv, LockInv, TypeOK, NoCall
<1>3. ~OnCond(t) /\ ~AtBarrier(t) /\ \A u : OnCond(u)' <=> OnCond(u)
    <2>1. CondQueued /\ BarrierQueued
        BY Zenon DEF IInv, LockInv, QueueInv
    <2>2. ~OnCond(t)
        BY <1>1, <2>1 DEF OnCond, CondQueued
    <2>3. ~AtBarrier(t)
        BY Zenon, <1>1, <2>1 DEF BarrierQueued
    <2>4. \A u : OnCond(u)' <=> OnCond(u)
        BY Zenon, <1>1 DEF OnCond
    <2> QED
        BY Zenon, <2>2, <2>3, <2>4
<1>4. Wants' = [Wants EXCEPT ![t] = None] /\ Waits' = [Waits EXCEPT ![t] = None] /\ Waits[t] = None
    <2>1. Waits[t] = None
        BY Zenon, <1>3 DEF Waits
    <2> QED
        BY Zenon, <1>2, <1>3, <2>1, CallChange
<1>5. CASE pending[t].op = "barrier"
    <2>1. left' = [left EXCEPT ![t] = left[t] + 1] /\ UNCHANGED holds
        BY Zenon, <1>5 DEF Return
    <2>2. t \in BarrierUsers /\ Wants[t] = None
        BY Zenon, <1>5 DEF IInv, LockInv, PendingInv, Wants
    <2>3. Holder' = Holder
        BY Zenon, <2>1, HolderSame DEF IInv, LockInv
    <2>4. left[t] < arrived[t] /\ \A u \in BarrierUsers : left[t] < arrived[u]
        <3>1. arrived[t] = left[t] + 1 /\ arrived \in [Threads -> Nat] /\ left \in [Threads -> Nat]
            BY Zenon, <1>5 DEF IInv, LockInv, TypeOK, BarrierInv
        <3>2. \A u \in BarrierUsers : Passed(t) = Passed(u)
            BY Zenon, <2>2 DEF IInv, BarrierInv
        <3> QED
            BY <1>3, <3>1, <3>2, SyncAssumption DEF Passed
    <2> QED
        BY Zenon, <1>1, <1>4, <2>1, <2>2, <2>3, <2>4, SameAt, LeaveRefines
<1>6. CASE pending[t].op # "barrier"
    <2> DEFINE m == pending[t].m
    <2>1. UNCHANGED left /\ holds' = [holds EXCEPT ![t] = holds[t] \cup {m}]
        BY Zenon, <1>6 DEF Return
    <2>2. pending[t].op \in {"mutex", "cond"} /\ m \in Mutexes
        BY Zenon, <1>6 DEF Return, IInv, LockInv, PendingInv, TypeOK
    <2>3. m_owner[m] = t /\ m \notin holds[t] /\ None \notin Threads
        BY Zenon, <1>1, <2>2, SyncAssumption DEF IInv, LockInv, ResumedOwns
    <2>4. \A u \in Threads : m \notin holds[u]
        BY Zenon, <2>3 DEF IInv, LockInv, HolderOwns
    <2>5. Wants[t] = m
        BY Zenon DEF Wants
    <2> HIDE DEF m
    <2>6. /\ \A u \in Threads : m \in holds'[u] <=> u = t
          /\ \A u \in Threads, n \in Mutexes \ {m} : n \in holds'[u] <=> n \in holds[u]
        BY Zenon, <2>1, <2>4 DEF IInv, LockInv, TypeOK
    <2>7. Holder' = [Holder EXCEPT ![m] = t]
        BY Zenon, <2>2, <2>6, HolderChange DEF IInv, LockInv
    <2>8. Holder[m] = None
        BY Zenon, <2>2, <2>4, HolderOf DEF IInv, LockInv
    <2> QED
        BY Zenon, <1>1, <1>4, <2>1, <2>2, <2>5, <2>7, <2>8, SameAt, AcquireRefines
<1> QED
    BY Zenon, <1>5, <1>6

LEMMA NextRefines == IInv /\ IInv' /\ [Next]_vars => MStep
<1> SUFFICES ASSUME IInv, IInv', [Next]_vars PROVE MStep
    BY Zenon
<1>1. CASE BroadcastStep
    <2>1. broadcasting \in Conds /\ SignalFirst(broadcasting)
        BY Zenon, <1>1 DEF BroadcastStep, IInv, LockInv, TypeOK
    <2> QED
        BY Zenon, <2>1, SignalRefines
<1>2. ASSUME NEW t \in Threads, NEW m \in Mutexes, MutexLock(t, m) \/ MutexTrylock(t, m)
      PROVE  MStep
    BY Zenon, <1>2, LockRefines DEF MutexTrylock
<1>3. ASSUME NEW t \in Threads, NEW c \in Conds, CondSignal(t, c) PROVE MStep
    BY Zenon, <1>3, SignalRefines DEF CondSignal
<1>4. ASSUME UNCHANGED <<m_owner, c_waiting, pending, holds, arrived, left>> PROVE MStep
    <2>1. Wants' = Wants /\ Waits' = Waits /\ Holder' = Holder
        BY Zenon, <1>4 DEF Wants, Waits, Holder, OnCond
    <2> QED
        BY Zenon, <1>4, <2>1, StutterRefines
<1>5. ASSUME NEW t \in Threads, NEW c \in Conds, CondBroadcast(t, c) PROVE MStep
    BY Zenon, <1>4, <1>5 DEF CondBroadcast, mutexVars, roundVars
<1>6. CASE UNCHANGED vars
    BY Zenon, <1>4, <1>6 DEF vars, mutexVars, roundVars
<1> QED
    BY Zenon, <1>1, <1>2, <1>3, <1>5, <1>6, ReturnRefines, BarrierRefines, UnlockRefines,
       CondWaitRefines DEF Next

LEMMA InitRefines == Init => Abstract!MInit
<1> SUFFICES ASSUME Init PROVE Abstract!MInit
    BY Zenon
<1>1. \A t : ~OnCond(t)
    BY DEF Init, OnCond
<1> QED
    BY Zenon, <1>1 DEF Init, NoCall, Abstract!MInit

\* SyncServer implements Monitor: for any threads, mutexes, condition variables and
\* barrier users, the simulated program sees mutexes with one holder, waits that end
\* by a notification, and a barrier nobody leaves before all have come.
THEOREM ServerImplementsMonitor == Spec => ImplementsMonitor
<1>1. Spec => []IInv
    BY Zenon, SpecInv
<1>2. IInv /\ IInv' /\ [Next]_vars => [Abstract!MNext]_(Abstract!mvars)
    BY Zenon, NextRefines DEF MStep
<1> QED
    BY <1>1, <1>2, InitRefines, PTL DEF Spec, ImplementsMonitor, Abstract!MSpec

=============================================================================
