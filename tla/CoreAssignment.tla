--------------------------- MODULE CoreAssignment ---------------------------
(***************************************************************************)
(* What a scheduler of this simulator promises to the cores and to the     *)
(* barrier: a core holds at most one thread and a thread is on at most one *)
(* core; one core changes hands at a time; a thread never goes from one    *)
(* core straight to another; and only a thread that is entitled to a core  *)
(* (starting up or runnable, not stalled) is put on one.                   *)
(***************************************************************************)
EXTENDS Integers

CONSTANTS Threads, Cores, None
VARIABLES occupant, entitled

avars == <<occupant, entitled>>

Placed == {occupant[c] : c \in Cores} \ {None}

AInit ==
    /\ occupant = [c \in Cores |-> None]
    /\ entitled = Threads

\* core c passes from its thread, or nobody, to t or to nobody
Switch(c, t) ==
    /\ t \in (entitled \ Placed) \cup {None}
    /\ occupant' = [occupant EXCEPT ![c] = t]
    /\ UNCHANGED entitled

\* t is resumed
Admit(t) ==
    /\ entitled' = entitled \cup {t}
    /\ UNCHANGED occupant

\* t stalls; it keeps its core until the core is switched
Withdraw(t) ==
    /\ entitled' = entitled \ {t}
    /\ UNCHANGED occupant

\* t ends: it gives up its core and its claim to one
Retire(t) ==
    /\ entitled' = entitled \ {t}
    /\ occupant' = [c \in Cores |-> IF occupant[c] = t THEN None ELSE occupant[c]]

ANext ==
    \/ \E c \in Cores, t \in Threads \cup {None} : Switch(c, t)
    \/ \E t \in Threads : Admit(t) \/ Withdraw(t) \/ Retire(t)

ASpec == AInit /\ [][ANext]_avars

=============================================================================
