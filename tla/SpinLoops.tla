----------------------------- MODULE SpinLoops -----------------------------
(***************************************************************************)
(* SpinLoopDetector and its Pin front-end: which backward branches close a *)
(* loop that changes nothing.  One thread executes conditional branches,   *)
(* register writes and stores of up to eight bytes.  The table of loops    *)
(* (m_sdt) is a queue of SdtMax entries with numbered bits; the register   *)
(* update buffer (m_rub) holds, for a register, an old value and the bits  *)
(* of the loops it was changed in.                                         *)
(***************************************************************************)
EXTENDS Integers, Sequences, FiniteSets, FiniteSetsExt, SequencesExt, Functions

CONSTANTS
    Eips,           \* backward branches
    Regs, Values,
    SdtMax,         \* SDT_MAX_SIZE
    MaxInstructions

VARIABLES
    regs, memory,   \* the thread's own registers and the word it stores to
    icount,         \* the instructions of the core
    m_sdt,          \* entries [eip, id, icount]
    m_rub,          \* register -> [old, mask]
    m_sdt_bitmask, m_sdt_nextid,
    spins,          \* m_spin_loops, m_spin_instructions
    detected,       \* the loop the last instruction was found to spin in, or NoLoop
    seen,           \* of each loop in the table, what happened since its last iteration
    held            \* of each register, its values since the table was last empty, and
                    \* whether the one it has now is new among them

vars == <<regs, memory, icount, m_sdt, m_rub, m_sdt_bitmask, m_sdt_nextid, spins, detected, seen, held>>

NoLoop == 0
InCandidateSpin == m_sdt # <<>>

(* What a loop's iteration begins with: the registers as they are, nothing written or stored. *)
NewIteration(evicted) == [regs |-> regs, written |-> FALSE, stored |-> FALSE, reused |-> evicted]

Init ==
    /\ regs = [r \in Regs |-> 0] /\ memory = 0
    /\ icount = 0
    /\ m_sdt = <<>> /\ m_rub = <<>>
    /\ m_sdt_bitmask = {} /\ m_sdt_nextid = 0
    /\ spins = [loops |-> 0, instructions |-> 0]
    /\ detected = NoLoop
    /\ seen = [eip \in Eips |-> NewIteration(FALSE)]
    /\ held = [r \in Regs |-> [values |-> {0}, fresh |-> FALSE]]

Executes == icount < MaxInstructions /\ icount' = icount + 1

Positions(eip) == {i \in DOMAIN m_sdt : m_sdt[i].eip = eip}

(* An unknown backward branch enters the table, the oldest entry leaves a full one. *)
AddLoop(eip) ==
    LET grown == Append(m_sdt, [eip |-> eip, id |-> m_sdt_nextid, icount |-> icount'])
        kept == IF Len(grown) > SdtMax THEN Tail(grown) ELSE grown
    IN /\ m_sdt' = kept
       /\ m_sdt_nextid' = (m_sdt_nextid + 1) % SdtMax
       /\ m_sdt_bitmask' = {kept[i].id : i \in DOMAIN kept}
       /\ detected' = NoLoop
       /\ seen' = [seen EXCEPT ![eip] = NewIteration(Len(grown) > SdtMax)]
       /\ UNCHANGED <<m_rub, spins>>

Changed(id) == {r \in DOMAIN m_rub : id \in m_rub[r].mask}

(* The registers changed in a loop are not changed in its next iteration. *)
Cleared(id) == [r \in DOMAIN m_rub |-> [m_rub[r] EXCEPT !.mask = @ \ {id}]]

Iterate(i) ==
    LET id == m_sdt[i].id
        eip == m_sdt[i].eip
        spinning == Changed(id) = {}
    IN /\ m_rub' = Cleared(id)
       /\ spins' = IF spinning THEN [loops |-> spins.loops + 1,
                                     instructions |-> spins.instructions + icount' - m_sdt[i].icount]
                   ELSE spins
       /\ m_sdt' = [m_sdt EXCEPT ![i].icount = icount']
       /\ detected' = IF spinning THEN eip ELSE NoLoop
       /\ seen' = [seen EXCEPT ![eip] = NewIteration(FALSE)]
       /\ UNCHANGED <<m_sdt_bitmask, m_sdt_nextid>>

(* spinloopHandleBranch: only a branch that is taken backwards is a candidate. *)
commitBCT(eip) ==
    /\ Executes
    /\ IF Positions(eip) = {} THEN AddLoop(eip) ELSE Iterate(Min(Positions(eip)))
    /\ UNCHANGED <<regs, memory, held>>

commitNonSilentStore ==
    /\ m_sdt' = <<>>
    /\ m_rub' = <<>>

(* The store is looked at only in a candidate loop; the value in memory tells if it is silent. *)
Store(value) ==
    /\ Executes
    /\ memory' = value
    /\ IF InCandidateSpin /\ value # memory THEN commitNonSilentStore ELSE UNCHANGED <<m_sdt, m_rub>>
    /\ detected' = NoLoop
    /\ seen' = [eip \in Eips |-> [seen[eip] EXCEPT !.stored = @ \/ value # memory]]
    /\ held' = IF m_sdt' = <<>> THEN [r \in Regs |-> [values |-> {regs[r]}, fresh |-> FALSE]] ELSE held
    /\ UNCHANGED <<regs, m_sdt_bitmask, m_sdt_nextid, spins>>

RubAfter_NoUpdate(reg, old_value, value) ==
    IF reg \notin DOMAIN m_rub
    THEN IF value # old_value
         THEN [r \in DOMAIN m_rub \cup {reg} |-> IF r = reg THEN [old |-> old_value, mask |-> m_sdt_bitmask]
                                                 ELSE m_rub[r]]
         ELSE m_rub
    ELSE IF value = m_rub[reg].old THEN Restrict(m_rub, DOMAIN m_rub \ {reg})
    ELSE m_rub

RubAfter(reg, old_value, value) ==
    IF reg \notin DOMAIN m_rub
    THEN IF value # old_value
         THEN [r \in DOMAIN m_rub \cup {reg} |-> IF r = reg THEN [old |-> old_value, mask |-> m_sdt_bitmask]
                                                 ELSE m_rub[r]]
         ELSE m_rub
    ELSE IF value = m_rub[reg].old THEN Restrict(m_rub, DOMAIN m_rub \ {reg})
    ELSE IF value # old_value THEN [m_rub EXCEPT ![reg].mask = @ \cup m_sdt_bitmask]
    ELSE m_rub

commitRegisterWrite(reg, value) ==
    /\ Executes
    /\ regs' = [regs EXCEPT ![reg] = value]
    /\ m_rub' = IF InCandidateSpin THEN RubAfter(reg, regs[reg], value) ELSE m_rub
    /\ detected' = NoLoop
    /\ seen' = [eip \in Eips |-> [seen[eip] EXCEPT !.written = @ \/ value # regs[reg]]]
    /\ held' = [held EXCEPT ![reg] =
                 IF ~InCandidateSpin THEN [values |-> {value}, fresh |-> FALSE]
                 ELSE [values |-> @.values \cup {value},
                       fresh |-> IF value = regs[reg] THEN @.fresh ELSE value \notin @.values]]
    /\ UNCHANGED <<memory, m_sdt, m_sdt_bitmask, m_sdt_nextid, spins>>

Next ==
    \/ \E eip \in Eips : commitBCT(eip)
    \/ \E reg \in Regs, value \in Values : commitRegisterWrite(reg, value)
    \/ \E value \in Values : Store(value)

Spec == Init /\ [][Next]_vars

(* ------------------------------ Properties ------------------------------ *)

Found(eip) == detected' = eip /\ Positions(eip) # {}

(* SpinLoopDetector::commitBCT: a loop is said to spin only if no store changed memory in  *)
(* this iteration.                                                                         *)
NoStoreInSpinStep == \A eip \in Eips : Found(eip) => ~seen[eip].stored

(* SpinLoopDetector::commitBCT: a loop is said to spin only if every register it changed   *)
(* in this iteration is back to a value it had while the loops in the table were watched:  *)
(* a loop that counts is never taken for a spin.                                           *)
CountingIsNoSpinStep ==
    \A eip \in Eips : Found(eip) =>
        \A r \in Regs : regs[r] # seen[eip].regs[r] => ~held[r].fresh

(* SpinLoopDetector::commitBCT: an iteration that writes no new value to a register and    *)
(* stores nothing is found to spin, unless its bit was taken over from a loop that left    *)
(* the full table in the iteration before.                                                 *)
QuietIsSpinStep ==
    \A eip \in Eips :
        ( /\ Positions(eip) # {} /\ Positions(eip) \subseteq DOMAIN m_sdt'
          /\ \A i \in Positions(eip) : m_sdt'[i].eip = eip /\ m_sdt[i].icount < m_sdt'[i].icount
          /\ ~seen[eip].written /\ ~seen[eip].stored /\ ~seen[eip].reused )
        => detected' = eip
=============================================================================
