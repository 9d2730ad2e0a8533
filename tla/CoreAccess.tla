----------------------------- MODULE CoreAccess -----------------------------
(***************************************************************************)
(* How a Core turns the memory operations of its thread into accesses to   *)
(* lines of the cache.  The user thread does data accesses, some of them   *)
(* pairs that hold the core's memory lock from a LOCK read to an UNLOCK    *)
(* write, while the core's own thread fetches instructions.                *)
(***************************************************************************)
EXTENDS Integers, Sequences, FiniteSets

CONSTANTS
    Block,      \* cache_block_size
    Addresses,  \* where an access or an instruction may start
    Sizes,      \* sizes of data accesses
    InsnSizes,
    Levels      \* the HitWhere values an access may report, 1 the L1 cache

VARIABLES
    memLock,    \* m_mem_lock: the thread that holds it, or "none"
    pc,         \* per thread: idle, waiting for the lock, accessing, or between LOCK and UNLOCK
    job,        \* per thread: the access asked for
    lastBlock,  \* m_icache_last_block
    result      \* per thread: the pieces and the outcome of its last access

vars == <<memLock, pc, job, lastBlock, result>>

Threads == {"user", "core"}
None == [op |-> "none", addr |-> 0, size |-> 0, signal |-> "none"]
Aligned(addr) == Block * (addr \div Block)
Unknown == 0

-----------------------------------------------------------------------------
(* initiateMemoryAccess *)

Piece(line, from, to) ==
    LET offset == IF line = Aligned(from) THEN from % Block ELSE 0
    IN  [line |-> line, offset |-> offset,
         size |-> (IF line = Aligned(to) THEN to % Block ELSE Block) - offset]

\* The lines are visited in order, the last one only if something is left on it.
Pieces(from, to) ==
    LET n == (Aligned(to) - Aligned(from)) \div Block + 1
        all == [i \in 1..n |-> Piece(Aligned(from) + (i - 1) * Block, from, to)]
    IN  IF all[n].size = 0 THEN SubSeq(all, 1, n - 1) ELSE all

\* The farthest place that served a piece
RECURSIVE HitWhere(_, _)
HitWhere(found, seen) ==
    IF found = <<>> THEN seen
    ELSE HitWhere(Tail(found), IF seen = Unknown \/ (Head(found) # Unknown /\ Head(found) > seen)
                               THEN Head(found) ELSE seen)

\* LOCK keeps the lock for the UNLOCK that follows.
MustAcquire(j) == j.signal # "unlock"

MustRelease_Always(j) == TRUE

MustRelease(j) == j.signal # "lock"

\* What is left of an instruction fetch: nothing if the line is the one fetched last,
\* the second line if only that one is new, else the line of the address
FetchAddress(addr, size) ==
    LET single == Aligned(addr) = Aligned(addr + size - 1)
    IN  IF Aligned(addr) # lastBlock THEN Aligned(addr) ELSE IF single THEN -1 ELSE Aligned(addr) + Block

-----------------------------------------------------------------------------
Ask(t, j) ==
    /\ job' = [job EXCEPT ![t] = j]
    /\ pc' = [pc EXCEPT ![t] = IF MustAcquire(j) THEN "acquire" ELSE "access"]

\* accessMemory: a plain access, or the read or the write of an atomic one
AccessMemory(addr, size) ==
    /\ \/ /\ pc["user"] = "idle"
          /\ \E signal \in {"none", "lock"} :
               Ask("user", [op |-> IF signal = "lock" THEN "readex" ELSE "read",
                            addr |-> addr, size |-> size, signal |-> signal])
       \/ /\ pc["user"] = "locked"
          /\ addr = job["user"].addr /\ size = job["user"].size
          /\ Ask("user", [op |-> "write", addr |-> addr, size |-> size, signal |-> "unlock"])
    /\ UNCHANGED <<memLock, lastBlock, result>>

ReadInstructionMemory(addr, size) ==
    /\ pc["core"] = "idle"
    /\ LET from == FetchAddress(addr, size) IN
       IF from = -1
       THEN /\ result' = [result EXCEPT !["core"] = [pieces |-> <<>>, hit |-> 1]]
            /\ UNCHANGED <<memLock, pc, job, lastBlock>>
       ELSE /\ lastBlock' = from
            /\ Ask("core", [op |-> "read", addr |-> from, size |-> Block, signal |-> "none"])
            /\ UNCHANGED <<memLock, result>>

Acquire(t) ==
    /\ pc[t] = "acquire" /\ memLock = "none"
    /\ memLock' = t
    /\ pc' = [pc EXCEPT ![t] = "access"]
    /\ UNCHANGED <<job, lastBlock, result>>

\* The memory manager serves the pieces, each somewhere.
Access(t) ==
    /\ pc[t] = "access"
    /\ LET j == job[t]
           ps == Pieces(j.addr, j.addr + j.size)
       IN  /\ \E found \in [1..Len(ps) -> Levels] :
                result' = [result EXCEPT ![t] = [pieces |-> ps, hit |-> HitWhere(found, Unknown)]]
           /\ memLock' = IF MustRelease(j) THEN "none" ELSE memLock
           /\ pc' = [pc EXCEPT ![t] = IF j.signal = "lock" THEN "locked" ELSE "idle"]
    /\ UNCHANGED <<job, lastBlock>>

Init ==
    /\ memLock = "none"
    /\ pc = [t \in Threads |-> "idle"]
    /\ job = [t \in Threads |-> None]
    /\ lastBlock = -1
    /\ result = [t \in Threads |-> [pieces |-> <<>>, hit |-> Unknown]]

Next ==
    \/ \E addr \in Addresses, size \in Sizes : AccessMemory(addr, size)
    \/ \E addr \in Addresses, size \in InsnSizes : ReadInstructionMemory(addr, size)
    \/ \E t \in Threads : Acquire(t)
    \/ \E t \in Threads : Access(t)

-----------------------------------------------------------------------------
(* The pieces of an access are on different lines, stay within them, and   *)
(* cover each byte asked for exactly once and in the order of the buffer.  *)
PiecesTileAccess ==
    \A t \in Threads : (pc[t] \in {"idle", "locked"} /\ result[t].pieces # <<>>) =>
        LET ps == result[t].pieces
            Bytes(p) == {p.line + p.offset + i : i \in 0..(p.size - 1)}
        IN  /\ \A i \in DOMAIN ps : ps[i].size > 0 /\ ps[i].offset + ps[i].size <= Block
            /\ \A i \in DOMAIN ps : i > 1 => ps[i].line + ps[i].offset = ps[i - 1].line + ps[i - 1].offset + ps[i - 1].size
            /\ UNION {Bytes(ps[i]) : i \in DOMAIN ps} = job[t].addr..(job[t].addr + job[t].size - 1)

(* An atomic pair is atomic: from its LOCK read to its UNLOCK write no     *)
(* other access of the core is at the caches.                              *)
PairIsAtomic ==
    (pc["user"] = "locked" \/ (pc["user"] = "access" /\ job["user"].signal = "unlock")) =>
        memLock = "user" /\ pc["core"] # "access"

=============================================================================
