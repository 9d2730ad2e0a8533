------------------------------ MODULE Coherence ------------------------------
(***************************************************************************)
(* One cache line in the parametric_dram_directory_msi memory system: the  *)
(* first-level caches, the last-level caches (LLC) that several cores      *)
(* share, the tag directory of the line, its DRAM controller, and the      *)
(* messages between them.                                                  *)
(*                                                                         *)
(* The user thread of a core and the network thread of an LLC work on the  *)
(* caches under the set lock of the LLC, so one step is what a thread does *)
(* between taking the lock and giving it up.  The lock passes from the     *)
(* network thread to the user thread it wakes up: "serving" is the network *)
(* thread on its way to take it back.  The directory and the DRAM          *)
(* controller handle one message at a time; "next" is the directory with   *)
(* processNextReqFromL2Cache still to do before it takes another message.  *)
(* A node receives its messages from one queue, in the order of the sends. *)
(*                                                                         *)
(* Other lines matter only where they take a place of this one: EvictL1,   *)
(* EvictLlc and Nullify.  Instead of its bytes a copy of the line carries  *)
(* "cur" when it holds every write made so far, "old" when it does not.    *)
(***************************************************************************)
EXTENDS Integers, FiniteSets, Sequences

CONSTANTS
    Cores, Llcs,
    LlcOf,        \* the last-level cache that a core reaches
    Configs,      \* [variant, hw, does]: caching_protocol/variant, max_hw_sharers
                  \* and the accesses that each core makes
    DramLag       \* bound: messages the DRAM node may be behind the directory

None == "none"     \* no data, no operation
NoNode == -1       \* INVALID_CORE_ID
Garbage == -2      \* m_forwarder_id of an entry that never set it
DramNode == -3     \* dram_node

ASSUME TopologyAssumption == Llcs \subseteq Nat /\ LlcOf \in [Cores -> Llcs]
ASSUME ConfigsAssumption ==
    Configs \subseteq [variant : {"MSI", "MESI", "MESIF"}, hw : Nat \ {0},
                       does : [Cores -> SUBSET {"read", "write", "rmw", "prefetch"}]]

VARIABLES
    config,
    l1, llc,              \* CacheBlockInfo of the line in each cache, and its data
    pc,                   \* where the user thread of a core is
    waiters, serving,     \* m_directory_waiters; the network thread of an LLC
    dir, reqs, next,      \* the directory entry and its request queue
    dram,                 \* the line in memory
    toLlc, toDir, toDram, \* messages on their way
    ok                    \* no assertion of the code has failed

vars == <<config, l1, llc, pc, waiters, serving, dir, reqs, next, dram,
          toLlc, toDir, toDram, ok>>
dirVars == <<dir, reqs, next>>
llcVars == <<l1, llc, waiters, serving>>

Near(n) == {c \in Cores : LlcOf[c] = n}
Data == {"cur", "old"}
Invalid == [st |-> "I", data |-> None]
Idle == [at |-> "idle", op |-> None]
Fresh == [st |-> "U", sharers |-> {}, owner |-> NoNode, fwd |-> Garbage]
Msg(type, from, data) == [type |-> type, from |-> from, data |-> data]

Init ==
    /\ config \in Configs
    /\ l1 = [c \in Cores |-> Invalid] /\ llc = [n \in Llcs |-> Invalid]
    /\ pc = [c \in Cores |-> Idle]
    /\ waiters = [n \in Llcs |-> <<>>] /\ serving = [n \in Llcs |-> FALSE]
    /\ dir = Fresh /\ reqs = <<>> /\ next = FALSE
    /\ dram = "cur"
    /\ toLlc = [n \in Llcs |-> <<>>] /\ toDir = <<>> /\ toDram = <<>>
    /\ ok = TRUE

\* CacheCntlr::operationPermissibleinCache.  "rmw" begins as a READ_EX.
Permits(st, op) ==
    IF op \in {"read", "prefetch"} THEN st \in {"S", "E", "M"} ELSE st = "M"

-----------------------------------------------------------------------------
(* The caches below one LLC.  N is [l1, llc, ok] of the node being changed. *)

\* updateCacheBlock in the first-level caches of C: a MODIFIED copy is written
\* into the LLC, which must hold the line MODIFIED, or into its evict buffer
UpdateL1(N, C, st, evicting) ==
    LET held  == {c \in C : N.l1[c].st # "I"}
        dirty == {c \in held : N.l1[c].st = "M"}
    IN  [l1  |-> [c \in Cores |->
                    IF c \notin held THEN N.l1[c]
                    ELSE IF st = "I" THEN Invalid ELSE [N.l1[c] EXCEPT !.st = st]],
         llc |-> IF dirty = {} THEN N.llc
                 ELSE [N.llc EXCEPT !.data = N.l1[CHOOSE c \in dirty : TRUE].data],
         ok  |-> N.ok /\ (dirty # {} => evicting \/ N.llc.st = "M")]

\* the hit path of processShmemReqFromPrevCache in the LLC, and the silent
\* upgrade of an EXCLUSIVE line, for core c
AccessLlc(N, n, c, op) ==
    LET others == Near(n) \ (IF op = "prefetch" THEN {} ELSE {c})
        down == IF op \in {"write", "rmw"} THEN UpdateL1(N, others, "I", FALSE)
                ELSE IF N.llc.st \in {"M", "E"} THEN UpdateL1(N, others, "S", FALSE)
                ELSE N
    IN  IF op \in {"write", "rmw"} THEN [down EXCEPT !.llc.st = "M"] ELSE down

Reaches(N, op) == Permits(N.llc.st, op) \/ N.llc.st = "E"

\* copyDataFromNextLevel: the first-level cache takes the LLC's state
FillL1(N, c, op) ==
    IF op = "prefetch" THEN N
    ELSE [N EXCEPT !.l1[c] = N.llc, !.ok = @ /\ Permits(N.llc.st, op)]

Fill(N, n, c, op) == FillL1(AccessLlc(N, n, c, op), c, op)

-----------------------------------------------------------------------------
(* Memory accesses of the cores *)

\* another thread of the node may take the set lock exclusively
Unlocked(n) == \A c \in Near(n) : pc[c].at # "locked"
NodeState(n) == [l1 |-> l1, llc |-> llc[n], ok |-> ok]

Outdate(q) == [i \in DOMAIN q |-> IF q[i].data = None THEN q[i] ELSE [q[i] EXCEPT !.data = "old"]]
OutdateLine(x) == IF x.data = None THEN x ELSE [x EXCEPT !.data = "old"]

\* accessCache in the first-level cache of c after N, and what c does next:
\* the first half of an atomic pair keeps the lock
Access(N, n, c, op) ==
    /\ pc' = [pc EXCEPT ![c] = IF op = "rmw" THEN [at |-> "locked", op |-> op] ELSE Idle]
    /\ ok' = N.ok
    /\ IF op = "write"
       THEN /\ l1' = [x \in Cores |-> IF x = c THEN N.l1[c] ELSE OutdateLine(N.l1[x])]
            /\ llc' = [x \in Llcs |-> OutdateLine(IF x = n THEN N.llc ELSE llc[x])]
            /\ dram' = "old"
       ELSE l1' = N.l1 /\ llc' = [llc EXCEPT ![n] = N.llc] /\ dram' = dram

\* what a write by Access does to the data in messages and queued requests
Traffic(op, toLlcs, toTheDir) ==
    IF op = "write"
    THEN /\ toLlc' = [n \in Llcs |-> Outdate(toLlcs[n])]
         /\ toDir' = Outdate(toTheDir) /\ toDram' = Outdate(toDram)
         /\ reqs' = Outdate(reqs)
    ELSE toLlc' = toLlcs /\ toDir' = toTheDir /\ UNCHANGED <<toDram, reqs>>

\* processMemOpFromCore: a hit
Hit(c, op) ==
    /\ pc[c] = Idle /\ op # "prefetch" /\ Permits(l1[c].st, op)
    /\ Access(NodeState(LlcOf[c]), LlcOf[c], c, op)
    /\ Traffic(op, toLlc, toDir)
    /\ UNCHANGED <<config, waiters, serving, dir, next>>

\* a miss, up to the upgrade of the lock
Miss(c, op) ==
    /\ pc[c] = Idle /\ op # "prefetch" /\ ~Permits(l1[c].st, op)
    /\ pc' = [pc EXCEPT ![c] = [at |-> "miss", op |-> op]]
    /\ UNCHANGED <<config, llcVars, dirVars, dram, toLlc, toDir, toDram, ok>>

\* Prefetch in the LLC looks for the line before doPrefetch takes the lock
Prefetch(c) ==
    /\ pc[c] = Idle /\ "prefetch" \in config.does[c] /\ ~Permits(llc[LlcOf[c]].st, "prefetch")
    /\ pc' = [pc EXCEPT ![c] = [at |-> "miss", op |-> "prefetch"]]
    /\ UNCHANGED <<config, llcVars, dirVars, dram, toLlc, toDir, toDram, ok>>

\* the second half of an atomic pair: it must hit
Unlock(c) ==
    /\ pc[c].at = "locked"
    /\ Access([NodeState(LlcOf[c]) EXCEPT !.ok = @ /\ Permits(l1[c].st, "write")],
              LlcOf[c], c, "write")
    /\ Traffic("write", toLlc, toDir)
    /\ UNCHANGED <<config, waiters, serving, dir, next>>

\* a write to a SHARED line takes it away from the other first-level caches
BeforeUpgrade(N, n, c, op) ==
    IF N.llc.st = "S" /\ op \in {"write", "rmw"}
    THEN UpdateL1(N, Near(n) \ {c}, "I", FALSE) ELSE N

\* initiateDirectoryAccess: the request that the first waiter for the line sends
RequestType(st, op) ==
    IF op \in {"read", "prefetch"} THEN "SH_REQ" ELSE IF st = "S" THEN "UPGRADE_REQ" ELSE "EX_REQ"

\* processMemOpFromCore after the lock upgrade, with processShmemReqFromPrevCache
\* in the LLC: fill the first-level cache, or queue up for the directory
Request(c) ==
    LET n == LlcOf[c]
        op == pc[c].op
        N0 == NodeState(n)
        N == IF op = "prefetch" \/ l1[c].st = "I" THEN N0
             ELSE [N0 EXCEPT !.l1[c] = Invalid, !.ok = @ /\ l1[c].st # "M"]
        B == BeforeUpgrade(N, n, c, op)
        first == waiters[n] = <<>>
        type == RequestType(B.llc.st, op)
    IN  /\ pc[c].at = "miss" /\ Unlocked(n)
        /\ \/ /\ Reaches(N, op)
              /\ Access(Fill(N, n, c, op), n, c, op)
              /\ Traffic(op, toLlc, toDir)
              /\ UNCHANGED <<waiters, serving>>
           \/ /\ ~Reaches(N, op)
              /\ pc' = [pc EXCEPT ![c].at = "wait"]
              /\ waiters' = [waiters EXCEPT ![n] = Append(@, c)]
              /\ l1' = B.l1
              /\ llc' = [llc EXCEPT ![n] = IF first /\ type = "UPGRADE_REQ"
                                           THEN [B.llc EXCEPT !.st = "SU"] ELSE B.llc]
              /\ ok' = (B.ok /\ (first /\ type = "EX_REQ" => B.llc.st = "I"))
              /\ toDir' = IF first THEN Append(toDir, Msg(type, n, None)) ELSE toDir
              /\ UNCHANGED <<serving, reqs, dram, toLlc, toDram>>
        /\ UNCHANGED <<config, dir, next>>

-----------------------------------------------------------------------------
(* The network thread of an LLC *)

\* insertCacheBlock for another line evicts this one: dirty data goes to the
\* directory, and so does the news that a clean copy is gone
EvictLlc(n) ==
    LET N == UpdateL1(NodeState(n), Near(n), "I", TRUE)
    IN  /\ ~serving[n] /\ Unlocked(n)
        /\ llc[n].st \in {"S", "E", "M"}      \* never one that is being upgraded
        /\ l1' = N.l1 /\ llc' = [llc EXCEPT ![n] = Invalid] /\ ok' = N.ok
        /\ toDir' = Append(toDir, IF llc[n].st = "M" THEN Msg("FLUSH_REP", n, N.llc.data)
                                                     ELSE Msg("INV_REP", n, None))
        /\ UNCHANGED <<config, pc, waiters, serving, dirVars, dram, toLlc, toDram>>

\* insertCacheBlock in a first-level cache, for another line
EvictL1(c) ==
    LET n == LlcOf[c]
        N == UpdateL1(NodeState(n), {c}, "I", FALSE)
    IN  /\ pc[c] = Idle /\ Unlocked(n) /\ l1[c].st # "I"
        /\ l1' = N.l1 /\ llc' = [llc EXCEPT ![n] = N.llc] /\ ok' = N.ok
        /\ UNCHANGED <<config, pc, waiters, serving, dirVars, dram, toLlc, toDir, toDram>>

\* the loop of handleMsgFromDramDirectory over the waiters ws, in node state N,
\* after message m: upgrade for a writer, or wake up the first waiter, which
\* fills its cache with the lock it was handed
ServeFirst(N, n, ws, toLlcs) ==
    LET c == Head(ws)
        op == pc[c].op
        F == Fill(N, n, c, op)
    IN  /\ waiters' = [waiters EXCEPT ![n] = ws]
        /\ \/ /\ ws = <<>>
              /\ serving' = [serving EXCEPT ![n] = FALSE]
              /\ l1' = N.l1 /\ llc' = [llc EXCEPT ![n] = N.llc] /\ ok' = N.ok
              /\ toLlc' = toLlcs
              /\ UNCHANGED <<pc, dram, reqs, toDir, toDram>>
           \/ /\ ws # <<>>
              /\ op \in {"write", "rmw"} /\ N.llc.st = "S"
              /\ serving' = [serving EXCEPT ![n] = FALSE]
              /\ l1' = N.l1 /\ llc' = [llc EXCEPT ![n] = [N.llc EXCEPT !.st = "SU"]]
              /\ ok' = N.ok
              /\ toDir' = Append(toDir, Msg("UPGRADE_REQ", n, None)) /\ toLlc' = toLlcs
              /\ UNCHANGED <<pc, dram, reqs, toDram>>
           \/ /\ ws # <<>>
              /\ ~(op \in {"write", "rmw"} /\ N.llc.st = "S")
              /\ serving' = [serving EXCEPT ![n] = TRUE]
              /\ Access([F EXCEPT !.ok = @ /\ Reaches(N, op)], n, c, op)
              /\ Traffic(op, toLlcs, toDir)

\* processExRepFromDramDirectory, processShRepFromDramDirectory and
\* processUpgradeRepFromDramDirectory, which makes every copy below MODIFIED
Answered(N, n, m) ==
    CASE m.type = "UPGRADE_REP" ->
            IF N.llc.st = "SU"
            THEN LET U == UpdateL1(N, Near(n), "M", FALSE)
                 IN  [U EXCEPT !.llc.st = "M"]
            ELSE [N EXCEPT !.ok = FALSE]
      [] OTHER -> [N EXCEPT !.llc = [st |-> IF m.type = "EX_REP" THEN "E" ELSE "S", data |-> m.data],
                            !.ok = @ /\ N.llc.st = "I"]

\* processInvReqFromDramDirectory, processFlushReqFromDramDirectory and
\* processWbReqFromDramDirectory: the node, and the answer
Recalled(N, n, type) ==
    CASE type = "WB_REQ" /\ N.llc.st = "SU" -> N
      [] type = "WB_REQ" /\ N.llc.st # "SU" ->
            LET U == UpdateL1(N, Near(n), "S", FALSE) IN [U EXCEPT !.llc.st = "S"]
      [] OTHER ->
            LET U == UpdateL1(N, Near(n), "I", FALSE)
            IN  [U EXCEPT !.llc.st = "I", !.ok = @ /\ ~(type = "INV_REQ" /\ N.llc.st = "M")]

\* handleMsgFromDramDirectory
HandleLlc(n) ==
    LET m == Head(toLlc[n])
        rest == [toLlc EXCEPT ![n] = Tail(@)]
        R == Recalled(NodeState(n), n, m.type)
        data == CASE m.type = "INV_REQ" -> None
                  [] m.type = "WB_REQ" /\ llc[n].st = "SU" -> "old"   \* never written
                  [] OTHER -> R.llc.data
        reply == [INV_REQ |-> "INV_REP", FLUSH_REQ |-> "FLUSH_REP", WB_REQ |-> "WB_REP"]
    IN  /\ toLlc[n] # <<>> /\ ~serving[n] /\ Unlocked(n)
        /\ \/ /\ m.type \in {"EX_REP", "SH_REP", "UPGRADE_REP"}
              /\ ServeFirst(Answered(NodeState(n), n, m), n, waiters[n], rest)
           \/ /\ m.type \in DOMAIN reply
              /\ toLlc' = rest
              /\ IF llc[n].st = "I" THEN UNCHANGED <<l1, llc, toDir, ok>>
                 ELSE /\ l1' = R.l1 /\ ok' = R.ok
                      /\ llc' = [llc EXCEPT ![n] = IF R.llc.st = "I" THEN Invalid ELSE R.llc]
                      /\ toDir' = Append(toDir, Msg(reply[m.type], n, data))
              /\ UNCHANGED <<pc, waiters, serving, reqs, dram, toDram>>
        /\ UNCHANGED <<config, dir, next>>

Continue_First(n) ==
    /\ serving[n] /\ Unlocked(n)
    /\ serving' = [serving EXCEPT ![n] = FALSE] /\ waiters' = [waiters EXCEPT ![n] = <<>>]
    /\ UNCHANGED <<config, l1, llc, pc, dirVars, dram, toLlc, toDir, toDram, ok>>

\* the network thread has the lock back: dequeue the waiter, go on with the next
Continue(n) ==
    /\ serving[n] /\ Unlocked(n)
    /\ ServeFirst(NodeState(n), n, Tail(waiters[n]), toLlc)
    /\ UNCHANGED <<config, dir, next>>

-----------------------------------------------------------------------------
(* The directory.  D is [dir, reqs, next, sent, ok]; sent are its messages. *)

Req(type, n) == [type |-> type, from |-> n, data |-> None, wait |-> FALSE, fwdFrom |-> NoNode]
Send(D, type, n, data) == [D EXCEPT !.sent = @ \cup {[to |-> n, msg |-> Msg(type, NoNode, data)]}]
SendAll(D, type, S) ==
    [D EXCEPT !.sent = @ \cup {[to |-> n, msg |-> Msg(type, NoNode, None)] : n \in S}]
Assert(D, p) == [D EXCEPT !.ok = @ /\ p]
\* m_forwarder_id is read in the MESIF variant only
SetFwd(D, n) == IF config.variant = "MESIF" THEN [D EXCEPT !.dir.fwd = n] ELSE D
Requester(D) == Head(D.reqs).from

\* retrieveDataAndSendToL2Cache: answer with the data at hand, ask the
\* forwarder for it (once), or read memory
Retrieve(D, reply, data) ==
    LET r == Head(D.reqs)
    IN  IF data # None
        THEN [SetFwd(Send(D, reply, r.from, data), r.from) EXCEPT !.next = TRUE]
        ELSE IF /\ config.variant = "MESIF" /\ r.fwdFrom = NoNode
                /\ D.dir.st = "S" /\ D.dir.fwd # NoNode
        THEN IF D.dir.fwd = Garbage THEN Assert(D, FALSE)
             ELSE [Send(D, "WB_REQ", D.dir.fwd, None) EXCEPT !.reqs[1].fwdFrom = D.dir.fwd]
        ELSE [Send(D, "DRAM_READ_REQ", DramNode, None) EXCEPT !.reqs[1].wait = TRUE]

\* DirectoryEntry: the requester becomes the owner of an uncached line
TakeOver(D, st) ==
    [D EXCEPT !.dir.st = st, !.dir.sharers = @ \cup {Requester(D)},
              !.dir.owner = Requester(D), !.ok = @ /\ D.dir.sharers = {}]

ProcessExReq(D, data) ==
    CASE D.dir.st \in {"E", "M"} -> Assert(Send(D, "FLUSH_REQ", D.dir.owner, None), data = None)
      [] D.dir.st = "S" -> Assert(SendAll(D, "INV_REQ", D.dir.sharers), data = None)
      [] D.dir.st = "U" -> Retrieve(TakeOver(D, "M"), "EX_REP", data)

\* victim: getOneSharer, when max_hw_sharers leaves no room for the requester
ProcessShReq(D, data, victim) ==
    LET r == Requester(D)
    IN  CASE D.dir.st = "E" -> Assert(Send(D, "WB_REQ", D.dir.owner, None),
                                      data = None /\ r # D.dir.owner)
          [] D.dir.st = "M" -> Assert(Send(D, "WB_REQ", D.dir.owner, None), data = None)
          [] D.dir.st = "S" ->
                IF r \in D.dir.sharers THEN Retrieve(D, "SH_REP", data)
                ELSE IF Cardinality(D.dir.sharers) >= config.hw THEN Send(D, "INV_REQ", victim, None)
                ELSE Retrieve([D EXCEPT !.dir.sharers = @ \cup {r}], "SH_REP", data)
          [] D.dir.st = "U" ->
                IF config.variant = "MSI" THEN Retrieve(TakeOver(D, "S"), "SH_REP", data)
                                          ELSE Retrieve(TakeOver(D, "E"), "EX_REP", data)

\* sharers_list.second[0]; the sharers are listed in the order of their ids
FirstSharer(D) == CHOOSE n \in D.dir.sharers : \A x \in D.dir.sharers : n <= x

ProcessUpgradeReq_Early(D, data) ==
    LET r == Requester(D)
    IN  IF D.dir.st = "U" THEN Retrieve(TakeOver(D, "M"), "EX_REP", data)
        ELSE [Send(D, "UPGRADE_REP", r, None) EXCEPT !.dir.st = "M", !.dir.owner = r, !.next = TRUE]

ProcessUpgradeReq(D, data) ==
    LET r == Requester(D)
        granted == [Send(D, "UPGRADE_REP", r, None) EXCEPT !.dir.st = "M", !.dir.owner = r, !.next = TRUE]
        others == D.dir.sharers \ {r}
    IN  CASE D.dir.st \in {"E", "M"} ->
                IF FirstSharer(D) = r THEN Assert(granted, D.dir.owner = r)
                ELSE Send(D, "FLUSH_REQ", D.dir.owner, None)
          [] D.dir.st = "S" ->
                IF others = {} THEN granted
                ELSE IF r \in D.dir.sharers THEN SendAll(D, "INV_REQ", others)
                ELSE Send(SendAll(D, "INV_REQ", others \ {FirstSharer(D)}),
                          "FLUSH_REQ", FirstSharer(D), None)
          [] D.dir.st = "U" ->
                Retrieve(TakeOver(D, "M"), "EX_REP",
                         IF data = None THEN Head(D.reqs).data ELSE data)

ProcessNullifyReq(D) ==
    CASE D.dir.st \in {"E", "M"} -> Send(D, "FLUSH_REQ", D.dir.owner, None)
      [] D.dir.st = "S" -> SendAll(D, "INV_REQ", D.dir.sharers)
      [] D.dir.st = "U" -> [D EXCEPT !.dir = Fresh, !.next = TRUE]

ProcessFront(D, data, victim) ==
    CASE Head(D.reqs).type = "EX_REQ"      -> ProcessExReq(D, data)
      [] Head(D.reqs).type = "SH_REQ"      -> ProcessShReq(D, data, victim)
      [] Head(D.reqs).type = "UPGRADE_REQ" -> ProcessUpgradeReq(D, data)
      [] Head(D.reqs).type = "NULLIFY_REQ" -> ProcessNullifyReq(D)

\* removeSharer, and UNCACHED once the last one is gone
Remove(D, n) ==
    LET left == D.dir.sharers \ {n}
    IN  [D EXCEPT !.dir.sharers = left, !.dir.st = IF left = {} THEN "U" ELSE @,
                  !.ok = @ /\ n \in D.dir.sharers]

ProcessInvRep(D0, n, victim) ==
    LET D1 == Remove(Assert(D0, D0.dir.st \in {"S", "E"}), n)
        D == IF D1.dir.fwd = n THEN SetFwd(D1, NoNode) ELSE D1
        r == Head(D.reqs)
        resume == CASE r.type \in {"EX_REQ", "NULLIFY_REQ"} -> D.dir.st = "U"
                    [] r.type = "UPGRADE_REQ" -> D.dir.sharers \subseteq {r.from}
                    [] r.type = "SH_REQ" -> ~r.wait /\ (r.fwdFrom # NoNode => r.fwdFrom = n)
    IN  IF D.reqs = <<>> \/ ~resume THEN D ELSE ProcessFront(D, None, victim)

ProcessFlushRep_NoWrite(D0, m, victim, stored) ==
    LET D == [SetFwd(Remove(D0, m.from), NoNode) EXCEPT !.dir.owner = NoNode]
    IN  IF D.reqs = <<>> THEN D ELSE ProcessFront(D, m.data, victim)

\* stored: the buffer that setDataBuf keeps is freed with the message, so what
\* a later processUpgradeReqFromL2Cache finds there may be anything
ProcessFlushRep(D0, m, victim, stored) ==
    LET D1 == Remove(D0, m.from)
        D == [SetFwd(D1, NoNode) EXCEPT !.dir.owner = NoNode,
                 !.ok = @ /\ (D1.dir.sharers # {} => D1.dir.st = "S")]
        r == Head(D.reqs)
        W == Send(D, "DRAM_WRITE_REQ", DramNode, m.data)
    IN  IF D.reqs = <<>> THEN W
        ELSE CASE r.type = "EX_REQ" -> ProcessExReq(D, m.data)
               [] r.type = "SH_REQ" -> ProcessShReq(W, m.data, victim)
               [] r.type = "UPGRADE_REQ" ->
                     IF D.dir.sharers = {} THEN ProcessUpgradeReq(D, m.data)
                     ELSE [D EXCEPT !.reqs[1].data = stored]
               [] r.type = "NULLIFY_REQ" -> ProcessNullifyReq(W)

ProcessWbRep(D0, m, victim) ==
    LET D == [D0 EXCEPT !.dir.owner = NoNode, !.dir.st = "S", !.ok = @ /\ m.from \in D0.dir.sharers]
    IN  IF D.reqs = <<>> \/ Head(D.reqs).type # "SH_REQ" THEN Assert(D, FALSE)
        ELSE ProcessShReq(D, m.data, victim)

\* the request that waits for it is answered with the data from memory
ProcessDRAMReply(D, m) ==
    LET r == Head(D.reqs)
        type == IF r.type = "SH_REQ" /\ D.dir.st # "E" THEN "SH_REP" ELSE "EX_REP"
    IN  [Assert(Send(D, type, r.from, m.data),
                CASE r.type = "SH_REQ" -> D.dir.st \in {"S", "E"}
                  [] r.type = "EX_REQ" -> D.dir.st = "M"
                  [] OTHER -> r.type = "UPGRADE_REQ") EXCEPT !.next = TRUE]

DirState == [dir |-> dir, reqs |-> reqs, next |-> next, sent |-> {}, ok |-> ok]

\* the directory's new state, and its messages in the queues of their receivers
Commit(D) ==
    LET For(n) == {s \in D.sent : s.to = n}
        Put(q, n) == IF For(n) = {} THEN q ELSE Append(q, (CHOOSE s \in For(n) : TRUE).msg)
    IN  /\ dir' = D.dir /\ reqs' = D.reqs /\ next' = D.next /\ ok' = D.ok
        /\ toLlc' = [n \in Llcs |-> Put(toLlc[n], n)]
        /\ toDram' = Put(toDram, DramNode)

Victims == IF dir.sharers = {} THEN {NoNode} ELSE dir.sharers

\* handleMsgFromL2Cache and handleMsgFromDRAM
HandleDir ==
    LET m == Head(toDir)
        Q == [DirState EXCEPT !.reqs = Append(@, Req(m.type, m.from))]
    IN  /\ toDir # <<>> /\ ~next /\ Len(toDram) < DramLag
        /\ toDir' = Tail(toDir)
        /\ \E victim \in Victims, stored \in Data :
              /\ stored = "cur" => m.data = "cur"
              /\ Commit(CASE m.type \in {"EX_REQ", "SH_REQ", "UPGRADE_REQ"} ->
                               IF Len(Q.reqs) = 1 THEN ProcessFront(Q, None, victim) ELSE Q
                          [] m.type = "INV_REP" -> ProcessInvRep(DirState, m.from, victim)
                          [] m.type = "FLUSH_REP" -> ProcessFlushRep(DirState, m, victim, stored)
                          [] m.type = "WB_REP" -> ProcessWbRep(DirState, m, victim)
                          [] m.type = "DRAM_READ_REP" -> ProcessDRAMReply(DirState, m))
        /\ UNCHANGED <<config, llcVars, pc, dram>>

\* processNextReqFromL2Cache: the first request is done, on to the next one
NextReq ==
    LET D == [DirState EXCEPT !.reqs = Tail(@), !.next = FALSE]
    IN  /\ next /\ Len(toDram) < DramLag
        /\ \E victim \in Victims :
              Commit(IF D.reqs = <<>> THEN D ELSE ProcessFront(D, None, victim))
        /\ UNCHANGED <<config, llcVars, pc, dram, toDir>>

\* processDirectoryEntryAllocationReq for another line takes this line's entry
Nullify ==
    /\ ~next /\ reqs = <<>> /\ dir # Fresh /\ Len(toDram) < DramLag
    /\ Commit(ProcessNullifyReq([DirState EXCEPT !.reqs = <<Req("NULLIFY_REQ", NoNode)>>]))
    /\ UNCHANGED <<config, llcVars, pc, dram, toDir>>

\* DramCntlrInterface::handleMsgFromTagDirectory
HandleDram ==
    LET m == Head(toDram)
    IN  /\ toDram # <<>>
        /\ toDram' = Tail(toDram)
        /\ IF m.type = "DRAM_READ_REQ"
           THEN toDir' = Append(toDir, Msg("DRAM_READ_REP", NoNode, dram)) /\ dram' = dram
           ELSE dram' = m.data /\ toDir' = toDir
        /\ UNCHANGED <<config, llcVars, pc, dirVars, toLlc, ok>>

-----------------------------------------------------------------------------
UserStep(c) == (\E op \in config.does[c] : Hit(c, op) \/ Miss(c, op)) \/ Prefetch(c) \/ Unlock(c) \/ Request(c)
NetStep(n) == HandleLlc(n) \/ Continue(n)

Next ==
    \/ \E c \in Cores : UserStep(c) \/ EvictL1(c)
    \/ \E n \in Llcs : NetStep(n) \/ EvictLlc(n)
    \/ HandleDir \/ NextReq \/ Nullify \/ HandleDram

Spec == Init /\ [][Next]_vars

\* the network threads of the LLCs, the directory and the DRAM controller keep
\* taking messages, and a woken thread goes on
LiveSpec ==
    /\ Spec
    /\ \A n \in Llcs : WF_vars(NetStep(n))
    /\ WF_vars(HandleDir \/ NextReq) /\ WF_vars(HandleDram)

-----------------------------------------------------------------------------
(* Properties *)

\* The state of the caches, the directory and the messages is of its type.
TypeOK ==
    /\ config \in Configs /\ ok \in BOOLEAN /\ next \in BOOLEAN /\ dram \in Data
    /\ l1 \in [Cores -> [st : {"I", "S", "E", "M"}, data : Data \cup {None}]]
    /\ llc \in [Llcs -> [st : {"I", "S", "SU", "E", "M"}, data : Data \cup {None}]]
    /\ pc \in [Cores -> [at : {"idle", "miss", "wait", "locked"},
                          op : {None, "read", "write", "rmw", "prefetch"}]]
    /\ serving \in [Llcs -> BOOLEAN] /\ waiters \in [Llcs -> Seq(Cores)]
    /\ dir \in [st : {"U", "S", "E", "M"}, sharers : SUBSET Llcs,
               owner : Llcs \cup {NoNode}, fwd : Llcs \cup {NoNode, Garbage}]
    /\ \A q \in {toDir, toDram} \cup {toLlc[n] : n \in Llcs} :
          \A i \in DOMAIN q : q[i].data \in Data \cup {None} /\ q[i].from \in Llcs \cup {NoNode}

\* No assertion of the cache and directory controllers fails, in whatever order
\* requests, evictions, invalidations and upgrades of different caches meet: no
\* reply finds the line in a state it cannot use, no dirty line is dropped by an
\* invalidation, no answer comes from a cache the directory does not list.
AssertionsHold == ok

\* While one last-level cache may write the line (EXCLUSIVE or MODIFIED) no other
\* holds a copy, not even one that an invalidation is still on its way to.
SingleOwner ==
    \A m, n \in Llcs : m # n /\ llc[m].st \in {"E", "M"} => llc[n].st = "I"

\* The hierarchy below an LLC is inclusive, and a dirty first-level copy always
\* has a MODIFIED line to be written back to, and no other dirty copy beside it.
Inclusion ==
    \A c \in Cores :
        LET n == LlcOf[c] IN
        /\ l1[c].st # "I" => llc[n].st # "I"
        /\ l1[c].st = "M" => llc[n].st = "M" /\ \A d \in Near(n) \ {c} : l1[d].st # "M"

\* A copy is never unknown to the directory, and a writable one is its owner's:
\* the directory can always take back what the caches hold.
DirectoryCovers ==
    \A n \in Llcs : /\ llc[n].st # "I" => n \in dir.sharers
                    /\ llc[n].st \in {"E", "M"} => dir.owner = n

Silent == toDir = <<>> /\ toDram = <<>> /\ ~next /\ \A n \in Llcs : toLlc[n] = <<>>

\* Once no message is on its way, no request is left in the directory's queue,
\* nobody waits at a cache, and the directory lists exactly the caches that hold
\* the line: every request was answered and every eviction taken note of.
QuietIsDone ==
    Silent => /\ reqs = <<>>
              /\ \A n \in Llcs : waiters[n] # <<>> => serving[n]
              /\ dir.sharers = {n \in Llcs : llc[n].st # "I"}

\* Caches and directory keep one coherent line: one writer or many readers, known
\* to the directory, with nothing left undone when the messages have settled.
Coherent == AssertionsHold /\ SingleOwner /\ Inclusion /\ DirectoryCovers /\ QuietIsDone

\* the data that the cores below an LLC would read there
View(n) ==
    LET dirty == {c \in Near(n) : l1[c].st = "M"}
    IN  IF dirty = {} THEN llc[n].data ELSE l1[CHOOSE c \in dirty : TRUE].data

\* somewhere there is still the line with every write in it
Kept ==
    \/ dram = "cur" \/ \E c \in Cores : l1[c].data = "cur"
    \/ \E n \in Llcs : llc[n].data = "cur"
    \/ \E q \in {toDir, toDram} \cup {toLlc[n] : n \in Llcs} : \E i \in DOMAIN q : q[i].data = "cur"

\* When the cores only write, or update the line with atomic pairs of accesses,
\* every cache that holds the line holds every earlier write: flushes, evictions
\* and the reads and writes of memory that they race with never lose an update.
UpdatesKept ==
    (\A c \in Cores : config.does[c] \subseteq {"write", "rmw"}) =>
        Kept /\ \A n \in Llcs : llc[n].st # "I" => View(n) = "cur"

\* A core that waits for the directory is woken up: whatever the other cores do,
\* its request is answered and its turn among the waiters of its LLC comes.
Served == \A c \in Cores : pc[c].at = "wait" ~> pc[c].at # "wait"
=============================================================================
