------------------------------ MODULE Directory ------------------------------
(***************************************************************************)
(* The entries of a tag directory: DramDirectoryCache over Directory, and  *)
(* the queues of requests per address (ReqQueueListTemplate) by which      *)
(* DramDirectoryCntlr decides which entries it may take for another        *)
(* address.  The protocol for one address is in Coherence; here a request  *)
(* waits for the invalidations it needs and for data, and then makes its   *)
(* core a sharer.                                                          *)
(***************************************************************************)
EXTENDS Integers, FiniteSetsExt, SequencesExt

CONSTANTS
    Addresses, Cores,
    NumSets, Assoc,
    Pending         \* at most so many requests wait

VARIABLES
    slots,          \* per set, m_directory_entry_list: [addr, sharers] or NoEntry
    replaced,       \* m_replaced_directory_entry_list
    ptr,            \* m_replacement_ptrs
    queue,          \* m_dram_directory_req_queue_list: [type, core] per address
    inv,            \* INV_REQ and FLUSH_REQ on their way, <<address, core>>
    copies,         \* the cores that hold an address
    stuck           \* "Cannot find a directory entry to be replaced..."

vars == <<slots, replaced, ptr, queue, inv, copies, stuck>>

NoEntry == [addr |-> -1, sharers |-> {}]    \* INVALID_ADDRESS
Entry(a) == [addr |-> a, sharers |-> {}]
SplitAddress(a) == a % NumSets
Ways == 0..Assoc - 1

-----------------------------------------------------------------------------
(* DramDirectoryCache.  Places are <<"slot", way>>, <<"replaced", index>> or NULL *)

NULL == <<"none", 0>>
SlotsWith(S, a, addr) == {w \in Ways : S.slots[SplitAddress(a)][w].addr = addr}
ReplacedWith(S, a) == {i \in DOMAIN S.replaced : S.replaced[i].addr = a}

\* the entry of the address, else a free one, else one that is being nullified
GetDirectoryEntry(S, a) ==
    CASE SlotsWith(S, a, a) # {} -> <<"slot", Min(SlotsWith(S, a, a))>>
      [] SlotsWith(S, a, a) = {} /\ SlotsWith(S, a, -1) # {} -> <<"slot", Min(SlotsWith(S, a, -1))>>
      [] SlotsWith(S, a, a) \cup SlotsWith(S, a, -1) = {} /\ ReplacedWith(S, a) # {} ->
            <<"replaced", Min(ReplacedWith(S, a))>>
      [] OTHER -> NULL

\* a free entry takes the address on the way
Allocated(S, a) ==
    LET p == GetDirectoryEntry(S, a)
    IN  IF p[1] = "slot" /\ S.slots[SplitAddress(a)][p[2]].addr = -1
        THEN [S EXCEPT !.slots[SplitAddress(a)][p[2]] = Entry(a)] ELSE S

At(S, a) ==
    LET p == GetDirectoryEntry(S, a)
    IN  IF p[1] = "slot" THEN S.slots[SplitAddress(a)][p[2]]
        ELSE IF p[1] = "replaced" THEN S.replaced[p[2]] ELSE NoEntry

SetSharers(S, a, sharers) ==
    LET p == GetDirectoryEntry(S, a)
    IN  IF p[1] = "slot" THEN [S EXCEPT !.slots[SplitAddress(a)][p[2]].sharers = sharers]
        ELSE [S EXCEPT !.replaced[p[2]].sharers = sharers]

\* the ways of the set, from the pointer on
GetReplacementCandidates(S, a) ==
    [i \in 1..Assoc |-> (i - 1 + S.ptr[SplitAddress(a)]) % Assoc]

ReplaceDirectoryEntry(S, w, a) ==
    LET s == SplitAddress(a)
    IN  [S EXCEPT !.replaced = Append(@, S.slots[s][w]), !.slots[s][w] = Entry(a)]

InvalidateDirectoryEntry(S, a) == [S EXCEPT !.replaced = RemoveAt(@, Min(ReplacedWith(S, a)))]

-----------------------------------------------------------------------------
(* DramDirectoryCntlr *)

Enqueue(S, a, req) == [S EXCEPT !.queue[a] = Append(@, req)]
Dequeue(S, a) == [S EXCEPT !.queue[a] = Tail(@)]
Invalidate(S, a) == [S EXCEPT !.inv = @ \cup {<<a, c>> : c \in At(S, a).sharers}]

ProcessNullifyReq_AtOnce(S, a) == Dequeue(InvalidateDirectoryEntry(S, a), a)
\* Without sharers the entry goes at once.  (The queue is empty then: only the entry of
\* an address without requests is replaced.)
ProcessNullifyReq(S, a) ==
    IF At(S, a).sharers = {} THEN Dequeue(InvalidateDirectoryEntry(S, a), a) ELSE Invalidate(S, a)

\* m_dram_directory_req_queue_list->size(address) == 0
MayReplace(S, s, w) == S.queue[S.slots[s][w].addr] = <<>>

\* the first way, from the pointer on, with the fewest sharers
Fewest(S, s, ways) ==
    FoldLeft(LAMBDA best, w : IF /\ best = -1 \/ Cardinality(S.slots[s][best].sharers) > Cardinality(S.slots[s][w].sharers)
                                 /\ MayReplace(S, s, w)
                              THEN w ELSE best, -1, ways)

ProcessDirectoryEntryAllocationReq(S, a) ==
    LET s == SplitAddress(a)
        w == Fewest(S, s, GetReplacementCandidates(S, a))
        T == [S EXCEPT !.ptr[s] = (@ + 1) % Assoc]
    IN  IF w = -1 THEN [T EXCEPT !.stuck = TRUE]
        ELSE LET old == S.slots[s][w].addr
             IN  ProcessNullifyReq(Enqueue(ReplaceDirectoryEntry(T, w, a), old, [type |-> "nullify", core |-> -1]), old)

\* processExReqFromL2Cache, processShReqFromL2Cache
ProcessReq(S, a) ==
    LET T == Allocated(S, a)
        U == IF GetDirectoryEntry(T, a) = NULL THEN ProcessDirectoryEntryAllocationReq(T, a) ELSE T
    IN  IF ~U.stuck /\ Head(U.queue[a]).type = "ex" THEN Invalidate(U, a) ELSE U

ProcessNextReq(S, a) ==
    LET T == Dequeue(S, a) IN IF T.queue[a] = <<>> THEN T ELSE ProcessReq(T, a)

\* The last sharer is gone: what waited for it goes on
ProcessNullified(S, a) == ProcessNextReq(InvalidateDirectoryEntry(S, a), a)
ProcessInvRep(S, a, c) ==
    LET T == SetSharers(Allocated(S, a), a, At(S, a).sharers \ {c})
    IN  IF T.queue[a] # <<>> /\ Head(T.queue[a]).type = "nullify" /\ At(T, a).sharers = {}
        THEN ProcessNullified(T, a) ELSE T

State == [slots |-> slots, replaced |-> replaced, ptr |-> ptr, queue |-> queue, inv |-> inv, stuck |-> stuck]
Set(S) ==
    /\ slots' = S.slots /\ replaced' = S.replaced /\ ptr' = S.ptr /\ queue' = S.queue
    /\ inv' = S.inv /\ stuck' = S.stuck

-----------------------------------------------------------------------------
(* Messages *)

\* m_replacement_ptrs is not initialised
Init ==
    /\ slots = [s \in 0..NumSets - 1 |-> [w \in Ways |-> NoEntry]]
    /\ replaced = <<>>
    /\ ptr \in [0..NumSets - 1 -> Ways]
    /\ queue = [a \in Addresses |-> <<>>]
    /\ inv = {}
    /\ copies = [a \in Addresses |-> {}]
    /\ stuck = FALSE

Requests == UNION {{<<a, i>> : i \in {j \in DOMAIN queue[a] : queue[a][j].type # "nullify"}} : a \in Addresses}

\* EX_REQ and SH_REQ: the look-up may allocate, the request is processed if it is alone
Request(c, a, type) ==
    /\ ~stuck
    /\ Cardinality(Requests) < Pending
    /\ c \notin copies[a]
    /\ \A i \in DOMAIN queue[a] : queue[a][i].core # c
    /\ LET S == Enqueue(Allocated(State, a), a, [type |-> type, core |-> c])
       IN  Set(IF Len(S.queue[a]) = 1 THEN ProcessReq(S, a) ELSE S)
    /\ UNCHANGED copies

\* The data of the request at the front have come and are sent to its core
Reply(a) ==
    /\ ~stuck
    /\ queue[a] # <<>>
    /\ LET req == Head(queue[a])
           sharers == At(State, a).sharers
       IN  /\ req.type = "sh" \/ (req.type = "ex" /\ sharers = {})
           /\ Set(ProcessNextReq(SetSharers(State, a, sharers \cup {req.core}), a))
           /\ copies' = [copies EXCEPT ![a] = @ \cup {req.core}]

\* A cache gives its copy up, asked to or not: INV_REP or FLUSH_REP.  One that has none
\* does not answer.
GiveUp(c, a) ==
    /\ ~stuck
    /\ c \in copies[a]
    /\ copies' = [copies EXCEPT ![a] = @ \ {c}]
    /\ Set(ProcessInvRep([State EXCEPT !.inv = @ \ {<<a, c>>}], a, c))

Next == \E a \in Addresses :
    \/ Reply(a)
    \/ \E c \in Cores : GiveUp(c, a) \/ \E type \in {"ex", "sh"} : Request(c, a, type)

Spec == Init /\ [][Next]_vars

-----------------------------------------------------------------------------
(* Properties *)

Places(a) == Cardinality(SlotsWith(State, a, a)) + Cardinality(ReplacedWith(State, a))

\* No address has two entries, be it in its set or among those that are being nullified.
OneEntry == \A a \in Addresses : Places(a) <= 1

\* Every core with a copy of an address is a sharer of its entry: taking the entry for
\* another address does not lose a copy.
CopiesAreTracked ==
    \A a \in Addresses : copies[a] # {} => Places(a) = 1 /\ copies[a] \subseteq At(State, a).sharers

\* An entry leaves for good only through the nullify request at the front of its queue:
\* requests that come meanwhile wait behind it, on the old entry.
NullifiedInOrder ==
    \A a \in Addresses :
        /\ ReplacedWith(State, a) # {} <=> (queue[a] # <<>> /\ Head(queue[a]).type = "nullify")
        /\ \A i \in DOMAIN queue[a] : i > 1 => queue[a][i].type # "nullify"

\* The controller only fails to find an entry to replace when there are more addresses
\* with requests than entries in a set.
BusyWhenStuck == stuck => Cardinality({a \in Addresses : queue[a] # <<>>}) > Assoc
=============================================================================
