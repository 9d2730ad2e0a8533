---------------------------- MODULE Prefetchers ----------------------------
(***************************************************************************)
(* The prefetchers of a cache and the queue of what they predict:          *)
(* GhbPrefetcher, a circular buffer of the differences between successive  *)
(* addresses, linked by what came before them; SimplePrefetcher, a stride  *)
(* for each of a few flows; and CacheCntlr::trainPrefetcher and Prefetch,  *)
(* which keep a list of addresses and send them out one by one.  Addresses *)
(* are small integers, PageSize of them to a page.                         *)
(***************************************************************************)
EXTENDS Integers, Sequences, FiniteSets, FiniteSetsExt, SequencesExt

CONSTANTS
    Setups,         \* [pf, size, table, width, depth, own, stop, queue, max], see below
    Cores,
    FirstAddress,   \* the first access of each core
    Deltas,         \* how far the next one is
    PageSize,
    Times,          \* issue times of the accesses that miss
    MaxQueue        \* PREFETCH_MAX_QUEUE_LENGTH

(* A setup: pf is "ghb" (size, table entries, width and depth) or "simple"  *)
(* (size flows, own for flows_per_core, depth prefetches, stop at the page);*)
(* queue says whether accesses may miss; max bounds the accesses.           *)
VARIABLES
    setup,
    pf,             \* the prefetcher's members
    trail,          \* the addresses of each core, all of them so far
    deltas,         \* the differences the prefetcher saw, in order
    list,           \* what getNextAddress returned last
    queue, next,    \* m_prefetch_list and m_prefetch_next
    popped,         \* the address Prefetch took under the lock, or Invalid
    missed,         \* the last miss: its list, its time, and whether misses came in time order
    started         \* the last prefetch: [addr, at, for]

vars == <<setup, pf, trail, deltas, list, queue, next, popped, missed, started>>

Interval == 1
Invalid == 1000     \* INVALID_DELTA and INVALID_INDEX, larger than any other

(* ------------------------------ GhbPrefetcher --------------------------- *)

GhbInit(z) ==
    [last |-> Invalid, head |-> 0, gen |-> 0, tableHead |-> 0,
     ghb |-> [i \in 0 .. z.size - 1 |-> [next |-> Invalid, delta |-> Invalid, gen |-> 0]],
     table |-> [i \in 0 .. z.table - 1 |-> [index |-> Invalid, delta |-> Invalid, gen |-> 0]]]

(* Where the search for a delta stops: at its entry, at a free one, or past the end. *)
Lookup(s, delta) ==
    Min({Cardinality(DOMAIN s.table)} \cup {i \in DOMAIN s.table : s.table[i].delta \in {Invalid, delta}})

Has(s, delta) ==
    LET i == Lookup(s, delta) IN i \in DOMAIN s.table /\ s.table[i].delta = delta

LivePointer_Always(s, i) ==
    TRUE

LivePointer(s, i) ==
    s.table[i].gen = s.ghb[s.table[i].index].gen

(* The addresses that the deltas from entry i on lead to. *)
Ahead(s, address, i) ==
    LET size == setup.size
        At(k) == s.ghb[(i + k) % size].delta
        n == Min({setup.depth} \cup {k \in 0 .. setup.depth - 1 : At(k) = Invalid})
        Sums[k \in 0 .. n] == IF k = 0 THEN address ELSE Sums[k - 1] + At(k - 1)
    IN [k \in 1 .. n |-> Sums[k]]

AddNew(l, new) ==
    FoldLeft(LAMBDA acc, address : IF address \in ToSet(acc) THEN acc ELSE Append(acc, address), l, new)

RECURSIVE Follow(_, _, _, _, _)
Follow(s, address, i, width, l) ==
    IF width = setup.width \/ i = Invalid THEN l
    ELSE LET n == s.ghb[i].next
         IN Follow(s, address,
                   IF (n > i \/ i > s.head) /\ n < s.head THEN Invalid ELSE n,
                   width + 1, AddNew(l, Ahead(s, address, i)))

GhbPredict(s, address, delta) ==
    LET i == Lookup(s, delta)
    IN IF Has(s, delta) /\ LivePointer(s, i) THEN Follow(s, address, s.table[i].index, 0, <<>>)
       ELSE <<>>

(* The entry just written becomes the first of the list of the delta before it. *)
Linked(s, prev) ==
    LET i == Lookup(s, prev)
        entry == [index |-> s.head, delta |-> prev, gen |-> s.gen]
    IN IF prev = Invalid THEN s
       ELSE IF Has(s, prev)
       THEN [s EXCEPT !.ghb[s.head].next = IF LivePointer(s, i) THEN s.table[i].index ELSE Invalid,
                      !.table[i] = entry]
       ELSE [s EXCEPT !.table[s.tableHead] = entry,
                      !.tableHead = (@ + 1) % setup.table]

GhbAdd(s, delta) ==
    LET written == [s EXCEPT !.ghb[s.head] = [next |-> Invalid, delta |-> delta, gen |-> s.gen]]
        prev == written.ghb[IF s.head > 0 THEN s.head - 1 ELSE setup.size - 1].delta
        wraps == s.head + 1 = setup.size
    IN [Linked(written, prev) EXCEPT !.head = IF wraps THEN 0 ELSE @ + 1,
                                     !.gen = IF wraps THEN (@ + 1) % 4 ELSE @]

GhbNextAddress(s, address) ==
    IF s.last = Invalid
    THEN [pf |-> [s EXCEPT !.last = address], list |-> <<>>]
    ELSE LET delta == address - s.last
         IN [pf |-> GhbAdd([s EXCEPT !.last = address], delta), list |-> GhbPredict(s, address, delta)]

(* ----------------------------- SimplePrefetcher ------------------------- *)

SimpleInit(z) ==
    [next |-> 0, prev |-> [c \in (IF z.own THEN Cores ELSE {0}) |-> [i \in 0 .. z.size - 1 |-> 0]]]

Page(address) == address \div PageSize

SimpleRow(core) == IF setup.own THEN core ELSE 0

(* The nearest flow less than a page away, the first of those equally near;  *)
(* without one, the flow whose turn it is.                                   *)
SimpleFlow(s, core, address) ==
    LET prev == s.prev[SimpleRow(core)]
        Dist(i) == IF address > prev[i] THEN address - prev[i] ELSE prev[i] - address
        near == {i \in DOMAIN prev : Dist(i) < PageSize}
    IN IF near = {} THEN s.next
       ELSE Min({i \in near : \A k \in near : Dist(i) <= Dist(k)})

SimpleNextAddress(s, core, address) ==
    LET row == SimpleRow(core)
        flow == SimpleFlow(s, core, address)
        stride == address - s.prev[row][flow]
        all == [i \in 1 .. setup.depth |-> address + (i - 1) * stride]
    IN [pf |-> [s EXCEPT !.next = (@ + 1) % setup.size, !.prev[row][flow] = address],
        list |-> IF stride = 0 THEN <<>>
                 ELSE SelectSeq(all, LAMBDA x : ~setup.stop \/ Page(x) = Page(address))]

getNextAddress(core, address) ==
    IF setup.pf = "ghb" THEN GhbNextAddress(pf, address)
    ELSE SimpleNextAddress(pf, core, address)

(* ------------------------------ CacheCntlr ------------------------------ *)

Init ==
    /\ setup \in Setups
    /\ pf = IF setup.pf = "ghb" THEN GhbInit(setup) ELSE SimpleInit(setup)
    /\ trail = [c \in Cores |-> <<>>]
    /\ deltas = <<>>
    /\ list = <<>>
    /\ queue = <<>> /\ next = 0 /\ popped = Invalid
    /\ missed = [list |-> <<>>, at |-> 0, ordered |-> TRUE]
    /\ started = [addr |-> Invalid, at |-> 0, miss |-> 0]

Address(core) ==
    IF trail[core] = <<>> THEN {FirstAddress[core]}
    ELSE {Last(trail[core]) + d : d \in Deltas}

(* What a miss leaves in the queue when the lines of cached are in the cache: the loop *)
(* looks at the length before each address it takes.                                   *)
Queued(l, cached) ==
    LET wanted == SelectSeq(l, LAMBDA x : x \notin cached)
    IN SubSeq(wanted, 1, Min({Len(wanted), MaxQueue + 1}))

(* m_prefetch_list.clear(), then what the prefetcher predicts now. *)
Requeue(l, cached) == Queued(l, cached)

trainPrefetcher(core) ==
    /\ FoldFunction(LAMBDA t, n : Len(t) + n, 0, trail) < setup.max
    /\ \E address \in Address(core) :
         LET got == getNextAddress(core, address)
         IN /\ pf' = got.pf
            /\ list' = got.list
            /\ trail' = [trail EXCEPT ![core] = Append(@, address)]
            /\ deltas' = IF setup.pf = "ghb" /\ pf.last # Invalid THEN Append(deltas, address - pf.last) ELSE deltas
            /\ \/ UNCHANGED <<queue, next, missed>>
               \/ /\ setup.queue
                  /\ \E t \in Times, cached \in SUBSET ToSet(got.list) :
                       /\ queue' = Requeue(got.list, cached)
                       /\ next' = t + Interval
                       /\ missed' = [list |-> got.list, at |-> t, ordered |-> missed.ordered /\ t >= missed.at]
    /\ UNCHANGED <<setup, popped, started>>

(* Prefetch, under the lock: the first address that is still not in the cache. *)
Pop(t_now) ==
    /\ popped = Invalid /\ next <= t_now
    /\ \E n \in 1 .. Len(queue) :
         /\ queue' = SubSeq(queue, n + 1, Len(queue))
         /\ popped' \in {queue[n]} \cup (IF n = Len(queue) THEN {Invalid} ELSE {})
    /\ started' = [started EXCEPT !.addr = Invalid, !.miss = missed.at]
    /\ UNCHANGED <<setup, pf, trail, deltas, list, next, missed>>

StartAt == next

(* After the lock: the prefetch starts at m_prefetch_next as it is by now. *)
Start ==
    /\ popped # Invalid
    /\ started' = [started EXCEPT !.addr = popped, !.at = StartAt]
    /\ next' = next + Interval
    /\ popped' = Invalid
    /\ UNCHANGED <<setup, pf, trail, deltas, list, queue, missed>>

Next ==
    \/ \E core \in Cores : trainPrefetcher(core)
    \/ \E t_now \in Times : Pop(t_now)
    \/ Start

Spec == Init /\ [][Next]_vars

(* ------------------------------ Properties ------------------------------ *)

(* What the buffer knew when the last address came: the differences before this one. *)
Before == Front(deltas)
(* Where, in the history, a difference stands that followed one equal to this one. *)
Followers == {q \in 2 .. Len(Before) : Before[q - 1] = Last(deltas)}
Current == pf.last
Roomy == Cardinality(ToSet(deltas)) <= setup.table

(* GhbPrefetcher::getNextAddress: the first address it predicts is the one that follows *)
(* from the latest earlier time the same difference was seen, predicted just when that  *)
(* entry is still in the circular buffer: the generation numbers tell an entry that has *)
(* been overwritten from one that has not (for fewer than four rounds of the buffer,    *)
(* after which the two-bit number comes back to the same value).                        *)
LatestFollowerFirst ==
    (setup.pf = "ghb" /\ deltas # <<>>) =>
        IF Followers = {} THEN list = <<>>
        ELSE LET f == Max(Followers)
                 kept == f > Len(Before) - setup.size
             IN /\ (list # <<>> /\ Len(Before) - f < 4 * setup.size)
                     => (kept /\ Head(list) = Current + Before[f])
                /\ (kept /\ Roomy) => list # <<>>

(* The addresses that the history from one position on leads to. *)
Runs(f) ==
    LET n == Min({setup.depth, Len(Before) - f + 1})
    IN [k \in 1 .. n |-> Current + FoldLeft(LAMBDA x, y : x + y, 0, SubSeq(Before, f, f + k - 1))]

(* GhbPrefetcher::getNextAddress, until the buffer is full for the first time: the list *)
(* is the one read off the whole history, the latest width occurrences first, depth     *)
(* differences of each, no address twice.                                               *)
PredictsHistory ==
    (setup.pf = "ghb" /\ deltas # <<>> /\ Len(Before) < setup.size /\ Roomy) =>
        LET newest == Reverse(SetToSortSeq(Followers, <))
            used == SubSeq(newest, 1, Min({setup.width, Len(newest)}))
        IN list = FoldLeft(LAMBDA acc, f : AddNew(acc, Runs(f)), <<>>, used)

(* SimplePrefetcher with flows_per_core: the only flow of a core that walks with one     *)
(* stride is its own walk, whatever the other cores do in between, although they share   *)
(* the turn (n_flow_next) that picks the flow to replace: its next step is predicted     *)
(* from its own last one.                                                                *)
StreamsApart ==
    (setup.pf = "simple" /\ setup.own) =>
        \A c \in Cores :
            LET walk == trail[c]
                d == IF Len(walk) > 1 THEN walk[2] - walk[1] ELSE 0
                flow == {i \in DOMAIN pf.prev[c] : pf.prev[c][i] # 0}
            IN (d # 0 /\ d < PageSize /\ \A i \in 2 .. Len(walk) : walk[i] - walk[i - 1] = d)
                 => /\ {pf.prev[c][i] : i \in flow} = {Last(walk)}
                    /\ Cardinality(flow) = 1

(* CacheCntlr::trainPrefetcher and Prefetch: what is queued was predicted at the latest *)
(* miss, in that order; a new miss leaves nothing of an older prediction behind.        *)
QueueFromLatestMiss ==
    \E chosen \in SUBSET (DOMAIN missed.list) :
        queue = [i \in 1 .. Cardinality(chosen) |-> missed.list[SetToSortSeq(chosen, <)[i]]]

(* CacheCntlr::Prefetch: as long as misses come in time order, a prefetch starts an      *)
(* interval or more after the miss it was predicted at, although m_prefetch_next is read *)
(* again after the lock was given up.                                                    *)
StartsAfterMiss ==
    (missed.ordered /\ started.addr # Invalid) => started.at >= started.miss + Interval
=============================================================================
