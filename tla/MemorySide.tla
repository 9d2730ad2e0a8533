----------------------------- MODULE MemorySide -----------------------------
(***************************************************************************)
(* What lies behind a tag directory: a slice of the NUCA cache, the cache  *)
(* in front of a DRAM controller with its prefetcher, and the DRAM.  A     *)
(* cache is one lru set (CacheSets): the sequence of its lines, latest     *)
(* used first.  The data are left out (the simulator keeps them only with  *)
(* fault injection); what counts is whether a write is still to be made.   *)
(* ShmemPerf splits the time of a read among its reasons.                  *)
(***************************************************************************)
EXTENDS ContentionModel, SequencesExt

CONSTANTS
    Setups,         \* [nuca, cache, queue, prefetches]: which caches there are, and queue models
    Addresses,
    Strays,         \* those an uninitialised address may be
    Assoc,
    TagsTime, DataTime, BusTime, DramTime,
    Delays,         \* what a queue model may answer
    Mshrs,          \* 16 in the code
    MaxTime,
    Homes           \* configurations of AddressHomeLookup: [modules, bits, block, sets]

VARIABLES
    setup,
    nuca, cache,    \* sequences of lines [addr, mod, pf]
    mshr,           \* m_prefetch_mshr
    now,
    perf,           \* of the last read: [begin, last, times]
    stats,
    owed,           \* what happened: addresses whose latest data are still to be written to DRAM,
    due,            \* when the prefetch of an address arrives (0: the MSHRs do not know),
    last            \* and the last read: [end, early]

vars == <<setup, nuca, cache, mshr, now, perf, stats, owed, due, last>>
Reasons == {"tags", "queue", "bus", "data", "dram", "unknown"}

-----------------------------------------------------------------------------
(* ShmemPerf *)

Perf(t) == [begin |-> t, last |-> t, times |-> [r \in Reasons |-> 0]]

\* duplicate paths and stale updates are ignored
UpdateTime(p, t, r) ==
    IF t > p.last THEN [p EXCEPT !.times[r] = @ + t - p.last, !.last = t] ELSE p

-----------------------------------------------------------------------------
(* Lines *)

Holds(c, a) == \E i \in DOMAIN c : c[i].addr = a
LineOf(c, a) == c[CHOOSE i \in DOMAIN c : c[i].addr = a]
Without(c, a) == SelectSeq(c, LAMBDA x : x.addr # a)
ToFront(c, line) == <<line>> \o Without(c, line.addr)
Full(c) == Len(c) = Assoc
Line(a, mod) == [addr |-> a, mod |-> mod, pf |-> FALSE]
InsertLine(c, line) == <<line>> \o (IF Full(c) THEN Front(c) ELSE c)

\* accessDataArray: waiting, the transfer, the access
DataArray(p, t, wait) ==
    UpdateTime(UpdateTime(UpdateTime(p, t, "unknown"), t + wait, "queue"), t + wait + BusTime, "bus")
DataArrayTime(wait) == wait + BusTime + DataTime

-----------------------------------------------------------------------------
(* DramCache, over M = [nuca, cache, mshr, owed, due, stats, early] *)

\* m_dram_cntlr->putDataToDram of the line that goes (with the buffer of the line that
\* comes)
PutVictim(M) ==
    IF Full(M.cache) /\ Last(M.cache).mod
    THEN [M EXCEPT !.owed = @ \ {Last(M.cache).addr}]
    ELSE M

CacheInsert(M, line) == [PutVictim(M) EXCEPT !.cache = InsertLine(M.cache, line)]

\* until when the access waits for a prefetch that is on its way
TagCompletion(q, a) ==
    LET with == {i \in DOMAIN q.tag : q.tag[i] = a}
    IN  IF with = {} THEN 0 ELSE q.time[Min(with)]

HitTime(M, a, t) ==
    IF LineOf(M.cache, a).pf THEN Max({t + TagsTime, TagCompletion(M.mshr, a)}) ELSE t + TagsTime

Used(line, mod) == [line EXCEPT !.pf = FALSE, !.mod = @ \/ mod]

CacheHit(M, a, mod, t) ==
    LET line == LineOf(M.cache, a)
    IN  [M EXCEPT !.cache = ToFront(@, Used(line, mod)),
                  !.stats.useful = IF line.pf THEN @ + 1 ELSE @,
                  !.early = line.pf /\ HitTime(M, a, t) < M.due[a]]

\* one prefetch of callPrefetcher
PrefetchLine(M, a, t) ==
    IF Holds(M.cache, a) THEN M
    ELSE LET line == [Line(a, FALSE) EXCEPT !.pf = TRUE]
             q == Occupy(M.mshr, t, DramTime, a)
         IN  [CacheInsert(M, line) EXCEPT
                 !.mshr = q,
                 !.due[a] = IF q # M.mshr /\ ~HasTag(M.mshr, a) THEN CompletionTime(M.mshr, t, DramTime) ELSE 0,
                 !.stats.prefetches = @ + 1]

\* only on a miss, or a hit of a line that the prefetcher brought
CallPrefetcher(M, list, hit, useful, t) ==
    IF hit /\ ~useful THEN M ELSE FoldLeft(LAMBDA m, a : PrefetchLine(m, a, t), M, list)

\* doAccess: what it changes, the time it ends and the split of the time
DoAccess(M, a, mod, t, p0, list, wait) ==
    LET hit == Holds(M.cache, a)
        pf == hit /\ LineOf(M.cache, a).pf
        p1 == UpdateTime(UpdateTime(p0, t, "unknown"), t + TagsTime, "tags")
        end == CASE hit -> HitTime(M, a, t) + DataArrayTime(wait)
                 [] ~hit /\ mod -> t + TagsTime
                 [] ~hit /\ ~mod -> t + TagsTime + DramTime
        p == IF hit THEN UpdateTime(DataArray(p1, HitTime(M, a, t), wait), end, "data")
             ELSE UpdateTime(p1, end, "dram")
        N == IF hit THEN CacheHit(M, a, mod, t)
             ELSE CacheInsert(M, Line(a, mod))
    IN  [m |-> CallPrefetcher(N, list, hit, pf, end), end |-> end, perf |-> p]

\* The DRAM controller, with or without the cache in front
DramAccess(M, a, mod, t, p, list, wait) ==
    IF setup.cache THEN DoAccess(M, a, mod, t, p, list, wait)
    ELSE [m |-> IF mod THEN [M EXCEPT !.owed = @ \ {a}] ELSE M,
          end |-> t + DramTime, perf |-> UpdateTime(p, t + DramTime, "dram")]

-----------------------------------------------------------------------------
(* NucaCache *)

NucaWriteHit(M, a) == [M EXCEPT !.nuca = ToFront(@, Line(a, TRUE))]

\* A victim goes to DRAM
Victim(M, a, t) == DramAccess(M, a, TRUE, t, Perf(t), <<>>, 0).m

\* A write that NUCA holds leaves "eviction" and the rest uninitialised: any address may
\* be written with anything, as if it were a victim
Stray(M, a, t) == [Victim(M, a, t) EXCEPT !.owed = @ \cup (M.owed \cap {a})]

\* DramDirectoryCntlr::sendDataToNUCA with NucaCache::write: a line that is inserted is
\* not dirty, whoever wrote it, and only a dirty victim goes on to DRAM
SendDataToNuca(M, a, t) ==
    IF Holds(M.nuca, a)
    THEN LET N == NucaWriteHit(M, a) IN {N} \cup {Stray(N, b, t) : b \in Strays}
    ELSE LET N == [M EXCEPT !.nuca = InsertLine(@, Line(a, FALSE))]
         IN  {IF Full(M.nuca) /\ Last(M.nuca).mod THEN Victim(N, Last(M.nuca).addr, t) ELSE N}

\* NucaCache::read, on a hit
NucaRead(M, a, t, wait) ==
    LET p1 == UpdateTime(UpdateTime(Perf(t), t, "unknown"), t + TagsTime, "tags")
        start == t + TagsTime
        end == start + DataArrayTime(wait)
    IN  [m |-> [M EXCEPT !.nuca = ToFront(@, LineOf(@, a))],
         end |-> end, perf |-> UpdateTime(DataArray(p1, start, wait), end, "data")]

-----------------------------------------------------------------------------
(* The requests of the directory *)

State == [nuca |-> nuca, cache |-> cache, mshr |-> mshr, owed |-> owed, due |-> due,
          stats |-> stats, early |-> FALSE]
Set(M) ==
    /\ nuca' = M.nuca /\ cache' = M.cache /\ mshr' = M.mshr
    /\ owed' = M.owed /\ due' = M.due /\ stats' = M.stats

Init ==
    /\ setup \in Setups
    /\ nuca = <<>> /\ cache = <<>>
    /\ mshr = NewQueue(Mshrs)
    /\ now = 1
    /\ perf = Perf(1)
    /\ stats = [prefetches |-> 0, useful |-> 0]
    /\ owed = {}
    /\ due = [a \in Addresses |-> 0]
    /\ last = [end |-> 1, early |-> FALSE]

Waits == IF setup.queue THEN Delays ELSE {0}
Lists(a) ==
    IF setup.cache /\ stats.prefetches < setup.prefetches THEN {<<>>} \cup {<<b>> : b \in Addresses \ {a}} ELSE {<<>>}

\* A line is fetched for a cache: from the NUCA slice, else from DRAM and into NUCA
Fetch(a) ==
    \E wait \in Waits, list \in Lists(a) :
        LET p == UpdateTime(Perf(now), now + TagsTime, "tags")
            missed == IF setup.nuca THEN now + TagsTime ELSE now
            R == IF Holds(nuca, a) THEN NucaRead(State, a, now, wait)
                 ELSE DramAccess(State, a, FALSE, missed, IF setup.nuca THEN p ELSE Perf(now), list, wait)
            after == IF setup.nuca /\ ~Holds(nuca, a) THEN SendDataToNuca(R.m, a, R.end) ELSE {R.m}
        IN  /\ \E M \in after : Set(M)
            /\ perf' = R.perf
            /\ last' = [end |-> R.end, early |-> R.m.early]
            /\ UNCHANGED <<setup, now>>

\* The last copy of a line comes back changed: sendDataToDram
WriteBack(a) ==
    LET S == [State EXCEPT !.owed = IF setup.nuca /\ ~Holds(nuca, a) THEN @ \ {a} ELSE @ \cup {a}]
        without == {DramAccess(S, a, TRUE, now, Perf(now), list, 0).m : list \in Lists(a)}
    IN  /\ \E M \in IF setup.nuca THEN SendDataToNuca(S, a, now) ELSE without : Set(M)
        /\ UNCHANGED <<setup, now, perf, last>>

Tick ==
    /\ now < MaxTime
    /\ now' = now + 1
    /\ UNCHANGED <<setup, nuca, cache, mshr, perf, stats, owed, due, last>>

Next == Tick \/ \E a \in Addresses : Fetch(a) \/ WriteBack(a)

Spec == Init /\ [][Next]_vars

-----------------------------------------------------------------------------
(* AddressHomeLookup and CacheBase::splitAddress, on block numbers *)

HomeOf(h, b) == (b \div 2^(h.bits - h.block)) % h.modules
LinearBlock(h, b) ==
    LET inner == 2^(h.bits - h.block)
    IN  ((b \div inner) \div h.modules) * inner + (b % inner)

\* HASH_MASK and HASH_MOD of the linear address
SetIndex(h, b) == LinearBlock(h, b) % h.sets

-----------------------------------------------------------------------------
(* Properties *)

\* Data that came back and are not in DRAM yet are in a line that is dirty: when it is
\* replaced the write to DRAM is still made.  (Except for data that NUCA takes on a
\* miss: it inserts every line clean.)
DirtyIsNotForgotten ==
    \A a \in owed : \/ Holds(nuca, a) /\ LineOf(nuca, a).mod
                    \/ Holds(cache, a) /\ LineOf(cache, a).mod

\* The reasons of ShmemPerf add up to the latency of the read, whether the line was in
\* NUCA, in the DRAM cache, on its way or in DRAM.
TimeIsAccountedFor ==
    /\ MapThenSumSet(LAMBDA r : perf.times[r], Reasons) = perf.last - perf.begin
    /\ perf.last = last.end

\* A read of a line that was prefetched does not end before the prefetch does.  (Unless
\* the MSHRs lost it: they take no prefetch out of the order of time, and of two of
\* one line they answer for the first.)
PrefetchIsAwaited == ~last.early

\* A prefetch counts as useful at most once.
UsefulOnce == stats.useful <= stats.prefetches

\* Every block of memory is the only one at its home with its linear number, and each
\* slice uses all of its sets.
HomesSpread ==
    now = 1 /\ last.end = 1 /\ nuca = <<>> /\ cache = <<>> => \A h \in Homes :
        LET blocks == 0..(h.modules * h.sets * 2^(h.bits - h.block) - 1)
        IN  /\ \A b, c \in blocks : HomeOf(h, b) = HomeOf(h, c) /\ LinearBlock(h, b) = LinearBlock(h, c) => b = c
            /\ \A m \in 0..h.modules - 1 :
                  {SetIndex(h, b) : b \in {x \in blocks : HomeOf(h, x) = m}} = 0..h.sets - 1
=============================================================================
