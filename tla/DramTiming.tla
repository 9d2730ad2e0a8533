----------------------------- MODULE DramTiming -----------------------------
(***************************************************************************)
(* The time a DRAM access takes: the performance models of a DRAM          *)
(* controller (constant or normal, and readwrite) over the queue models    *)
(* (history_list, basic, contention, windowed_mg1).  Cores run with loose  *)
(* synchronisation, so requests arrive in no particular order of time.     *)
(* Times are SubsecondTime, unsigned: differences wrap around.             *)
(***************************************************************************)
EXTENDS ContentionModel, SequencesExt

CONSTANTS
    Setups,       \* [model, dram, sizes, min, analytical, mean, times, backup]
    TimeBits,     \* width of a SubsecondTime, 64 in the code
    MaxIntervals, \* queue_model/history_list/max_list_size
    MeanWindow,   \* moving_avg_window_size
    Window,       \* queue_model/windowed_mg1/window_size
    Quantum,      \* of the barrier, which moves the global time
    MaxRequests, MaxTime

VARIABLES
    setup,
    queue,      \* the queue model of the reads (of everything, unless dram is readwrite) and of the writes
    global,     \* getGlobalTime()
    served      \* what happened: the requests in the order the queue models saw them

vars == <<setup, queue, global, served>>

Sub(a, b) == (a - b) % 2^TimeBits
Reads == "read"
Writes == "write"

-----------------------------------------------------------------------------
(* MovingAverage: a ring of MeanWindow + 1 places, and for the mean its sum *)

NewRing == [list |-> [i \in 0..MeanWindow |-> 0], front |-> 0, back |-> 0, sum |-> 0]
Next1(i) == (i + 1) % (MeanWindow + 1)
RingSize(r) == (r.back - r.front) % (MeanWindow + 1)

AddToWindow(r, x) ==
    [r EXCEPT !.list[r.back] = x,
              !.back = Next1(r.back),
              !.front = IF Next1(r.back) = r.front THEN Next1(r.front) ELSE r.front]

\* MovingArithmeticMean::update
MeanUpdate(r, x) ==
    LET old == IF RingSize(r) = MeanWindow THEN r.list[r.front] ELSE 0
    IN  AddToWindow([r EXCEPT !.sum = Sub(r.sum, old) + x], x)

Mean(r) == r.sum \div RingSize(r)

-----------------------------------------------------------------------------
(* QueueModelHistoryList: the intervals in which the resource is free *)

\* A request that fits in an interval is served at once; one that comes before an
\* interval is served when that begins, whether it fits or not.
Fits(interval, t, p) == t >= interval[1] /\ t + p <= interval[2]
Place(free, t, p) ==
    LET ok == {i \in DOMAIN free : Fits(free[i], t, p) \/ t < free[i][1]}
    IN  IF ok = {} THEN 0 ELSE Min(ok)

\* What is left of the interval before and after the request, if it is worth keeping
Before(interval, t, min) == IF t - interval[1] >= min THEN <<<<interval[1], t>>>> ELSE <<>>
After(interval, end, min) == IF Sub(interval[2], end) >= min THEN <<<<end, interval[2]>>>> ELSE <<>>

Rest(interval, t, p, min) ==
    IF Fits(interval, t, p)
    THEN Before(interval, t, min) \o After(interval, t + p, min)
    ELSE After(interval, interval[1] + p, min)

Trim_Newest(free) == IF Len(free) > MaxIntervals THEN SubSeq(free, 1, Len(free) - 1) ELSE free

\* Only the oldest interval is forgotten.
Trim(free) == IF Len(free) > MaxIntervals THEN Tail(free) ELSE free

\* computeUsingHistoryList; the delay is -1 if no interval was found
HistoryList(q, t, p, min) ==
    LET i == Place(q.free, t, p)
        interval == q.free[i]
        delay == IF Fits(interval, t, p) THEN 0 ELSE interval[1] - t
    IN  IF i = 0 THEN [q |-> q, delay |-> -1, how |-> "none"]
        ELSE [q |-> [q EXCEPT !.free = Trim(SubSeq(q.free, 1, i - 1) \o Rest(interval, t, p, min)
                                        \o SubSeq(q.free, i + 1, Len(q.free))),
                              !.mean = MeanUpdate(q.mean, delay)],
              delay |-> delay, how |-> "list"]

\* computeQueueDelay: a packet older than anything remembered gets the average delay
ComputeHistory(q, t, p) ==
    IF setup.analytical /\ t + p <= q.free[1][1]
    THEN [q |-> q, delay |-> Mean(q.mean), how |-> "average"]
    ELSE HistoryList(q, t, p, setup.min)

-----------------------------------------------------------------------------
(* QueueModelBasic: the time until which the resource is taken *)

ComputeBasic(q, t, p) ==
    LET mean == IF setup.mean THEN MeanUpdate(q.mean, t) ELSE q.mean
        ref == IF setup.mean THEN Mean(mean) ELSE t
    IN  [q |-> [q EXCEPT !.mean = mean, !.until = Max({q.until, ref}) + p],
         delay |-> IF q.until > ref THEN q.until - ref ELSE 0,
         how |-> IF setup.mean THEN "mean" ELSE "list"]

-----------------------------------------------------------------------------
(* QueueModelContention: a ContentionModel of one unit, which serves a packet *)
(* that is out of order, or at time zero, without taking the unit             *)

ComputeContention(q, t, p) ==
    [q |-> [q EXCEPT !.unit = Occupy(q.unit, t, p, 0)],
     delay |-> CompletionTime(q.unit, t, p) - t - p,
     how |-> IF t = 0 \/ OutOfOrder(q.unit, t) THEN "unordered" ELSE "list"]

-----------------------------------------------------------------------------
(* QueueModelWindowedMG1: the requests of the last window, in the order of their times *)

\* removeItems and addItem
RemoveItems(w, earliest) ==
    LET old == SelectSeq(w.items, LAMBDA x : x[1] < earliest)
    IN  [items |-> SelectSeq(w.items, LAMBDA x : x[1] >= earliest),
         num   |-> w.num - Len(old),
         sum   |-> w.sum - FoldSeq(LAMBDA x, a : x[2] + a, 0, old),
         sum2  |-> w.sum2 - FoldSeq(LAMBDA x, a : x[2] * x[2] + a, 0, old)]
AddItem(w, t, p) ==
    [items |-> SelectSeq(w.items, LAMBDA x : x[1] <= t) \o <<<<t, p>>>>
                 \o SelectSeq(w.items, LAMBDA x : x[1] > t),
     num   |-> w.num + 1,
     sum   |-> w.sum + p,
     sum2  |-> w.sum2 + p * p]

\* The delay of an M/G/1 queue with the arrivals and the utilisation of the window,
\* the utilisation no more than 0.99, the delay no longer than the window
QueueTime(w) ==
    LET rateEs2 == w.num * (w.sum2 \div w.num)
    IN  Min({Window, IF 100 * w.sum > 99 * Window THEN (50 * rateEs2) \div Window
                     ELSE rateEs2 \div (2 * (Window - w.sum))})

\* No thread is earlier than the global time; the other bound is a fallback.
Earliest(t) == Max({Sub(global, Window), Sub(t, setup.backup * Window)})

ComputeWindowed(q, t, p) ==
    LET w == RemoveItems(q.window, Earliest(t))
    IN  [q |-> [q EXCEPT !.window = AddItem(w, t, p)],
         delay |-> IF w.num > 1 THEN QueueTime(w) ELSE 0, how |-> "window"]

-----------------------------------------------------------------------------
(* The DRAM performance models *)

\* QueueModel::create
NewModel ==
    CASE setup.model = "history" -> [free |-> <<<<0, 2^(TimeBits - 1)>>>>, mean |-> NewRing]
      [] setup.model = "basic" -> [until |-> 0, mean |-> NewRing]
      [] setup.model = "contention" -> [unit |-> NewQueue(1)]
      [] setup.model = "windowed" -> [window |-> [items |-> <<>>, num |-> 0, sum |-> 0, sum2 |-> 0]]

ComputeQueueDelay(q, t, p) ==
    CASE setup.model = "history" -> ComputeHistory(q, t, p)
      [] setup.model = "basic" -> ComputeBasic(q, t, p)
      [] setup.model = "contention" -> ComputeContention(q, t, p)
      [] setup.model = "windowed" -> ComputeWindowed(q, t, p)

Served(queues, type, t, p, r) ==
    served' = Append(served, [type |-> type, queues |-> queues, t |-> t, p |-> p, delay |-> r.delay, how |-> r.how,
                              settled |-> global >= Max({1, setup.backup}) * Window])

\* DramPerfModelConstant and DramPerfModelNormal: one queue for everything
AccessOneQueue(type, t, p) ==
    LET r == ComputeQueueDelay(queue[Reads], t, p)
    IN  /\ setup.dram = "constant"
        /\ queue' = [queue EXCEPT ![Reads] = r.q]
        /\ Served({Reads}, type, t, p, r)

\* DramPerfModelReadWrite: reads wait for reads only, and if the two share the
\* bandwidth they also take their place in the queue of the writes.
AccessReadWrite(type, t, p) ==
    LET r == ComputeQueueDelay(queue[type], t, p)
        w == ComputeQueueDelay(queue[Writes], t, p)
        both == type = Reads /\ setup.dram = "shared"
    IN  /\ setup.dram \in {"split", "shared"}
        /\ queue' = IF both THEN [queue EXCEPT ![Reads] = r.q, ![Writes] = w.q]
                    ELSE [queue EXCEPT ![type] = r.q]
        /\ Served(IF both THEN {Reads, Writes} ELSE {type}, type, t, p, r)

GetAccessLatency(type, t, p) ==
    /\ Len(served) < MaxRequests
    /\ AccessOneQueue(type, t, p) \/ AccessReadWrite(type, t, p)
    /\ UNCHANGED <<setup, global>>

\* The barrier lets the cores run for another quantum.
Tick ==
    /\ setup.model = "windowed" /\ global + Quantum <= MaxTime
    /\ global' = global + Quantum
    /\ UNCHANGED <<setup, queue, served>>

Init ==
    /\ setup \in Setups
    /\ queue = [type \in {Reads, Writes} |-> NewModel]
    /\ global = 0
    /\ served = <<>>

\* With a barrier no request is earlier than the global time, nor a quantum later.
Next ==
    \/ \E type \in (IF setup.dram = "constant" THEN {Reads} ELSE {Reads, Writes}), t \in setup.times, p \in setup.sizes :
         (setup.model = "windowed" => t \in global..(global + Quantum)) /\ GetAccessLatency(type, t, p)
    \/ Tick

Spec == Init /\ [][Next]_vars

-----------------------------------------------------------------------------
(* Properties *)

Indices == DOMAIN served
Start(i) == served[i].t + served[i].delay
End(i) == Start(i) + served[i].p
Overlap(i, j) == Start(i) < End(j) /\ Start(j) < End(i)

\* Requests all as long as min_processing_time
Uniform == setup.sizes = {setup.min}

\* Two requests that a history list, or a queue in order, scheduled never use the
\* bus at the same time, whatever the order they came in and however much of the
\* past was forgotten (computeUsingHistoryList, QueueModelBasic, QueueModelContention).
\* It takes requests of one size: one that is longer than the free interval before
\* which it comes is served there all the same.
BusExclusive ==
    Uniform => \A i, j \in Indices :
        /\ i # j /\ served[i].how = "list" /\ served[j].how = "list"
        /\ served[i].type = served[j].type
        => ~Overlap(i, j)

\* No request waits while the bus is free for it: it could not have been served at
\* an earlier time (computeUsingHistoryList, as long as nothing was forgotten).
NoIdleWait ==
    Uniform /\ setup.model = "history" => \A i \in Indices : served[i].how = "list" /\ i <= MaxIntervals =>
        \A s \in served[i].t..(Start(i) - 1) :
            \E j \in 1..(i - 1) : served[j].type = served[i].type /\ s < End(j) /\ Start(j) < s + served[i].p

\* Some free interval is always found and the list keeps its size, for requests of
\* any size (the assertions of computeQueueDelay and computeUsingHistoryList).
IntervalFound ==
    setup.model = "history" =>
        /\ \A i \in Indices : served[i].delay >= 0
        /\ \A type \in {Reads, Writes} : Len(queue[type].free) \in 1..MaxIntervals

\* When reads and writes share the bandwidth a write is never scheduled on the bus
\* together with a read that came before it (DramPerfModelReadWrite).
WritesYield ==
    Uniform /\ setup.dram = "shared" /\ setup.model = "basic" =>
        \A i, j \in Indices : i < j /\ served[i].type = Reads /\ served[j].type = Writes =>
            Start(j) >= served[i].t + served[i].p

\* The mean of a MovingAverage is that of the latest MeanWindow numbers (the ring
\* and its running sum, MovingArithmeticMean): of the times that QueueModelBasic saw.
MeanOfLatest ==
    setup.model = "basic" /\ setup.mean => \A type \in {Reads, Writes} :
        LET mine == SelectSeq(served, LAMBDA x : type \in x.queues)
            last == SubSeq(mine, Max({1, Len(mine) - MeanWindow + 1}), Len(mine))
        IN  /\ queue[type].mean.sum = FoldSeq(LAMBDA x, a : x.t + a, 0, last)
            /\ RingSize(queue[type].mean) = Len(last)

\* The sums of the window are those of its items, and once the simulation is past
\* its first windows no request within the window is forgotten
\* (QueueModelWindowedMG1: removeItems and addItem).
WindowKept ==
    setup.model = "windowed" => \A type \in {Reads, Writes} :
        LET w == queue[type].window
            recent == SelectSeq(served, LAMBDA x : type \in x.queues /\ x.settled /\ x.t >= global - Window)
        IN  /\ w.num = Len(w.items)
            /\ w.sum = FoldSeq(LAMBDA x, a : x[2] + a, 0, w.items)
            /\ w.sum2 = FoldSeq(LAMBDA x, a : x[2] * x[2] + a, 0, w.items)
            /\ \A k \in DOMAIN recent : \E l \in DOMAIN w.items : w.items[l] = <<recent[k].t, recent[k].p>>
=============================================================================
