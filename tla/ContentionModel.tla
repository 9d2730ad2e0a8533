--------------------------- MODULE ContentionModel ---------------------------
(***************************************************************************)
(* The ContentionModel of performance_model: a few units that requests     *)
(* occupy for a while.  A queue is [time, tag, last]: until when each unit *)
(* is taken and for whom, and the start of the latest request in order.    *)
(***************************************************************************)
EXTENDS Integers, Sequences, FiniteSets, FiniteSetsExt

NewQueue(units) == [time |-> [i \in 1..units |-> 0], tag |-> [i \in 1..units |-> 0], last |-> 0]

NumUsed(q, t) == Cardinality({i \in DOMAIN q.time : q.time[i] > t})
HasTag(q, tag) == \E i \in DOMAIN q.tag : q.tag[i] = tag

\* an identical tag that is being served is as good as a free unit
HasFreeSlot(q, t, tag) == \E i \in DOMAIN q.time : q.time[i] <= t \/ q.tag[i] = tag

\* the first unit that is free at t, else the first of those that are free first
Unit(q, t) ==
    LET free == {i \in DOMAIN q.time : q.time[i] <= t}
        soon == {i \in DOMAIN q.time : \A j \in DOMAIN q.time : q.time[i] <= q.time[j]}
    IN  Min(IF free # {} THEN free ELSE soon)

OutOfOrder(q, t) == q.time = <<>> \/ t < q.last

\* getStartTime
StartTime(q, t) == IF OutOfOrder(q, t) THEN t ELSE Max({t, q.time[Unit(q, t)]})

\* getCompletionTime, and the queue after it: a request at time zero, or out of
\* order, takes no unit
CompletionTime(q, t, delay) == (IF t = 0 THEN 0 ELSE StartTime(q, t)) + delay
Occupy(q, t, delay, tag) ==
    IF t = 0 \/ OutOfOrder(q, t) THEN q
    ELSE [time |-> [q.time EXCEPT ![Unit(q, t)] = CompletionTime(q, t, delay)],
          tag  |-> [q.tag EXCEPT ![Unit(q, t)] = tag],
          last |-> t]

\* getBarrierCompletionTime, and the queue after it
BarrierTime(q, t, delay) == Max({t} \cup {q.time[i] : i \in DOMAIN q.time}) + delay
BarrierAll(q, t, delay, tag) ==
    [q EXCEPT !.time = [i \in DOMAIN q.time |-> BarrierTime(q, t, delay)],
              !.tag = [i \in DOMAIN q.tag |-> tag]]
=============================================================================
