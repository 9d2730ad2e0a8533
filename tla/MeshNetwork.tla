----------------------------- MODULE MeshNetwork -----------------------------
(***************************************************************************)
(* The network between the cores: Network::netSend, which walks a packet   *)
(* from router to router, over the network models emesh_hop_by_hop (a mesh *)
(* or torus with dimension-order routing, some cores per router), bus,     *)
(* emesh_hop_counter and magic.  What a packet waits for at a port or a    *)
(* link is any of Delays: the queue models are the subject of DramTiming.  *)
(* A network is [model, w, h, conc, wrap, extra]: extra cores at the end   *)
(* are no application cores and have no router.                            *)
(***************************************************************************)
EXTENDS Integers, Sequences, FiniteSets, SequencesExt

CONSTANTS
    Networks,
    Delays,       \* what a packet may wait at one place
    HopLatency, Processing,
    MaxSends,
    MaxBroadcast  \* most cores of a network on which broadcasts are sent

VARIABLES
    net,          \* the configuration of the network
    todo,         \* the hops of netSend that are still to be walked, the first under way
    transit,      \* packets handed to the transport
    received,     \* how often each core got the packet
    path,         \* what happened: the directions taken since the packet was sent
    stats,        \* the contention delay that the receivers add up, and what was really waited
    sends

vars == <<net, todo, transit, received, path, stats, sends>>

AppCores == net.conc * net.w * net.h
Cores == 0..(AppCores + net.extra - 1)
Broadcast == -1

-----------------------------------------------------------------------------
(* NetworkModelEMeshHopByHop: the topology *)

Abs(x) == IF x < 0 THEN -x ELSE x
MinOf(a, b) == IF a < b THEN a ELSE b

\* computeMeshDimensions with no size given: as square as it can be
Root(n) == CHOOSE r \in 0..n : r * r <= n /\ n < (r + 1) * (r + 1)

CeilDiv(a, b) == (a + b - 1) \div b

X(core) == (core \div net.conc) % net.w
Y(core) == (core \div net.conc) \div net.w
CoreId(x, y) == (((y + net.h) % net.h) * net.w + ((x + net.w) % net.w)) * net.conc

\* Cores that are not the master of their router, and those with no router at all
FakeNode(core) == core % net.conc # 0 \/ core >= AppCores

ComputeDistance(a, b) ==
    LET dx == Abs(X(a) - X(b))
        dy == Abs(Y(a) - Y(b))
    IN  IF net.wrap THEN MinOf(dx, net.w - dx) + MinOf(dy, net.h - dy) ELSE dx + dy

\* In which way to go along one dimension: against the coordinate, or the short way around
Backwards_Flat(from, to, size) == from > to

Backwards(from, to, size) ==
    (from > to) # (net.wrap /\ Abs(from - to) > (size + 1) \div 2)

NextDest(at, dest) ==
    CASE dest >= AppCores \/ at \div net.conc = dest \div net.conc -> <<"destination", dest>>
      [] OTHER ->
           IF Backwards(X(at), X(dest), net.w) THEN <<"left", CoreId(X(at) - 1, Y(at))>>
           ELSE IF X(at) # X(dest) THEN <<"right", CoreId(X(at) + 1, Y(at))>>
           ELSE IF Backwards(Y(at), Y(dest), net.h) THEN <<"down", CoreId(X(at), Y(at) - 1)>>
           ELSE <<"up", CoreId(X(at), Y(at) + 1)>>

\* addHop: only the links to the neighbours take time
Hop(sender, start, dest, step, time, delay) ==
    LET link == step[1] # "destination"
    IN  [sender |-> sender, start |-> start, dest |-> dest, next |-> step[2], dir |-> step[1],
         time |-> time + (IF link THEN HopLatency + delay ELSE 0),
         waited |-> IF link THEN delay ELSE 0]

\* A core is not delayed by the port when it sends to itself.
InjectionDelay(at, dest, delay) == IF dest = at THEN 0 ELSE delay

\* routePacket for one receiver at the core that sends
RouteFirst(sender, dest, time, inject, delay) ==
    IF FakeNode(sender) THEN Hop(sender, time, dest, <<"destination", dest>>, time, 0)
    ELSE LET in == InjectionDelay(sender, dest, inject)
             h == Hop(sender, time, dest, NextDest(sender, dest), time + in, delay)
         IN  [h EXCEPT !.waited = @ + in]

\* and at a router on the way
RouteOn(h, delay) ==
    LET new == Hop(h.sender, h.start, h.dest, NextDest(h.next, h.dest), h.time, delay)
    IN  [new EXCEPT !.waited = @ + h.waited]

-----------------------------------------------------------------------------
(* The other network models: every receiver is one hop away *)

\* NetworkModelBus: traffic of other than application cores is not accounted for
UseBus(sender, dest, time, delay) ==
    LET counted == sender < AppCores /\ dest < AppCores
    IN  [time |-> IF counted THEN time + delay + Processing ELSE time, waited |-> IF counted THEN delay ELSE 0]

\* NetworkModelEMeshHopCounter: a mesh of all the cores, and no contention
CounterWidth == Root(Cardinality(Cores))
CounterDistance(a, b) ==
    Abs((a % CounterWidth) - (b % CounterWidth)) + Abs((a \div CounterWidth) - (b \div CounterWidth))
HopCounter(sender, dest, time) ==
    [time |-> time + CounterDistance(sender, dest) * HopLatency + (IF dest # sender THEN Processing ELSE 0), waited |-> 0]

Direct(sender, dest, time, delay) ==
    LET r == CASE net.model = "bus" -> UseBus(sender, dest, time, delay)
               [] net.model = "counter" -> HopCounter(sender, dest, time)
               [] net.model = "magic" -> [time |-> time + 1, waited |-> 0]
    IN  [sender |-> sender, start |-> time, dest |-> dest, next |-> dest, dir |-> "destination",
         time |-> r.time, waited |-> r.waited]

-----------------------------------------------------------------------------
(* Network *)

AllCores == [i \in 1..Cardinality(Cores) |-> i - 1]

\* A broadcast is a packet for each of the cores, in their order.
Receivers(sender, dest) == IF dest = Broadcast THEN AllCores ELSE <<dest>>

\* routePacket of the model in use, and of emesh_hop_counter for a broadcast: the
\* packets leave the sender one after the other.
Route(sender, dest, inject, delay) ==
    LET all == Receivers(sender, dest)
        late(i) == IF net.model = "counter" THEN (i - 1) * Processing ELSE 0
    IN  [i \in DOMAIN all |->
           IF net.model = "mesh" THEN RouteFirst(sender, all[i], 0, inject, delay)
           ELSE [Direct(sender, all[i], late(i), delay) EXCEPT !.start = 0]]

\* netSend, up to the loop over the hops
NetSend(sender, dest, inject, delay) ==
    /\ todo = <<>> /\ transit = {} /\ sends < MaxSends
    /\ todo' = Route(sender, dest, inject, delay)
    /\ path' = <<todo'[1].dir>>
    /\ received' = [c \in Cores |-> 0]
    /\ sends' = sends + 1
    /\ UNCHANGED <<net, transit, stats>>

\* The shortcut: the sender's thread asks the router of each core on the way.
Walk(delay) ==
    /\ todo # <<>> /\ Head(todo).next # Head(todo).dest
    /\ todo' = [todo EXCEPT ![1] = RouteOn(@, delay)]
    /\ path' = Append(path, todo'[1].dir)
    /\ UNCHANGED <<net, transit, received, stats, sends>>

\* The packet goes to its destination's transport.
Transport ==
    /\ todo # <<>> /\ Head(todo).next = Head(todo).dest
    /\ transit' = transit \cup {Head(todo)}
    /\ todo' = Tail(todo)
    /\ path' = IF Len(todo) > 1 THEN <<todo[2].dir>> ELSE <<>>
    /\ UNCHANGED <<net, received, stats, sends>>

\* NetworkModelEMeshHopByHop::processReceivedPacket: the contention delay is what
\* the packet took, less the time of the shortest way
Contention(h, eject) ==
    h.time - h.start - ComputeDistance(h.sender, h.dest) * HopLatency
      + (IF h.sender # h.dest /\ ~FakeNode(h.dest) THEN eject ELSE 0)
Accounted(h) == net.model = "mesh" /\ h.sender < AppCores /\ h.dest < AppCores

\* netPullFromTransport at the receiver
Pull(h, eject) ==
    /\ h \in transit
    /\ transit' = transit \ {h}
    /\ received' = [received EXCEPT ![h.dest] = @ + 1]
    /\ stats' = [contention |-> IF Accounted(h) THEN Contention(h, eject) ELSE 0,
                 waited |-> IF Accounted(h)
                            THEN h.waited + (IF h.sender # h.dest /\ ~FakeNode(h.dest) THEN eject ELSE 0) ELSE 0,
                 sender |-> h.sender]
    /\ UNCHANGED <<net, todo, path, sends>>

-----------------------------------------------------------------------------
(* Where the memory controllers are: spread over the perimeter *)

Row(y, xs) == [i \in DOMAIN xs |-> y * net.w + xs[i]]
Perimeter ==
    LET right == [i \in 1..(net.h - 2) |-> i * net.w + net.w - 1]
        left == [i \in 1..(net.h - 2) |-> (net.h - 1 - i) * net.w]
        across == [i \in 1..net.w |-> i - 1]
    IN  IF net.h > 1 THEN Row(0, across) \o right \o Row(net.h - 1, Reverse(across)) \o left
        ELSE Row(0, across)

\* computeMemoryControllerPositions
Controllers(n) ==
    LET spacing == Len(Perimeter) \div n
    IN  [i \in 1..n |-> net.conc * Perimeter[(((i - 1) * spacing + net.w \div 2) % Len(Perimeter)) + 1]]

Init ==
    /\ net \in Networks
    /\ todo = <<>>
    /\ transit = {}
    /\ received = [c \in Cores |-> 0]
    /\ path = <<>>
    /\ stats = [contention |-> 0, waited |-> 0, sender |-> 0]
    /\ sends = 0

Next ==
    \/ \E sender \in Cores, dest \in Cores \cup (IF Cardinality(Cores) <= MaxBroadcast THEN {Broadcast} ELSE {}),
         inject, delay \in Delays :
           NetSend(sender, dest, inject, delay)
    \/ \E delay \in Delays : Walk(delay)
    \/ Transport
    \/ \E h \in transit, eject \in Delays : Pull(h, eject)

Spec == Init /\ [][Next]_vars

-----------------------------------------------------------------------------
(* Properties *)

\* A packet reaches its destination in no more hops than the mesh has rows and
\* columns: the loop of netSend ends (getNextDest, for meshes and tori).
RouteEnds == Len(path) <= net.w + net.h

\* A packet that left along y never turns back to x, and never goes back where it
\* came from: dimension-order routing, which keeps the links free of cycles
\* (getNextDest, asked anew at every router).
DimensionOrder ==
    \A i \in 1..(Len(path) - 1) :
        /\ path[i] \in {"up", "down"} => path[i + 1] \notin {"left", "right"}
        /\ <<path[i], path[i + 1]>> \notin
             {<<"up", "down">>, <<"down", "up">>, <<"left", "right">>, <<"right", "left">>}

\* On a mesh, and on a torus with an even number of rows and of columns, the
\* contention delay that processReceivedPacket derives from the times and the
\* distance is what the packet waited on its way.  It takes a sender that is the
\* master of its router: the packets of the others take no time at all.
ContentionIsWaiting ==
    /\ net.wrap => net.w % 2 = 0 /\ net.h % 2 = 0
    /\ ~FakeNode(stats.sender)
    => stats.contention = stats.waited

\* When everything has arrived each core got a broadcast exactly once, and a packet
\* for one core went to no other (routePacket of each model and netSend).
EachOnce ==
    \/ todo # <<>> \/ transit # {} \/ sends = 0
    \/ \A c \in Cores : received[c] = 1
    \/ \E c \in Cores : received = [d \in Cores |-> IF d = c THEN 1 ELSE 0]

\* Memory controllers that fit on the perimeter are on different routers, each of
\* which exists (computeMemoryControllerPositions, on meshes more than one router wide).
ControllersApart ==
    sends = 0 /\ (net.w > 1 \/ net.h = 1) => \A n \in 1..MinOf(4, Len(Perimeter)) :
        /\ IsInjective(Controllers(n))
        /\ \A i \in 1..n : Controllers(n)[i] \in Cores /\ ~FakeNode(Controllers(n)[i])

\* The mesh of emesh_hop_counter has room for all cores and no row or column too many
\* (the assertions of its constructor).
CounterMeshFits ==
    LET n == Cardinality(Cores)
        h == CeilDiv(n, CounterWidth)
    IN  sends = 0 => n <= CounterWidth * h /\ n > (CounterWidth - 1) * h /\ n > CounterWidth * (h - 1)
=============================================================================
