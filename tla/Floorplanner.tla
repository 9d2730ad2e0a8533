---------------------------- MODULE Floorplanner ----------------------------
(***************************************************************************)
(* HotSpot's floorplanner: simulated annealing over the expressions of     *)
(* SlicingTree.  The one floorplan that is allocated at the start is used  *)
(* for every candidate: compacted dead blocks, the L2 wrapped around the   *)
(* core and the rim come and go in its unused units.  Lengths are whole    *)
(* numbers (roots are rounded down, not to zero), the temperature term of the *)
(* cost is left out, and how often an uphill move is taken is open.        *)
(***************************************************************************)
EXTENDS Integers, FiniteSetsExt, SequencesExt

CONSTANTS
    Shapes,         \* of the core units
    L2Area, Rim,
    Wires,          \* pairs of units that are connected; 0 is the L2
    Setups,         \* [l2, rim: BOOLEAN, ratio]
    MovesPerStep,   \* Kmoves * n_units
    Nmax

VARIABLES
    setup,
    expr, best, cost, bestCost,
    loop,           \* [i, downs, rejects, steps]
    flp,            \* the units of the floorplan, with their names, when last evaluated
    units,          \* flp->n_units between evaluations
    rows,           \* the units (by index) that have the wires of the L2
    power,          \* which block's power each entry has
    phase

vars == <<setup, expr, best, cost, bestCost, loop, flp, units, rows, power, phase>>

T == INSTANCE SlicingTree WITH Ratios <- {}, ratio <- setup.ratio, fatal <- FALSE

NCore == Len(Shapes)
CoreUnits == 2 * NCore - 1      \* the dead blocks included
L2_ARMS == 2
WRAP_L2_RATIO == 5
L2Names == <<"L2", "L2_left", "L2_right">>

\* flp_placeholder: "no. of rim blocks could be at most 2*n+2"
Placeholder(s) ==
    LET n == CoreUnits + (IF s.l2 THEN L2_ARMS + 1 ELSE 0)
    IN  IF s.rim THEN n + 2 * n + 2 ELSE n

\* floorplan(): the rim and the L2 disappear again
WithoutRim(s, n) == IF s.rim THEN (n - 2) \div 3 ELSE n
WithoutWrapping(s, n) == WithoutRim(s, n) - (IF s.l2 THEN L2_ARMS + 1 ELSE 0)

\* read by name from the placeholder: the core units, no power in dead space, L2
InitialPower(s) ==
    [i \in 1..Placeholder(s) |->
        IF i <= NCore THEN "core" ELSE IF i <= CoreUnits \/ ~s.l2 \/ i > CoreUnits + 3 THEN "none" ELSE L2Names[i - CoreUnits]]

-----------------------------------------------------------------------------
(* Geometry *)

Unit(name, r) == [name |-> name, x |-> r.x, y |-> r.y, w |-> r.w, h |-> r.h]
MinX(f) == Min({f[i].x : i \in DOMAIN f})
MinY(f) == Min({f[i].y : i \in DOMAIN f})
Translate(f, x, y) ==
    LET dx == x - MinX(f)
        dy == y - MinY(f)
    IN  [i \in DOMAIN f |-> [f[i] EXCEPT !.x = @ + dx, !.y = @ + dy]]
ISqrt(a) == CHOOSE r \in 0..a : r * r <= a /\ (r + 1) * (r + 1) > a

\* the width of the arms, the height of the bottom portion, and the side: a square if possible
Arms(w, h, l2) ==
    LET side == 2 * (ISqrt(w * h + l2) \div 2)
        x == (side - w) \div 2
        y == side - h
        wide == WRAP_L2_RATIO * w + 2 * h
        tall == w + 2 * WRAP_L2_RATIO * h
        short(sum) == T!Bigger(1, (ISqrt(sum * sum + 8 * WRAP_L2_RATIO * l2) - sum) \div (4 * WRAP_L2_RATIO))
        ax == IF w >= h THEN short(wide) ELSE WRAP_L2_RATIO * short(tall)
        ay == IF w >= h THEN WRAP_L2_RATIO * short(wide) ELSE short(tall)
    IN  IF x <= 0 \/ y <= 0 THEN [x |-> ax, y |-> ay, side |-> 2 * ax + w] ELSE [x |-> x, y |-> y, side |-> side]

WrapL2(f) ==
    LET w == T!WidthOf(f)
        h == T!HeightOf(f)
        a == Arms(w, h, L2Area)
    IN  Translate(f, a.x, a.y)
        \o <<Unit("L2", T!Rect(0, 0, a.side, a.y)), Unit("L2_left", T!Rect(0, a.y, a.x, h)),
             Unit("L2_right", T!Rect(a.x + w, a.y, a.x, h))>>

\* the strips at a block, extended clockwise at the corners
RimOf(u, width, height) ==
    LET west == u.x = Rim
        east == u.x + u.w = width - Rim
        north == u.y + u.h = height - Rim
        south == u.y = Rim
        more(c) == IF c THEN Rim ELSE 0
    IN  (IF west THEN <<Unit("rim", T!Rect(0, u.y, Rim, u.h + more(north)))>> ELSE <<>>)
        \o (IF east THEN <<Unit("rim", T!Rect(u.x + u.w, IF south THEN 0 ELSE u.y, Rim, u.h + more(south)))>> ELSE <<>>)
        \o (IF north THEN <<Unit("rim", T!Rect(u.x, u.y + u.h, u.w + more(east), Rim))>> ELSE <<>>)
        \o (IF south THEN <<Unit("rim", T!Rect(IF west THEN 0 ELSE u.x, 0, u.w + more(west), Rim))>> ELSE <<>>)

WrapRim(f) ==
    LET width == T!WidthOf(f) + 2 * Rim
        height == T!HeightOf(f) + 2 * Rim
        g == Translate(f, Rim, Rim)
    IN  FoldLeft(LAMBDA acc, u : acc \o RimOf(u, width, height), g, g)

\* twice the distance of the centres
ManhattanDist(u, v) == T!Distance(2 * u.x + u.w, 2 * v.x + v.w) + T!Distance(2 * u.y + u.h, 2 * v.y + v.h)
WireMetric(f, r) ==
    MapThenSumSet(LAMBDA p : ManhattanDist(f[p[1]], f[p[2]]),
        {p \in Wires : p[2] # 0} \cup {<<p[1], q>> : p \in {s \in Wires : s[2] = 0}, q \in r \cap DOMAIN f})

\* lambdaA * A + lambdaW * W
EvaluateMetric(f, r) == 2 * T!AreaOf(f) + WireMetric(f, r)

-----------------------------------------------------------------------------
(* One evaluation: the expression is placed, compacted, wrapped, measured  *)
(* and restored.  E = [flp, compacted, rim, rows, power]                   *)

Placed(e) ==
    LET Named(R) ==
            [u \in DOMAIN R.units |-> Unit("core", R.units[u])] \o [d \in DOMAIN R.dead |-> Unit("none", R.dead[d])]
    IN  Named(T!TreeToFlp(T!TreeFromNPE(e.elements)))

Trim_NoShift(p, at, size) == p
\* the entries of the compacted dead blocks are cut out
Trim(p, at, size) == SubSeq(p, 1, at) \o SubSeq(p, at + size + 1, Len(p))

\* the L2's wires are copied to where it now is; the rim has none
RowsWrapped(r, core, l2, n, m) ==
    LET s == IF l2 THEN r \cup (core + 1..core + 3) ELSE r IN s \ (n + 1..m)

Evaluate(e, r, p) ==
    LET Result(core, inner, all) ==
            [flp |-> all, compacted |-> CoreUnits - Len(core), rim |-> Len(all) - Len(inner),
             rows |-> RowsWrapped(r, Len(core), setup.l2, Len(inner), Len(all)),
             power |-> Trim(p, Len(core), CoreUnits - Len(core))]
        InRim(core, inner) == Result(core, inner, IF setup.rim THEN WrapRim(inner) ELSE inner)
        InL2(core) == InRim(core, IF setup.l2 THEN WrapL2(core) ELSE core)
    IN  InL2(Placed(e))

RestoreUnits(E) ==
    Len(E.flp) - (IF setup.rim THEN E.rim ELSE 0) - (IF setup.l2 THEN L2_ARMS + 1 ELSE 0) + E.compacted

\* the dead blocks are initialized again, and have no wires
RestoreRows(r) == r \ (NCore + 1..CoreUnits)

-----------------------------------------------------------------------------
(* floorplan() *)

Init ==
    /\ setup \in Setups
    /\ units = WithoutWrapping(setup, Placeholder(setup))
    /\ power = InitialPower(setup)
    /\ expr = T!GetInitial(NCore) /\ best = expr
    /\ \E E \in {Evaluate(expr, IF setup.l2 THEN CoreUnits + 1..CoreUnits + 3 ELSE {}, power)} :
          /\ flp = E.flp
          /\ rows = RestoreRows(E.rows)
          /\ cost = EvaluateMetric(E.flp, E.rows)
          /\ bestCost = cost
    /\ loop = [i |-> 0, downs |-> 0, rejects |-> 0, steps |-> 0]
    /\ phase = "anneal"

NewBest(new) == new < bestCost

\* a move is made, evaluated, and accepted or rejected
TryMove ==
    /\ phase = "anneal" /\ loop.steps < Nmax
    /\ loop.i < 2 * MovesPerStep /\ loop.downs < MovesPerStep
    /\ \E next \in T!Moves(expr) :
          \E E \in {Evaluate(next, rows, power)} : \E new \in {EvaluateMetric(E.flp, E.rows)} :
              /\ flp' = E.flp
              /\ rows' = RestoreRows(E.rows)
              /\ units' = RestoreUnits(E)
              /\ best' = IF new < cost /\ NewBest(new) THEN next ELSE best
              /\ bestCost' = IF new < cost /\ NewBest(new) THEN new ELSE bestCost
              /\ \E accepted \in IF new > cost THEN BOOLEAN ELSE {TRUE} :
                    /\ expr' = IF accepted THEN next ELSE expr
                    /\ cost' = IF accepted THEN new ELSE cost
                    /\ loop' = [loop EXCEPT !.i = @ + 1, !.downs = IF new < cost THEN @ + 1 ELSE @,
                                            !.rejects = IF accepted THEN @ ELSE @ + 1]
    /\ UNCHANGED <<setup, power, phase>>

\* enough moves at this temperature: cool down, or stop when nothing is accepted any more
CoolDown ==
    /\ phase = "anneal" /\ loop.steps < Nmax
    /\ loop.i >= 2 * MovesPerStep \/ loop.downs >= MovesPerStep
    /\ IF loop.rejects = loop.i THEN phase' = "select" /\ UNCHANGED loop
       ELSE phase' = phase /\ loop' = [i |-> 0, downs |-> 0, rejects |-> 0, steps |-> loop.steps + 1]
    /\ UNCHANGED <<setup, expr, best, cost, bestCost, flp, units, rows, power>>

\* the best floorplan found
Select ==
    /\ phase = "select" \/ (phase = "anneal" /\ loop.steps = Nmax)
    /\ \E E \in {Evaluate(best, rows, power)} :
          flp' = E.flp /\ rows' = E.rows /\ power' = E.power /\ units' = Len(E.flp)
    /\ phase' = "done"
    /\ UNCHANGED <<setup, expr, best, cost, bestCost, loop>>

Next == TryMove \/ CoolDown \/ Select

Spec == Init /\ [][Next]_vars

-----------------------------------------------------------------------------
(* What is done with a floorplan *)

\* a grid of all boundaries; a block is mapped to the cells between its own
Sorted(S) ==
    [k \in 1..Cardinality(S) |-> CHOOSE v \in S : Cardinality({u \in S : u <= v}) = k]
XLines(f) == Sorted(UNION {{f[i].x, f[i].x + f[i].w} : i \in DOMAIN f})
YLines(f) == Sorted(UNION {{f[i].y, f[i].y + f[i].h} : i \in DOMAIN f})
Position(l, v) == CHOOSE i \in DOMAIN l : l[i] = v

CellsOf(u, xs, ys) ==
    (Position(xs, u.x)..Position(xs, u.x + u.w) - 1) \X (Position(ys, u.y)..Position(ys, u.y + u.h) - 1)

\* map: a cell belongs to the first block that has it
CreateGrid(f) ==
    LET xs == XLines(f)
        ys == YLines(f)
    IN  [i \in DOMAIN f |-> CellsOf(f[i], xs, ys) \ UNION {CellsOf(f[j], xs, ys) : j \in 1..i - 1}]

Orients == {"ROT_0", "ROT_90", "ROT_180", "ROT_270", "FLIP_0", "FLIP_90", "FLIP_180", "FLIP_270"}
Turned(o) == o \in {"ROT_90", "ROT_270", "FLIP_90", "FLIP_270"}

\* where a block with these sides goes; (0, 0) is the centre
Reoriented(left, bottom, right, top, o) ==
    CASE o = "ROT_0" -> <<left, bottom>> [] o = "ROT_90" -> <<-top, left>> [] o = "ROT_180" -> <<-right, -top>>
      [] o = "ROT_270" -> <<bottom, -right>> [] o = "FLIP_0" -> <<-right, bottom>> [] o = "FLIP_90" -> <<bottom, left>>
      [] o = "FLIP_180" -> <<left, -top>> [] o = "FLIP_270" -> <<-top, -right>>

\* coordinates are doubled, for the centre
ChangeOrient(f, o) ==
    LET cx == 2 * MinX(f) + T!WidthOf(f)
        cy == 2 * MinY(f) + T!HeightOf(f)
    IN  [i \in DOMAIN f |->
            LET u == f[i]
                p == Reoriented(2 * u.x - cx, 2 * u.y - cy, 2 * (u.x + u.w) - cx, 2 * (u.y + u.h) - cy, o)
            IN  [name |-> u.name, x |-> (p[1] + cx), y |-> (p[2] + cy),
                 w |-> 2 * (IF Turned(o) THEN u.h ELSE u.w), h |-> 2 * (IF Turned(o) THEN u.w ELSE u.h)]]

Diagonal(u, v) ==
    \/ u.x + u.w = v.x /\ (u.y + u.h = v.y \/ u.y = v.y + v.h)
    \/ u.x = v.x + v.w /\ (u.y = v.y + v.h \/ u.y + u.h = v.y)
Meet(lo1, hi1, lo2, hi2) == lo2 \in lo1..hi1 \/ hi2 \in lo1..hi1 \/ lo1 \in lo2..hi2 \/ hi1 \in lo2..hi2
IsHorizAdj(u, v) ==
    ~Diagonal(u, v) /\ (u.x = v.x + v.w \/ u.x + u.w = v.x) /\ Meet(u.y, u.y + u.h, v.y, v.y + v.h)
IsVertAdj(u, v) ==
    ~Diagonal(u, v) /\ (u.y = v.y + v.h \/ u.y + u.h = v.y) /\ Meet(u.x, u.x + u.w, v.x, v.x + v.w)

SharedLen(u, v) ==
    CASE IsVertAdj(u, v) -> T!Smaller(u.x + u.w, v.x + v.w) - T!Bigger(u.x, v.x)
      [] IsHorizAdj(u, v) /\ ~IsVertAdj(u, v) -> T!Smaller(u.y + u.h, v.y + v.h) - T!Bigger(u.y, v.y)
      [] OTHER -> 0

-----------------------------------------------------------------------------
(* Properties *)

\* However many candidates were compacted, wrapped and restored in the same floorplan: the
\* best expression, evaluated again, costs what it cost when it was found, and no more than
\* what the annealing is at.
BestIsReproduced ==
    /\ bestCost <= cost
    /\ phase = "done" => EvaluateMetric(flp, rows) = bestCost

\* Core, L2 and rim fill the chip without overlap.
ChipIsTiled == T!Tiles(flp)

\* The floorplan never has more units than were allocated for it, and between evaluations
\* has exactly the core and its dead blocks.
RoomForAll ==
    /\ Len(flp) <= Placeholder(setup)
    /\ phase # "done" => units = CoreUnits

\* In the floorplan that is handed out every block has its own power.
PowerFollows == phase = "done" => \A i \in DOMAIN flp : flp[i].name # "rim" => power[i] = flp[i].name

\* The grid made of the final floorplan has every cell exactly once: the sanity check
\* ("mismatch in the no. of units") cannot fail, and every block has its area.
GridIsEquivalent ==
    phase = "done" =>
        LET xs == XLines(flp)
            ys == YLines(flp)
            cells == CreateGrid(flp)
        IN  /\ MapThenSumSet(LAMBDA i : Cardinality(cells[i]), DOMAIN flp) = (Len(xs) - 1) * (Len(ys) - 1)
            /\ \A i \in DOMAIN flp :
                  MapThenSumSet(LAMBDA c : (xs[c[1] + 1] - xs[c[1]]) * (ys[c[2] + 1] - ys[c[2]]), cells[i]) = flp[i].w * flp[i].h

\* Turning and flipping keep a chip a chip.
TurnedIsTiled == phase = "done" => \A o \in Orients : T!Tiles(ChangeOrient(flp, o))

\* The blocks' shared lengths and the chip's border together are the blocks' perimeters:
\* no neighbour is missed and no boundary counted twice.
PerimeterIsShared ==
    phase = "done" =>
        MapThenSumSet(LAMBDA i : MapThenSumSet(LAMBDA j : SharedLen(flp[i], flp[j]), DOMAIN flp \ {i}), DOMAIN flp)
            + 2 * (T!WidthOf(flp) + T!HeightOf(flp))
        = 2 * MapThenSumSet(LAMBDA i : flp[i].w + flp[i].h, DOMAIN flp)
=============================================================================
