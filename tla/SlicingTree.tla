----------------------------- MODULE SlicingTree -----------------------------
(***************************************************************************)
(* HotSpot's floorplans: normalized Polish expressions, the moves of the   *)
(* annealer on them, shape curves, and the slicing tree that turns an      *)
(* expression into placed blocks.  Positions count from one; the shape     *)
(* curves of the blocks are given, in whole units of length.               *)
(***************************************************************************)
EXTENDS Integers, FiniteSetsExt, SequencesExt

CONSTANTS
    Shapes,         \* per unit its orientations, [x, y], by ascending x
    Ratios          \* compact_ratio: <<numerator, denominator>>; negative without compact_dead

VARIABLES
    ratio,
    expr,           \* [elements, unit_pos, flip_pos, chain_pos, ballot_count]
    fatal

vars == <<ratio, expr, fatal>>

CUT_VERTICAL == -2
CUT_HORIZONTAL == -3
IsCut(e) == e < 0
Bigger(u, v) == IF u >= v THEN u ELSE v
Smaller(u, v) == IF u <= v THEN u ELSE v
Distance(u, v) == Bigger(u, v) - Smaller(u, v)

-----------------------------------------------------------------------------
(* Normalized Polish expressions *)

Indices(s) == [i \in 1..Len(s) |-> i]
UnitPos(s) == SelectSeq(Indices(s), LAMBDA i : ~IsCut(s[i]))
FlipPos(s) == SelectSeq(Indices(s), LAMBDA i : i < Len(s) /\ IsCut(s[i]) # IsCut(s[i + 1]))
ChainPos(s) == SelectSeq(Indices(s), LAMBDA i : IsCut(s[i]) /\ (i > 1 => ~IsCut(s[i - 1])))
BallotCount(s) == [i \in 1..Len(s) |-> Cardinality({j \in 1..i : IsCut(s[j])})]
NotNormalized(s) == \E i \in 1..Len(s) - 1 : IsCut(s[i]) /\ s[i] = s[i + 1]

\* 0, 1, V, 2, V, ..., n-1, V
InitialElements(n) ==
    FoldLeft(LAMBDA s, u : s \o <<u, CUT_VERTICAL>>, <<0>>, [i \in 1..n - 1 |-> i])

GetInitial(n) ==
    LET s == InitialElements(n)
    IN  [elements |-> s, unit_pos |-> UnitPos(s), flip_pos |-> FlipPos(s), chain_pos |-> ChainPos(s),
         ballot_count |-> BallotCount(s)]

\* Move M1: swap a unit with the next one
SwapUnits(e, pos) ==
    LET next == Min({i \in pos + 1..Len(e.elements) : ~IsCut(e.elements[i])})
    IN  [e EXCEPT !.elements[pos] = e.elements[next], !.elements[next] = e.elements[pos]]

InvertCut(c) == IF c = CUT_VERTICAL THEN CUT_HORIZONTAL ELSE CUT_VERTICAL

\* Move M2: invert the chain of cuts that begins at pos
InvertChain(e, pos) ==
    LET ends == {i \in pos..Len(e.elements) : ~IsCut(e.elements[i])}
        end == IF ends = {} THEN Len(e.elements) ELSE Min(ends) - 1
    IN  [e EXCEPT !.elements = [i \in DOMAIN @ |-> IF i \in pos..end THEN InvertCut(@[i]) ELSE @[i]]]

\* binary search; the position of the unit moves by delta
RECURSIVE UpdateUnitPos(_, _, _, _, _)
UpdateUnitPos(up, pos, delta, start, end) ==
    LET mid == (start + end) \div 2
    IN  IF start > end THEN [found |-> FALSE, up |-> up]
        ELSE IF up[mid + 1] = pos THEN [found |-> TRUE, up |-> [up EXCEPT ![mid + 1] = @ + delta]]
        ELSE IF up[mid + 1] > pos THEN UpdateUnitPos(up, pos, delta, start, mid - 1)
        ELSE UpdateUnitPos(up, pos, delta, mid + 1, end)

\* no two equal cuts in a row, and the balloting property
SwapAllowed(e, pos) ==
    LET s == e.elements
    IN  IF ~IsCut(s[pos]) THEN s[pos - 1] # s[pos + 1] /\ 2 * e.ballot_count[pos + 1] < pos
        ELSE pos < Len(s) - 1 => s[pos] # s[pos + 2]

SwapPositions(e, pos) ==
    IF ~IsCut(e.elements[pos]) THEN UpdateUnitPos(e.unit_pos, pos, 1, 0, Len(e.unit_pos) - 1)
    ELSE UpdateUnitPos(e.unit_pos, pos + 1, -1, 0, Len(e.unit_pos) - 1)

\* Move M3: swap a unit and the cut next to it
SwapCutUnit(e, pos) ==
    LET s == [e.elements EXCEPT ![pos] = e.elements[pos + 1], ![pos + 1] = e.elements[pos]]
    IN  [elements |-> s, unit_pos |-> SwapPositions(e, pos).up,
         flip_pos |-> FlipPos(s), chain_pos |-> ChainPos(s),
         ballot_count |-> [e.ballot_count EXCEPT ![pos] = IF IsCut(e.elements[pos]) THEN @ - 1 ELSE @ + 1]]

\* "invalid position", "unit position not found"
SwapFails(e, pos) ==
    \/ pos <= 1 \/ pos >= Len(e.elements)
    \/ SwapAllowed(e, pos) /\ ~SwapPositions(e, pos).found

\* every outcome of make_random_move
Moves(e) ==
    {SwapUnits(e, e.unit_pos[i]) : i \in 1..Len(e.unit_pos) - 1}
    \cup {InvertChain(e, e.chain_pos[i]) : i \in 1..Len(e.chain_pos)}
    \cup {SwapCutUnit(e, p) : p \in {q \in Range(e.flip_pos) : ~SwapFails(e, q) /\ SwapAllowed(e, q)}}

-----------------------------------------------------------------------------
(* Shape curves *)

\* which orientations are put together: the higher block is the one that gets lower
RECURSIVE PairsV(_, _, _, _)
PairsV(s1, s2, i, j) ==
    IF i > Len(s1) \/ j > Len(s2) THEN <<>>
    ELSE <<<<i, j>>>> \o (IF s1[i].y >= s2[j].y THEN PairsV(s1, s2, i + 1, j) ELSE PairsV(s1, s2, i, j + 1))

RECURSIVE PairsH(_, _, _, _)
PairsH(s1, s2, i, j) ==
    IF i < 1 \/ j < 1 THEN <<>>
    ELSE (IF s1[i].x >= s2[j].x THEN PairsH(s1, s2, i - 1, j) ELSE PairsH(s1, s2, i, j - 1)) \o <<<<i, j>>>>

AddV(a, b, p) == [x |-> a.x + b.x, y |-> Bigger(a.y, b.y), left |-> p[1], right |-> p[2], median |-> a.x]
AddH(a, b, p) == [x |-> Bigger(a.x, b.x), y |-> a.y + b.y, left |-> p[1], right |-> p[2], median |-> a.y]

ShapeAdd(s1, s2, cut) ==
    LET pairs == IF cut = CUT_VERTICAL THEN PairsV(s1, s2, 1, 1) ELSE PairsH(s1, s2, Len(s1), Len(s2))
    IN  [k \in DOMAIN pairs |->
            IF cut = CUT_VERTICAL THEN AddV(s1[pairs[k][1]], s2[pairs[k][2]], pairs[k])
            ELSE AddH(s1[pairs[k][1]], s2[pairs[k][2]], pairs[k])]

Leaf(u) == [label |-> u, curve |-> Shapes[u + 1], left |-> <<>>, right |-> <<>>]
Node(cut, l, r) == [label |-> cut, curve |-> ShapeAdd(l.curve, r.curve, cut), left |-> l, right |-> r]

\* the tree, with a stack of nodes
TreeFromNPE(s) ==
    FoldLeft(LAMBDA stack, e :
                IF IsCut(e)
                THEN LET n == Len(stack)
                     IN  SubSeq(stack, 1, n - 2) \o <<Node(e, stack[n - 1], stack[n])>>
                ELSE Append(stack, Leaf(e)), <<>>, s)[1]

Area(c, i) == c[i].x * c[i].y
MinAreaPos(c) == Min({i \in DOMAIN c : \A j \in DOMAIN c : Area(c, i) <= Area(c, j)})

-----------------------------------------------------------------------------
(* Placement.  R = [units: placed units, dead: placed dead blocks] *)

Rect(x, y, w, h) == [x |-> x, y |-> y, w |-> w, h |-> h]
Compacts(d, small) == d * ratio[2] <= ratio[1] * small
Place(R, u, rect) == [R EXCEPT !.units[u + 1] = rect]
Dead(R, rect, compact) == IF compact THEN R ELSE [R EXCEPT !.dead = Append(@, rect)]

\* What a cut gives its children along the cut (x for a vertical one) and across it: what
\* was compacted around it goes to the children, then it compacts its own dead block
Across(a1, a2, have) ==
    LET more == have - Bigger(a1, a2) IN IF more > 0 THEN <<a1 + more, a2 + more>> ELSE <<a1, a2>>
Along(a1, a2, have) == IF have > a1 + a2 THEN <<a1, a2 + (have - (a1 + a2))>> ELSE <<a1, a2>>
Grown(c) ==
    LET compact == Compacts(Distance(c[1], c[2]), Smaller(c[1], c[2]))
    IN  IF compact THEN <<Bigger(c[1], c[2]), Bigger(c[1], c[2])>> ELSE c

\* recursive_sizing of a node that has w by h at (x, y)
RECURSIVE RecursiveSizing(_, _, _, _, _, _, _)
RecursiveSizing(node, pos, x, y, w, h, R) ==
    IF ~IsCut(node.label) THEN Place(R, node.label, Rect(x, y, w, h))
    ELSE LET self == node.curve[pos]
             l == node.left.curve[self.left]
             r == node.right.curve[self.right]
         IN  IF node.label = CUT_VERTICAL
             THEN LET ys == Across(l.y, r.y, h)
                      xs == Along(l.x, r.x, w)
                      grown == Grown(ys)
                      dead == Rect(IF ys[2] >= ys[1] THEN x ELSE x + xs[1], y + Smaller(ys[1], ys[2]),
                                   IF ys[2] >= ys[1] THEN xs[1] ELSE xs[2], Distance(ys[1], ys[2]))
                      S == Dead(R, dead, Compacts(Distance(ys[1], ys[2]), Smaller(ys[1], ys[2])))
                      T == RecursiveSizing(node.left, self.left, x, y, xs[1], grown[1], S)
                  IN  RecursiveSizing(node.right, self.right, x + self.median, y, xs[2], grown[2], T)
             ELSE LET xs == Across(l.x, r.x, w)
                      ys == Along(l.y, r.y, h)
                      grown == Grown(xs)
                      dead == Rect(x + Smaller(xs[1], xs[2]), IF xs[2] >= xs[1] THEN y ELSE y + ys[1],
                                   Distance(xs[1], xs[2]), IF xs[2] >= xs[1] THEN ys[1] ELSE ys[2])
                      S == Dead(R, dead, Compacts(Distance(xs[1], xs[2]), Smaller(xs[1], xs[2])))
                      T == RecursiveSizing(node.left, self.left, x, y, grown[1], ys[1], S)
                  IN  RecursiveSizing(node.right, self.right, x, y + self.median, grown[2], ys[2], T)

\* the units and the dead blocks that were not compacted
TreeToFlp(root) ==
    LET pos == MinAreaPos(root.curve)
        R == [units |-> [i \in DOMAIN Shapes |-> Rect(0, 0, 0, 0)], dead |-> <<>>]
    IN  RecursiveSizing(root, pos, 0, 0, root.curve[pos].x, root.curve[pos].y, R)

FlpOf(s) == LET R == TreeToFlp(TreeFromNPE(s)) IN R.units \o R.dead

-----------------------------------------------------------------------------
(* The expressions that the annealer can reach *)

Init ==
    /\ ratio \in Ratios
    /\ expr = GetInitial(Len(Shapes))
    /\ fatal = FALSE

Move ==
    /\ ~fatal
    /\ expr' \in Moves(expr)
    /\ fatal' = NotNormalized(expr'.elements)
    /\ UNCHANGED ratio

Next == Move

Spec == Init /\ [][Next]_vars

-----------------------------------------------------------------------------
(* Properties *)

\* Every move keeps the expression a normalized Polish expression: each unit once, fewer
\* cuts than units in every prefix, and no cut twice in a row.
Normalized ==
    LET s == expr.elements
    IN  /\ ~fatal
        /\ \A u \in 0..Len(Shapes) - 1 : Cardinality({i \in DOMAIN s : s[i] = u}) = 1
        /\ \A i \in DOMAIN s : 2 * Cardinality({j \in 1..i : IsCut(s[j])}) < i
        /\ ~NotNormalized(s)

\* The positions and counts that the moves update by hand are those of the expression.
PositionsCurrent ==
    LET s == expr.elements
    IN  /\ expr.unit_pos = UnitPos(s) /\ expr.flip_pos = FlipPos(s)
        /\ expr.chain_pos = ChainPos(s) /\ expr.ballot_count = BallotCount(s)
        /\ \A p \in Range(expr.flip_pos) : ~SwapFails(expr, p)

\* Every move can be undone by one move: the annealer does not drift into a corner of the
\* search space that it cannot leave.
MovesCanBeUndone == ~fatal => \A e \in Moves(expr) : expr \in Moves(e)

Overlap(r, s) == r.x < s.x + s.w /\ s.x < r.x + r.w /\ r.y < s.y + s.h /\ s.y < r.y + r.h
Disjoint(f) == \A i, j \in DOMAIN f : i # j => ~Overlap(f[i], f[j])
AreaOf(f) == MapThenSumSet(LAMBDA i : f[i].w * f[i].h, DOMAIN f)
WidthOf(f) == Max({f[i].x + f[i].w : i \in DOMAIN f}) - Min({f[i].x : i \in DOMAIN f})
HeightOf(f) == Max({f[i].y + f[i].h : i \in DOMAIN f}) - Min({f[i].y : i \in DOMAIN f})
Tiles(f) == Disjoint(f) /\ AreaOf(f) = WidthOf(f) * HeightOf(f)

\* Units and dead blocks fill the chip without overlap, however much dead space is
\* compacted into its neighbours.
ChipIsTiled == ~fatal => Tiles(FlpOf(expr.elements))

\* the sizes of the tree for given orientations
RECURSIVE SizeWith(_, _)
SizeWith(node, o) ==
    IF ~IsCut(node.label) THEN [x |-> Shapes[node.label + 1][o[node.label]].x, y |-> Shapes[node.label + 1][o[node.label]].y]
    ELSE LET l == SizeWith(node.left, o)
             r == SizeWith(node.right, o)
         IN  IF node.label = CUT_VERTICAL THEN [x |-> l.x + r.x, y |-> Bigger(l.y, r.y)]
             ELSE [x |-> Bigger(l.x, r.x), y |-> l.y + r.y]
Orientations ==
    {o \in [0..Len(Shapes) - 1 -> 1..Max({Len(Shapes[i]) : i \in DOMAIN Shapes})] :
        \A u \in DOMAIN o : o[u] <= Len(Shapes[u + 1])}

\* No choice of orientations makes the tree smaller than its shape curve: the curve has
\* the smallest chip of the expression.
CurveHasTheBest ==
    ~fatal => LET root == TreeFromNPE(expr.elements)
              IN  \A o \in Orientations : \E i \in DOMAIN root.curve :
                     /\ root.curve[i].x <= SizeWith(root, o).x
                     /\ root.curve[i].y <= SizeWith(root, o).y
=============================================================================
