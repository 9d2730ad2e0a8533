------------------------------ MODULE GridMap ------------------------------
(***************************************************************************)
(* From blocks to grid cells and back (HotSpot-6.0/temperature_grid.c): the *)
(* stack of layers, the default one or that of a layer file, the map of a   *)
(* layer's blocks onto its cells (set_bgmap), the translation of power to   *)
(* the grid, the nested iteration of the steady solver through coarser and  *)
(* coarser grids (recursive_multigrid), and the translation of temperatures *)
(* back to the blocks.                                                      *)
(*                                                                         *)
(* Lengths are integers, in a unit that makes a cell's width and height     *)
(* integral; a block's power is its density times its area, so that a       *)
(* cell's power is the sum of density times overlap.  The relaxation at     *)
(* each level is one step.  At the finest level it ends with any of a few   *)
(* fields of temperatures.                                                  *)
(***************************************************************************)
EXTENDS Integers, Sequences, FiniteSets, SequencesExt, FiniteSetsExt

CONSTANTS Chips,      \* [w, h, flps]: the floorplans, sequences of units
                      \* [x, y, w, h, q]: left, bottom, width, height, density
          Grids,      \* [rows, cols, sec]: sec models the path to the board
          Files       \* the layer numbers of a layer file, in its order; the
                      \* empty sequence stands for the default layers

Threshold == 95       \* OCCUPANCY_THRESHOLD, in percent

FullRz == 64          \* a cell's vertical resistance at the finest resolution

VARIABLES chip, grid, file,
          layers,     \* [no, flp, map]: number, floorplan (0: NULL), and the
                      \* layer whose block-grid map this one points to
          stopped,    \* "no", "fatal", or "crash" for a NULL floorplan used
          phase,      \* "layers", "map", "solve", "back", "done"
          at,         \* what is read or mapped next: <<layer, unit>>
          b2g,        \* per layer and cell, its units: a sequence of [u, occ]
          g2b,        \* per layer, the extents of its units, [i1, i2, j1, j2]
          now,        \* the grid being solved: [rows, cols, rz, power]
          stack,      \* the power of the finer grids, suspended
          level,      \* "down" while coarsening, "up" after
          weights,    \* the last interpolation, in sixteenths
          out         \* what was mapped back: [mode, temps, blocks]

vars == <<chip, grid, file, layers, stopped, phase, at, b2g, g2b, now, stack, level, weights, out>>

CellsOf(r, c) == (0 .. r - 1) \X (0 .. c - 1)

Cells == CellsOf(grid.rows, grid.cols)

Cw(c) == chip.w \div c

Ch(r) == chip.h \div r

-----------------------------------------------------------------------------
(* The stack of layers. *)

SecPack(g) == IF g.sec THEN 3 ELSE 0

SecChip(g) == IF g.sec THEN 2 ELSE 0

\* The first layer of the chip, and how many there are.
Base(g, f) == IF f = <<>> THEN SecPack(g) + SecChip(g) ELSE SecPack(g)

NLayers(g, f) == SecPack(g) + 2 + (IF f = <<>> THEN SecChip(g) + 2 ELSE Len(f))

Layer(no, flp, map) == [no |-> no, flp |-> flp, map |-> map]

Blank == Layer(0, 0, 0)

\* The default layers: all have the silicon layer's floorplan and map.
DefaultLayers(g) == [n \in 0 .. NLayers(g, <<>>) - 1 |-> Layer(n, 1, Base(g, <<>>))]

\* The number of a layer and what follows it, in the order of the file.
ReadLayer ==
  /\ phase = "layers"
  /\ stopped = "no"
  /\ at[1] <= Len(file)
  /\ LET ival == file[at[1]]
         i == SecPack(grid) + ival
     IN IF ival >= Len(file) \/ ival < 0
        THEN stopped' = "fatal" /\ UNCHANGED <<layers, at>>
        ELSE IF layers[i].no # 0
        THEN stopped' = "fatal" /\ UNCHANGED <<layers, at>>
        ELSE /\ layers' = [layers EXCEPT ![i] = Layer(i, at[1], i)]
             /\ at' = <<at[1] + 1, 1>>
             /\ UNCHANGED stopped
  /\ UNCHANGED <<chip, grid, file, phase, b2g, g2b, now, stack, level, weights, out>>

\* append_package_layers: the spreader and the sink point to the floorplan and
\* the map of the layer before them, the board's layers to the silicon's.
WithPackage(ls) ==
  LET nl == NLayers(grid, file)
      like(n, k) == Layer(n, ls[k].flp, ls[k].map)
  IN [n \in DOMAIN ls |->
        IF n >= nl - 2 THEN like(n, nl - 3)
        ELSE IF n < SecPack(grid) THEN like(n, Base(grid, file))
        ELSE ls[n]]

\* The maps of the layers read are allocated, which needs their floorplans;
\* then the package layers are appended.
EndOfLayers ==
  /\ phase = "layers"
  /\ stopped = "no"
  /\ at[1] > Len(file)
  /\ LET inner == {n \in DOMAIN layers : n >= Base(grid, file) /\ n < NLayers(grid, file) - 2}
     IN IF \E n \in inner : layers[n].flp = 0
        THEN stopped' = "crash" /\ UNCHANGED <<layers, phase, at>>
        ELSE /\ layers' = WithPackage(layers)
             /\ phase' = "map"
             /\ at' = <<Base(grid, file), 1>>
             /\ UNCHANGED stopped
  /\ UNCHANGED <<chip, grid, file, b2g, g2b, now, stack, level, weights, out>>

-----------------------------------------------------------------------------
(* The map of blocks to cells. *)

Units(n) == chip.flps[layers[n].flp]

Ceil(x, y) == (x + y - 1) \div y

Extent(u, r, c) ==
  [i1 |-> r - Ceil(u.y + u.h, Ch(r)), i2 |-> r - u.y \div Ch(r),
   j1 |-> u.x \div Cw(c), j2 |-> Ceil(u.x + u.w, Cw(c))]

OutOfGrid(e, r, c) ==
  \/ e.i1 < 0 \/ e.j1 < 0
  \/ e.i2 > r \/ e.j2 > c
  \/ e.i1 >= e.i2 \/ e.j1 >= e.j2

\* The overlap of a unit with the cell in row i and column j.  A cell with
\* neighbours of the unit on all sides is taken as fully covered.
Occupancy(u, e, i, j, r, c) ==
  IF i > e.i1 /\ i < e.i2 - 1 /\ j > e.j1 /\ j < e.j2 - 1
  THEN Ch(r) * Cw(c)
  ELSE LET tc == chip.h - i * Ch(r)
           oh == Min({u.y + u.h, tc}) - Max({u.y, tc - Ch(r)})
           ow == Min({u.x + u.w, (j + 1) * Cw(c)}) - Max({u.x, j * Cw(c)})
       IN oh * ow

\* The cells' lists with unit k of the layer appended.
Listed(m, u, k, e, r, c) ==
  [cell \in CellsOf(r, c) |->
     IF cell[1] \in e.i1 .. e.i2 - 1 /\ cell[2] \in e.j1 .. e.j2 - 1
     THEN Append(m[cell], [u |-> k, occ |-> Occupancy(u, e, cell[1], cell[2], r, c)])
     ELSE m[cell]]

\* new_blist and blist_append in the detailed model: a cell has the resistance
\* of the unit that reaches the threshold, and otherwise that of its units in
\* parallel, weighted by their occupancies.  The resistance is the set of the
\* units and weights it is made of.
Locks(entry) == entry.occ * 100 >= Threshold * Ch(grid.rows) * Cw(grid.cols)

CellResistance(list) ==
  FoldLeft(LAMBDA acc, entry :
             IF acc.lock THEN acc
             ELSE IF Locks(entry) THEN [lock |-> TRUE, of |-> {<<entry.u, 0>>}]
             ELSE [lock |-> FALSE, of |-> acc.of \cup {<<entry.u, entry.occ>>}],
           [lock |-> FALSE, of |-> {}], list)

LastMapped == IF file = <<>> THEN Base(grid, file) ELSE NLayers(grid, file) - 3

MapUnit ==
  /\ phase = "map"
  /\ stopped = "no"
  /\ at[1] <= LastMapped
  /\ LET n == at[1]
         u == Units(n)[at[2]]
         e == Extent(u, grid.rows, grid.cols)
         bad == OutOfGrid(e, grid.rows, grid.cols)
     IN /\ stopped' = IF bad THEN "fatal" ELSE "no"
        /\ g2b' = IF bad THEN g2b ELSE [g2b EXCEPT ![n] = Append(@, e)]
        /\ b2g' = IF bad THEN b2g
                  ELSE [b2g EXCEPT ![n] = Listed(@, u, at[2], e, grid.rows, grid.cols)]
        /\ at' = IF at[2] < Len(Units(n)) THEN <<n, at[2] + 1>> ELSE <<n + 1, 1>>
  /\ UNCHANGED <<chip, grid, file, layers, phase, now, stack, level, weights, out>>

\* The blocks' power, for all layers one after the other: only the chip's
\* layers have any.
HasPower(n) == n >= Base(grid, file) /\ n < NLayers(grid, file) - 2
                 /\ (file = <<>> => n = Base(grid, file))

BlockPower(n, u) == IF HasPower(n) THEN Units(n)[u].q * Units(n)[u].w * Units(n)[u].h ELSE 0

BaseOf(n) == MapThenSumSet(LAMBDA k : Len(Units(k)), 0 .. n - 1)

PowerVector ==
  FoldLeft(LAMBDA acc, n : acc \o [u \in 1 .. Len(Units(n - 1)) |-> BlockPower(n - 1, u)],
           <<>>, [n \in 1 .. NLayers(grid, file) |-> n])

\* blist_avg.
CellPower(v, n, base, list) ==
  FoldLeft(LAMBDA acc, entry : acc + (entry.occ * v[base + entry.u])
                                       \div (Units(n)[entry.u].w * Units(n)[entry.u].h), 0, list)

\* xlate_vector_b2g for power.
XlatePower ==
  /\ phase = "map"
  /\ stopped = "no"
  /\ at[1] > LastMapped
  /\ phase' = "solve"
  /\ LET v == PowerVector
     IN now' = [now EXCEPT !.power =
                  [n \in DOMAIN layers |-> [cell \in Cells |->
                     CellPower(v, n, BaseOf(n), b2g[layers[n].map][cell])]]]
  /\ UNCHANGED <<chip, grid, file, layers, stopped, at, b2g, g2b, stack, level, weights, out>>

-----------------------------------------------------------------------------
(* The nested iteration. *)

\* multigrid_restrict_power: the four cells a coarse cell is made of.
RestrictPower(p, r, c) ==
  [cell \in CellsOf(r, c) |->
     p[<<2 * cell[1], 2 * cell[2]>>] + p[<<2 * cell[1] + 1, 2 * cell[2]>>]
       + p[<<2 * cell[1], 2 * cell[2] + 1>>] + p[<<2 * cell[1] + 1, 2 * cell[2] + 1>>]]

Coarsen ==
  /\ phase = "solve"
  /\ level = "down"
  /\ now.rows > 1
  /\ now.cols > 1
  /\ stack' = Append(stack, now.power)
  /\ LET r == now.rows \div 2
         c == now.cols \div 2
     IN now' = [now EXCEPT !.rows = r, !.cols = c, !.rz = @ \div 4,
                           !.power = [n \in DOMAIN layers |-> RestrictPower(@[n], r, c)]]
  /\ UNCHANGED <<chip, grid, file, layers, stopped, phase, at, b2g, g2b, level, weights, out>>

\* The layers' vertical resistances differ by a factor.
RzOf(n) == now.rz * (1 + (n % 2))

\* set_heuristic_temp, above the ambient: from the last layer up, each layer
\* is warmer by what flows through it, the power of the layers before it.
Flow(n, cell) == MapThenSumSet(LAMBDA k : now.power[k][cell], 0 .. n)

HeuristicTemp ==
  LET nl == NLayers(grid, file)
      temp[n \in 0 .. nl - 1] ==
        IF n = nl - 1 THEN [cell \in CellsOf(now.rows, now.cols) |-> Flow(n, cell) * RzOf(n)]
        ELSE [cell \in CellsOf(now.rows, now.cols) |-> temp[n + 1][cell] + Flow(n, cell) * RzOf(n)]
  IN temp

\* The coarsest grid: the estimate, then the relaxation.
Coarsest ==
  /\ phase = "solve"
  /\ level = "down"
  /\ now.rows <= 1 \/ now.cols <= 1
  /\ level' = "up"
  /\ UNCHANGED <<chip, grid, file, layers, stopped, phase, at, b2g, g2b, now, stack, weights, out>>

\* multigrid_prolong_temp: what each fine cell is interpolated from.  The
\* edges are written after the inside, the rows after the columns.
Prolong(r, c) ==
  [f \in CellsOf(2 * r, 2 * c) |->
     IF f[1] \in {0, 2 * r - 1} \/ f[2] \in {0, 2 * c - 1}
     THEN {<<<<f[1] \div 2, f[2] \div 2>>, 16>>}
     ELSE LET i == (f[1] - 1) \div 2
              j == (f[2] - 1) \div 2
              w(d, side) == IF d = side THEN 3 ELSE 1
          IN {<<<<i + di, j + dj>>, w(di, (f[1] - 1) % 2) * w(dj, (f[2] - 1) % 2)>> :
                 di \in {0, 1}, dj \in {0, 1}}]

\* The coarse solution is interpolated, the grid restored, and the relaxation
\* starts from the estimate.
Refine ==
  /\ phase = "solve"
  /\ level = "up"
  /\ stack # <<>>
  /\ weights' = Prolong(now.rows, now.cols)
  /\ now' = [rows |-> 2 * now.rows, cols |-> 2 * now.cols, rz |-> 4 * now.rz,
             power |-> stack[Len(stack)]]
  /\ stack' = SubSeq(stack, 1, Len(stack) - 1)
  /\ UNCHANGED <<chip, grid, file, layers, stopped, phase, at, b2g, g2b, level, out>>

Solved ==
  /\ phase = "solve"
  /\ level = "up"
  /\ stack = <<>>
  /\ phase' = "back"
  /\ UNCHANGED <<chip, grid, file, layers, stopped, at, b2g, g2b, now, stack, level, weights, out>>

-----------------------------------------------------------------------------
(* The temperatures of the blocks. *)

Fields == {"flat", "rows", "cols", "spot"}

Field(k, n, cell) ==
  CASE k = "flat" -> n
    [] k = "rows" -> cell[1]
    [] k = "cols" -> cell[2]
    [] k = "spot" -> IF cell = <<0, 0>> THEN 10 ELSE 0

Covered(e) == (e.i1 .. e.i2 - 1) \X (e.j1 .. e.j2 - 1)

\* The four cells (not necessarily distinct) around the centre of a block.
Centre(e) ==
  LET ci == (e.i1 + e.i2) \div 2
      cj == (e.j1 + e.j2) \div 2
      ci2 == IF (e.i2 - e.i1) % 2 = 0 THEN ci - 1 ELSE ci
      cj2 == IF (e.j2 - e.j1) % 2 = 0 THEN cj - 1 ELSE cj
  IN <<<<ci, cj>>, <<ci2, cj>>, <<ci, cj2>>, <<ci2, cj2>>>>

\* A block's temperature, as a fraction <<sum, count>>.
BlockTemp(mode, t, e) ==
  LET ts == {t[cell] : cell \in Covered(e)}
      c == Centre(e)
  IN CASE mode = "center" -> <<t[c[1]] + t[c[2]] + t[c[3]] + t[c[4]], 4>>
       [] mode = "avg" -> <<MapThenSumSet(LAMBDA cell : t[cell], Covered(e)), Cardinality(Covered(e))>>
       [] mode = "min" -> <<Min(ts), 1>>
       [] mode = "max" -> <<Max(ts), 1>>

\* xlate_temp_g2b: all layers' blocks one after the other.
Blocks(mode, k) ==
  FoldLeft(LAMBDA acc, n :
             LET t == [cell \in Cells |-> Field(k, n - 1, cell)]
                 es == g2b[layers[n - 1].map]
             IN acc \o [u \in 1 .. Len(Units(n - 1)) |-> BlockTemp(mode, t, es[u])],
           <<>>, [n \in 1 .. NLayers(grid, file) |-> n])

Back ==
  /\ phase = "back"
  /\ phase' = "done"
  /\ \E mode \in {"avg", "min", "max", "center"}, k \in Fields :
       out' = [mode |-> mode, field |-> k, blocks |-> Blocks(mode, k)]
  /\ UNCHANGED <<chip, grid, file, layers, stopped, at, b2g, g2b, now, stack, level, weights>>

-----------------------------------------------------------------------------

Init ==
  /\ chip \in Chips
  /\ grid \in Grids
  /\ file \in Files
  /\ layers = IF file = <<>> THEN DefaultLayers(grid)
              ELSE [n \in 0 .. NLayers(grid, file) - 1 |-> Blank]
  /\ stopped = "no"
  /\ phase = "layers"
  /\ at = <<1, 1>>
  /\ b2g = [n \in DOMAIN layers |-> [cell \in Cells |-> <<>>]]
  /\ g2b = [n \in DOMAIN layers |-> <<>>]
  /\ now = [rows |-> grid.rows, cols |-> grid.cols, rz |-> FullRz, power |-> <<>>]
  /\ stack = <<>>
  /\ level = "down"
  /\ weights = <<>>
  /\ out = [mode |-> "none"]

Next ==
  \/ ReadLayer \/ EndOfLayers \/ MapUnit \/ XlatePower
  \/ Coarsen \/ Coarsest \/ Refine \/ Solved \/ Back

Spec == Init /\ [][Next]_vars

-----------------------------------------------------------------------------
(* Properties. *)

\* A layer file that is accepted gives each layer once ("layer numbers must be
\* unique"): every block of lines is some layer.  A repetition goes unnoticed
\* only for layer 0 of a stack without the board, whose number is that of a
\* layer not read yet; the floorplan of the layer left out is then used.
LayersAreUnique ==
  /\ phase # "layers" /\ file # <<>> => {layers[n].flp : n \in DOMAIN layers} = 1 .. Len(file)
  /\ stopped = "crash" => ~grid.sec /\ Cardinality({k \in 1 .. Len(file) : file[k] = 0}) > 1

\* A floorplan that tiles the chip covers every cell exactly: the overlaps of
\* its units (set_bgmap, rows counted from the top and heights from the
\* bottom) add up to the cell's area.
CellsAreCovered ==
  phase = "map" /\ stopped = "no" =>
    \A n \in {k \in DOMAIN layers : k < at[1] /\ b2g[k] # [cell \in Cells |-> <<>>]} :
      \A cell \in Cells :
        FoldLeft(LAMBDA acc, entry : acc + entry.occ, 0, b2g[n][cell]) = Ch(grid.rows) * Cw(grid.cols)

\* A cell's resistance in the detailed model does not depend on the order in
\* which the floorplan lists the units that share the cell.
OrderDoesNotMatter ==
  phase = "map" =>
    \A n \in DOMAIN layers : \A cell \in Cells :
      CellResistance(b2g[n][cell]) = CellResistance(Reverse(b2g[n][cell]))

Power(n, r, c) ==
  [cell \in CellsOf(r, c) |->
     MapThenSumSet(LAMBDA u :
       LET e == Extent(Units(n)[u], r, c)
       IN IF HasPower(n) /\ cell \in Covered(e)
          THEN Units(n)[u].q * Occupancy(Units(n)[u], e, cell[1], cell[2], r, c) ELSE 0,
       DOMAIN Units(n))]

\* At every level of the nested iteration the grid has the power that mapping
\* the blocks at that resolution would give: translation and coarsening
\* neither lose nor move power, and going back up restores it.
PowerIsKept ==
  phase = "solve" => \A n \in DOMAIN layers : now.power[n] = Power(n, now.rows, now.cols)

\* The vertical resistance of a cell follows its area, and after the nested
\* iteration the grid is as it was before.
GridIsRestored ==
  /\ now.rz * grid.rows * grid.cols = FullRz * now.rows * now.cols
  /\ phase \in {"back", "done"} => now.rows = grid.rows /\ now.cols = grid.cols

\* The estimate the coarsest grid starts from is the exact solution without
\* lateral flow: what a layer receives from the one above and its own power
\* leave it for the one below.
HeuristicBalances ==
  phase = "solve" /\ level = "down" /\ (now.rows <= 1 \/ now.cols <= 1) =>
    LET temp == HeuristicTemp
    IN \A n \in 1 .. NLayers(grid, file) - 2 : \A cell \in CellsOf(now.rows, now.cols) :
         (temp[n][cell] - temp[n + 1][cell]) * RzOf(n - 1)
           = (temp[n - 1][cell] - temp[n][cell]) * RzOf(n) + now.power[n][cell] * RzOf(n) * RzOf(n - 1)

\* The interpolation is a mean of coarse cells for every fine cell, and inside
\* the grid it reproduces a linear field: the centre of coarse cell i is at
\* 2i + 1/2 in fine cells.
InterpolationIsLinear ==
  \A f \in DOMAIN weights :
    LET sum(g(_)) == MapThenSumSet(LAMBDA x : x[2] * g(x[1]), weights[f])
        inside == \A k \in {1, 2} : f[k] > 0 /\ f[k] < (IF k = 1 THEN now.rows ELSE now.cols) - 1
    IN /\ sum(LAMBDA s : 1) = 16
       /\ inside => /\ sum(LAMBDA s : 4 * s[1] + 1) = 32 * f[1]
                    /\ sum(LAMBDA s : 4 * s[2] + 1) = 32 * f[2]

\* A block's temperature is between those of its coldest and hottest cell,
\* whatever the mapping mode, and it is found at the block's place in the
\* vector: the layers' blocks follow each other.
BlocksAreWithin ==
  phase = "done" =>
    \A n \in DOMAIN layers : \A u \in DOMAIN Units(n) :
      LET e == Extent(Units(n)[u], grid.rows, grid.cols)
          ts == {Field(out.field, n, cell) : cell \in Covered(e)}
          t == out.blocks[BaseOf(n) + u]
      IN t[1] >= Min(ts) * t[2] /\ t[1] <= Max(ts) * t[2]

=============================================================================
