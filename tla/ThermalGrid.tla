---------------------------- MODULE ThermalGrid ----------------------------
(***************************************************************************)
(* The heat network of HotSpot's grid model (HotSpot-6.0/temperature_grid.c *)
(* and util.c).  The same network is written down three times in the code:  *)
(* in the Gauss-Seidel iteration of the steady solver, in the slope of the  *)
(* transient solver, and in the sparse matrix and right-hand side of the    *)
(* direct solver.  Each is translated on its own, as the terms (neighbour,  *)
(* resistance) of a node's equation; the properties compare them.           *)
(*                                                                         *)
(* Temperatures are left out: every equation is linear in them, and the    *)
(* terms determine it.  A resistance is its expression in the code: its    *)
(* name and what it is indexed by.  The matrix is built row by row, with   *)
(* the index arithmetic of the code; the actions are the iterations of its *)
(* loops and the final conversion to the compressed form.                  *)
(***************************************************************************)
EXTENDS Integers, Sequences, FiniteSets, Bags, TLC

CONSTANTS Models     \* the grids: [nl, nr, nc, sec, det], see below

VARIABLES model,     \* nl layers of nr rows and nc columns; sec: the path
                     \* through the board is modelled; det: the cells of the
                     \* chip layers have resistances of their own
          row,       \* how many rows of the matrix are built
          coo,       \* the entries pushed: [x, y, r], r the resistance of an
                     \* off-diagonal entry and <<"sum">> for a diagonal
          dia,       \* the diagonal of each row, as a bag of resistances
          csc        \* the compressed columns, <<>> until converted

vars == <<model, row, coo, dia, csc>>

Sides == {"N", "S", "W", "E"}

Axis(d) == IF d \in {"N", "S"} THEN "y" ELSE "x"

Ambient == <<"ambient">>

T(to, r) == [to |-> to, r |-> r]

-----------------------------------------------------------------------------
(* The layers and the nodes. *)

Sp(m) == m.nl - 2

Hs(m) == m.nl - 1

PcbIdx == 0

SolderIdx == 1

SubIdx == 2

Cells(m) == (0 .. m.nl - 1) \X (0 .. m.nr - 1) \X (0 .. m.nc - 1)

\* The rings of package nodes, in the order of their numbers.
Rings(m) == IF m.sec THEN <<"SP", "SINK_C", "SINK", "SUB", "SOLDER", "PCB_C", "PCB">>
            ELSE <<"SP", "SINK_C", "SINK">>

PackNodes(m) == {Rings(m)[k] : k \in 1 .. Len(Rings(m))} \X Sides

Nodes(m) == Cells(m) \cup PackNodes(m)

SideNo == [W |-> 0, E |-> 1, N |-> 2, S |-> 3]

PackNo(m, p) == 4 * ((CHOOSE k \in 1 .. Len(Rings(m)) : Rings(m)[k] = p[1]) - 1) + SideNo[p[2]]

Index(m, n) == IF n \in Cells(m) THEN n[1] * m.nr * m.nc + n[2] * m.nc + n[3]
               ELSE m.nl * m.nr * m.nc + PackNo(m, n)

\* find_res_3D: the cells of the chip layers have their own resistance in the
\* detailed model (here the left column differs from the others), the package
\* layers the one of the layer.
FindRes(m, axis, l, i, j) ==
  IF /\ m.det
     /\ l < Sp(m)
     /\ m.sec => l > SubIdx
  THEN <<"cell", axis, l, IF j = 0 THEN 0 ELSE 1>>
  ELSE <<"layer", axis, l>>

\* Half the resistance of an edge cell and its share of the ring's.
Edge(l, ring, axis) == <<"edge", l, ring, axis>>

EdgeCells(m, l, d) ==
  {c \in Cells(m) : /\ c[1] = l
                    /\ CASE d = "N" -> c[2] = 0
                         [] d = "S" -> c[2] = m.nr - 1
                         [] d = "W" -> c[3] = 0
                         [] d = "E" -> c[3] = m.nc - 1}

SidesOf(m, c) == {d \in Sides : c \in EdgeCells(m, c[1], d)}

-----------------------------------------------------------------------------
(* The Gauss-Seidel iteration: csum, a bag of resistances, and wsum, the    *)
(* weighted temperatures.                                                   *)

One(r) == SetToBag({r})

If(b, r) == IF b THEN One(r) ELSE EmptyBag

\* The macros NC .. AC and their _det3D forms, summed.
NeighbourConductances(m, c) ==
  LET l == c[1]
      i == c[2]
      j == c[3]
  IN If(i > 0, FindRes(m, "y", l, i - 1, j)) (+) If(i < m.nr - 1, FindRes(m, "y", l, i + 1, j))
       (+) If(j < m.nc - 1, FindRes(m, "x", l, i, j + 1)) (+) If(j > 0, FindRes(m, "x", l, i, j - 1))
       (+) If(l > 0, FindRes(m, "z", l - 1, i, j)) (+) If(l < m.nl - 1, FindRes(m, "z", l, i, j))

\* The macros NT .. AT and their _det3D forms, summed.
NeighbourTemps(m, c) ==
  LET l == c[1]
      i == c[2]
      j == c[3]
  IN {T(<<l, k, j>>, FindRes(m, "y", l, k, j)) : k \in {i - 1, i + 1} \cap 0 .. m.nr - 1}
       \cup {T(<<l, i, k>>, FindRes(m, "x", l, i, k)) : k \in {j - 1, j + 1} \cap 0 .. m.nc - 1}
       \cup {T(<<k, i, j>>, FindRes(m, "z", IF k < l THEN k ELSE l, i, j)) :
                k \in {l - 1, l + 1} \cap 0 .. m.nl - 1}

\* What a layer's cells are connected to beyond their neighbours: the ring at
\* their edge, and what leads to the ambient.
SteadyRing(m, l) ==
  CASE l = Sp(m) -> "SP"
    [] l = Hs(m) -> "SINK_C"
    [] l = SubIdx /\ m.sec -> "SUB"
    [] l = SolderIdx /\ m.sec -> "SOLDER"
    [] l = PcbIdx /\ m.sec -> "PCB_C"
    [] OTHER -> "none"

SteadyAmbient(m, l) ==
  CASE l = Hs(m) -> {<<"layer", "z", l>>}
    [] l = PcbIdx /\ m.sec -> {<<"r_convec_sec">>}
    [] OTHER -> {}

SteadyCell(m, c) ==
  LET l == c[1]
      ring == SteadyRing(m, l)
  IN NeighbourTemps(m, c)
       \cup {T(Ambient, r) : r \in SteadyAmbient(m, l)}
       \cup IF ring = "none" THEN {}
            ELSE {T(<<ring, d>>, Edge(l, ring, Axis(d))) : d \in SidesOf(m, c)}

SteadyCellConductances(m, c) ==
  LET l == c[1]
      ring == SteadyRing(m, l)
      b(d) == If(ring # "none" /\ d \in SidesOf(m, c), Edge(l, ring, Axis(d)))
  IN NeighbourConductances(m, c) (+) SetToBag(SteadyAmbient(m, l))
       (+) b("N") (+) b("S") (+) b("E") (+) b("W")

\* The cells at the edge of a layer, as seen from the ring around it.
Rim(m, l, p) == {T(c, Edge(l, p[1], Axis(p[2]))) : c \in EdgeCells(m, l, p[2])}

SteadySink(m, p) ==
  LET d == p[2]
      a == Axis(d)
  IN IF p[1] = "SINK"
     THEN {T(Ambient, <<"r_hs_per+r_amb_per">>), T(<<"SINK_C", d>>, <<"r_hs2+r_hs", a>>)}
     ELSE Rim(m, Hs(m), p)
            \cup {T(Ambient, <<"r_hs_c_per+r_amb_c_per", a>>),
                  T(<<"SP", d>>, <<"r_sp_per", a>>), T(<<"SINK", d>>, <<"r_hs2+r_hs", a>>)}

SteadySpreader(m, p) ==
  Rim(m, Sp(m), p) \cup {T(<<"SINK_C", p[2]>>, <<"r_sp_per", Axis(p[2])>>)}

SteadyBoard(m, p) ==
  LET d == p[2]
      a == Axis(d)
  IN IF p[1] = "PCB"
     THEN {T(Ambient, <<"r_amb_sec_per">>), T(<<"PCB_C", d>>, <<"r_pcb2+r_pcb", a>>)}
     ELSE Rim(m, PcbIdx, p)
            \cup {T(Ambient, <<"r_amb_sec_c_per", a>>),
                  T(<<"SOLDER", d>>, <<"r_pcb_c_per", a>>), T(<<"PCB", d>>, <<"r_pcb2+r_pcb", a>>)}

SteadySolder(m, p) ==
  LET d == p[2]
      a == Axis(d)
  IN Rim(m, SolderIdx, p) \cup {T(<<"PCB_C", d>>, <<"r_pcb_c_per", a>>),
                                T(<<"SUB", d>>, <<"r_solder_per", a>>)}

SteadySubstrate(m, p) ==
  Rim(m, SubIdx, p) \cup {T(<<"SOLDER", p[2]>>, <<"r_solder_per", Axis(p[2])>>)}

\* single_iteration_steady_grid and single_iteration_steady_pack.
Steady(m, n) ==
  CASE n \in Cells(m) -> SteadyCell(m, n)
    [] n[1] \in {"SINK", "SINK_C"} -> SteadySink(m, n)
    [] n[1] = "SP" -> SteadySpreader(m, n)
    [] n[1] \in {"PCB", "PCB_C"} -> SteadyBoard(m, n)
    [] n[1] = "SOLDER" -> SteadySolder(m, n)
    [] n[1] = "SUB" -> SteadySubstrate(m, n)

\* csum of a package node: the same for north and south, and for west and
\* east.  A ring divides its resistance among the cells at the edge.
PackConductances(m, ring, a) ==
  LET rim(l) == Edge(l, ring, a) :> (IF a = "y" THEN m.nc ELSE m.nr)
  IN CASE ring = "SINK" -> SetToBag({<<"r_hs_per+r_amb_per">>, <<"r_hs2+r_hs", a>>})
       [] ring = "SINK_C" -> rim(Hs(m)) (+) SetToBag({<<"r_hs_c_per+r_amb_c_per", a>>,
                                                      <<"r_sp_per", a>>, <<"r_hs2+r_hs", a>>})
       [] ring = "SP" -> rim(Sp(m)) (+) One(<<"r_sp_per", a>>)
       [] ring = "PCB" -> SetToBag({<<"r_amb_sec_per">>, <<"r_pcb2+r_pcb", a>>})
       [] ring = "PCB_C" -> rim(PcbIdx) (+) SetToBag({<<"r_amb_sec_c_per", a>>,
                                                      <<"r_pcb_c_per", a>>, <<"r_pcb2+r_pcb", a>>})
       [] ring = "SOLDER" -> rim(SolderIdx) (+) SetToBag({<<"r_solder_per", a>>, <<"r_pcb_c_per", a>>})
       [] ring = "SUB" -> rim(SubIdx) (+) One(<<"r_solder_per", a>>)

Conductances(m, n) == IF n \in Cells(m) THEN SteadyCellConductances(m, n)
                      ELSE PackConductances(m, n[1], Axis(n[2]))

-----------------------------------------------------------------------------
(* The slope of the transient solver: the currents into a node.             *)

\* The macros NP .. AP and their _det3D forms.
NeighbourCurrents(m, c) ==
  LET l == c[1]
      i == c[2]
      j == c[3]
      t(b, to, axis, k) == IF b THEN {T(to, FindRes(m, axis, k[1], k[2], k[3]))} ELSE {}
  IN t(i > 0, <<l, i - 1, j>>, "y", <<l, i - 1, j>>)
       \cup t(i < m.nr - 1, <<l, i + 1, j>>, "y", <<l, i + 1, j>>)
       \cup t(j < m.nc - 1, <<l, i, j + 1>>, "x", <<l, i, j + 1>>)
       \cup t(j > 0, <<l, i, j - 1>>, "x", <<l, i, j - 1>>)
       \cup t(l < m.nl - 1, <<l + 1, i, j>>, "z", <<l, i, j>>)
       \cup t(l > 0, <<l - 1, i, j>>, "z", <<l - 1, i, j>>)

SlopeEdge(m, c, ring) == {T(<<ring, d>>, Edge(c[1], ring, Axis(d))) : d \in SidesOf(m, c)}

SlopeCell(m, c) ==
  LET l == c[1]
  IN NeighbourCurrents(m, c)
       \cup CASE l = Sp(m) -> SlopeEdge(m, c, "SP")
              [] l = Hs(m) -> {T(Ambient, <<"layer", "z", l>>)} \cup SlopeEdge(m, c, "SINK_C")
              [] l = PcbIdx /\ m.sec -> {T(Ambient, <<"r_convec_sec">>)} \cup SlopeEdge(m, c, "PCB_C")
              [] l = SubIdx /\ m.sec -> SlopeEdge(m, c, "SUB")
              [] l = SolderIdx /\ m.sec -> SlopeEdge(m, c, "SOLDER")
              [] OTHER -> {}

SlopeSink(m, p) ==
  LET d == p[2]
      a == Axis(d)
  IN IF p[1] = "SINK"
     THEN {T(Ambient, <<"r_hs_per+r_amb_per">>), T(<<"SINK_C", d>>, <<"r_hs2+r_hs", a>>)}
     ELSE Rim(m, Hs(m), p)
            \cup {T(Ambient, <<"r_hs_c_per+r_amb_c_per", a>>),
                  T(<<"SP", d>>, <<"r_sp_per", a>>), T(<<"SINK", d>>, <<"r_hs2+r_hs", a>>)}

SlopeSpreader(m, p) ==
  Rim(m, Sp(m), p) \cup {T(<<"SINK_C", p[2]>>, <<"r_sp_per", Axis(p[2])>>)}

SlopeBoard_NoSolder(m, p) ==
  LET d == p[2]
      a == Axis(d)
  IN IF p[1] = "PCB"
     THEN {T(Ambient, <<"r_amb_sec_per">>), T(<<"PCB_C", d>>, <<"r_pcb2+r_pcb", a>>)}
     ELSE Rim(m, PcbIdx, p)
            \cup {T(Ambient, <<"r_amb_sec_c_per", a>>), T(<<"PCB", d>>, <<"r_pcb2+r_pcb", a>>)}

SlopeBoard(m, p) ==
  LET d == p[2]
      a == Axis(d)
  IN IF p[1] = "PCB"
     THEN {T(Ambient, <<"r_amb_sec_per">>), T(<<"PCB_C", d>>, <<"r_pcb2+r_pcb", a>>)}
     ELSE Rim(m, PcbIdx, p)
            \cup {T(Ambient, <<"r_amb_sec_c_per", a>>),
                  T(<<"SOLDER", d>>, <<"r_pcb_c_per", a>>), T(<<"PCB", d>>, <<"r_pcb2+r_pcb", a>>)}

\* Unlike the steady solver's, without the current from the substrate.
SlopeSolder(m, p) == Rim(m, SolderIdx, p) \cup {T(<<"PCB_C", p[2]>>, <<"r_pcb_c_per", Axis(p[2])>>)}

SlopeSubstrate(m, p) ==
  Rim(m, SubIdx, p) \cup {T(<<"SOLDER", p[2]>>, <<"r_solder_per", Axis(p[2])>>)}

\* slope_fn_grid and slope_fn_pack.
Slope(m, n) ==
  CASE n \in Cells(m) -> SlopeCell(m, n)
    [] n[1] \in {"SINK", "SINK_C"} -> SlopeSink(m, n)
    [] n[1] = "SP" -> SlopeSpreader(m, n)
    [] n[1] \in {"PCB", "PCB_C"} -> SlopeBoard(m, n)
    [] n[1] = "SOLDER" -> SlopeSolder(m, n)
    [] n[1] = "SUB" -> SlopeSubstrate(m, n)

-----------------------------------------------------------------------------
(* The matrix of the direct solver, pushed entry by entry.                  *)

\* Rn, Rs, Rw and Re of a cell, Ra and Rb of the layers above and below it.
CellRes(m, l, i, j) ==
  [N |-> FindRes(m, "y", l, i - 1, j), S |-> FindRes(m, "y", l, i + 1, j),
   W |-> FindRes(m, "x", l, i, j - 1), E |-> FindRes(m, "x", l, i, j + 1),
   A |-> FindRes(m, "z", l - 1, i, j), B |-> FindRes(m, "z", l, i, j)]

\* A row is the sequence of its off-diagonal entries, [y, r], and what is
\* added to the diagonal beside them.
Entry(y, r) == [y |-> y, r |-> r]

\* The entries towards the neighbours on the given sides and in the layers
\* below and above: grididx is the cell's number in its layer.
Lateral(m, l, grididx, sides) ==
  LET res == CellRes(m, l, grididx \div m.nc, grididx % m.nc)
      here == l * m.nr * m.nc + grididx
      off == [N |-> 0 - m.nc, S |-> m.nc, W |-> -1, E |-> 1]
  IN [k \in 1 .. Len(sides) |-> Entry(here + off[sides[k]], res[sides[k]])]
       \o (IF l < m.nl - 1 THEN <<Entry(here + m.nr * m.nc, res.B)>> ELSE <<>>)
       \o (IF l > 0 THEN <<Entry(here - m.nr * m.nc, res.A)>> ELSE <<>>)

\* The number of a package node in the whole vector.
At(m, ring, d) == m.nl * m.nr * m.nc + PackNo(m, <<ring, d>>)

\* The entries towards the ring around the layer, on the sides the cell
\* borders.
ToRing(m, l, sides) ==
  LET to(ring) == [k \in 1 .. Len(sides) |-> Entry(At(m, ring, sides[k]), Edge(l, ring, Axis(sides[k])))]
  IN CASE l = Sp(m) -> to("SP")
       [] l = Hs(m) -> to("SINK_C")
       [] l = SubIdx /\ m.sec -> to("SUB")
       [] l = SolderIdx /\ m.sec -> to("SOLDER")
       [] l = PcbIdx /\ m.sec -> to("PCB_C")
       [] OTHER -> <<>>

ToAmbient(m, l) ==
  CASE l = Hs(m) -> {<<"layer", "z", l>>}
    [] l = PcbIdx /\ m.sec -> {<<"r_convec_sec">>}
    [] OTHER -> {}

Row(off, amb) == [off |-> off, amb |-> amb]

CellRow(m, l, g, sides, rims) == Row(Lateral(m, l, g, sides) \o ToRing(m, l, rims), ToAmbient(m, l))

TopLeft(m, l, g) == CellRow(m, l, g, <<"E", "S">>, <<"N", "W">>)

TopRight(m, l, g) == CellRow(m, l, g, <<"W", "S">>, <<"N", "E">>)

BottomLeft(m, l, g) == CellRow(m, l, g, <<"E", "N">>, <<"S", "W">>)

BottomRight(m, l, g) == CellRow(m, l, g, <<"W", "N">>, <<"S", "E">>)

TopEdge(m, l, g) == CellRow(m, l, g, <<"W", "E", "S">>, <<"N">>)

BottomEdge(m, l, g) == CellRow(m, l, g, <<"W", "E", "N">>, <<"S">>)

WestEdge(m, l, g) == CellRow(m, l, g, <<"N", "S", "E">>, <<"W">>)

EastEdge(m, l, g) == CellRow(m, l, g, <<"N", "S", "W">>, <<"E">>)

Inside(m, l, g) == CellRow(m, l, g, <<"N", "S", "W", "E">>, <<>>)

\* The cases are tried in the code's order, on the number of the cell.
BuildCell(m, l, g) ==
  LET last == m.nr * m.nc - 1
  IN CASE g = 0 -> TopLeft(m, l, g)
       [] g = m.nc - 1 /\ g # 0 -> TopRight(m, l, g)
       [] g = last + 1 - m.nc /\ g \notin {0, m.nc - 1} -> BottomLeft(m, l, g)
       [] g = last /\ g \notin {0, m.nc - 1, last + 1 - m.nc} -> BottomRight(m, l, g)
       [] g > 0 /\ g < m.nc - 1 -> TopEdge(m, l, g)
       [] g > last + 1 - m.nc /\ g < last -> BottomEdge(m, l, g)
       [] OTHER -> IF g % m.nc = 0 THEN WestEdge(m, l, g)
                   ELSE IF (g + 1) % m.nc = 0 THEN EastEdge(m, l, g)
                   ELSE Inside(m, l, g)

\* The entries of a ring's node towards the edge of its layer.
FromRim(m, l, ring, d) ==
  LET r == Edge(l, ring, Axis(d))
      base == l * m.nr * m.nc
  IN CASE d = "N" -> [j \in 1 .. m.nc |-> Entry(base + j - 1, r)]
       [] d = "S" -> [j \in 1 .. m.nc |-> Entry(base + (m.nr - 1) * m.nc + j - 1, r)]
       [] d = "W" -> [i \in 1 .. m.nr |-> Entry(base + (i - 1) * m.nc, r)]
       [] d = "E" -> [i \in 1 .. m.nr |-> Entry(base + i * m.nc - 1, r)]

BuildSink(m, ring, d) ==
  LET a == Axis(d)
  IN IF ring = "SINK"
     THEN Row(<<Entry(At(m, "SINK_C", d), <<"r_hs2+r_hs", a>>)>>, {<<"r_hs_per+r_amb_per">>})
     ELSE Row(FromRim(m, Hs(m), ring, d)
                \o <<Entry(At(m, "SP", d), <<"r_sp_per", a>>), Entry(At(m, "SINK", d), <<"r_hs2+r_hs", a>>)>>,
              {<<"r_hs_c_per+r_amb_c_per", a>>})

BuildSpreader(m, d) ==
  Row(Append(FromRim(m, Sp(m), "SP", d), Entry(At(m, "SINK_C", d), <<"r_sp_per", Axis(d)>>)), {})

BuildBoard(m, ring, d) ==
  LET a == Axis(d)
  IN IF ring = "PCB"
     THEN Row(<<Entry(At(m, "PCB_C", d), <<"r_pcb2+r_pcb", a>>)>>, {<<"r_amb_sec_per">>})
     ELSE Row(FromRim(m, PcbIdx, ring, d)
                \o <<Entry(At(m, "SOLDER", d), <<"r_pcb_c_per", a>>), Entry(At(m, "PCB", d), <<"r_pcb2+r_pcb", a>>)>>,
              {<<"r_amb_sec_c_per", a>>})

BuildSolder(m, d) ==
  Row(FromRim(m, SolderIdx, "SOLDER", d)
        \o <<Entry(At(m, "SUB", d), <<"r_solder_per", Axis(d)>>),
             Entry(At(m, "PCB_C", d), <<"r_pcb_c_per", Axis(d)>>)>>, {})

BuildSubstrate(m, d) ==
  Row(Append(FromRim(m, SubIdx, "SUB", d), Entry(At(m, "SOLDER", d), <<"r_solder_per", Axis(d)>>)), {})

BuildPack(m, ring, d) ==
  CASE ring \in {"SINK", "SINK_C"} -> BuildSink(m, ring, d)
    [] ring = "SP" -> BuildSpreader(m, d)
    [] ring \in {"PCB", "PCB_C"} -> BuildBoard(m, ring, d)
    [] ring = "SOLDER" -> BuildSolder(m, d)
    [] ring = "SUB" -> BuildSubstrate(m, d)

\* The order in which the package nodes' rows are built.
PackOrder(m) ==
  LET ring(r) == <<<<r, "N">>, <<r, "S">>, <<r, "W">>, <<r, "E">>>>
  IN ring("SINK") \o ring("SINK_C") \o ring("SP")
       \o (IF m.sec THEN ring("PCB") \o ring("PCB_C") \o ring("SOLDER") \o ring("SUB") ELSE <<>>)

\* The node the k-th row (from 0) is built for.
NodeOf(m, k) ==
  LET plane == m.nr * m.nc
  IN IF k < m.nl * plane THEN <<k \div plane, (k % plane) \div m.nc, k % m.nc>>
     ELSE PackOrder(m)[k - m.nl * plane + 1]

Size(m) == m.nl * m.nr * m.nc + 4 * Len(Rings(m))

\* The space allocated for the entries.
Nnz(m) ==
  LET cells == m.nl * (5 * m.nr * m.nc - 2 * (m.nr + m.nc)) + 2 * (m.nl - 1) * m.nr * m.nc
  IN IF m.sec THEN cells + 20 * (m.nr + m.nc) + 12 + 16 + 16 + 24
     ELSE cells + 8 * (m.nr + m.nc) + 12 + 16

\* The ambient's part in the right-hand side.
Rhs(m, n) ==
  IF n \in Cells(m)
  THEN CASE n[1] = Hs(m) -> {<<"layer", "z", n[1]>>}
         [] n[1] = PcbIdx /\ m.sec -> {<<"r_convec_sec">>}
         [] OTHER -> {}
  ELSE CASE n[1] = "SINK_C" -> {<<"r_hs_c_per+r_amb_c_per", Axis(n[2])>>}
         [] n[1] = "SINK" -> {<<"r_hs_per+r_amb_per">>}
         [] n[1] = "PCB_C" -> {<<"r_amb_sec_c_per", Axis(n[2])>>}
         [] n[1] = "PCB" -> {<<"r_amb_sec_per">>}
         [] OTHER -> {}

\* coo2csc: sorted by column, then row; a column starts where the first entry
\* beyond the earlier ones is.
Compress(m, entries) ==
  LET before(e, f) == e.y < f.y \/ (e.y = f.y /\ e.x < f.x)
      sorted == SortSeq(entries, before)
  IN [rowInd |-> [k \in 1 .. Len(sorted) |-> sorted[k].x],
      colPtr |-> [y \in 0 .. sorted[Len(sorted)].y + 1 |-> Cardinality({k \in 1 .. Len(sorted) : sorted[k].y < y})]]

-----------------------------------------------------------------------------

Init ==
  /\ model \in Models
  /\ row = 0
  /\ coo = <<>>
  /\ dia = <<>>
  /\ csc = <<>>

Push(m, n, built) ==
  LET x == Index(m, n)
      pushed == [k \in 1 .. Len(built.off) |-> [x |-> x, y |-> built.off[k].y, r |-> built.off[k].r]]
      count(r) == Cardinality({k \in 1 .. Len(built.off) : built.off[k].r = r})
      rs == {built.off[k].r : k \in 1 .. Len(built.off)}
  IN /\ coo' = Append(coo \o pushed, [x |-> x, y |-> x, r |-> <<"sum">>])
     /\ dia' = Append(dia, [r \in rs |-> count(r)] (+) SetToBag(built.amb))
     /\ row' = row + 1
     /\ UNCHANGED <<model, csc>>

CellStep ==
  /\ row < model.nl * model.nr * model.nc
  /\ LET n == NodeOf(model, row)
     IN Push(model, n, BuildCell(model, n[1], n[2] * model.nc + n[3]))

PackStep ==
  /\ row >= model.nl * model.nr * model.nc
  /\ row < Size(model)
  /\ LET n == NodeOf(model, row)
     IN Push(model, n, BuildPack(model, n[1], n[2]))

Convert ==
  /\ row = Size(model)
  /\ csc = <<>>
  /\ csc' = Compress(model, coo)
  /\ UNCHANGED <<model, row, coo, dia>>

Next == CellStep \/ PackStep \/ Convert

Spec == Init /\ [][Next]_vars

-----------------------------------------------------------------------------
(* Properties. *)

\* The row just built, in terms of nodes.
LastNode == NodeOf(model, row - 1)

LastTerms ==
  LET x == Index(model, LastNode)
      es == SelectSeq(coo, LAMBDA e : e.x = x /\ e.y # x)
  IN {<<es[k].y, es[k].r>> : k \in 1 .. Len(es)}

Numbered(terms) == {<<Index(model, t.to), t.r>> : t \in {u \in terms : u.to # Ambient}}

Resistances(terms) ==
  [r \in {t.r : t \in terms} |-> Cardinality({t \in terms : t.r = r})]

\* The matrix of the direct solver (build_steady_grid_matrix, one branch per
\* corner, edge and ring) has the same equations as the iteration of
\* single_iteration_steady_grid: each row couples the node with the same
\* neighbours through the same resistances, and its diagonal is the
\* iteration's sum of conductances.
SolversAgree ==
  row > 0 => /\ LastTerms = Numbered(Steady(model, LastNode))
             /\ dia[row] = Conductances(model, LastNode)

\* In the iteration, the sum of the conductances a temperature is divided by
\* (csum) has exactly the terms of the weighted sum (wsum), for every node:
\* a chip at one temperature stays at it.
MeansAreWeighted ==
  row = 0 => \A n \in Nodes(model) : Conductances(model, n) = Resistances(Steady(model, n))

\* The ambient enters the right-hand side (build_steady_rhs_vector) through
\* the very resistances that the diagonal has beside the row's couplings:
\* without power everything is at the ambient temperature.
AmbientBalances ==
  row > 0 => dia[row] = Resistances({T(e, e[2]) : e \in LastTerms}
                                      \cup {T(Ambient, r) : r \in Rhs(model, LastNode)})

\* Heat that leaves a node for another arrives there: the matrix of a model
\* whose layers are uniform is symmetric, each coupling being pushed once
\* from either side.
HeatIsConserved ==
  row = Size(model) /\ ~model.det =>
    LET es == {<<coo[k].x, coo[k].y, coo[k].r>> : k \in 1 .. Len(coo)}
    IN /\ Cardinality(es) = Len(coo)
       /\ \A e \in es : <<e[2], e[1], e[3]>> \in es

\* The pushes never run past the arrays, whose size is computed beforehand
\* from a count of the couplings (nnz), and fill them.
EntriesFit ==
  /\ Len(coo) <= Nnz(model)
  /\ row = Size(model) => Len(coo) = Nnz(model)

\* The compressed matrix gives back the entries: column by column, from
\* colPtr[y] up to colPtr[y + 1], the rows that the entries of the column
\* have, with no column empty.
CompressedIsTheSame ==
  csc # <<>> =>
    /\ csc.colPtr[Size(model)] = Len(coo)
    /\ \A y \in 0 .. Size(model) - 1 :
         {csc.rowInd[k] : k \in csc.colPtr[y] + 1 .. csc.colPtr[y + 1]}
           = {coo[k].x : k \in {i \in 1 .. Len(coo) : coo[i].y = y}}

\* The transient solver (slope_fn_grid, slope_fn_pack) settles at the steady
\* state: a node's currents are those of the iteration's equation, for every
\* node but the solder rings.
TransientSettles ==
  row = 0 => \A n \in Nodes(model) : 
    \/ n \in PackNodes(model) /\ n[1] = "SOLDER"
    \/ Slope(model, n) = Steady(model, n)

=============================================================================
