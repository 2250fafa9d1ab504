----------------------------- MODULE DesignCache -----------------------------
(***************************************************************************)
(* The extents cache of the design database: cells, the instances placed   *)
(* in them, the geometries of their bodies and pins, the PHX_EXTENTS bit   *)
(* each of them keeps in `invalid`, and the extents computed from them.    *)
(*                                                                         *)
(* An operation that edits the design flags what it touches and every user *)
(* of it (phx_cell_invalidate, phx_inst_invalidate); phx_cell_update       *)
(* recomputes, bottom up, what is flagged.                                 *)
(*                                                                         *)
(* Extents are kept as the set of points they enclose the way the code's   *)
(* bounding box does: reset is {}, include and add are union, and placing  *)
(* an instance is the image under its placement.  A box is the hull of     *)
(* such a set, and hull commutes with all three for the orientations that  *)
(* mirror; for PHX_ROTATE_90 it does not (InstTransform), so Orientation   *)
(* stands for the masks without that bit.                                  *)
(***************************************************************************)
EXTENDS Naturals, FiniteSets, Reachability

CONSTANTS
  Cell,         \* cells that may be created
  Inst,         \* instances that may be created
  Pin,          \* pin names
  Body,         \* the part of a cell that is not one of its pins
  Nil,          \* the NULL pointer
  Point,        \* coordinates
  Zero,         \* what calloc leaves in a coordinate
  Offset,       \* positions of instances and origins of cells
  Orientation,  \* orientation masks
  Place(_,_,_,_), \* Place(o, at, org, p): p of a cell with origin org, in the parent
  LateInst,     \* may a script instantiate into a cell it has updated already?
  MaxDrawn      \* bound: points drawn in the whole design

Part == Pin \cup {Body}

ASSUME PartAssumption == Body \notin Pin
ASSUME NilAssumption == Nil \notin Cell
ASSUME ZeroAssumption == Zero \in Point /\ Zero \in Offset /\ Zero \in Orientation
ASSUME PlaceAssumption ==
  \A o \in Orientation, at \in Offset, org \in Offset, p \in Point :
     Place(o, at, org, p) \in Point
ASSUME LateInstAssumption == LateInst \in BOOLEAN

VARIABLES
  cells,    \* the cells of the library
  pins,     \* pins[c]: the pins of cell c
  insts,    \* the instances created so far
  of,       \* of[i]: the cell instance i instantiates
  parent,   \* parent[i]: the cell instance i is placed in
  pos,      \* pos[i]: where instance i is placed
  orient,   \* orient[i]: its orientation
  origin,   \* origin[c]: the origin of cell c
  shapes,   \* shapes[c][p]: the points drawn on part p of cell c
  cellInv,  \* the cells whose PHX_EXTENTS bit is set
  instInv,  \* the instances whose PHX_EXTENTS bit is set
  geoInv,   \* the geometries <<c, p>> whose PHX_EXTENTS bit is set
  cellExt,  \* cellExt[c]: the extents stored in cell c
  instExt,  \* instExt[i]: the extents stored in instance i
  geoExt    \* geoExt[c][p]: the extents stored in part p of cell c

design == <<cells, pins, insts, of, parent, pos, orient, origin, shapes>>
flags  == <<cellInv, instInv, geoInv>>
exts   == <<cellExt, instExt, geoExt>>
vars   == <<design, flags, exts>>

Parts(c)   == {Body} \cup pins[c]
InstsIn(c) == {i \in insts : parent[i] = c}
UsesOf(c)  == {i \in insts : of[i] = c}

\* The image of a cell's extents under the placement of instance i.
Placed(i, ext) == {Place(orient[i], pos[i], origin[of[i]], p) : p \in ext}

-----------------------------------------------------------------------------
(* The recursions over the hierarchy.                                       *)

\* All cells in the hierarchy of c, c included.
Below(c) == Reach(Cell, {c}, {<<parent[i], of[i]>> : i \in insts})

\* The cells phx_cell_invalidate(c) newly flags: the recursion climbs through
\* instances and parents that are not flagged yet and stops at the others.
Flagged(c) ==
  Reach(Cell, {c} \ cellInv,
        {<<of[i], parent[i]>> : i \in {j \in insts \ instInv : parent[j] \notin cellInv}})

\* Mutant of InvalidateCell: the loop over the uses is missing.
InvalidateCellAlone(c) ==
  /\ cellInv' = cellInv \cup {c}
  /\ UNCHANGED instInv

InvalidateCell(c) ==
  /\ cellInv' = cellInv \cup Flagged(c)
  /\ instInv' = instInv \cup {i \in insts : of[i] \in Flagged(c)}

InvalidateInst(i) ==
  IF i \in instInv
  THEN UNCHANGED <<cellInv, instInv>>
  ELSE /\ cellInv' = cellInv \cup Flagged(parent[i])
       /\ instInv' = instInv \cup {i} \cup {j \in insts : of[j] \in Flagged(parent[i])}

\* Mutant of Visited: phx_inst_update does not update the instance's cell.
VisitedOnly(c) == {c} \cap cellInv

\* The cells phx_cell_update(c) recomputes: the recursion descends into the
\* instances of a flagged cell and stops at cells that are not flagged.
Visited(c) ==
  Reach(Cell, {c} \cap cellInv,
        {<<parent[i], of[i]>> : i \in {j \in insts : of[j] \in cellInv}})

-----------------------------------------------------------------------------
(* Recomputation.                                                           *)

\* A geometry that is flagged takes the extents of what is drawn on it.
GeoExtAfter(V) ==
  [c \in Cell |-> [p \in Part |->
     IF c \in V /\ p \in Parts(c) /\ <<c, p>> \in geoInv
     THEN shapes[c][p] ELSE geoExt[c][p]]]

\* Mutant of InstExtIn: the instance is updated before its cell.
InstExtBeforeCell(V, i, ext) ==
  IF parent[i] \in V /\ i \in instInv THEN Placed(i, cellExt[of[i]]) ELSE instExt[i]

\* The extents of instance i after the update of V, given those of the cells.
InstExtIn(V, i, ext) ==
  IF parent[i] \in V /\ i \in instInv THEN Placed(i, ext[of[i]]) ELSE instExt[i]

\* The extents of cell c after the update of V, given those of its instances.
CellExtIn(V, c, ext) ==
  IF c \in V
  THEN (UNION {GeoExtAfter(V)[c][p] : p \in Parts(c)})
         \cup (UNION {InstExtIn(V, i, ext) : i \in InstsIn(c)})
  ELSE cellExt[c]

\* The recursion of phx_cell_update over the cells it visits.
CellExtAfter(V) ==
  LET ext[c \in Cell] == CellExtIn(V, c, ext) IN ext

\* What phx_cell_update(c, PHX_EXTENTS) does to the flags and the extents.  The
\* second conjunct says that the recursion of CellExtAfter reaches the bottom,
\* which it does in every hierarchy without a cycle.
UpdateCell(c) ==
  LET V   == Visited(c)
      ext == CellExtAfter(V)
  IN  /\ ext = [d \in Cell |-> CellExtIn(V, d, ext)]
      /\ cellExt' = ext
      /\ instExt' = [i \in Inst |-> IF i \in insts THEN InstExtIn(V, i, ext) ELSE instExt[i]]
      /\ geoExt'  = GeoExtAfter(V)
      /\ cellInv' = cellInv \ V
      /\ instInv' = {i \in instInv : parent[i] \notin V}
      /\ geoInv'  = {g \in geoInv : ~(g[1] \in V /\ g[2] \in Parts(g[1]))}

-----------------------------------------------------------------------------
Init ==
  /\ cells = {} /\ insts = {}
  /\ pins    = [c \in Cell |-> {}]
  /\ of      = [i \in Inst |-> Nil]
  /\ parent  = [i \in Inst |-> Nil]
  /\ pos     = [i \in Inst |-> Zero]
  /\ orient  = [i \in Inst |-> Zero]
  /\ origin  = [c \in Cell |-> Zero]
  /\ shapes  = [c \in Cell |-> [p \in Part |-> {}]]
  /\ cellInv = {} /\ instInv = {} /\ geoInv = {}
  /\ cellExt = [c \in Cell |-> {Zero}]
  /\ instExt = [i \in Inst |-> {Zero}]
  /\ geoExt  = [c \in Cell |-> [p \in Part |-> {Zero}]]

\* phx_library_find_cell(lib, name, true) on a name the library does not have.
NewCell(c) ==
  /\ c \notin cells
  /\ cells' = cells \cup {c}
  /\ cellInv' = cellInv \cup {c}
  /\ geoInv' = geoInv \cup {<<c, Body>>}
  /\ UNCHANGED <<pins, insts, of, parent, pos, orient, origin, shapes, instInv, exts>>

\* cell_find_pin(cell, name) on a name the cell does not have.  The cell is not
\* flagged: nothing is drawn on a new pin.
NewPin(c, p) ==
  /\ c \in cells /\ p \notin pins[c]
  /\ pins' = [pins EXCEPT ![c] = @ \cup {p}]
  /\ geoInv' = geoInv \cup {<<c, p>>}
  /\ UNCHANGED <<cells, insts, of, parent, pos, orient, origin, shapes, cellInv, instInv, exts>>

\* new_inst(into, cell, name): the new instance is flagged, the cell it is placed
\* in is not.  A hierarchy never contains itself.
NewInst(i, into, cell) ==
  /\ i \notin insts /\ into \in cells /\ cell \in cells
  /\ into \notin Below(cell)
  /\ LateInst \/ into \in cellInv
  /\ insts'   = insts \cup {i}
  /\ of'      = [of EXCEPT ![i] = cell]
  /\ parent'  = [parent EXCEPT ![i] = into]
  /\ instInv' = instInv \cup {i}
  /\ UNCHANGED <<cells, pins, pos, orient, origin, shapes, cellInv, geoInv, exts>>

\* Mutant of SetPos: the instance is moved and not flagged.
SetPosUnflagged(i, at) ==
  /\ i \in insts
  /\ pos' = [pos EXCEPT ![i] = at]
  /\ UNCHANGED <<cells, pins, insts, of, parent, orient, origin, shapes, flags, exts>>

\* inst_set_pos: assigns and flags, whether or not the position changes.
SetPos(i, at) ==
  /\ i \in insts
  /\ pos' = [pos EXCEPT ![i] = at]
  /\ InvalidateInst(i)
  /\ UNCHANGED <<cells, pins, insts, of, parent, orient, origin, shapes, geoInv, exts>>

\* Mutant of SetOrientation: the instance is turned and not flagged.
SetOrientationUnflagged(i, o) ==
  /\ i \in insts /\ orient[i] # o
  /\ orient' = [orient EXCEPT ![i] = o]
  /\ UNCHANGED <<cells, pins, insts, of, parent, pos, origin, shapes, flags, exts>>

\* phx_inst_set_orientation: nothing happens unless the orientation changes.
SetOrientation(i, o) ==
  /\ i \in insts /\ orient[i] # o
  /\ InvalidateInst(i)
  /\ orient' = [orient EXCEPT ![i] = o]
  /\ UNCHANGED <<cells, pins, insts, of, parent, pos, origin, shapes, geoInv, exts>>

SetOrigin(c, org) ==
  /\ c \in cells
  /\ origin' = [origin EXCEPT ![c] = org]
  /\ InvalidateCell(c)
  /\ UNCHANGED <<cells, pins, insts, of, parent, pos, orient, shapes, geoInv, exts>>

\* phx_cell_set_size: the size is not part of the extents but flags them.
SetSize(c) ==
  /\ c \in cells
  /\ InvalidateCell(c)
  /\ UNCHANGED <<design, geoInv, exts>>

\* The points drawn in a design with shapes s, each with its place.
DrawnPoints(s) == {d \in Cell \X Part \X Point : d[3] \in s[d[1]][d[2]]}

\* Draws the points S on part p of c: a line or a shape on one of its layers.
Draw(c, p, S) ==
  /\ Cardinality(DrawnPoints([shapes EXCEPT ![c][p] = @ \cup S])) <= MaxDrawn
  /\ shapes' = [shapes EXCEPT ![c][p] = @ \cup S]
  /\ geoInv' = geoInv \cup {<<c, p>>}
  /\ InvalidateCell(c)
  /\ UNCHANGED <<cells, pins, insts, of, parent, pos, orient, origin, exts>>

\* phx_layer_add_line, phx_layer_add_shape.
AddShape(c, p, pt) ==
  /\ c \in cells /\ p \in Parts(c)
  /\ Draw(c, p, {pt})

\* phx_inst_copy_geometry_to_parent: raises pin p of the instantiated cell to pin
\* q of the parent.  A pin with nothing drawn on it leaves the parent alone.
CopyGeometry(i, p, q) ==
  /\ i \in insts /\ p \in pins[of[i]] /\ q \in pins[parent[i]]
  /\ shapes[of[i]][p] # {}
  /\ Draw(parent[i], q, Placed(i, shapes[of[i]][p]))

\* phx_cell_update on a cell that is flagged; on any other it returns at once.
Update(c) ==
  /\ c \in cells \cap cellInv
  /\ UpdateCell(c)
  /\ UNCHANGED design

Next ==
  \/ \E c \in Cell : NewCell(c) \/ SetSize(c) \/ Update(c)
  \/ \E c \in Cell, p \in Pin : NewPin(c, p)
  \/ \E c \in Cell, p \in Part, pt \in Point : AddShape(c, p, pt)
  \/ \E c \in Cell, org \in Offset : SetOrigin(c, org)
  \/ \E i \in Inst, into \in Cell, cell \in Cell : NewInst(i, into, cell)
  \/ \E i \in Inst, at \in Offset : SetPos(i, at)
  \/ \E i \in Inst, o \in Orientation : SetOrientation(i, o)
  \/ \E i \in Inst, p \in Pin, q \in Pin : CopyGeometry(i, p, q)

Spec == Init /\ [][Next]_vars

-----------------------------------------------------------------------------
(* Every variable holds a value of its type: identifiers of the library,     *)
(* instances with a cell and a parent, extents made of coordinates.          *)
TypeOK ==
  /\ cells \in SUBSET Cell /\ insts \in SUBSET Inst
  /\ pins \in [Cell -> SUBSET Pin]
  /\ of \in [Inst -> Cell \cup {Nil}] /\ parent \in [Inst -> Cell \cup {Nil}]
  /\ \A i \in insts : of[i] \in cells /\ parent[i] \in cells
  /\ pos \in [Inst -> Offset] /\ orient \in [Inst -> Orientation]
  /\ origin \in [Cell -> Offset]
  /\ shapes \in [Cell -> [Part -> SUBSET Point]]
  /\ cellInv \in SUBSET cells /\ instInv \in SUBSET insts
  /\ geoInv \in SUBSET (Cell \X Part)
  /\ cellExt \in [Cell -> SUBSET Point]
  /\ instExt \in [Inst -> SUBSET Point]
  /\ geoExt \in [Cell -> [Part -> SUBSET Point]]

-----------------------------------------------------------------------------
(* Correctness.                                                             *)

Drawn(c) == UNION {shapes[c][p] : p \in Part}

\* ext holds the extents of every cell, computed from the design alone.  In a
\* hierarchy without a cycle there is exactly one such function.
IsTrueExt(ext) ==
  \A c \in Cell :
     ext[c] = Drawn(c) \cup (UNION {Placed(i, ext[of[i]]) : i \in InstsIn(c)})

\* Nothing in the hierarchy of c waits for an update.
Settled(c) ==
  /\ Below(c) \cap cellInv = {}
  /\ \A i \in insts : parent[i] \in Below(c) => i \notin instInv

(* Invalidation reaches every user: whoever finds a cell flagged finds all its *)
(* instances flagged, so the test of phx_cell_invalidate that stops at a       *)
(* flagged cell (design-cell.c:15) loses nothing below it.                     *)
UsersAreFlagged == \A c \in cellInv : UsesOf(c) \subseteq instInv

(* A hierarchy in which nothing is flagged has the extents a computation from  *)
(* scratch gives, after any sequence of edits and partial updates              *)
(* (design-cell.c:62-82, design-inst.c:25-66).                                 *)
SettledIsExact ==
  \A ext \in [Cell -> SUBSET Point] :
     IsTrueExt(ext) => \A c \in cells : Settled(c) => cellExt[c] = ext[c]

(* "The bits of this cell that need to be recalculated" (cell.h:82): a cell    *)
(* whose bit is clear has the extents a computation from scratch gives.        *)
ValidIsExact ==
  \A ext \in [Cell -> SUBSET Point] :
     IsTrueExt(ext) => \A c \in cells \ cellInv : cellExt[c] = ext[c]

(* One call of phx_cell_update leaves nothing flagged in the hierarchy of the  *)
(* cell it is called on, however many edits came before it.                    *)
UpdateSettles == [][\A c \in Cell : Update(c) => Settled(c)']_vars

(* A cell whose own bit and whose instances' bits are clear agrees with them:  *)
(* its extents are what is drawn on it and, for every instance, the extents    *)
(* its cell has now; and none of those cells waits for an update.              *)
Agrees(c) ==
  cellExt[c] = Drawn(c) \cup (UNION {Placed(i, cellExt[of[i]]) : i \in InstsIn(c)})

LocallyExact ==
  \A c \in cells \ cellInv :
     InstsIn(c) \cap instInv = {} => Agrees(c) /\ \A i \in InstsIn(c) : of[i] \notin cellInv

-----------------------------------------------------------------------------
(* The inductive invariant behind them.                                      *)

\* Every set of cells has one that places none of the others.
Acyclic ==
  \A T \in SUBSET cells : T # {} =>
     \E c \in T : \A i \in InstsIn(c) : of[i] \notin T

\* An instance that is not flagged holds its cell's current extents, placed.
InstsFresh == \A i \in insts \ instInv : instExt[i] = Placed(i, cellExt[of[i]])

\* A geometry is flagged, or holds the extents of what is drawn on it; on a cell
\* that is up to date a flagged one is empty.
GeosFresh ==
  /\ \A c \in Cell \ cells : pins[c] = {}
  /\ \A c \in Cell, p \in Part :
       (c \notin cells \/ p \notin Parts(c)) => shapes[c][p] = {}
  /\ \A c \in cells : \A p \in Parts(c) :
       IF <<c, p>> \in geoInv
       THEN c \in cellInv \/ shapes[c][p] = {}
       ELSE geoExt[c][p] = shapes[c][p]

\* A cell that is not flagged, and none of whose instances is, holds the union.
CellsFresh ==
  \A c \in cells \ cellInv : InstsIn(c) \cap instInv = {} =>
     cellExt[c] = Drawn(c) \cup (UNION {instExt[i] : i \in InstsIn(c)})

\* Unless a script instantiates late, an instance's flag has reached its parent.
ParentsAreFlagged == LateInst \/ \A i \in instInv : parent[i] \in cellInv

IInv == /\ TypeOK /\ UsersAreFlagged /\ Acyclic
        /\ InstsFresh /\ GeosFresh /\ CellsFresh /\ ParentsAreFlagged

=============================================================================
