-------------------------- MODULE DesignCacheProofs --------------------------
(* Proofs about the extents cache, for every number of cells, instances and    *)
(* pins, every set of coordinates and every placement that stays within it.    *)
EXTENDS DesignCache, Foundations

(* phx_cell_invalidate flags cells that were not flagged, its argument among   *)
(* them, and climbs through every instance that was not flagged.               *)
LEMMA FlaggedFacts ==
  ASSUME TypeOK, NEW c \in cells
  PROVE  /\ Flagged(c) \subseteq cells \ cellInv
         /\ c \in cellInv \cup Flagged(c)
         /\ \A i \in insts \ instInv :
              of[i] \in Flagged(c) => parent[i] \in cellInv \cup Flagged(c)
<1> DEFINE ups  == {j \in insts \ instInv : parent[j] \notin cellInv}
           step == {<<of[i], parent[i]>> : i \in ups}
<1>1. step \in SUBSET (Cell \X Cell)
  BY DEF TypeOK
<1>2. Flagged(c) = Reach(Cell, {c} \ cellInv, step)
  BY DEF Flagged
<1>3. Flagged(c) \subseteq cells \ cellInv
  <2>1. ClosedUnder(cells \ cellInv, step)
    BY DEF ClosedUnder, TypeOK
  <2>2. cells \ cellInv \in SUBSET Cell
    BY DEF TypeOK
  <2> HIDE DEF step
  <2> QED BY <1>2, <2>1, <2>2, ReachLeast
<1>4. c \in cellInv \cup Flagged(c)
  <2>1. {c} \ cellInv \in SUBSET Cell
    BY DEF TypeOK
  <2> HIDE DEF step
  <2> QED BY <1>2, <2>1, ReachContains
<1>5. ASSUME NEW i \in insts \ instInv, of[i] \in Flagged(c), parent[i] \notin cellInv
      PROVE  parent[i] \in Flagged(c)
  <2>1. ClosedUnder(Flagged(c), step)
    <3> HIDE DEF step
    <3> QED BY <1>1, <1>2, ReachClosed
  <2>2. <<of[i], parent[i]>> \in step
    BY <1>5
  <2> QED BY <1>5, <2>1, <2>2 DEF ClosedUnder
<1> QED BY <1>3, <1>4, <1>5

(* phx_cell_update visits flagged cells only, its argument among them, and     *)
(* descends into every flagged cell instantiated in one it visits.             *)
LEMMA VisitedFacts ==
  ASSUME TypeOK, NEW c \in cells \cap cellInv
  PROVE  /\ Visited(c) \subseteq cellInv
         /\ c \in Visited(c)
         /\ \A i \in insts :
              parent[i] \in Visited(c) /\ of[i] \in cellInv => of[i] \in Visited(c)
<1> DEFINE downs == {j \in insts : of[j] \in cellInv}
           step  == {<<parent[i], of[i]>> : i \in downs}
<1>1. step \in SUBSET (Cell \X Cell)
  BY DEF TypeOK
<1>2. Visited(c) = Reach(Cell, {c} \cap cellInv, step)
  BY DEF Visited
<1>3. Visited(c) \subseteq cellInv
  <2>1. ClosedUnder(cellInv, step)
    BY DEF ClosedUnder, TypeOK
  <2>2. cellInv \in SUBSET Cell
    BY DEF TypeOK
  <2> HIDE DEF step
  <2> QED BY <1>2, <2>1, <2>2, ReachLeast
<1>4. c \in Visited(c)
  <2>1. {c} \cap cellInv \in SUBSET Cell
    BY DEF TypeOK
  <2> HIDE DEF step
  <2> QED BY <1>2, <2>1, ReachContains
<1>5. ASSUME NEW i \in insts, parent[i] \in Visited(c), of[i] \in cellInv
      PROVE  of[i] \in Visited(c)
  <2>1. ClosedUnder(Visited(c), step)
    <3> HIDE DEF step
    <3> QED BY <1>1, <1>2, ReachClosed
  <2>2. <<parent[i], of[i]>> \in step
    BY <1>5
  <2> QED BY <1>5, <2>1, <2>2 DEF ClosedUnder
<1> QED BY <1>3, <1>4, <1>5

(* The hierarchy of a cell contains it and every cell instantiated in it.      *)
LEMMA BelowFacts ==
  ASSUME TypeOK, NEW c \in cells
  PROVE  /\ c \in Below(c)
         /\ Below(c) \subseteq cells
         /\ \A i \in insts : parent[i] \in Below(c) => of[i] \in Below(c)
<1> DEFINE step == {<<parent[i], of[i]>> : i \in insts}
<1>1. step \in SUBSET (Cell \X Cell)
  BY DEF TypeOK
<1>2. Below(c) = Reach(Cell, {c}, step)
  BY DEF Below
<1>3. Below(c) \subseteq cells
  <2>1. ClosedUnder(cells, step)
    BY DEF ClosedUnder, TypeOK
  <2>2. cells \in SUBSET Cell
    BY DEF TypeOK
  <2> HIDE DEF step
  <2> QED BY <1>2, <2>1, <2>2, ReachLeast
<1>4. c \in Below(c)
  <2>1. {c} \in SUBSET Cell
    BY DEF TypeOK
  <2> HIDE DEF step
  <2> QED BY <1>2, <2>1, ReachContains
<1>5. ASSUME NEW i \in insts, parent[i] \in Below(c)
      PROVE  of[i] \in Below(c)
  <2>1. ClosedUnder(Below(c), step)
    <3> HIDE DEF step
    <3> QED BY <1>1, <1>2, ReachClosed
  <2>2. <<parent[i], of[i]>> \in step
    BY <1>5
  <2> QED BY <1>5, <2>1, <2>2 DEF ClosedUnder
<1> QED BY <1>3, <1>4, <1>5

-----------------------------------------------------------------------------
(* Edits.                                                                     *)

SameHierarchy == UNCHANGED <<cells, insts, of, parent>>

\* What an invalidation does to the flags, whatever it started from.
FlagsGrow ==
  /\ cellInv \subseteq cellInv' /\ cellInv' \subseteq cells
  /\ instInv \subseteq instInv' /\ instInv' \subseteq insts
  /\ \A d \in cellInv' : UsesOf(d) \subseteq instInv'
  /\ \A i \in instInv' \ instInv : parent[i] \in cellInv'

(* phx_cell_invalidate flags its argument, and every flag climbs.              *)
LEMMA InvalidateCellGrows ==
  ASSUME TypeOK, UsersAreFlagged, NEW c \in cells, InvalidateCell(c)
  PROVE  FlagsGrow /\ c \in cellInv'
<1>1. /\ Flagged(c) \subseteq cells \ cellInv
      /\ c \in cellInv \cup Flagged(c)
      /\ \A i \in insts \ instInv :
            of[i] \in Flagged(c) => parent[i] \in cellInv \cup Flagged(c)
  BY FlaggedFacts
<1> QED BY <1>1 DEF InvalidateCell, FlagsGrow, UsersAreFlagged, UsesOf, TypeOK

(* phx_inst_invalidate flags its argument, and every flag climbs.              *)
LEMMA InvalidateInstGrows ==
  ASSUME TypeOK, UsersAreFlagged, NEW k \in insts, InvalidateInst(k)
  PROVE  FlagsGrow /\ k \in instInv'
<1>1. CASE k \in instInv
  BY <1>1 DEF InvalidateInst, FlagsGrow, UsersAreFlagged, UsesOf, TypeOK
<1>2. CASE k \notin instInv
  <2>1. parent[k] \in cells
    BY DEF TypeOK
  <2>2. /\ Flagged(parent[k]) \subseteq cells \ cellInv
        /\ parent[k] \in cellInv \cup Flagged(parent[k])
        /\ \A i \in insts \ instInv :
              of[i] \in Flagged(parent[k]) => parent[i] \in cellInv \cup Flagged(parent[k])
    BY <2>1, FlaggedFacts
  <2> QED BY <1>2, <2>2 DEF InvalidateInst, FlagsGrow, UsersAreFlagged, UsesOf, TypeOK
<1> QED BY <1>1, <1>2

(* An edit that flags what it changes keeps everything but the geometries.     *)
LEMMA EditKeeps ==
  ASSUME IInv, SameHierarchy, FlagsGrow, UNCHANGED exts,
         \A j \in insts \ instInv' :
            pos'[j] = pos[j] /\ orient'[j] = orient[j] /\ origin'[of[j]] = origin[of[j]],
         \A d \in cells \ cellInv' : shapes'[d] = shapes[d]
  PROVE  (UsersAreFlagged /\ Acyclic /\ InstsFresh /\ CellsFresh /\ ParentsAreFlagged)'
<1> USE DEF SameHierarchy, exts
<1>1. UsersAreFlagged'
  BY DEF FlagsGrow, UsersAreFlagged, UsesOf
<1>2. Acyclic'
  BY DEF IInv, Acyclic, InstsIn
<1>3. InstsFresh'
  <2> SUFFICES ASSUME NEW j \in insts \ instInv'
               PROVE  instExt[j] = Placed(j, cellExt[of[j]])'
    BY DEF InstsFresh
  <2>1. instExt[j] = Placed(j, cellExt[of[j]])
    BY DEF IInv, InstsFresh, FlagsGrow
  <2> QED BY <2>1 DEF Placed
<1>4. CellsFresh'
  <2> SUFFICES ASSUME NEW d \in cells \ cellInv', InstsIn(d)' \cap instInv' = {}
               PROVE  (cellExt[d] = Drawn(d) \cup (UNION {instExt[i] : i \in InstsIn(d)}))'
    BY DEF CellsFresh
  <2>1. InstsIn(d)' = InstsIn(d)
    BY DEF InstsIn
  <2>2. cellExt[d] = Drawn(d) \cup (UNION {instExt[i] : i \in InstsIn(d)})
    BY <2>1 DEF IInv, CellsFresh, FlagsGrow
  <2>3. Drawn(d)' = Drawn(d)
    BY DEF Drawn
  <2> QED BY <2>1, <2>2, <2>3
<1>5. ParentsAreFlagged'
  BY DEF IInv, ParentsAreFlagged, FlagsGrow
<1> QED BY <1>1, <1>2, <1>3, <1>4, <1>5

LEMMA InitIInv == Init => IInv
BY PartAssumption, NilAssumption, ZeroAssumption
   DEF Init, IInv, TypeOK, UsersAreFlagged, UsesOf, Acyclic, InstsIn, InstsFresh,
       GeosFresh, CellsFresh, ParentsAreFlagged, Parts, Part

LEMMA NewCellKeeps ==
  ASSUME IInv, NEW c \in Cell, NewCell(c)
  PROVE  IInv'
<1> USE DEF NewCell, exts, IInv
<1>1. TypeOK'
  <2>1. <<c, Body>> \in Cell \X Part
    BY DEF Part
  <2> QED BY <2>1 DEF TypeOK
<1>2. \A i \in insts : of[i] # c /\ parent[i] # c
  BY DEF TypeOK
<1>3. UsersAreFlagged'
  BY <1>2 DEF UsersAreFlagged, UsesOf
<1>4. Acyclic'
  <2> SUFFICES ASSUME NEW T \in SUBSET cells', T # {}
               PROVE  \E d \in T : \A i \in InstsIn(d) : of[i] \notin T
    BY DEF Acyclic, InstsIn
  <2>1. CASE T = {c}
    BY <1>2, <2>1 DEF InstsIn
  <2>2. CASE T \ {c} # {}
    <3>1. T \ {c} \in SUBSET cells
      OBVIOUS
    <3>2. PICK d \in T \ {c} : \A i \in InstsIn(d) : of[i] \notin T \ {c}
      BY <2>2, <3>1 DEF Acyclic
    <3> QED BY <3>2, <1>2 DEF InstsIn
  <2> QED BY <2>1, <2>2
<1>5. InstsFresh'
  BY DEF InstsFresh, Placed
<1>6. GeosFresh'
  BY DEF GeosFresh, Parts, TypeOK, Part
<1>7. CellsFresh'
  <2> SUFFICES ASSUME NEW d \in cells' \ cellInv', InstsIn(d)' \cap instInv' = {}
               PROVE  (cellExt[d] = Drawn(d) \cup (UNION {instExt[i] : i \in InstsIn(d)}))'
    BY DEF CellsFresh
  <2>1. InstsIn(d)' = InstsIn(d) /\ Drawn(d)' = Drawn(d) /\ d \in cells \ cellInv
    BY DEF InstsIn, Drawn
  <2> QED BY <2>1 DEF CellsFresh
<1>8. ParentsAreFlagged'
  BY DEF ParentsAreFlagged
<1> QED BY <1>1, <1>3, <1>4, <1>5, <1>6, <1>7, <1>8

LEMMA NewPinKeeps ==
  ASSUME IInv, NEW c \in Cell, NEW p \in Pin, NewPin(c, p)
  PROVE  IInv'
<1> USE DEF NewPin, exts, IInv
<1>1. TypeOK'
  <2>1. <<c, p>> \in Cell \X Part
    BY DEF Part
  <2>2. pins' \in [Cell -> SUBSET Pin]
    BY DEF TypeOK
  <2> QED BY <2>1, <2>2 DEF TypeOK
<1>2. GeosFresh'
  BY PartAssumption DEF GeosFresh, Parts, TypeOK, Part
<1>3. (UsersAreFlagged /\ Acyclic /\ InstsFresh /\ CellsFresh /\ ParentsAreFlagged)'
  <2>1. FlagsGrow
    BY DEF FlagsGrow, TypeOK, UsersAreFlagged
  <2> QED BY <2>1, EditKeeps DEF SameHierarchy
<1> QED BY <1>1, <1>2, <1>3

LEMMA NewInstKeeps ==
  ASSUME IInv, NEW k \in Inst, NEW into \in Cell, NEW cell \in Cell, NewInst(k, into, cell)
  PROVE  IInv'
<1> USE DEF NewInst, exts, IInv
<1>1. TypeOK'
  BY DEF TypeOK
<1>2. /\ \A i \in insts : i # k /\ of'[i] = of[i] /\ parent'[i] = parent[i]
      /\ of'[k] = cell /\ parent'[k] = into
  BY DEF TypeOK
<1>3. UsersAreFlagged'
  BY <1>2 DEF UsersAreFlagged, UsesOf
<1>4. Acyclic'
  <2> SUFFICES ASSUME NEW T \in SUBSET cells, T # {}
               PROVE  \E d \in T : \A i \in InstsIn(d)' : of'[i] \notin T
    BY DEF Acyclic
  <2>1. /\ cell \in Below(cell) /\ Below(cell) \subseteq cells
        /\ \A i \in insts : parent[i] \in Below(cell) => of[i] \in Below(cell)
    BY BelowFacts
  <2>2. CASE cell \notin T
    <3>1. PICK d \in T : \A i \in InstsIn(d) : of[i] \notin T
      BY DEF Acyclic
    <3> QED BY <1>2, <2>2, <3>1 DEF InstsIn
  <2>3. CASE cell \in T
    <3>1. PICK d \in T \cap Below(cell) :
             \A i \in InstsIn(d) : of[i] \notin T \cap Below(cell)
      BY <2>1, <2>3 DEF Acyclic
    <3>2. d # into
      BY <3>1
    <3> QED BY <1>2, <2>1, <3>1, <3>2 DEF InstsIn
  <2> QED BY <2>2, <2>3
<1>5. InstsFresh'
  <2> SUFFICES ASSUME NEW j \in insts \ instInv
               PROVE  instExt[j] = Placed(j, cellExt[of[j]])'
    BY DEF InstsFresh
  <2> QED BY <1>2 DEF InstsFresh, Placed
<1>6. GeosFresh'
  BY DEF GeosFresh, Parts
<1>7. CellsFresh'
  <2> SUFFICES ASSUME NEW d \in cells \ cellInv, InstsIn(d)' \cap instInv' = {}
               PROVE  (cellExt[d] = Drawn(d) \cup (UNION {instExt[i] : i \in InstsIn(d)}))'
    BY DEF CellsFresh
  <2>1. InstsIn(d)' = InstsIn(d)
    BY <1>2 DEF InstsIn
  <2>2. Drawn(d)' = Drawn(d)
    BY DEF Drawn
  <2> QED BY <2>1, <2>2 DEF CellsFresh
<1>8. ParentsAreFlagged'
  BY <1>2, LateInstAssumption DEF ParentsAreFlagged, TypeOK
<1> QED BY <1>1, <1>3, <1>4, <1>5, <1>6, <1>7, <1>8

LEMMA SetPosKeeps ==
  ASSUME IInv, NEW k \in Inst, NEW at \in Offset, SetPos(k, at)
  PROVE  IInv'
<1> USE DEF SetPos, exts, IInv
<1>1. FlagsGrow /\ k \in instInv'
  BY InvalidateInstGrows
<1>2. TypeOK'
  BY <1>1 DEF TypeOK, FlagsGrow
<1>3. GeosFresh'
  BY <1>1 DEF GeosFresh, Parts, FlagsGrow
<1>4. (UsersAreFlagged /\ Acyclic /\ InstsFresh /\ CellsFresh /\ ParentsAreFlagged)'
  <2>1. \A j \in insts \ instInv' : pos'[j] = pos[j]
    BY <1>1 DEF TypeOK
  <2> QED BY <1>1, <2>1, EditKeeps DEF SameHierarchy
<1> QED BY <1>2, <1>3, <1>4

LEMMA SetOrientationKeeps ==
  ASSUME IInv, NEW k \in Inst, NEW o \in Orientation, SetOrientation(k, o)
  PROVE  IInv'
<1> USE DEF SetOrientation, exts, IInv
<1>1. FlagsGrow /\ k \in instInv'
  BY InvalidateInstGrows
<1>2. TypeOK'
  BY <1>1 DEF TypeOK, FlagsGrow
<1>3. GeosFresh'
  BY <1>1 DEF GeosFresh, Parts, FlagsGrow
<1>4. (UsersAreFlagged /\ Acyclic /\ InstsFresh /\ CellsFresh /\ ParentsAreFlagged)'
  <2>1. \A j \in insts \ instInv' : orient'[j] = orient[j]
    BY <1>1 DEF TypeOK
  <2> QED BY <1>1, <2>1, EditKeeps DEF SameHierarchy
<1> QED BY <1>2, <1>3, <1>4

LEMMA SetOriginKeeps ==
  ASSUME IInv, NEW c \in Cell, NEW org \in Offset, SetOrigin(c, org)
  PROVE  IInv'
<1> USE DEF SetOrigin, exts, IInv
<1>1. FlagsGrow /\ c \in cellInv'
  BY InvalidateCellGrows
<1>2. TypeOK'
  BY <1>1 DEF TypeOK, FlagsGrow
<1>3. GeosFresh'
  BY <1>1 DEF GeosFresh, Parts, FlagsGrow
<1>4. (UsersAreFlagged /\ Acyclic /\ InstsFresh /\ CellsFresh /\ ParentsAreFlagged)'
  <2>1. \A j \in insts \ instInv' : of[j] # c
    BY <1>1 DEF FlagsGrow, UsesOf
  <2>2. \A j \in insts \ instInv' : origin'[of[j]] = origin[of[j]]
    BY <2>1 DEF TypeOK
  <2> QED BY <1>1, <2>2, EditKeeps DEF SameHierarchy
<1> QED BY <1>2, <1>3, <1>4

LEMMA SetSizeKeeps ==
  ASSUME IInv, NEW c \in Cell, SetSize(c)
  PROVE  IInv'
<1> USE DEF SetSize, design, exts, IInv
<1>1. FlagsGrow
  BY InvalidateCellGrows
<1>2. TypeOK'
  BY <1>1 DEF TypeOK, FlagsGrow
<1>3. GeosFresh'
  BY <1>1 DEF GeosFresh, Parts, FlagsGrow
<1>4. (UsersAreFlagged /\ Acyclic /\ InstsFresh /\ CellsFresh /\ ParentsAreFlagged)'
  BY <1>1, EditKeeps DEF SameHierarchy
<1> QED BY <1>2, <1>3, <1>4

LEMMA DrawKeeps ==
  ASSUME IInv, NEW c \in cells, NEW p \in Parts(c), NEW S \in SUBSET Point, Draw(c, p, S)
  PROVE  IInv'
<1> USE DEF Draw, exts, IInv
<1>1. FlagsGrow /\ c \in cellInv'
  BY InvalidateCellGrows
<1>2. p \in Part /\ c \in Cell
  BY DEF Parts, Part, TypeOK
<1>3. /\ shapes' \in [Cell -> [Part -> SUBSET Point]]
      /\ \A d \in Cell : d # c => shapes'[d] = shapes[d]
      /\ \A q \in Part : q # p => shapes'[c][q] = shapes[c][q]
  BY <1>2 DEF TypeOK
<1>4. TypeOK'
  BY <1>1, <1>2, <1>3 DEF TypeOK, FlagsGrow
<1>5. GeosFresh'
  BY <1>1, <1>2, <1>3 DEF GeosFresh, Parts, Part, FlagsGrow, TypeOK
<1>6. (UsersAreFlagged /\ Acyclic /\ InstsFresh /\ CellsFresh /\ ParentsAreFlagged)'
  <2>1. \A d \in cells \ cellInv' : shapes'[d] = shapes[d]
    BY <1>1, <1>3 DEF TypeOK
  <2> QED BY <1>1, <2>1, EditKeeps DEF SameHierarchy
<1> QED BY <1>4, <1>5, <1>6

(* An instance's placement maps coordinates to coordinates.                    *)
LEMMA PlacedType ==
  ASSUME TypeOK, NEW i \in insts, NEW ext \in SUBSET Point
  PROVE  Placed(i, ext) \in SUBSET Point
<1>1. orient[i] \in Orientation /\ pos[i] \in Offset /\ origin[of[i]] \in Offset
  BY DEF TypeOK
<1> QED BY <1>1, PlaceAssumption DEF Placed

-----------------------------------------------------------------------------
(* Updates.                                                                   *)

LEMMA UpdateKeeps ==
  ASSUME IInv, NEW c \in Cell, Update(c)
  PROVE  IInv'
<1> DEFINE V   == Visited(c)
           ext == CellExtAfter(V)
<1> USE DEF IInv
<1>1. /\ V \subseteq cellInv
      /\ c \in V
      /\ \A i \in insts : parent[i] \in V /\ of[i] \in cellInv => of[i] \in V
  BY VisitedFacts DEF Update
<1>2. /\ UNCHANGED design
      /\ ext = [d \in Cell |-> CellExtIn(V, d, ext)]
      /\ cellExt' = ext
      /\ instExt' = [i \in Inst |-> IF i \in insts THEN InstExtIn(V, i, ext) ELSE instExt[i]]
      /\ geoExt' = GeoExtAfter(V)
      /\ cellInv' = cellInv \ V
      /\ instInv' = {i \in instInv : parent[i] \notin V}
      /\ geoInv' = {g \in geoInv : ~(g[1] \in V /\ g[2] \in Parts(g[1]))}
  BY DEF Update, UpdateCell
<1> HIDE DEF V, ext
<1> DEFINE Geos(d)  == UNION {GeoExtAfter(V)[d][p] : p \in Parts(d)}
           Those(d) == UNION {InstExtIn(V, i, cellExt') : i \in InstsIn(d)}
           After(d) == UNION {instExt'[i] : i \in InstsIn(d)}
<1> USE <1>2 DEF design
<1>3. \A d \in cells : InstsIn(d)' = InstsIn(d) /\ Drawn(d)' = Drawn(d)
  BY DEF InstsIn, Drawn
<1>4. \A S : \A i \in Inst : Placed(i, S)' = Placed(i, S)
  BY DEF Placed
<1>5. \A d \in Cell \ V : cellExt'[d] = cellExt[d]
  BY DEF CellExtIn
<1>15. ASSUME NEW d \in V
       PROVE  cellExt'[d] = Geos(d) \cup Those(d)
  <2>1. d \in Cell
    BY <1>1 DEF TypeOK
  <2>2. cellExt'[d] = CellExtIn(V, d, cellExt')
    BY <2>1
  <2>3. CellExtIn(V, d, cellExt') = Geos(d) \cup Those(d)
    BY DEF CellExtIn, Geos, Those
  <2> QED BY ONLY <2>2, <2>3
<1> HIDE DEF Geos, Those, After
<1>6. \A i \in insts : instExt'[i] = InstExtIn(V, i, cellExt')
  BY DEF TypeOK
<1>7. UsersAreFlagged'
  BY <1>1 DEF UsersAreFlagged, UsesOf, TypeOK
<1>8. Acyclic'
  BY DEF Acyclic, InstsIn
<1>9. InstsFresh'
  <2> SUFFICES ASSUME NEW i \in insts \ instInv'
               PROVE  instExt'[i] = Placed(i, cellExt'[of[i]])
    BY <1>4 DEF InstsFresh, TypeOK
  <2>1. CASE i \in instInv
    BY <1>6, <2>1 DEF InstExtIn
  <2>2. CASE i \notin instInv
    <3>1. of[i] \in Cell \ V
      BY <1>1, <2>2 DEF UsersAreFlagged, UsesOf, TypeOK
    <3> QED BY <1>5, <1>6, <2>2, <3>1 DEF InstExtIn, InstsFresh
  <2> QED BY <2>1, <2>2
<1>10. \A d \in cells : \A p \in Parts(d) : d \in V => geoExt'[d][p] = shapes[d][p]
  BY DEF GeoExtAfter, GeosFresh, Parts, Part, TypeOK
<1>11. GeosFresh'
  <2>1. \A d \in cells : \A p \in Parts(d) : d \notin V => geoExt'[d][p] = geoExt[d][p]
    BY DEF GeoExtAfter, Parts, Part, TypeOK
  <2>2. ASSUME NEW d \in cells, NEW p \in Parts(d)
        PROVE  IF <<d, p>> \in geoInv'
               THEN d \in cellInv' \/ shapes[d][p] = {}
               ELSE geoExt'[d][p] = shapes[d][p]
    BY <1>10, <2>1 DEF GeosFresh
  <2> QED BY <2>2 DEF GeosFresh, Parts
<1>12. CellsFresh'
  <2> SUFFICES ASSUME NEW d \in cells \ cellInv', InstsIn(d) \cap instInv' = {}
               PROVE  cellExt'[d] = Drawn(d) \cup (UNION {instExt'[i] : i \in InstsIn(d)})
    BY <1>3 DEF CellsFresh
  <2>1. CASE d \in V
    <3>1. cellExt'[d] = Geos(d) \cup Those(d)
      BY <1>15, <2>1
    <3>2. Geos(d) = Drawn(d)
      <4>1. \A p \in Part : p \notin Parts(d) => shapes[d][p] = {}
        BY DEF GeosFresh, TypeOK
      <4>2. \A p \in Parts(d) : GeoExtAfter(V)[d][p] = shapes[d][p] /\ p \in Part
        BY <1>10, <2>1 DEF Parts, Part, TypeOK
      <4> QED BY <4>1, <4>2 DEF Drawn, Geos
    <3>3. \A i \in InstsIn(d) : instExt'[i] = InstExtIn(V, i, cellExt')
      BY <1>6 DEF InstsIn
    <3>4. Those(d) = After(d)
      <4>1. {InstExtIn(V, i, cellExt') : i \in InstsIn(d)} = {instExt'[i] : i \in InstsIn(d)}
        BY ONLY <3>3
      <4> QED BY ONLY <4>1 DEF Those, After
    <3> QED BY <3>1, <3>2, <3>4 DEF After
  <2>2. CASE d \notin V
    <3>1. d \in cells \ cellInv /\ InstsIn(d) \cap instInv = {}
      BY <2>2 DEF InstsIn
    <3>2. cellExt'[d] = Drawn(d) \cup (UNION {instExt[i] : i \in InstsIn(d)})
      BY <1>5, <2>2, <3>1 DEF CellsFresh, TypeOK
    <3>3. \A i \in InstsIn(d) : instExt'[i] = instExt[i]
      BY <1>6, <2>2 DEF InstsIn, InstExtIn
    <3> QED BY <3>2, <3>3
  <2> QED BY <2>1, <2>2
<1>13. ParentsAreFlagged'
  BY DEF ParentsAreFlagged
<1>14. TypeOK'
  <2>1. geoExt' \in [Cell -> [Part -> SUBSET Point]]
    BY DEF GeoExtAfter, TypeOK
  <2>2. cellExt' \in [Cell -> SUBSET Point]
    <3> DEFINE Bad == {d \in cells : cellExt'[d] \notin SUBSET Point}
    <3>1. SUFFICES Bad = {}
      BY <1>1, <1>5 DEF TypeOK
    <3>2. SUFFICES ASSUME NEW d \in cells, \A i \in InstsIn(d) : of[i] \notin Bad
                   PROVE  d \notin Bad
      <4> HIDE DEF Bad
      <4>1. Bad \in SUBSET cells
        BY DEF Bad
      <4> QED BY <3>2, <4>1 DEF Acyclic
    <3>3. CASE d \notin V
      BY <1>5, <3>3 DEF TypeOK
    <3>4. CASE d \in V
      <4>1. cellExt'[d] = Geos(d) \cup Those(d)
        BY <1>15, <3>4
      <4>2. \A p \in Parts(d) : GeoExtAfter(V)[d][p] \in SUBSET Point
        BY <2>1 DEF Parts, Part, TypeOK
      <4>3. ASSUME NEW i \in InstsIn(d)
            PROVE  InstExtIn(V, i, cellExt') \in SUBSET Point
        <5>1. i \in insts /\ of[i] \in cells
          BY DEF InstsIn, TypeOK
        <5>2. cellExt'[of[i]] \in SUBSET Point
          BY <3>2, <5>1
        <5>3. Placed(i, cellExt'[of[i]]) \in SUBSET Point
          BY <5>1, <5>2, PlacedType
        <5> QED BY <5>1, <5>3 DEF InstExtIn, TypeOK
      <4>4. Geos(d) \subseteq Point
        BY ONLY <4>2 DEF Geos
      <4>5. Those(d) \subseteq Point
        BY ONLY <4>3 DEF Those
      <4> QED BY <4>1, <4>4, <4>5
    <3> QED BY <3>3, <3>4
  <2>3. instExt' \in [Inst -> SUBSET Point]
    <3>1. \A i \in insts : InstExtIn(V, i, cellExt') \in SUBSET Point
      BY <2>2, PlacedType DEF InstExtIn, TypeOK
    <3> QED BY <1>6, <3>1 DEF TypeOK
  <2> QED BY <2>1, <2>2, <2>3 DEF TypeOK
<1> QED BY <1>7, <1>8, <1>9, <1>11, <1>12, <1>13, <1>14

-----------------------------------------------------------------------------
(* The invariant and what follows from it.                                    *)

LEMMA StepKeepsIInv == IInv /\ [Next]_vars => IInv'
<1> SUFFICES ASSUME IInv, [Next]_vars
             PROVE  IInv'
  OBVIOUS
<1>1. CASE UNCHANGED vars
  <2> USE <1>1 DEF vars, design, flags, exts, IInv
  <2>1. TypeOK'
    BY DEF TypeOK
  <2>2. FlagsGrow
    BY DEF FlagsGrow, TypeOK, UsersAreFlagged
  <2>3. (UsersAreFlagged /\ Acyclic /\ InstsFresh /\ CellsFresh /\ ParentsAreFlagged)'
    BY <2>2, EditKeeps DEF SameHierarchy
  <2>4. GeosFresh'
    BY DEF GeosFresh, Parts
  <2> QED BY <2>1, <2>3, <2>4
<1>2. ASSUME NEW c \in Cell, NewCell(c) PROVE IInv'
  BY <1>2, NewCellKeeps
<1>3. ASSUME NEW c \in Cell, SetSize(c) PROVE IInv'
  BY <1>3, SetSizeKeeps
<1>4. ASSUME NEW c \in Cell, Update(c) PROVE IInv'
  BY <1>4, UpdateKeeps
<1>5. ASSUME NEW c \in Cell, NEW p \in Pin, NewPin(c, p) PROVE IInv'
  BY <1>5, NewPinKeeps
<1>6. ASSUME NEW c \in Cell, NEW p \in Part, NEW pt \in Point, AddShape(c, p, pt) PROVE IInv'
  BY <1>6, DrawKeeps DEF AddShape
<1>7. ASSUME NEW c \in Cell, NEW org \in Offset, SetOrigin(c, org) PROVE IInv'
  BY <1>7, SetOriginKeeps
<1>8. ASSUME NEW i \in Inst, NEW into \in Cell, NEW cell \in Cell, NewInst(i, into, cell)
      PROVE  IInv'
  BY <1>8, NewInstKeeps
<1>9. ASSUME NEW i \in Inst, NEW at \in Offset, SetPos(i, at) PROVE IInv'
  BY <1>9, SetPosKeeps
<1>10. ASSUME NEW i \in Inst, NEW o \in Orientation, SetOrientation(i, o) PROVE IInv'
  BY <1>10, SetOrientationKeeps
<1>11. ASSUME NEW i \in Inst, NEW p \in Pin, NEW q \in Pin, CopyGeometry(i, p, q)
       PROVE  IInv'
  <2>1. of[i] \in cells /\ parent[i] \in cells /\ q \in Parts(parent[i])
    BY <1>11 DEF CopyGeometry, IInv, TypeOK, Parts
  <2>2. shapes[of[i]][p] \in SUBSET Point
    BY <2>1 DEF IInv, TypeOK, Part
  <2>3. Placed(i, shapes[of[i]][p]) \in SUBSET Point
    BY <1>11, <2>2, PlacedType DEF CopyGeometry, IInv
  <2> QED BY <1>11, <2>1, <2>3, DrawKeeps DEF CopyGeometry
<1> QED BY <1>1, <1>2, <1>3, <1>4, <1>5, <1>6, <1>7, <1>8, <1>9, <1>10, <1>11 DEF Next

(* The invariant of the extents cache: types, flags that reach every user,     *)
(* and stored extents that agree with one another wherever no flag is set.     *)
THEOREM Invariance == Spec => []IInv
<1>1. Init => IInv
  BY InitIInv
<1>2. IInv /\ [Next]_vars => IInv'
  BY StepKeepsIInv
<1> QED BY <1>1, <1>2, PTL DEF Spec

(* Every stored value has its type, whatever is edited and updated.            *)
THEOREM TypeCorrect == Spec => []TypeOK
<1>1. IInv => TypeOK
  BY DEF IInv
<1> QED BY <1>1, Invariance, PTL

(* A flagged cell has flagged instances only: phx_cell_invalidate may stop at  *)
(* a cell that is flagged already.                                             *)
THEOREM FlagsReachUsers == Spec => []UsersAreFlagged
<1>1. IInv => UsersAreFlagged
  BY DEF IInv
<1> QED BY <1>1, Invariance, PTL

LEMMA FreshIsLocallyExact == IInv => LocallyExact
<1> SUFFICES ASSUME IInv, NEW c \in cells \ cellInv, InstsIn(c) \cap instInv = {}
             PROVE  Agrees(c) /\ \A i \in InstsIn(c) : of[i] \notin cellInv
  BY DEF LocallyExact
<1>1. \A i \in InstsIn(c) : instExt[i] = Placed(i, cellExt[of[i]])
  BY DEF IInv, InstsFresh, InstsIn
<1>2. {instExt[i] : i \in InstsIn(c)} = {Placed(i, cellExt[of[i]]) : i \in InstsIn(c)}
  BY <1>1
<1>3. cellExt[c] = Drawn(c) \cup (UNION {instExt[i] : i \in InstsIn(c)})
  BY DEF IInv, CellsFresh
<1>4. \A i \in InstsIn(c) : of[i] \notin cellInv
  BY DEF IInv, UsersAreFlagged, UsesOf, InstsIn
<1> QED BY <1>2, <1>3, <1>4 DEF Agrees

(* A cell whose bit and whose instances' bits are clear stores what is drawn   *)
(* on it and the placed extents its instances' cells have now, and none of     *)
(* those cells is out of date.                                                 *)
THEOREM LocalExactness == Spec => []LocallyExact
BY FreshIsLocallyExact, Invariance, PTL

LEMMA SettledAgrees == IInv => SettledIsExact
<1> SUFFICES ASSUME IInv, NEW ext \in [Cell -> SUBSET Point], IsTrueExt(ext),
                    NEW c \in cells, Settled(c)
             PROVE  cellExt[c] = ext[c]
  BY DEF SettledIsExact
<1> DEFINE Wrong == {d \in Below(c) : cellExt[d] # ext[d]}
<1>1. /\ c \in Below(c)
      /\ Below(c) \subseteq cells
      /\ \A i \in insts : parent[i] \in Below(c) => of[i] \in Below(c)
  BY BelowFacts DEF IInv
<1>2. SUFFICES Wrong = {}
  BY <1>1
<1>3. SUFFICES ASSUME NEW d \in Below(c), \A i \in InstsIn(d) : of[i] \notin Wrong
               PROVE  d \notin Wrong
  <2>1. Wrong \in SUBSET cells
    BY <1>1
  <2> HIDE DEF Wrong
  <2>2. CASE Wrong # {}
    <3>1. PICK d \in Wrong : \A i \in InstsIn(d) : of[i] \notin Wrong
      BY <2>1, <2>2 DEF IInv, Acyclic
    <3> QED BY <1>3, <3>1 DEF Wrong
  <2> QED BY <2>2
<1>4. \A i \in InstsIn(d) : cellExt[of[i]] = ext[of[i]]
  BY <1>1, <1>3 DEF InstsIn
<1>5. {Placed(i, cellExt[of[i]]) : i \in InstsIn(d)} = {Placed(i, ext[of[i]]) : i \in InstsIn(d)}
  BY <1>4
<1>6. Agrees(d)
  BY <1>1, FreshIsLocallyExact DEF LocallyExact, Settled, InstsIn
<1>7. ext[d] = Drawn(d) \cup (UNION {Placed(i, ext[of[i]]) : i \in InstsIn(d)})
  BY <1>1 DEF IsTrueExt, IInv, TypeOK
<1> QED BY <1>5, <1>6, <1>7 DEF Agrees

(* After any sequence of edits and updates, a cell with nothing flagged in its *)
(* hierarchy stores the extents a computation from scratch gives.              *)
THEOREM SettledExactness == Spec => []SettledIsExact
BY SettledAgrees, Invariance, PTL

(* In a design whose instances are all placed before the first update of the   *)
(* cell they are in, a clear bit means that nothing below waits either.        *)
LEMMA ValidIsSettled ==
  IInv /\ ~LateInst => \A c \in cells \ cellInv : Settled(c)
<1> SUFFICES ASSUME IInv, ~LateInst, NEW c \in cells \ cellInv
             PROVE  Settled(c)
  OBVIOUS
<1> DEFINE step == {<<parent[i], of[i]>> : i \in insts}
<1>1. \A i \in insts : parent[i] \in cells \ cellInv => i \notin instInv
  BY DEF IInv, ParentsAreFlagged
<1>2. \A i \in insts : parent[i] \in cells \ cellInv => of[i] \in cells \ cellInv
  BY <1>1 DEF IInv, UsersAreFlagged, UsesOf, TypeOK
<1>3. ClosedUnder(cells \ cellInv, step)
  BY <1>2 DEF ClosedUnder
<1>4. cells \ cellInv \in SUBSET Cell
  BY DEF IInv, TypeOK
<1>5. Below(c) \subseteq cells \ cellInv
  <2>1. Below(c) = Reach(Cell, {c}, step)
    BY DEF Below
  <2> HIDE DEF step
  <2> QED BY <1>3, <1>4, <2>1, ReachLeast
<1> QED BY <1>1, <1>5 DEF Settled

(* In such a design a clear bit means exact extents, which is what the comment *)
(* on phx_cell.invalid promises.                                               *)
THEOREM ValidExactness ==
  ASSUME ~LateInst
  PROVE  Spec => []ValidIsExact
<1>1. IInv => ValidIsExact
  BY SettledAgrees, ValidIsSettled DEF SettledIsExact, ValidIsExact
<1> QED BY <1>1, Invariance, PTL

(* In such a design one call of phx_cell_update brings the whole hierarchy of  *)
(* its argument up to date.                                                    *)
THEOREM UpdateReachesAll ==
  ASSUME ~LateInst
  PROVE  Spec => UpdateSettles
<1>1. (IInv /\ ~LateInst => \A c \in cells \ cellInv : Settled(c))'
  BY ValidIsSettled, PTL
<1>2. ASSUME IInv, NEW c \in Cell, Update(c)
      PROVE  Settled(c)'
  <2>1. IInv'
    BY <1>2, UpdateKeeps
  <2>2. c \in Visited(c)
    BY <1>2, VisitedFacts DEF IInv, Update
  <2>3. c \in (cells \ cellInv)'
    BY <1>2, <2>2 DEF Update, UpdateCell, design
  <2> QED BY <1>1, <2>1, <2>3
<1>3. IInv /\ [Next]_vars => [\A c \in Cell : Update(c) => Settled(c)']_vars
  BY <1>2
<1> QED BY <1>3, Invariance, PTL DEF Spec, UpdateSettles

=============================================================================
