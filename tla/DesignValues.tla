---------------------------- MODULE DesignValues ----------------------------
(* The values the design database derives bottom up besides the extents: the   *)
(* capacitance of nets and of the pins they expose (PHX_CAPACITANCES) and the   *)
(* leakage power of cells (PHX_POWER_LKG).  Unlike the extents nothing flags    *)
(* them again: the bits are set when a cell is created and cleared by its first *)
(* phx_cell_update.                                                            *)
(*                                                                             *)
(* A cell or a pin that was not created yet stands with what calloc leaves in  *)
(* it and all bits set; scripts create both by naming them.                    *)
EXTENDS NetOps, Reachability, Functions

CONSTANTS
  Cell, Inst, Pin,
  Nil,       \* the NULL pointer
  Value,     \* capacitances and leakages a library or a script sets
  LateEdit,  \* may a script edit a cell it has updated already?
  MaxConns   \* bound: connections made in one cell

ASSUME NoInstAssumption == NoInst \notin Inst
ASSUME ValueAssumption == Value \subseteq Nat
ASSUME LateEditAssumption == LateEdit \in BOOLEAN

Terminal == Terminals(Inst, Pin)

VARIABLES
  insts,   \* the instances created so far
  of,      \* of[i]: the cell instance i instantiates
  parent,  \* parent[i]: the cell instance i is placed in
  nets,    \* nets[c]: the nets of cell c
  capInv,  \* the cells whose PHX_CAPACITANCES bit is set
  lkgInv,  \* the cells whose PHX_POWER_LKG bit is set
  cap,     \* cap[c][p]: the capacitance stored in pin p of cell c
  netCap,  \* netCap[c]: the capacitances stored in the nets of cell c
  lkg      \* lkg[c]: the leakage power stored in cell c

design == <<insts, of, parent, nets>>
bits   == <<capInv, lkgInv>>
values == <<cap, netCap, lkg>>
vars   == <<design, bits, values>>

InstsIn(c) == {i \in insts : parent[i] = c}

\* All cells in the hierarchy of c, c included.
Below(c) == Reach(Cell, {c}, {<<parent[i], of[i]>> : i \in insts})

\* Mutant of Visited: the cells of the instances are not updated.
VisitedOnly(c, inv) == {c} \cap inv

\* The cells an update of c recomputes whose bit is set in inv.
Visited(c, inv) ==
  Reach(Cell, {c} \cap inv, {<<parent[i], of[i]>> : i \in {j \in insts : of[j] \in inv}})

Sum(f, S) == SumFunctionOnSet(f, S)

\* What net k of cell c adds up to when the pins have the capacitances pinCap:
\* every terminal it lists that is a pin of an instance.
Load(c, k, pinCap) ==
  LET conns == nets[c][k].conns
      Inner == {j \in DOMAIN conns : ~Outer(conns[j])}
  IN  Sum([j \in Inner |-> pinCap[of[conns[j].inst]][conns[j].pin]], Inner)

\* Mutant of PinCapIn: adds up the pins before the cells below are updated.
PinCapBefore(V, c, pinCap) ==
  [p \in Pin |->
     LET t == [inst |-> NoInst, pin |-> p] IN
     IF c \in V /\ On(nets[c], t) # {}
     THEN Load(c, CHOOSE k \in On(nets[c], t) : TRUE, cap)
     ELSE cap[c][p]]

\* The capacitances of the pins of cell c after the update of V.
PinCapIn(V, c, pinCap) ==
  [p \in Pin |->
     LET t == [inst |-> NoInst, pin |-> p] IN
     IF c \in V /\ On(nets[c], t) # {}
     THEN Load(c, CHOOSE k \in On(nets[c], t) : TRUE, pinCap)
     ELSE cap[c][p]]

\* phx_cell_update_capacitances over the cells it visits, bottom up.
CapAfter(V) ==
  LET pinCap[c \in Cell] == PinCapIn(V, c, pinCap) IN pinCap

\* What the instances of cell c leak when cells leak power.
Leak(c, power) == Sum([i \in InstsIn(c) |-> power[of[i]]], InstsIn(c))

\* A cell without instances keeps its leakage.
LeakageIn(V, c, power) ==
  IF c \in V /\ InstsIn(c) # {} THEN Leak(c, power) ELSE lkg[c]

LkgAfter(V) ==
  LET power[c \in Cell] == LeakageIn(V, c, power) IN power

-----------------------------------------------------------------------------
Init ==
  /\ insts  = {}
  /\ of     = [i \in Inst |-> Nil]
  /\ parent = [i \in Inst |-> Nil]
  /\ nets   = [c \in Cell |-> <<>>]
  /\ capInv = Cell /\ lkgInv = Cell
  /\ cap    = [c \in Cell |-> [p \in Pin |-> 0]]
  /\ netCap = [c \in Cell |-> <<>>]
  /\ lkg    = [c \in Cell |-> 0]

Editable(c) == LateEdit \/ c \in capInv

\* new_inst: no cell is flagged.  A hierarchy never contains itself.
NewInst(i, into, cell) ==
  /\ i \notin insts /\ into \notin Below(cell) /\ Editable(into)
  /\ insts'  = insts \cup {i}
  /\ of'     = [of EXCEPT ![i] = cell]
  /\ parent' = [parent EXCEPT ![i] = into]
  /\ UNCHANGED <<nets, bits, values>>

TerminalsOf(c) == Terminals(InstsIn(c), Pin)

\* connect: no cell is flagged.  Calls that stop the program and a terminal
\* connected to itself are the subject of Netlist.
Connect(c, a, b) ==
  /\ Editable(c)
  /\ a \in TerminalsOf(c) /\ b \in TerminalsOf(c) \ {a}
  /\ Sum([k \in DOMAIN nets[c] |-> Len(nets[c][k].conns)], DOMAIN nets[c]) < MaxConns
  /\ \/ /\ On(nets[c], a) = {} /\ On(nets[c], b) = {}
        /\ nets' = [nets EXCEPT ![c] = WithNewNet(@, a, b)]
        /\ netCap' = [netCap EXCEPT ![c] = Append(@, 0)]
     \/ \E k \in On(nets[c], a) :
          /\ On(nets[c], b) = {}
          /\ nets' = [nets EXCEPT ![c] = Extended(@, k, b)]
          /\ UNCHANGED netCap
  /\ UNCHANGED <<insts, of, parent, bits, cap, lkg>>

\* phx_pin_set_capacitance, load_lib: the pin is written, no cell is flagged.
SetCapacitance(c, p, v) ==
  /\ Editable(c)
  /\ cap' = [cap EXCEPT ![c][p] = v]
  /\ UNCHANGED <<design, bits, netCap, lkg>>

\* load_lib: the cell is written, no cell is flagged.
SetLeakage(c, v) ==
  /\ Editable(c)
  /\ lkg' = [lkg EXCEPT ![c] = v]
  /\ UNCHANGED <<design, bits, cap, netCap>>

\* phx_cell_update(c, PHX_ALL_BITS): changes nothing unless a bit of c is set.
Update(c) ==
  LET V == Visited(c, capInv)
      W == Visited(c, lkgInv)
  IN  /\ cap'    = CapAfter(V)
      /\ netCap' = [d \in Cell |->
                      IF d \in V THEN [k \in DOMAIN nets[d] |-> Load(d, k, CapAfter(V))]
                                 ELSE netCap[d]]
      /\ lkg'    = LkgAfter(W)
      /\ capInv' = capInv \ V
      /\ lkgInv' = lkgInv \ W
      /\ UNCHANGED design

Next ==
  \/ \E i \in Inst, into \in Cell, cell \in Cell : NewInst(i, into, cell)
  \/ \E c \in Cell, a \in Terminal, b \in Terminal : Connect(c, a, b)
  \/ \E c \in Cell, p \in Pin, v \in Value : SetCapacitance(c, p, v)
  \/ \E c \in Cell, v \in Value : SetLeakage(c, v)
  \/ \E c \in Cell : Update(c)

Spec == Init /\ [][Next]_vars

-----------------------------------------------------------------------------
(* Every variable holds a value of its type, and instances have cells.         *)
TypeOK ==
  /\ insts \in SUBSET Inst
  /\ of \in [Inst -> Cell \cup {Nil}] /\ parent \in [Inst -> Cell \cup {Nil}]
  /\ \A i \in insts : of[i] \in Cell /\ parent[i] \in Cell
  /\ \A c \in Cell : \A k \in DOMAIN nets[c] :
       \A j \in DOMAIN nets[c][k].conns : nets[c][k].conns[j] \in TerminalsOf(c)
  /\ capInv \in SUBSET Cell /\ lkgInv \in SUBSET Cell
  /\ cap \in [Cell -> [Pin -> Nat]] /\ lkg \in [Cell -> Nat]
  /\ netCap \in [Cell -> Seq(Nat)]
  /\ \A c \in Cell : DOMAIN netCap[c] = DOMAIN nets[c]

(* "The bits of this cell that need to be recalculated" (cell.h:82): while a    *)
(* cell's bits are clear, its nets carry what the pins on them add up to, the   *)
(* pins they expose the same, and the cell leaks what its instances leak.       *)
ValuesAgree ==
  /\ \A c \in Cell \ capInv : \A k \in DOMAIN nets[c] :
       /\ netCap[c][k] = Load(c, k, cap)
       /\ \A p \in Pin :
            Lists(nets[c][k], [inst |-> NoInst, pin |-> p]) => cap[c][p] = netCap[c][k]
  /\ \A c \in Cell \ lkgInv : InstsIn(c) # {} => lkg[c] = Leak(c, lkg)

(* A cell whose bits are clear has none below it that waits for an update, so  *)
(* that agreeing with its instances is being right.                            *)
NothingWaitsBelow ==
  /\ \A c \in Cell \ capInv : Below(c) \cap capInv = {}
  /\ \A c \in Cell \ lkgInv : Below(c) \cap lkgInv = {}

=============================================================================
