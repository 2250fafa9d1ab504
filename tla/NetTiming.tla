------------------------------ MODULE NetTiming ------------------------------
(* How the timing arcs of a composed cell are derived from those of the cells    *)
(* placed in it: phx_net_update_timing (design-net.c), from phx_cell_update      *)
(* (design-cell.c), with the table operations it calls. The lookup tables come   *)
(* from libraries, by phx_cell_set_timing_table (cell.c).                        *)
(*                                                                               *)
(* The handler runs for the nets that phx_net_invalidate flags. The program as   *)
(* it stands calls that function nowhere: Flagging is FALSE for it, and TRUE for *)
(* the database taken with this call of its own interface.                       *)
EXTENDS LibTables

CONSTANTS
  Circuits,   \* cells that may be composed
  Loads,      \* capacitances a net may have
  Flagging,   \* does anything call phx_net_invalidate?
  MaxArcs     \* bound: arcs a net holds when it is updated once more

ASSUME FlaggingAssumption == Flagging \in BOOLEAN
ASSUME MaxArcsAssumption  == MaxArcs \in Nat

VARIABLES
  circuit,  \* [conns |-> the terminals of each net, gates |-> the pins of each instance's arcs]
  load,     \* load[n]: the capacitance of net n, which is inside the cell
  flagged,  \* the nets whose PHX_TIMING bit is set
  arcs,     \* arcs[n]: the arcs from outer pins to net n
  top,      \* the arcs of the composed cell, by pin and related pin
  failed    \* an assertion failed or a write left its table: the program has ended

vars == <<circuit, lib, load, flagged, arcs, top, failed>>

Outer   == 0   \* the instance of a terminal that is a pin of the composed cell
Nets    == DOMAIN circuit.conns
Conns(n) == circuit.conns[n]
OuterPins(n) == SelectSeq(Conns(n), LAMBDA t : t.inst = Outer)
Exposed(n)   == OuterPins(n) # <<>>
Pins(i)      == circuit.gates[i]

Init ==
  /\ circuit \in Circuits
  /\ lib  \in [DOMAIN circuit.gates -> LibArcs]
  /\ load \in [{n \in Nets : ~Exposed(n)} -> Loads]
  /\ flagged = {}
  /\ arcs = [n \in Nets |-> <<>>]
  /\ top = <<>>
  /\ failed = FALSE

-------------------------------------------------------------------------------
(* What an update does to the state s of the nets and of the cell.               *)

Fail(s) == [s EXCEPT !.failed = TRUE]
AddArc(s, n, arc) == [s EXCEPT !.arcs[n] = Append(@, arc)]

\* add_delay: both counters run over the axes of the head until one list ends.
Listed(T) == SetToSortSeq(OwnAxes(T), <)
DelayAxes(tail, head) ==
  LET h == Listed(head)
      t == Listed(tail)
      n == Min({Len(h), Len(t)})
  IN  SubSeq(h, 1, n) \o SubSeq(h, n + 1, Len(h)) \o SubSeq(t, n + 1, Len(t))
Empty(tail, head) ==
  LET order == DelayAxes(tail, head)
      indices == [a \in ToSet(order) |-> IF a \in OwnAxes(head) THEN head.fmt[a].indices ELSE tail.fmt[a].indices]
  IN  TableNew(order, indices, [k \in 0 .. FoldSet(LAMBDA a, m : Len(indices[a]) * m, 1, ToSet(order)) - 1 |-> 0])
AddDelay(tail, head) == Add(Empty(tail, head), tail, head)
DelayFails(tail, head) == AddFails(Empty(tail, head), tail) \/ AddFails(Empty(tail, head), head)

\* Joining asserts that T has axes. The row of a slope goes where T has it, and
\* that is inside the result only if it is the fastest axis of T.
LookupFails(T, a, x) == a \in DOMAIN T.fmt /\ LerpFails(T.fmt[a].indices, x)
JoinFails(T, Ti) ==
  \/ DOMAIN T.fmt = {}
  \/ InTrans \in DOMAIN T.fmt \cap DOMAIN Ti.fmt /\ T.fmt[InTrans].stride # 1
  \/ \E p \in Points(Ti.fmt, DOMAIN Ti.fmt) : LookupFails(T, InTrans, ValueAt(Ti, p))

\* Mutant of Combine: the transition is left as the last gate has it.
CombineUnjoined(s, n, d, t, before) ==
  LET Resample(T) == IF T = NoTable \/ before.trans = NoTable THEN T ELSE TableJoin(T, InTrans, before.trans)
      bad  == before.trans # NoTable /\ \E T \in {d, t} \ {NoTable} : JoinFails(T, before.trans)
      d1   == Resample(d)
      both == d # NoTable /\ before.delay # NoTable
  IN  IF s.failed THEN s
      ELSE IF bad THEN Fail(s)
      ELSE IF both /\ DelayFails(d1, before.delay) THEN Fail(s)
      ELSE IF d = NoTable /\ t = NoTable THEN s
      ELSE AddArc(s, n, [rel   |-> before.rel,
                         delay |-> IF both THEN AddDelay(d1, before.delay) ELSE d1,
                         trans |-> t])

\* combine_arcs: an arc to a net inside, continued by the tables d and t.
Combine(s, n, d, t, before) ==
  LET Resample(T) == IF T = NoTable \/ before.trans = NoTable THEN T ELSE TableJoin(T, InTrans, before.trans)
      bad  == before.trans # NoTable /\ \E T \in {d, t} \ {NoTable} : JoinFails(T, before.trans)
      d1   == Resample(d)
      both == d # NoTable /\ before.delay # NoTable
  IN  IF s.failed THEN s
      ELSE IF bad THEN Fail(s)
      ELSE IF both /\ DelayFails(d1, before.delay) THEN Fail(s)
      ELSE IF d = NoTable /\ t = NoTable THEN s
      ELSE AddArc(s, n, [rel   |-> before.rel,
                         delay |-> IF both THEN AddDelay(d1, before.delay) ELSE d1,
                         trans |-> Resample(t)])

\* phx_net_update_timing_arc_forward: along a gate from net m to net n.
Forward(s, n, m, i) ==
  LET Cut(T) == IF T = NoTable \/ Exposed(n) THEN T ELSE Reduce(T, Fixed(OutCap, load[n]))
      d == Cut(lib[i].delay)
      t == Cut(lib[i].trans)
      bad == ~Exposed(n) /\ \E T \in {lib[i].delay, lib[i].trans} \ {NoTable} : LookupFails(T, OutCap, load[n])
  IN  IF s.failed THEN s
      ELSE IF bad THEN Fail(s)
      ELSE IF ~Exposed(m) THEN FoldLeft(LAMBDA r, before : Combine(r, n, d, t, before), s, s.arcs[m])
      ELSE IF Len(OuterPins(m)) > 1 THEN Fail(s)
      ELSE AddArc(s, n, [rel |-> OuterPins(m)[1].pin, delay |-> d, trans |-> t])

\* phx_cell_set_timing_table, for both tables of each arc of net n and each outer
\* pin on it. It does not take a table that is not there.
SetArc(s, pin, arc) ==
  IF s.failed \/ NoTable \in {arc.delay, arc.trans} THEN Fail(s)
  ELSE [s EXCEPT !.top = <<pin, arc.rel>> :> [delay |-> arc.delay, trans |-> arc.trans] @@ @]
Push(s, n) ==
  FoldLeft(LAMBDA r, t : FoldLeft(LAMBDA q, arc : IF q.failed THEN q ELSE SetArc(q, t.pin, arc), r, r.arcs[n]),
           s, OuterPins(n))

\* The gates that drive net n: gate i of an instance has its output there.
Drives(i, n)   == \E k \in DOMAIN Conns(n) : Conns(n)[k] = [inst |-> Pins(i).inst, pin |-> Pins(i).pin]
Drivers(n)     == SelectSeq([i \in DOMAIN circuit.gates |-> i], LAMBDA i : Drives(i, n))
FromNet(i, m)  == \E k \in DOMAIN Conns(m) : Conns(m)[k] = [inst |-> Pins(i).inst, pin |-> Pins(i).rel]
Sources(i)     == SelectSeq([m \in Nets |-> m], LAMBDA m : FromNet(i, m))

RECURSIVE NetUpdate(_, _)

\* Mutant of NetUpdate: the nets before a gate are taken as they are.
NetUpdateShallow(s, n) ==
  IF s.failed \/ n \notin s.flagged THEN s
  ELSE Push(FoldLeft(LAMBDA r, i : FoldLeft(LAMBDA q, m : Forward(q, n, m, i), r, Sources(i)),
                     [s EXCEPT !.flagged = @ \ {n}], Drivers(n)), n)

\* phx_net_update, and phx_net_update_timing for a net that is flagged.
NetUpdate(s, n) ==
  IF s.failed \/ n \notin s.flagged THEN s
  ELSE Push(FoldLeft(LAMBDA r, i :
                       FoldLeft(LAMBDA q, m : Forward(q, n, m, i),
                                FoldLeft(LAMBDA q, m : NetUpdate(q, m), r, Sources(i)), Sources(i)),
                     [s EXCEPT !.flagged = @ \ {n}], Drivers(n)), n)

-------------------------------------------------------------------------------
State == [flagged |-> flagged, arcs |-> arcs, top |-> top, failed |-> FALSE]
Become(s) ==
  /\ flagged' = s.flagged /\ arcs' = s.arcs /\ top' = s.top /\ failed' = s.failed

\* phx_net_invalidate, one call for each net of N that has its bit clear.
Invalidate(N) ==
  /\ Flagging /\ ~failed
  /\ N # {} /\ N \cap flagged = {}
  /\ \A n \in Nets : Len(arcs[n]) <= MaxArcs
  /\ flagged' = flagged \cup N
  /\ UNCHANGED <<circuit, lib, load, arcs, top, failed>>

\* phx_cell_update of the composed cell, whose bit is set when that of a net is.
\* The cells placed in it have no nets.
CellUpdate ==
  /\ flagged # {} /\ ~failed
  /\ Become(FoldLeft(NetUpdate, State, [n \in Nets |-> n]))
  /\ UNCHANGED <<circuit, lib, load>>

\* phx_net_update of one net.
Update(n) ==
  /\ n \in flagged /\ ~failed
  /\ Become(NetUpdate(State, n))
  /\ UNCHANGED <<circuit, lib, load>>

Next ==
  \/ \E N \in SUBSET Nets : Invalidate(N)
  \/ CellUpdate
  \/ \E n \in Nets : Update(n)

Spec == Init /\ [][Next]_vars

-------------------------------------------------------------------------------
(* The paths of the circuit, and what the arcs along them should say.            *)

OutNet(i) == CHOOSE n \in Nets : Drives(i, n)
InNet(i)  == CHOOSE m \in Nets : FromNet(i, m)

\* A path begins at an exposed net and passes through nets that are not exposed.
Paths(n) ==
  {q \in UNION {[1 .. k -> DOMAIN circuit.gates] : k \in 1 .. Len(circuit.gates)} :
     /\ Exposed(InNet(q[1]))
     /\ \A j \in 1 .. Len(q) - 1 : OutNet(q[j]) = InNet(q[j + 1]) /\ ~Exposed(InNet(q[j + 1]))
     /\ OutNet(q[Len(q)]) = n}
Complete(q) == \A j \in DOMAIN q : NoTable \notin {lib[q[j]].delay, lib[q[j]].trans}

\* What gate i says at slope x: the load is that of the net behind it, or y if
\* that net is exposed.
Read(i, T, x, y) ==
  Reduce(Reduce(T, Fixed(OutCap, IF Exposed(OutNet(i)) THEN y ELSE load[OutNet(i)])), Fixed(InTrans, x)).data[0]
SlopeAfter(q, x, y) ==
  LET slope[k \in 0 .. Len(q)] == IF k = 0 THEN x ELSE Read(q[k], lib[q[k]].trans, slope[k - 1], y)
  IN  slope
DelayAfter(q, x, y) ==
  LET slope == SlopeAfter(q, x, y)
      sum[k \in 0 .. Len(q)] == IF k = 0 THEN 0 ELSE sum[k - 1] + Read(q[k], lib[q[k]].delay, slope[k - 1], y)
  IN  sum[Len(q)]

\* The breakpoint of axis a at a point of a table.
Breakpoint(T, p, a) == IF a \in DOMAIN p THEN T.fmt[a].indices[p[a] + 1] ELSE 0
Says(T, F(_, _)) ==
  \A p \in Points(T.fmt, DOMAIN T.fmt) : ValueAt(T, p) = F(Breakpoint(T, p, InTrans), Breakpoint(T, p, OutCap))
Along(arc, q) ==
  /\ arc.rel = OuterPins(InNet(q[1]))[1].pin
  /\ Complete(q) => Says(arc.trans, LAMBDA x, y : SlopeAfter(q, x, y)[Len(q)])

\* Every arc a net or the cell holds follows a path of the circuit, and the slope
\* it gives at each of its breakpoints is that behind the last gate when each gate
\* is read at the slope behind the one before it (phx_net_update_timing).
SlopesCompose ==
  ~failed =>
    /\ \A n \in Nets : \A k \in DOMAIN arcs[n] : \E q \in Paths(n) : Along(arcs[n][k], q)
    /\ \A r \in DOMAIN top : \E n \in Nets : \E q \in Paths(n) :
         /\ \E t \in ToSet(OuterPins(n)) : t.pin = r[1]
         /\ Along([rel |-> r[2], trans |-> top[r].trans], q)

\* An update of the cell with all nets flagged finds the arc of every path, in
\* whatever order the cell lists its nets (phx_net_update of the nets before).
UpdateComplete ==
  [][(CellUpdate /\ flagged = Nets /\ ~failed') =>
       \A n \in Nets : \A q \in Paths(n) : Complete(q) =>
         \E k \in Len(arcs[n]) + 1 .. Len(arcs'[n]) : Along(arcs'[n][k], q)]_vars

\* Likewise for delays: along a path they add up, at every breakpoint
\* (phx_table_add, "Adds the values of two tables").
DelaysAdd ==
  ~failed =>
    \A n \in Nets : \A k \in DOMAIN arcs[n] : \E q \in Paths(n) :
      Along(arcs[n][k], q) /\ (Complete(q) => Says(arcs[n][k].delay, LAMBDA x, y : DelayAfter(q, x, y)))
===============================================================================
