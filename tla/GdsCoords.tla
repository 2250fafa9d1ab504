----------------------------- MODULE GdsCoords -------------------------------
(* Where the GDS export puts what is drawn: the points of the cell and the      *)
(* instance of InstTransform as cell_to_gds (misc.c) writes them, read back by  *)
(* the rules of GDSII.  cell_to_gds changes nothing in the design, so that what *)
(* it would write is a function of the state.                                   *)
(* Coordinates of the design are integers in quarters of the database unit of   *)
(* the library, so that all ways of rounding show.  The cell has its origin at  *)
(* zero, where every command leaves it, so that `off` is the position.          *)
EXTENDS InstTransform

Unit == 4

\* What the conversion to an integer leaves of x: it rounds towards zero.
Truncated(x) == IF x >= 0 THEN x \div Unit ELSE -((-x) \div Unit)

\* Mutant of ToDbu: nothing is added.
ToDbuDown(x) == Truncated(x)

ToDbu(x) == Truncated(x + Unit \div 2)

ToXY(p) == [x |-> ToDbu(p.x), y |-> ToDbu(p.y)]

Xor(a, b) == a # b

\* Mutant of Strans: a mirrored x is written as a reflection alone.
StransUnturned(o) ==
  [reflection |-> Xor(o.mirror_y, o.mirror_x),
   angle      |-> IF o.rotate_90 THEN 90 ELSE 0]

\* The transformation written for an instance.
Strans(o) ==
  [reflection |-> Xor(o.mirror_y, o.mirror_x),
   angle      |-> (IF o.mirror_x THEN 180 ELSE 0) + (IF o.rotate_90 THEN 90 ELSE 0)]

\* How GDSII reads it: the reflection negates y, the angle turns counterclockwise.
GdsRotated(angle, p) ==
  CASE angle = 0   -> p
    [] angle = 90  -> [x |-> -p.y, y |-> p.x]
    [] angle = 180 -> [x |-> -p.x, y |-> -p.y]
    [] angle = 270 -> [x |-> p.y, y |-> -p.x]

GdsPlaced(strans, at, p) ==
  Shifted(GdsRotated(strans.angle, IF strans.reflection THEN [p EXCEPT !.y = -@] ELSE p), at)

\* Where the library has point p of the cell, in the parent.
InLibrary(p) == GdsPlaced(Strans(orient), ToXY(off), ToXY(p))

-----------------------------------------------------------------------------
Positive(v) == v.x >= 0 /\ v.y >= 0

Within(a, b, d) == a - b <= d /\ b - a <= d

\* Vector xy in units is no further from v, in quarters, than d on either axis.
Near(xy, v, d) == Within(Unit * xy.x, v.x, d) /\ Within(Unit * xy.y, v.y, d)

(* "Adding 0.5 ensures the coordinates are rounded to dbu properly."           *)
(* (misc.c:594, 607): points and positions that are not negative are written   *)
(* as the nearest there are.                                                   *)
RoundedToNearest ==
  \A v \in drawn \cup {off} : Positive(v) => Near(ToXY(v), v, Unit \div 2)

(* That sentence of misc.c:594 for all of them, either side of zero.           *)
RoundedProperly == \A v \in drawn \cup {off} : Near(ToXY(v), v, Unit \div 2)

(* Who reads the library finds what is drawn where phx_inst_vec_to_parent has  *)
(* it in the design, up to the two roundings (misc.c:626-644,                  *)
(* design-inst.c:116-129).                                                     *)
PlacedAsDesigned ==
  \A p \in drawn : Positive(p) /\ Positive(off) =>
     Near(InLibrary(p), ToParent(orient, off, p), Unit)

(* He does where the instance is not rotated by 90 degrees: order and sense of *)
(* the reflections agree.                                                      *)
MirroredAsDesigned == ~orient.rotate_90 => PlacedAsDesigned

=============================================================================
