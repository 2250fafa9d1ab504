----------------------------- MODULE Placement -------------------------------
(* The placement of an instance in its parent: the translation of points       *)
(* between the two coordinate systems.                                         *)
(* Coordinates are integers: the code negates, adds and compares them only.    *)
EXTENDS Integers

Vec == [x : Int, y : Int]

\* The masks of enum phx_orientation.
Orientation == [mirror_x : BOOLEAN, mirror_y : BOOLEAN, rotate_90 : BOOLEAN]

Mirrored(o, p) ==
  [x |-> IF o.mirror_x THEN -p.x ELSE p.x, y |-> IF o.mirror_y THEN -p.y ELSE p.y]

\* Clockwise.
Rotated(o, p) == IF o.rotate_90 THEN [x |-> p.y, y |-> -p.x] ELSE p

Shifted(p, d) == [x |-> p.x + d.x, y |-> p.y + d.y]

Minus(p, q) == [x |-> p.x - q.x, y |-> p.y - q.y]

\* phx_inst_vec_to_parent; off is the position less the origin of the cell.
ToParent(o, off, p) == Shifted(Rotated(o, Mirrored(o, p)), off)

\* Mutant of FromParent: turns the same way as ToParent.
FromParentClockwise(o, off, p) == Mirrored(o, Rotated(o, Minus(p, off)))

\* phx_inst_vec_from_parent.
FromParent(o, off, p) ==
  LET q == Minus(p, off)
      r == IF o.rotate_90 THEN [x |-> -q.y, y |-> q.x] ELSE q
  IN  Mirrored(o, r)

=============================================================================
