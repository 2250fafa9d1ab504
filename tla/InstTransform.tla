--------------------------- MODULE InstTransform ----------------------------
(* One instance and its bounding boxes: that of the instantiated cell as it    *)
(* grows point by point, and that of the instance as placed in its parent.     *)
EXTENDS Placement

CONSTANTS
  NoBox,  \* what phx_extents_reset leaves: the box of nothing
  Coord   \* coordinates of what is drawn, positions and origins

ASSUME CoordAssumption == Coord \subseteq Int

\* A phx_extents_t that holds something.
Box == [min : Vec, max : Vec]

ASSUME NoBoxAssumption == NoBox \notin Box

Less(a, b) == IF a < b THEN a ELSE b
More(a, b) == IF a > b THEN a ELSE b

\* Mutant of Grown: a point that lowers one bound is not tried for the other.
GrownOnce(box, p) ==
  IF box = NoBox THEN [min |-> p, max |-> p]
  ELSE [min |-> [x |-> Less(p.x, box.min.x), y |-> Less(p.y, box.min.y)],
        max |-> [x |-> IF p.x < box.min.x THEN box.max.x ELSE p.x,
                 y |-> More(p.y, box.max.y)]]

\* phx_extents_add.
Grown(box, p) ==
  IF box = NoBox THEN [min |-> p, max |-> p]
  ELSE [min |-> [x |-> Less(p.x, box.min.x), y |-> Less(p.y, box.min.y)],
        max |-> [x |-> More(p.x, box.max.x), y |-> More(p.y, box.max.y)]]

\* The mirrors of phx_inst_update_extents: the bounds change sides.
MirroredBox(o, b) ==
  [min |-> [x |-> IF o.mirror_x THEN -b.max.x ELSE b.min.x,
            y |-> IF o.mirror_y THEN -b.max.y ELSE b.min.y],
   max |-> [x |-> IF o.mirror_x THEN -b.min.x ELSE b.max.x,
            y |-> IF o.mirror_y THEN -b.min.y ELSE b.max.y]]

\* Its rotation, assignment by assignment: by the time max.x takes max.y that
\* bound holds the negated min.x already.
RotatedBox(o, b) ==
  IF ~o.rotate_90 THEN b
  ELSE [min |-> [x |-> b.min.y, y |-> -b.max.x],
        max |-> [x |-> -b.min.x, y |-> -b.min.x]]

\* Mutant of PlacedBox: the mirrors are left out.
UnmirroredBox(o, off, b) ==
  IF b = NoBox THEN NoBox
  ELSE LET r == RotatedBox(o, b)
       IN  [min |-> Shifted(r.min, off), max |-> Shifted(r.max, off)]

\* phx_inst_update_extents; an empty box stays empty under all of it.
PlacedBox(o, off, b) ==
  IF b = NoBox THEN NoBox
  ELSE LET r == RotatedBox(o, MirroredBox(o, b))
       IN  [min |-> Shifted(r.min, off), max |-> Shifted(r.max, off)]

-----------------------------------------------------------------------------
VARIABLES
  drawn,   \* the points drawn in the cell
  box,     \* the extents of the cell
  orient,  \* the orientation of the instance
  off,     \* its position less the origin of the cell
  valid,   \* the PHX_EXTENTS bits of cell and instance are clear
  ext      \* the extents of the instance

placeVars == <<drawn, box, orient, off, valid, ext>>

Point == [x : Coord, y : Coord]

PlaceInit ==
  /\ drawn = {} /\ box = NoBox
  /\ orient = [mirror_x |-> FALSE, mirror_y |-> FALSE, rotate_90 |-> FALSE]
  /\ off = [x |-> 0, y |-> 0]
  /\ valid = FALSE /\ ext = NoBox

AddPoint(p) ==
  /\ drawn' = drawn \cup {p}
  /\ box' = Grown(box, p)
  /\ valid' = FALSE
  /\ UNCHANGED <<orient, off, ext>>

SetOrientation(o) ==
  /\ o # orient
  /\ orient' = o /\ valid' = FALSE
  /\ UNCHANGED <<drawn, box, off, ext>>

SetPos(p, org) ==
  /\ off' = Minus(p, org)
  /\ valid' = FALSE
  /\ UNCHANGED <<drawn, box, orient, ext>>

Update ==
  /\ ~valid
  /\ ext' = PlacedBox(orient, off, box)
  /\ valid' = TRUE
  /\ UNCHANGED <<drawn, box, orient, off>>

PlaceNext ==
  \/ \E p \in Point : AddPoint(p)
  \/ \E o \in Orientation : SetOrientation(o)
  \/ \E p \in Point, org \in Point : SetPos(p, org)
  \/ Update

PlaceSpec == PlaceInit /\ [][PlaceNext]_placeVars

-----------------------------------------------------------------------------
\* Box b is the smallest that holds the points of S.
Bounds(b, S) ==
  IF S = {} THEN b = NoBox
  ELSE /\ b \in Box
       /\ \A p \in S : b.min.x <= p.x /\ p.x <= b.max.x /\ b.min.y <= p.y /\ p.y <= b.max.y
       /\ \E p \in S : p.x = b.min.x
       /\ \E p \in S : p.x = b.max.x
       /\ \E p \in S : p.y = b.min.y
       /\ \E p \in S : p.y = b.max.y

(* The variables are points, masks and boxes.                                  *)
PlaceTypeOK ==
  /\ drawn \subseteq Vec /\ orient \in Orientation /\ off \in Vec /\ valid \in BOOLEAN
  /\ box \in Box \cup {NoBox} /\ ext \in Box \cup {NoBox}

(* Growing a box point by point gives the smallest that holds them all,        *)
(* whatever the order (cell.c:28-34).                                          *)
BoxBounds == Bounds(box, drawn)

(* A point goes to the parent and comes back where it was, in every            *)
(* orientation (design-inst.c:96-129).                                         *)
RoundTrip ==
  \A p \in drawn : FromParent(orient, off, ToParent(orient, off, p)) = p

(* The extents of an instance are the smallest box around what the cell draws, *)
(* as phx_inst_vec_to_parent places it in the parent: the two translations of  *)
(* design-inst.c:25-54 and 116-129 agree.                                      *)
ExtBoundsPlaced ==
  valid => Bounds(ext, {ToParent(orient, off, p) : p \in drawn})

(* They do where the instance is not rotated by 90 degrees.                    *)
ExtBoundsMirrored == ~orient.rotate_90 => ExtBoundsPlaced

-----------------------------------------------------------------------------
\* The inductive invariant behind them: a valid instance holds the placed box.
ExtFollows == valid => ext = PlacedBox(orient, off, box)

PlaceInv == PlaceTypeOK /\ BoxBounds /\ ExtFollows

=============================================================================
