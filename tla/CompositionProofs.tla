-------------------------- MODULE CompositionProofs --------------------------
(* How a cell is composed of others and written: the placement of its instances, *)
(* its nets, its export to GDS, and the lookup tables that its timing is read     *)
(* from. For all integer coordinates, any instances and pins, designs of any      *)
(* size, and all tables of slopes and loads. The models share no variable.        *)
EXTENDS LibTables, GdsCoords, Netlist, GdsExport, Foundations, SequenceTheorems,
        FiniteSetTheorems

-------------------------------------------------------------------------------
(* The placement of an instance, in the design and in the GDS library.           *)

(* Where a placement takes a vector is a vector.                               *)
LEMMA PlacesVec ==
  ASSUME NEW o \in Orientation, NEW d \in Vec, NEW p \in Vec
  PROVE  ToParent(o, d, p) \in Vec /\ Minus(p, d) \in Vec /\ Shifted(p, d) \in Vec
BY DEF ToParent, Shifted, Rotated, Mirrored, Minus, Orientation, Vec

(* A point comes back from the parent where it was.                            *)
LEMMA ThereAndBack ==
  ASSUME NEW o \in Orientation, NEW d \in Vec, NEW p \in Vec
  PROVE  FromParent(o, d, ToParent(o, d, p)) = p
<1>1. PICK x, y, dx, dy \in Int : p = [x |-> x, y |-> y] /\ d = [x |-> dx, y |-> dy]
  BY DEF Vec
<1>2. ToParent(o, d, p) =
        IF o.rotate_90
        THEN [x |-> (IF o.mirror_y THEN -y ELSE y) + dx, y |-> -(IF o.mirror_x THEN -x ELSE x) + dy]
        ELSE [x |-> (IF o.mirror_x THEN -x ELSE x) + dx, y |-> (IF o.mirror_y THEN -y ELSE y) + dy]
  BY <1>1 DEF ToParent, Shifted, Rotated, Mirrored
<1>3. Minus(ToParent(o, d, p), d) =
        IF o.rotate_90
        THEN [x |-> (IF o.mirror_y THEN -y ELSE y), y |-> -(IF o.mirror_x THEN -x ELSE x)]
        ELSE [x |-> (IF o.mirror_x THEN -x ELSE x), y |-> (IF o.mirror_y THEN -y ELSE y)]
  BY <1>1, <1>2 DEF Minus
<1> QED BY <1>1, <1>3 DEF FromParent, Mirrored

(* A box grown by a point is a box.                                            *)
LEMMA GrownBox ==
  ASSUME NEW b \in Box \cup {NoBox}, NEW p \in Vec
  PROVE  Grown(b, p) \in Box
<1>1. \A m, n \in Int : Less(m, n) \in Int /\ More(m, n) \in Int
  BY DEF Less, More
<1>2. CASE b = NoBox
  BY <1>2 DEF Grown, Box
<1>3. CASE b \in Box
  BY <1>1, <1>3, NoBoxAssumption DEF Grown, Box, Vec
<1> QED BY <1>2, <1>3

(* A box that bounds points bounds one more when it is grown by it.            *)
LEMMA GrownBounds ==
  ASSUME NEW S \in SUBSET Vec, NEW b, Bounds(b, S), NEW p \in Vec
  PROVE  Bounds(Grown(b, p), S \cup {p})
<1>1. CASE S = {}
  BY <1>1 DEF Bounds, Grown, Box, Vec
<1>2. CASE S # {}
  <2>1. b \in Box /\ b # NoBox
    BY <1>2, NoBoxAssumption DEF Bounds
  <2>2. Grown(b, p) \in Box
    BY <2>1, GrownBox
  <2> DEFINE g == Grown(b, p)
  <2>3. /\ g.min.x = Less(p.x, b.min.x) /\ g.min.y = Less(p.y, b.min.y)
        /\ g.max.x = More(p.x, b.max.x) /\ g.max.y = More(p.y, b.max.y)
    BY <2>1 DEF Grown
  <2>4. /\ b.min.x \in Int /\ b.min.y \in Int /\ b.max.x \in Int /\ b.max.y \in Int
        /\ \A q \in S \cup {p} : q.x \in Int /\ q.y \in Int
    BY <2>1 DEF Box, Vec
  <2>5. /\ \A q \in S : b.min.x <= q.x /\ q.x <= b.max.x /\ b.min.y <= q.y /\ q.y <= b.max.y
        /\ \E q \in S : q.x = b.min.x
        /\ \E q \in S : q.x = b.max.x
        /\ \E q \in S : q.y = b.min.y
        /\ \E q \in S : q.y = b.max.y
    BY <1>2 DEF Bounds
  <2> HIDE DEF g
  <2>6. \A q \in S \cup {p} :
          g.min.x <= q.x /\ q.x <= g.max.x /\ g.min.y <= q.y /\ q.y <= g.max.y
    BY <2>3, <2>4, <2>5 DEF Less, More
  <2>7. /\ \E q \in S \cup {p} : q.x = g.min.x
        /\ \E q \in S \cup {p} : q.x = g.max.x
        /\ \E q \in S \cup {p} : q.y = g.min.y
        /\ \E q \in S \cup {p} : q.y = g.max.y
    BY <2>3, <2>4, <2>5 DEF Less, More
  <2>8. g \in Box
    BY <2>2 DEF g
  <2> QED BY <2>6, <2>7, <2>8 DEF Bounds, g
<1> QED BY <1>1, <1>2

(* Without a rotation the placed box bounds the placed points.                 *)
LEMMA PlacedBounds ==
  ASSUME NEW S \in SUBSET Vec, NEW b, Bounds(b, S),
         NEW o \in Orientation, ~o.rotate_90, NEW d \in Vec
  PROVE  Bounds(PlacedBox(o, d, b), {ToParent(o, d, p) : p \in S})
<1> DEFINE T == {ToParent(o, d, p) : p \in S}
           e == PlacedBox(o, d, b)
<1>1. CASE S = {}
  BY <1>1 DEF Bounds, PlacedBox
<1>2. CASE S # {}
  <2>1. b \in Box /\ b # NoBox
    BY <1>2, NoBoxAssumption DEF Bounds
  <2>2. /\ b.min.x \in Int /\ b.min.y \in Int /\ b.max.x \in Int /\ b.max.y \in Int
        /\ d.x \in Int /\ d.y \in Int
        /\ \A q \in S : q.x \in Int /\ q.y \in Int
    BY <2>1 DEF Box, Vec
  <2>3. /\ e.min.x = (IF o.mirror_x THEN -b.max.x ELSE b.min.x) + d.x
        /\ e.max.x = (IF o.mirror_x THEN -b.min.x ELSE b.max.x) + d.x
        /\ e.min.y = (IF o.mirror_y THEN -b.max.y ELSE b.min.y) + d.y
        /\ e.max.y = (IF o.mirror_y THEN -b.min.y ELSE b.max.y) + d.y
    BY <2>1 DEF PlacedBox, RotatedBox, MirroredBox, Shifted
  <2>4. e \in Box
    <3>1. e = [min |-> e.min, max |-> e.max] /\ e.min = [x |-> e.min.x, y |-> e.min.y]
          /\ e.max = [x |-> e.max.x, y |-> e.max.y]
      BY <2>1 DEF PlacedBox, RotatedBox, MirroredBox, Shifted
    <3> HIDE DEF e
    <3>2. e.min.x \in Int /\ e.max.x \in Int /\ e.min.y \in Int /\ e.max.y \in Int
      BY <2>2, <2>3
    <3>3. e.min \in Vec /\ e.max \in Vec
      BY <3>1, <3>2 DEF Vec
    <3> QED BY <3>1, <3>3 DEF Box
  <2>5. \A q \in S :
          /\ ToParent(o, d, q).x = (IF o.mirror_x THEN -q.x ELSE q.x) + d.x
          /\ ToParent(o, d, q).y = (IF o.mirror_y THEN -q.y ELSE q.y) + d.y
    BY DEF ToParent, Shifted, Rotated, Mirrored
  <2>6. /\ \A q \in S : b.min.x <= q.x /\ q.x <= b.max.x /\ b.min.y <= q.y /\ q.y <= b.max.y
        /\ \E q \in S : q.x = b.min.x
        /\ \E q \in S : q.x = b.max.x
        /\ \E q \in S : q.y = b.min.y
        /\ \E q \in S : q.y = b.max.y
    BY <1>2 DEF Bounds
  <2> HIDE DEF e
  <2>7. \A q \in S :
          /\ e.min.x <= ToParent(o, d, q).x /\ ToParent(o, d, q).x <= e.max.x
          /\ e.min.y <= ToParent(o, d, q).y /\ ToParent(o, d, q).y <= e.max.y
    BY <2>2, <2>3, <2>5, <2>6
  <2>8. /\ \E q \in S : ToParent(o, d, q).x = e.min.x
        /\ \E q \in S : ToParent(o, d, q).x = e.max.x
    BY <2>2, <2>3, <2>5, <2>6
  <2>9. /\ \E q \in S : ToParent(o, d, q).y = e.min.y
        /\ \E q \in S : ToParent(o, d, q).y = e.max.y
    BY <2>2, <2>3, <2>5, <2>6
  <2> QED BY <1>2, <2>4, <2>7, <2>8, <2>9 DEF Bounds, e
<1> QED BY <1>1, <1>2

-----------------------------------------------------------------------------
(* The initial state satisfies the invariant.                                  *)
LEMMA PlaceInitInv == PlaceInit => PlaceInv
<1> SUFFICES ASSUME PlaceInit PROVE PlaceInv
  OBVIOUS
<1>1. orient \in Orientation /\ ~orient.rotate_90
  BY DEF PlaceInit, Orientation
<1>2. off \in Vec
  BY DEF PlaceInit, Vec
<1>3. PlaceTypeOK
  BY <1>1, <1>2 DEF PlaceInit, PlaceTypeOK
<1> QED BY <1>3 DEF PlaceInit, PlaceInv, BoxBounds, ExtFollows, Bounds

(* Every operation keeps it.                                                   *)
LEMMA PlaceNextInv == PlaceInv /\ [PlaceNext]_placeVars => PlaceInv'
<1> SUFFICES ASSUME PlaceInv, [PlaceNext]_placeVars PROVE PlaceInv'
  OBVIOUS
<1> USE DEF PlaceInv
<1>0. Point \subseteq Vec
  BY CoordAssumption DEF Point, Vec
<1>1. ASSUME NEW p \in Point, AddPoint(p)
      PROVE  PlaceInv'
  <2>1. PlaceTypeOK'
    <3>1. box' \in Box
      BY <1>0, <1>1, GrownBox DEF AddPoint, PlaceTypeOK
    <3>2. drawn' \subseteq Vec
      BY <1>0, <1>1 DEF AddPoint, PlaceTypeOK
    <3> QED BY <1>1, <3>1, <3>2 DEF AddPoint, PlaceTypeOK
  <2>2. BoxBounds'
    <3>1. p \in Vec /\ drawn \in SUBSET Vec /\ Bounds(box, drawn)
      BY <1>0 DEF PlaceTypeOK, BoxBounds
    <3>2. Bounds(Grown(box, p), drawn \cup {p})
      BY <3>1, GrownBounds
    <3> QED BY <1>1, <3>2 DEF AddPoint, BoxBounds
  <2> QED BY <1>1, <2>1, <2>2 DEF AddPoint, ExtFollows
<1>2. ASSUME NEW o \in Orientation, SetOrientation(o)
      PROVE  PlaceInv'
  BY <1>2 DEF SetOrientation, PlaceTypeOK, BoxBounds, ExtFollows
<1>3. ASSUME NEW p \in Point, NEW org \in Point, SetPos(p, org)
      PROVE  PlaceInv'
  <2>1. off' \in Vec
    BY <1>0, <1>3, PlacesVec DEF SetPos, Minus, Vec
  <2> QED BY <1>3, <2>1 DEF SetPos, PlaceTypeOK, BoxBounds, ExtFollows
<1>4. CASE Update
  <2>1. PlacedBox(orient, off, box) \in Box \cup {NoBox}
    <3>1. CASE box = NoBox
      BY <3>1 DEF PlacedBox
    <3>2. CASE box \in Box
      BY <3>2, NoBoxAssumption
      DEF PlacedBox, RotatedBox, MirroredBox, Shifted, PlaceTypeOK, Orientation, Box, Vec
    <3> QED BY <3>1, <3>2 DEF PlaceTypeOK
  <2> QED BY <1>4, <2>1 DEF Update, PlaceTypeOK, BoxBounds, ExtFollows
<1>5. CASE UNCHANGED placeVars
  BY <1>5 DEF placeVars, PlaceTypeOK, BoxBounds, ExtFollows
<1> QED BY <1>1, <1>2, <1>3, <1>4, <1>5 DEF PlaceNext

(* The invariant holds in every state.                                         *)
LEMMA TransformInvariance == PlaceSpec => []PlaceInv
BY PlaceInitInv, PlaceNextInv, PTL DEF PlaceSpec

(* The variables are points, masks and boxes.                                  *)
THEOREM TransformTypeCorrect == PlaceSpec => []PlaceTypeOK
<1>1. PlaceInv => PlaceTypeOK
  BY DEF PlaceInv
<1> QED BY <1>1, TransformInvariance, PTL

(* The extents phx_extents_add collects are the smallest box around the points. *)
THEOREM SmallestBox == PlaceSpec => []BoxBounds
<1>1. PlaceInv => BoxBounds
  BY DEF PlaceInv
<1> QED BY <1>1, TransformInvariance, PTL

(* phx_inst_vec_from_parent undoes phx_inst_vec_to_parent in all orientations.  *)
THEOREM TranslationsInvert == PlaceSpec => []RoundTrip
<1>1. PlaceInv => RoundTrip
  BY ThereAndBack DEF PlaceInv, PlaceTypeOK, RoundTrip
<1> QED BY <1>1, TransformInvariance, PTL

(* Where no instance is rotated by 90 degrees, phx_inst_update_extents and     *)
(* phx_inst_vec_to_parent agree.                                               *)
THEOREM MirrorsAgree == PlaceSpec => []ExtBoundsMirrored
<1>1. PlaceInv => ExtBoundsMirrored
  BY PlacedBounds
  DEF PlaceInv, PlaceTypeOK, BoxBounds, ExtFollows, ExtBoundsPlaced, ExtBoundsMirrored
<1> QED BY <1>1, TransformInvariance, PTL

-----------------------------------------------------------------------------
(* A coordinate that is not negative is written as the nearest integer.        *)
LEMMA Rounding ==
  ASSUME NEW x \in Int, x >= 0
  PROVE  ToDbu(x) \in Int /\ 4 * ToDbu(x) - x <= 2 /\ x - 4 * ToDbu(x) <= 2
<1>1. ToDbu(x) = (x + 2) \div 4
  <2>1. Unit \div 2 = 2 /\ x + 2 >= 0
    BY DEF Unit
  <2> QED BY <2>1 DEF ToDbu, Truncated, Unit
<1> QED BY <1>1

(* Vectors likewise.                                                           *)
LEMMA RoundingXY ==
  ASSUME NEW v \in Vec, Positive(v)
  PROVE  /\ ToXY(v) \in Vec
         /\ 4 * ToXY(v).x - v.x <= 2 /\ v.x - 4 * ToXY(v).x <= 2
         /\ 4 * ToXY(v).y - v.y <= 2 /\ v.y - 4 * ToXY(v).y <= 2
<1>1. v.x \in Int /\ v.y \in Int /\ v.x >= 0 /\ v.y >= 0
  BY DEF Vec, Positive
<1>2. ToXY(v).x = ToDbu(v.x) /\ ToXY(v).y = ToDbu(v.y)
  BY DEF ToXY
<1>3. ToXY(v) \in Vec
  BY <1>1, Rounding DEF ToXY, Vec
<1> QED BY <1>1, <1>2, <1>3, Rounding

(* Where the library has a point under reflections, from where it is written.  *)
LEMMA LibraryMirrors ==
  ASSUME NEW o \in Orientation, ~o.rotate_90, NEW at \in Vec, NEW p \in Vec
  PROVE  GdsPlaced(Strans(o), at, p) = ToParent(o, at, p)
<1>1. PICK x, y, dx, dy \in Int : p = [x |-> x, y |-> y] /\ at = [x |-> dx, y |-> dy]
  BY DEF Vec
<1>2. ToParent(o, at, p) =
        [x |-> (IF o.mirror_x THEN -x ELSE x) + dx, y |-> (IF o.mirror_y THEN -y ELSE y) + dy]
  BY <1>1 DEF ToParent, Shifted, Rotated, Mirrored
<1>3. /\ o.mirror_x \in BOOLEAN /\ o.mirror_y \in BOOLEAN
      /\ Strans(o).reflection = (o.mirror_y # o.mirror_x)
      /\ Strans(o).angle = IF o.mirror_x THEN 180 ELSE 0
  BY DEF Strans, Xor, Orientation
<1>4. [p EXCEPT !.y = -@] = [x |-> x, y |-> -y]
  BY <1>1
<1>5. CASE o.mirror_x
  <2>1. Strans(o).angle = 180 /\ Strans(o).reflection = ~o.mirror_y
    BY <1>3, <1>5
  <2>2. GdsPlaced(Strans(o), at, p) =
          Shifted(GdsRotated(180, IF o.mirror_y THEN p ELSE [p EXCEPT !.y = -@]), at)
    BY <1>3, <2>1 DEF GdsPlaced
  <2>3. GdsRotated(180, p) = [x |-> -x, y |-> -y]
    BY <1>1 DEF GdsRotated
  <2>4. GdsRotated(180, [x |-> x, y |-> -y]) = [x |-> -x, y |-> y]
    BY <1>1 DEF GdsRotated
  <2> QED BY <1>1, <1>2, <1>3, <1>4, <1>5, <2>2, <2>3, <2>4 DEF Shifted
<1>6. CASE ~o.mirror_x
  <2>1. Strans(o).angle = 0 /\ Strans(o).reflection = o.mirror_y
    BY <1>3, <1>6
  <2>2. GdsPlaced(Strans(o), at, p) =
          Shifted(IF o.mirror_y THEN [x |-> x, y |-> -y] ELSE p, at)
    BY <1>3, <1>4, <2>1 DEF GdsPlaced, GdsRotated
  <2> QED BY <1>1, <1>2, <1>3, <1>6, <2>2 DEF Shifted
<1> QED BY <1>5, <1>6

(* What is written of points and positions that are not negative is placed     *)
(* within a database unit of where the design has it.                          *)
LEMMA LibraryNear ==
  ASSUME NEW o \in Orientation, ~o.rotate_90, NEW d \in Vec, NEW p \in Vec,
         Positive(d), Positive(p)
  PROVE  Near(GdsPlaced(Strans(o), ToXY(d), ToXY(p)), ToParent(o, d, p), Unit)
<1> DEFINE a == ToXY(d)
           q == ToXY(p)
<1>1. /\ a \in Vec /\ q \in Vec
      /\ 4 * a.x - d.x <= 2 /\ d.x - 4 * a.x <= 2 /\ 4 * a.y - d.y <= 2 /\ d.y - 4 * a.y <= 2
      /\ 4 * q.x - p.x <= 2 /\ p.x - 4 * q.x <= 2 /\ 4 * q.y - p.y <= 2 /\ p.y - 4 * q.y <= 2
  BY RoundingXY
<1> HIDE DEF a, q
<1>2. GdsPlaced(Strans(o), a, q) = ToParent(o, a, q)
  BY <1>1, LibraryMirrors
<1>3. \A e, r \in Vec :
        /\ ToParent(o, e, r).x = (IF o.mirror_x THEN -r.x ELSE r.x) + e.x
        /\ ToParent(o, e, r).y = (IF o.mirror_y THEN -r.y ELSE r.y) + e.y
  BY DEF ToParent, Shifted, Rotated, Mirrored
<1>4. /\ a.x \in Int /\ a.y \in Int /\ q.x \in Int /\ q.y \in Int
      /\ d.x \in Int /\ d.y \in Int /\ p.x \in Int /\ p.y \in Int
  BY <1>1 DEF Vec
<1> DEFINE s == ToParent(o, a, q)
           t == ToParent(o, d, p)
<1>5. 4 * s.x - t.x <= 4 /\ t.x - 4 * s.x <= 4
  BY <1>1, <1>3, <1>4
<1>6. 4 * s.y - t.y <= 4 /\ t.y - 4 * s.y <= 4
  BY <1>1, <1>3, <1>4
<1> QED BY <1>2, <1>5, <1>6 DEF Near, Within, Unit, a, q

(* The export writes the nearest coordinates there are.                        *)
THEOREM ExportRounds == PlaceSpec => []RoundedToNearest
<1>1. PlaceInv => RoundedToNearest
  <2> SUFFICES ASSUME PlaceInv, NEW v \in drawn \cup {off}, Positive(v)
               PROVE  Near(ToXY(v), v, Unit \div 2)
    BY DEF RoundedToNearest
  <2>1. v \in Vec
    BY DEF PlaceInv, PlaceTypeOK
  <2>2. Unit = 4 /\ Unit \div 2 = 2
    BY DEF Unit
  <2> QED BY <2>1, <2>2, RoundingXY DEF Near, Within
<1> QED BY <1>1, TransformInvariance, PTL

(* The export and the design place mirrored instances alike.                   *)
THEOREM ExportMirrors == PlaceSpec => []MirroredAsDesigned
<1>1. PlaceInv => MirroredAsDesigned
  BY LibraryNear DEF PlaceInv, PlaceTypeOK, MirroredAsDesigned, PlacedAsDesigned, InLibrary
<1> QED BY <1>1, TransformInvariance, PTL

-------------------------------------------------------------------------------
(* The nets of a cell.                                                           *)

(* What the two changes of connect do to the nets a terminal is on.            *)

(* Two connections or more, exposed or not, make a net.                        *)
LEMMA NetType ==
  ASSUME NEW c \in Seq(Terminal), Len(c) >= 2, NEW e \in BOOLEAN
  PROVE  [conns |-> c, exposed |-> e] \in Net
BY DEF Net

(* A new net is added at the end and lists its two terminals.                  *)
LEMMA NewNetOn ==
  ASSUME NEW n \in Seq(Net), NEW a \in Terminal, NEW b \in Terminal
  PROVE  LET m == WithNewNet(n, a, b) IN
         /\ m \in Seq(Net)
         /\ DOMAIN m = DOMAIN n \cup {Len(n) + 1} /\ Len(n) + 1 \notin DOMAIN n
         /\ \A k \in DOMAIN n : m[k] = n[k]
         /\ m[Len(n) + 1].conns = <<a, b>>
         /\ m[Len(n) + 1].exposed = (Outer(a) \/ Outer(b))
         /\ \A t : On(m, t) = On(n, t) \cup (IF t \in {a, b} THEN {Len(n) + 1} ELSE {})
<1> DEFINE net == [conns |-> <<a, b>>, exposed |-> Outer(a) \/ Outer(b)]
           m == WithNewNet(n, a, b)
<1>1. net \in Net
  <2>1. <<a, b>> \in Seq(Terminal) /\ Len(<<a, b>>) = 2
    OBVIOUS
  <2>2. (Outer(a) \/ Outer(b)) \in BOOLEAN
    BY DEF Outer
  <2>3. \A c \in Seq(Terminal), e \in BOOLEAN : Len(c) >= 2 => [conns |-> c, exposed |-> e] \in Net
    BY NetType
  <2> DEFINE c == <<a, b>>
             e == Outer(a) \/ Outer(b)
  <2> HIDE DEF c, e
  <2>4. c \in Seq(Terminal) /\ Len(c) >= 2 /\ e \in BOOLEAN
    BY <2>1, <2>2 DEF c, e
  <2>5. [conns |-> c, exposed |-> e] \in Net
    BY <2>3, <2>4
  <2> QED BY <2>5 DEF c, e
<1>2. m \in Seq(Net) /\ Len(m) = Len(n) + 1 /\ Len(n) \in Nat
      /\ (\A k \in 1 .. Len(n) : m[k] = n[k]) /\ m[Len(n) + 1] = net
  <2> HIDE DEF net
  <2>1. m = Append(n, net)
    BY DEF WithNewNet, net
  <2> QED BY <1>1, <2>1
<1>3. DOMAIN m = DOMAIN n \cup {Len(n) + 1} /\ Len(n) + 1 \notin DOMAIN n
      /\ DOMAIN n = 1 .. Len(n)
  BY <1>2
<1>4. \A t : Lists(net, t) <=> t \in {a, b}
  <2>1. net.conns = <<a, b>> /\ DOMAIN <<a, b>> = {1, 2}
    OBVIOUS
  <2> HIDE DEF net
  <2> QED BY <2>1 DEF Lists
<1>5. \A t : On(m, t) = On(n, t) \cup (IF t \in {a, b} THEN {Len(n) + 1} ELSE {})
  <2> HIDE DEF m, net
  <2> QED BY <1>2, <1>3, <1>4 DEF On
<1> HIDE DEF m
<1>6. m[Len(n) + 1].conns = <<a, b>> /\ m[Len(n) + 1].exposed = (Outer(a) \/ Outer(b))
  BY <1>2 DEF net
<1>7. QED BY <1>2, <1>3, <1>5, <1>6 DEF m

(* A net that is extended keeps its place and lists one terminal more.         *)
LEMMA ExtendedOn ==
  ASSUME NEW n \in Seq(Net), NEW k \in DOMAIN n, NEW t \in Terminal
  PROVE  LET m == Extended(n, k, t) IN
         /\ m \in Seq(Net)
         /\ DOMAIN m = DOMAIN n
         /\ \A j \in DOMAIN n : j # k => m[j] = n[j]
         /\ m[k].conns = Append(n[k].conns, t)
         /\ m[k].exposed = (n[k].exposed \/ Outer(t))
         /\ \A u : On(m, u) = On(n, u) \cup (IF u = t THEN {k} ELSE {})
<1> DEFINE net == [conns |-> Append(n[k].conns, t), exposed |-> n[k].exposed \/ Outer(t)]
           m == Extended(n, k, t)
<1>1. n[k] \in Net /\ n[k].conns \in Seq(Terminal) /\ Len(n[k].conns) >= 2
  BY DEF Net
<1>2. net \in Net
  <2>1. Append(n[k].conns, t) \in Seq(Terminal)
        /\ Len(Append(n[k].conns, t)) = Len(n[k].conns) + 1 /\ Len(n[k].conns) \in Nat
    BY <1>1
  <2>2. (n[k].exposed \/ Outer(t)) \in BOOLEAN
    BY DEF Outer
  <2>3. Len(Append(n[k].conns, t)) >= 2
    BY <1>1, <2>1
  <2> QED BY <2>1, <2>2, <2>3, NetType
<1>3. m = [n EXCEPT ![k] = net]
  BY DEF Extended
<1>4. net.conns = Append(n[k].conns, t) /\ net.exposed = (n[k].exposed \/ Outer(t))
  OBVIOUS
<1> HIDE DEF net, m
<1>5. m \in Seq(Net) /\ DOMAIN m = DOMAIN n /\ m[k] = net
      /\ \A j \in DOMAIN n : j # k => m[j] = n[j]
  BY <1>2, <1>3
<1>6. \A u : Lists(net, u) <=> (Lists(n[k], u) \/ u = t)
  <2>1. DOMAIN net.conns = DOMAIN n[k].conns \cup {Len(n[k].conns) + 1}
        /\ net.conns[Len(n[k].conns) + 1] = t
        /\ \A i \in DOMAIN n[k].conns : net.conns[i] = n[k].conns[i]
    BY <1>1, <1>4
  <2> QED BY <2>1 DEF Lists
<1>7. \A u : On(m, u) = On(n, u) \cup (IF u = t THEN {k} ELSE {})
  BY <1>5, <1>6 DEF On
<1> QED BY <1>4, <1>5, <1>7 DEF m

-----------------------------------------------------------------------------
(* The initial state satisfies the invariant.                                  *)
LEMMA NetInitInv == NetInit => NetInv
<1> SUFFICES ASSUME NetInit PROVE NetInv
  OBVIOUS
<1>1. DOMAIN nets = {} /\ nets \in Seq(Net)
  BY DEF NetInit
<1>2. \A t : On(nets, t) = {}
  BY <1>1 DEF On
<1>3. NetTypeOK
  BY <1>1 DEF NetTypeOK, NetInit
<1> QED
  BY <1>1, <1>2, <1>3 DEF NetInit, NetInv, TerminalOnOneNet, ExposedIffOuter, WiresAreOnNets,
                          NetsAreJoined, ListedOnce, SameNet

(* A longer history joins what a shorter one joins, and its new ends.          *)
LEMMA JoinedGrows ==
  ASSUME NetTypeOK, NEW a \in Terminal, NEW b \in Terminal, Wire(a, b)
  PROVE  /\ wires' \in SUBSET (Terminal \X Terminal)
         /\ \A t \in Terminal : Joined(t) \subseteq Joined(t)'
         /\ \A t, u \in Terminal : u \in Joined(t)' => Joined(u)' \subseteq Joined(t)'
         /\ \A t \in Terminal : t \in Joined(t)'
         /\ b \in Joined(a)' /\ a \in Joined(b)'
<1>1. wires' = wires \cup {<<a, b>>, <<b, a>>}
  BY DEF Wire
<1>2. wires' \in SUBSET (Terminal \X Terminal) /\ wires \in SUBSET wires'
  BY <1>1 DEF NetTypeOK
<1>3. \A t : Joined(t)' = Reach(Terminal, {t}, wires')
  BY DEF Joined
<1>4. \A t \in Terminal : Joined(t) \subseteq Joined(t)'
  <2> TAKE t \in Terminal
  <2>1. Reach(Terminal, {t}, wires) \subseteq Reach(Terminal, {t}, wires')
    BY <1>2, ReachMonotone
  <2> QED BY <2>1, <1>3 DEF Joined
<1>5. \A t \in Terminal : t \in Joined(t)'
  BY <1>3, ReachContains
<1>6. \A t, u \in Terminal : u \in Joined(t)' => Joined(u)' \subseteq Joined(t)'
  BY <1>2, <1>3, ReachTransitive
<1>7. \A t \in Terminal : ClosedUnder(Joined(t)', wires')
  BY <1>2, <1>3, ReachClosed
<1>8. b \in Joined(a)' /\ a \in Joined(b)'
  <2>1. \A e \in wires' : \A t \in Terminal : e[1] \in Joined(t)' => e[2] \in Joined(t)'
    BY <1>7 DEF ClosedUnder
  <2>2. <<a, b>> \in wires' /\ <<b, a>> \in wires'
    BY <1>1
  <2>3. <<a, b>>[1] = a /\ <<a, b>>[2] = b /\ <<b, a>>[1] = b /\ <<b, a>>[2] = a
    OBVIOUS
  <2> QED BY <1>5, <2>1, <2>2, <2>3
<1> QED BY <1>2, <1>4, <1>5, <1>6, <1>8

(* A call that finds both terminals on one net keeps the invariant.            *)
LEMMA SameStep ==
  ASSUME NetInv, NEW a \in Terminal, NEW b \in Terminal, Same(a, b)
  PROVE  NetInv'
<1>1. /\ nets' = nets /\ halted' = halted /\ SameNet(nets, a, b)
      /\ wires' = wires \cup {<<a, b>>, <<b, a>>} /\ Wire(a, b)
  BY DEF Same, Wire
<1>2. SameNet(nets, b, a)
  BY <1>1 DEF SameNet
<1>3. WiresAreOnNets'
  BY <1>1, <1>2 DEF NetInv, WiresAreOnNets
<1>4. NetTypeOK' /\ NetsAreJoined'
  BY <1>1, JoinedGrows DEF NetInv, NetTypeOK, NetsAreJoined
<1>5. TerminalOnOneNet' /\ ExposedIffOuter' /\ ListedOnce'
  BY <1>1 DEF NetInv, TerminalOnOneNet, ExposedIffOuter, ListedOnce
<1> QED BY <1>3, <1>4, <1>5 DEF NetInv

(* Creating a net keeps the invariant.                                         *)
LEMMA CreateStep ==
  ASSUME NetInv, NEW a \in Terminal, NEW b \in Terminal, Create(a, b)
  PROVE  NetInv'
<1> DEFINE last == Len(nets) + 1
<1>0. nets \in Seq(Net) /\ NetTypeOK
  BY DEF NetInv, NetTypeOK
<1>1. /\ On(nets, a) = {} /\ On(nets, b) = {}
      /\ wires' = wires \cup {<<a, b>>, <<b, a>>} /\ Wire(a, b) /\ halted' = halted
  BY DEF Create, Wire
<1>2. /\ nets' \in Seq(Net)
      /\ DOMAIN nets' = DOMAIN nets \cup {last} /\ last \notin DOMAIN nets
      /\ \A k \in DOMAIN nets : nets'[k] = nets[k]
      /\ nets'[last].conns = <<a, b>>
      /\ nets'[last].exposed = (Outer(a) \/ Outer(b))
      /\ \A t : On(nets', t) = On(nets, t) \cup (IF t \in {a, b} THEN {last} ELSE {})
  <2>1. nets' = WithNewNet(nets, a, b)
    BY DEF Create
  <2> DEFINE m == WithNewNet(nets, a, b)
  <2>2. /\ m \in Seq(Net)
        /\ DOMAIN m = DOMAIN nets \cup {last} /\ last \notin DOMAIN nets
        /\ \A k \in DOMAIN nets : m[k] = nets[k]
        /\ m[last].conns = <<a, b>>
        /\ m[last].exposed = (Outer(a) \/ Outer(b))
        /\ \A t : On(m, t) = On(nets, t) \cup (IF t \in {a, b} THEN {last} ELSE {})
    BY <1>0, NewNetOn
  <2>3. nets' = m
    BY <2>1
  <2> HIDE DEF m
  <2> QED BY ONLY <2>2, <2>3
<1> HIDE DEF last
<1>3. \A t : On(nets, t) \subseteq DOMAIN nets
  BY DEF On
<1>4. NetTypeOK'
  BY <1>0, <1>1, <1>2, JoinedGrows DEF NetTypeOK
<1>5. TerminalOnOneNet'
  BY <1>1, <1>2 DEF NetInv, TerminalOnOneNet
<1>6. ExposedIffOuter'
  <2>1. \A k \in DOMAIN nets : ExposedIffOuter =>
          (nets'[k].exposed <=> \E t \in Terminal : Outer(t) /\ Lists(nets'[k], t))
    BY <1>2 DEF ExposedIffOuter
  <2>2. \A t : Lists(nets'[last], t) <=> t \in {a, b}
    <3>1. \A t : last \in On(nets', t) <=> t \in {a, b}
      BY <1>2, <1>3
    <3>2. \A t : last \in On(nets', t) <=> Lists(nets'[last], t)
      BY <1>2 DEF On
    <3> QED BY <3>1, <3>2
  <2> QED BY <1>2, <2>1, <2>2 DEF NetInv, ExposedIffOuter
<1>7. WiresAreOnNets'
  <2>1. SameNet(nets', a, b) /\ SameNet(nets', b, a)
    BY <1>2 DEF SameNet
  <2>2. \A t, u : SameNet(nets, t, u) => SameNet(nets', t, u)
    BY <1>2 DEF SameNet
  <2> QED BY <1>1, <2>1, <2>2 DEF NetInv, WiresAreOnNets
<1>8. NetsAreJoined'
  <2> SUFFICES ASSUME NEW t \in Terminal, NEW u \in Terminal, SameNet(nets', t, u)
               PROVE  u \in Joined(t)'
    BY DEF NetsAreJoined
  <2>1. SameNet(nets, t, u) \/ (t \in {a, b} /\ u \in {a, b})
    BY <1>2, <1>3 DEF SameNet
  <2>2. CASE SameNet(nets, t, u)
    BY <2>2, <1>0, <1>1, JoinedGrows DEF NetInv, NetsAreJoined
  <2>3. CASE t \in {a, b} /\ u \in {a, b}
    BY <2>3, <1>0, <1>1, JoinedGrows
  <2> QED BY <2>1, <2>2, <2>3
<1>9. ListedOnce'
  <2> SUFFICES ASSUME NEW k \in DOMAIN nets', NEW i \in DOMAIN nets'[k].conns,
                      NEW j \in DOMAIN nets'[k].conns,
                      i # j, nets'[k].conns[i] = nets'[k].conns[j]
               PROVE  <<nets'[k].conns[i], nets'[k].conns[i]>> \in wires'
    BY DEF ListedOnce
  <2>1. CASE k \in DOMAIN nets
    BY <2>1, <1>1, <1>2 DEF NetInv, ListedOnce
  <2>2. CASE k = last
    <3>1. nets'[k].conns = <<a, b>>
      BY <1>2, <2>2
    <3> QED BY <3>1, <1>1
  <2> QED BY <1>2, <2>1, <2>2
<1> QED BY <1>4, <1>5, <1>6, <1>7, <1>8, <1>9 DEF NetInv

(* Adding a terminal to a net keeps the invariant.                             *)
LEMMA ExtendStep ==
  ASSUME NetInv, NEW a \in Terminal, NEW b \in Terminal,
         NEW k \in DOMAIN nets, NEW t \in Terminal, Extend(a, b, k, t)
  PROVE  NetInv'
<1>0. nets \in Seq(Net) /\ NetTypeOK
  BY DEF NetInv, NetTypeOK
<1>1. /\ On(nets, t) = {} /\ t \in {a, b}
      /\ wires' = wires \cup {<<a, b>>, <<b, a>>} /\ Wire(a, b) /\ halted' = halted
  BY DEF Extend, Wire
<1>2. /\ nets' \in Seq(Net)
      /\ DOMAIN nets' = DOMAIN nets
      /\ \A j \in DOMAIN nets : j # k => nets'[j] = nets[j]
      /\ nets'[k].conns = Append(nets[k].conns, t)
      /\ nets'[k].exposed = (nets[k].exposed \/ Outer(t))
      /\ \A u : On(nets', u) = On(nets, u) \cup (IF u = t THEN {k} ELSE {})
  <2> DEFINE m == Extended(nets, k, t)
  <2>1. nets' = m
    BY DEF Extend
  <2>2. /\ m \in Seq(Net)
        /\ DOMAIN m = DOMAIN nets
        /\ \A j \in DOMAIN nets : j # k => m[j] = nets[j]
        /\ m[k].conns = Append(nets[k].conns, t)
        /\ m[k].exposed = (nets[k].exposed \/ Outer(t))
        /\ \A u : On(m, u) = On(nets, u) \cup (IF u = t THEN {k} ELSE {})
    BY <1>0, ExtendedOn
  <2> HIDE DEF m
  <2> QED BY ONLY <2>1, <2>2
\* The other of the two terminals is on net k.
<1>3. PICK o \in {a, b} : k \in On(nets, o) /\ {o, t} = {a, b}
  BY <1>1 DEF Extend
<1>4. NetTypeOK'
  BY <1>0, <1>1, <1>2, JoinedGrows DEF NetTypeOK
<1>5. TerminalOnOneNet'
  BY <1>1, <1>2 DEF NetInv, TerminalOnOneNet
<1>6. ExposedIffOuter'
  <2>1. \A j \in DOMAIN nets, u \in Terminal : Lists(nets[j], u) <=> j \in On(nets, u)
    BY DEF On
  <2>2. \A j \in DOMAIN nets, u \in Terminal : Lists(nets'[j], u) <=> j \in On(nets', u)
    BY <1>2 DEF On
  <2>3. ASSUME NEW j \in DOMAIN nets, j # k
        PROVE  nets'[j].exposed <=> \E u \in Terminal : Outer(u) /\ Lists(nets'[j], u)
    BY <2>3, <1>2 DEF NetInv, ExposedIffOuter
  <2>4. nets'[k].exposed <=> \E u \in Terminal : Outer(u) /\ Lists(nets'[k], u)
    <3>1. nets[k].exposed <=> \E u \in Terminal : Outer(u) /\ Lists(nets[k], u)
      BY DEF NetInv, ExposedIffOuter
    <3>2. \A u \in Terminal : Lists(nets'[k], u) <=> (Lists(nets[k], u) \/ u = t)
      BY <1>2, <2>1, <2>2
    <3>3. nets'[k].exposed <=> (nets[k].exposed \/ Outer(t))
      BY <1>2
    <3> QED BY <3>1, <3>2, <3>3
  <2> QED BY <1>2, <2>3, <2>4 DEF ExposedIffOuter
<1>7. WiresAreOnNets'
  <2>1. SameNet(nets', a, b) /\ SameNet(nets', b, a)
    BY <1>2, <1>3 DEF SameNet
  <2>2. \A u, v : SameNet(nets, u, v) => SameNet(nets', u, v)
    BY <1>2 DEF SameNet
  <2> QED BY <1>1, <2>1, <2>2 DEF NetInv, WiresAreOnNets
<1>8. NetsAreJoined'
  <2> SUFFICES ASSUME NEW x \in Terminal, NEW y \in Terminal, SameNet(nets', x, y)
               PROVE  y \in Joined(x)'
    BY DEF NetsAreJoined
  <2>1. /\ \A u, v \in Terminal : SameNet(nets, u, v) => v \in Joined(u)'
        /\ \A u, v \in Terminal : v \in Joined(u)' => Joined(v)' \subseteq Joined(u)'
        /\ o \in Joined(t)' /\ t \in Joined(o)' /\ t \in Joined(t)'
    BY <1>0, <1>1, <1>3, JoinedGrows DEF NetInv, NetsAreJoined
  <2>2. \A u \in Terminal \ {t} : SameNet(nets', u, t) => SameNet(nets, u, o)
    BY <1>1, <1>2, <1>3 DEF SameNet
  <2>3. \A u \in Terminal \ {t} : SameNet(nets', t, u) => SameNet(nets, o, u)
    BY <1>1, <1>2, <1>3 DEF SameNet
  <2>4. \A u, v \in Terminal \ {t} : SameNet(nets', u, v) => SameNet(nets, u, v)
    BY <1>2 DEF SameNet
  <2>5. o \in Terminal
    BY <1>3
  <2> QED BY <2>1, <2>2, <2>3, <2>4, <2>5
<1>9. ListedOnce'
  <2> SUFFICES ASSUME NEW n \in DOMAIN nets', NEW i \in DOMAIN nets'[n].conns,
                      NEW j \in DOMAIN nets'[n].conns,
                      i # j, nets'[n].conns[i] = nets'[n].conns[j]
               PROVE  <<nets'[n].conns[i], nets'[n].conns[i]>> \in wires'
    BY DEF ListedOnce
  <2>1. CASE n # k
    BY <2>1, <1>1, <1>2 DEF NetInv, ListedOnce
  <2>2. CASE n = k
    <3> DEFINE old == nets[k].conns
    <3>1. old \in Seq(Terminal) /\ nets'[n].conns = Append(old, t)
      BY <1>0, <1>2, <2>2 DEF Net
    <3>2. \A l \in DOMAIN old : old[l] # t
      BY <1>1 DEF On, Lists
    <3>3. \A l, m \in DOMAIN old : l # m /\ old[l] = old[m] => <<old[l], old[l]>> \in wires
      BY DEF NetInv, ListedOnce
    <3> HIDE DEF old
    <3>4. /\ DOMAIN Append(old, t) = DOMAIN old \cup {Len(old) + 1}
          /\ \A l \in DOMAIN old : Append(old, t)[l] = old[l]
          /\ Append(old, t)[Len(old) + 1] = t
      BY <3>1
    <3> QED BY <1>1, <3>1, <3>2, <3>3, <3>4
  <2> QED BY <2>1, <2>2
<1> QED BY <1>4, <1>5, <1>6, <1>7, <1>8, <1>9 DEF NetInv

(* Every call keeps the invariant; one that needs a join changes nothing.      *)
LEMMA NetNextInv == NetInv /\ [NetNext]_netVars => NetInv'
<1> SUFFICES ASSUME NetInv, [NetNext]_netVars PROVE NetInv'
  OBVIOUS
<1>1. CASE UNCHANGED <<nets, wires>> /\ halted' \in BOOLEAN
  BY <1>1 DEF NetInv, NetTypeOK, TerminalOnOneNet, ExposedIffOuter, ListedOnce, WiresAreOnNets,
              NetsAreJoined, Joined
<1>2. CASE UNCHANGED netVars
  BY <1>1, <1>2 DEF netVars, NetInv, NetTypeOK
<1>3. ASSUME NEW a \in Terminal, NEW b \in Terminal, Same(a, b)
      PROVE  NetInv'
  BY <1>3, SameStep
<1>4. ASSUME NEW a \in Terminal, NEW b \in Terminal, Create(a, b)
      PROVE  NetInv'
  BY <1>4, CreateStep
<1>5. ASSUME NEW a \in Terminal, NEW b \in Terminal,
             NEW k \in DOMAIN nets, NEW t \in Terminal, Extend(a, b, k, t)
      PROVE  NetInv'
  BY <1>5, ExtendStep
<1>6. ASSUME NEW a \in Terminal, NEW b \in Terminal, Join(a, b)
      PROVE  NetInv'
  BY <1>1, <1>6 DEF Join
<1> QED BY <1>2, <1>3, <1>4, <1>5, <1>6 DEF NetNext

(* The nets agree with the history in every state.                             *)
LEMMA NetlistInvariance == NetSpec => []NetInv
BY NetInitInv, NetNextInv, PTL DEF NetSpec

(* Nets hold terminals of the cell, two or more.                               *)
THEOREM NetlistTypeCorrect == NetSpec => []NetTypeOK
<1>1. NetInv => NetTypeOK
  BY DEF NetInv
<1> QED BY <1>1, NetlistInvariance, PTL

(* The assertions at misc.c:53 and misc.c:57 cannot fail: no sequence of calls  *)
(* puts a terminal on two nets.                                                *)
THEOREM OneNet == NetSpec => []TerminalOnOneNet
<1>1. NetInv => TerminalOnOneNet
  BY DEF NetInv
<1> QED BY <1>1, NetlistInvariance, PTL

(* The exposure of a net does not depend on the order of the calls.            *)
THEOREM Exposure == NetSpec => []ExposedIffOuter
<1>1. NetInv => ExposedIffOuter
  BY DEF NetInv
<1> QED BY <1>1, NetlistInvariance, PTL

(* The nets are the connected components of the connections made.              *)
THEOREM Components == NetSpec => []NetsAreComponents
<1>1. ASSUME NetInv, NEW t \in Terminal, NEW u \in Terminal, t # u, u \in Joined(t)
      PROVE  SameNet(nets, t, u)
  <2> DEFINE S == {x \in Terminal : x = t \/ SameNet(nets, t, x)}
  <2>1. ClosedUnder(S, wires)
    <3> SUFFICES ASSUME NEW e \in wires, e[1] \in S PROVE e[2] \in S
      BY DEF ClosedUnder
    <3>1. e[2] \in Terminal /\ e[1] \in Terminal
      BY <1>1 DEF NetInv, NetTypeOK
    <3>2. SameNet(nets, e[1], e[2])
      BY <1>1 DEF NetInv, WiresAreOnNets
    <3>3. CASE SameNet(nets, t, e[1])
      BY <1>1, <3>1, <3>2, <3>3 DEF SameNet, NetInv, TerminalOnOneNet
    <3> QED BY <3>1, <3>2, <3>3
  <2>2. {t} \subseteq S /\ S \in SUBSET Terminal
    OBVIOUS
  <2> HIDE DEF S
  <2>3. Joined(t) \subseteq S
    BY <2>1, <2>2, ReachLeast DEF Joined
  <2> QED BY <1>1, <2>3 DEF S
<1>2. NetInv => NetsAreComponents
  BY <1>1 DEF NetInv, NetsAreJoined, NetsAreComponents
<1> QED BY <1>2, NetlistInvariance, PTL

(* A terminal is listed twice only where it was connected to itself.           *)
THEOREM NoDoubleListing == NetSpec => []ListedOnce
<1>1. NetInv => ListedOnce
  BY DEF NetInv
<1> QED BY <1>1, NetlistInvariance, PTL

-------------------------------------------------------------------------------
(* The export of a design.                                                       *)

(* The steps of the export are made of a call that advances and a structure    *)
(* that is entered.                                                            *)

(* What is loaded is a sequence of names.                                      *)
LEMMA RefsAreSequences == Refs \subseteq Seq(Name)
BY MaxRefsAssumption DEF Refs

(* The innermost call walks the references of a structure of the command.      *)
LEMMA TopFacts ==
  ASSUME TypeOK, stack # <<>>
  PROVE  /\ Len(stack) \in DOMAIN stack /\ Top \in Call
         /\ Top.of \in first + 1 .. Len(structs)
         /\ Current \in Struct
<1>1. stack \in Seq(Call) /\ Len(stack) \in Nat /\ DOMAIN stack = 1 .. Len(stack)
  BY DEF TypeOK
<1>2. Len(stack) # 0
  BY <1>1, EmptySeq
<1>3. Len(stack) \in DOMAIN stack
  BY <1>1, <1>2
<1>4. Top \in Call /\ Top.of \in first + 1 .. Len(structs)
  BY <1>1, <1>3 DEF TypeOK, Top
<1>5. structs \in Seq(Struct) /\ first \in Nat /\ Len(structs) \in Nat
  BY DEF TypeOK
<1>6. Top.of \in 1 .. Len(structs)
  BY <1>4, <1>5
<1>7. Current \in Struct
  BY <1>5, <1>6 DEF Current
<1> QED BY <1>3, <1>4, <1>7

(* An innermost call at a reference is at a name.                              *)
LEMMA RefFacts ==
  ASSUME TypeOK, AtRef
  PROVE  Ref \in Name /\ Top.next \in DOMAIN Current.refs
<1>1. stack # <<>> /\ Top.next <= Len(Current.refs)
  BY DEF AtRef
<1>2. Top \in Call /\ Current \in Struct
  BY <1>1, TopFacts
<1>3. Top.next \in Nat \ {0} /\ Current.refs \in Seq(Name)
  BY <1>2 DEF Call, Struct
<1> QED BY <1>1, <1>3 DEF Ref

(* Advancing moves the innermost call alone, by one reference.                 *)
LEMMA AdvancedFacts ==
  ASSUME TypeOK, AtRef
  PROVE  /\ Advanced \in Seq(Call) /\ Len(Advanced) = Len(stack)
         /\ DOMAIN Advanced = DOMAIN stack
         /\ \A k \in DOMAIN stack : k # Len(stack) => Advanced[k] = stack[k]
         /\ Advanced[Len(stack)] = [of |-> Top.of, next |-> Top.next + 1]
         /\ \A k \in DOMAIN Advanced :
              /\ Advanced[k].of \in first + 1 .. Len(structs)
              /\ Advanced[k].next <= Len(structs[Advanced[k].of].refs) + 1
<1> DEFINE e == [of |-> Top.of, next |-> Top.next + 1]
<1>1. stack # <<>> /\ Top.next <= Len(Current.refs)
  BY DEF AtRef
<1>2. /\ Len(stack) \in DOMAIN stack /\ Top \in Call /\ Current \in Struct
      /\ Top.of \in first + 1 .. Len(structs)
  BY <1>1, TopFacts
<1>3. stack \in Seq(Call) /\ DOMAIN stack = 1 .. Len(stack)
  BY DEF TypeOK
<1>4. e \in Call
  BY <1>2 DEF Call
<1>5. Advanced = [stack EXCEPT ![Len(stack)] = e]
  <2>1. [Top EXCEPT !.next = @ + 1] = e
    BY <1>2 DEF Call
  <2> QED BY <2>1 DEF Advanced, Top
<1> HIDE DEF e
<1>6. /\ Advanced \in Seq(Call) /\ Len(Advanced) = Len(stack)
      /\ \A k \in 1 .. Len(stack) : Advanced[k] = IF k = Len(stack) THEN e ELSE stack[k]
  BY <1>2, <1>3, <1>4, <1>5, ExceptSeq
<1>7. DOMAIN Advanced = DOMAIN stack
  BY <1>3, <1>6, LenProperties
<1>8. e.of = Top.of /\ e.next = Top.next + 1
  BY DEF e
<1>9. e.next <= Len(structs[e.of].refs) + 1
  <2>1. Top.next \in Nat /\ Len(Current.refs) \in Nat
    BY <1>2 DEF Call, Struct
  <2> QED BY <1>1, <1>8, <2>1 DEF Current
<1>10. \A k \in DOMAIN Advanced :
         /\ Advanced[k].of \in first + 1 .. Len(structs)
         /\ Advanced[k].next <= Len(structs[Advanced[k].of].refs) + 1
  <2> SUFFICES ASSUME NEW k \in DOMAIN Advanced
               PROVE  /\ Advanced[k].of \in first + 1 .. Len(structs)
                      /\ Advanced[k].next <= Len(structs[Advanced[k].of].refs) + 1
    OBVIOUS
  <2>1. CASE k = Len(stack)
    BY <1>2, <1>3, <1>6, <1>7, <1>8, <1>9, <2>1
  <2>2. CASE k # Len(stack)
    <3>1. Advanced[k] = stack[k] /\ k \in DOMAIN stack
      BY <1>3, <1>6, <1>7, <2>2
    <3> QED BY <3>1 DEF TypeOK
  <2> QED BY <2>1, <2>2
<1> QED BY <1>2, <1>3, <1>6, <1>7, <1>10 DEF e

(* A structure is added at the end, and its call on top of those below.        *)
LEMMA EnterFacts ==
  ASSUME TypeOK, NEW c \in Name, NEW copy \in BOOLEAN, copy => HasGds(c),
         NEW below \in Seq(Call), Enter(c, copy, below)
  PROVE  /\ structs' \in Seq(Struct) /\ Len(structs') = Len(structs) + 1
         /\ \A k \in 1 .. Len(structs) : structs'[k] = structs[k]
         /\ structs'[Len(structs) + 1].name = c
         /\ structs'[Len(structs) + 1].loaded = copy
         /\ below = <<>> => structs'[Len(structs) + 1].named
         /\ Exported' = Exported \cup {c}
         /\ stack' \in Seq(Call) /\ Len(stack') = Len(below) + 1
         /\ \A k \in 1 .. Len(below) : stack'[k] = below[k]
         /\ stack'[Len(stack')] = [of |-> Len(structs) + 1, next |-> 1]
<1> DEFINE refs == IF copy THEN gds[c] ELSE insts[c]
           e == (below = <<>>)
           s == [name |-> c, loaded |-> copy, refs |-> refs, named |-> e]
           f == [of |-> Len(structs) + 1, next |-> 1]
<1>1. structs \in Seq(Struct) /\ Len(structs) \in Nat
  BY DEF TypeOK
<1>2. refs \in Seq(Name)
  BY DEF TypeOK, HasGds
<1>3. e \in BOOLEAN
  OBVIOUS
<1>4. structs' = Append(structs, s) /\ stack' = Append(below, f)
  BY DEF Enter
<1> HIDE DEF refs, e
<1>5. s \in Struct /\ s.name = c /\ s.loaded = copy /\ s.named = e
  BY <1>2, <1>3 DEF Struct
<1>6. f \in Call
  BY <1>1 DEF Call
<1> HIDE DEF s, f
<1>7. /\ structs' \in Seq(Struct) /\ Len(structs') = Len(structs) + 1
      /\ \A k \in 1 .. Len(structs) : structs'[k] = structs[k]
      /\ structs'[Len(structs) + 1] = s
  BY <1>1, <1>4, <1>5
<1>8. /\ stack' \in Seq(Call) /\ Len(stack') = Len(below) + 1
      /\ \A k \in 1 .. Len(below) : stack'[k] = below[k]
      /\ stack'[Len(below) + 1] = f
  BY <1>4, <1>6
<1>9. below = <<>> => s.named
  BY <1>5 DEF e
<1>10. Exported' = Exported \cup {c}
  <2>1. Exported' = {structs'[k].name : k \in DOMAIN structs'}
    BY DEF Exported
  <2>2. DOMAIN structs' = (DOMAIN structs) \cup {Len(structs) + 1} /\ DOMAIN structs = 1 .. Len(structs)
    BY <1>1, <1>7
  <2> QED BY <1>5, <1>7, <2>1, <2>2 DEF Exported
<1> QED BY <1>5, <1>7, <1>8, <1>9, <1>10 DEF f

-----------------------------------------------------------------------------
(* The invariant.                                                              *)

(* No structures, no calls.                                                    *)
LEMMA InitIInv == Init => IInv
<1> SUFFICES ASSUME Init PROVE IInv
  OBVIOUS
<1>1. DOMAIN structs = {} /\ DOMAIN stack = {} /\ Len(structs) = 0
      /\ structs \in Seq(Struct) /\ stack \in Seq(Call)
  BY DEF Init
<1>2. <<>> \in Seq(Name)
  OBVIOUS
<1>3. insts \in [Name -> Seq(Name)] /\ gds \in [Name -> Seq(Name) \cup {None}]
  BY <1>2 DEF Init
<1>4. first \in 0 .. Len(structs) /\ cells \subseteq Name
  BY <1>1 DEF Init
<1> QED BY <1>1, <1>3, <1>4 DEF Init, IInv, TypeOK, NothingLost, ComposedOnce

(* Between commands the design changes as it likes.                            *)
LEMMA DesignStep ==
  ASSUME IInv, stack = <<>>, UNCHANGED <<structs, first, stack>>,
         cells' \subseteq Name, insts' \in [Name -> Seq(Name)],
         gds' \in [Name -> Seq(Name) \cup {None}]
  PROVE  IInv'
<1>1. TypeOK'
  BY DEF IInv, TypeOK
<1>2. NothingLost'
  BY DEF NothingLost
<1>3. ComposedOnce'
  BY DEF IInv, ComposedOnce
<1> QED BY <1>1, <1>2, <1>3 DEF IInv

(* A command starts with a structure whose call has everything before it.      *)
LEMMA CommandStep ==
  ASSUME IInv, NEW c \in Name, NEW copy \in BOOLEAN, copy => HasGds(c), Command(c, copy)
  PROVE  IInv'
<1>1. TypeOK /\ ComposedOnce
  BY DEF IInv
<1>2. <<>> \in Seq(Call) /\ Len(<<>>) = 0
  OBVIOUS
<1>3. Enter(c, copy, <<>>) /\ first' = Len(structs) /\ UNCHANGED design
  BY DEF Command
<1>4. /\ structs' \in Seq(Struct) /\ Len(structs') = Len(structs) + 1
      /\ \A k \in 1 .. Len(structs) : structs'[k] = structs[k]
      /\ structs'[Len(structs) + 1].named
      /\ stack' \in Seq(Call) /\ Len(stack') = 1
      /\ stack'[1] = [of |-> Len(structs) + 1, next |-> 1]
  <2> DEFINE below == <<>>
  <2>1. below \in Seq(Call) /\ Len(below) = 0 /\ below = <<>> /\ Enter(c, copy, below)
    BY <1>2, <1>3
  <2> HIDE DEF below
  <2>2. /\ structs' \in Seq(Struct) /\ Len(structs') = Len(structs) + 1
        /\ \A k \in 1 .. Len(structs) : structs'[k] = structs[k]
        /\ below = <<>> => structs'[Len(structs) + 1].named
        /\ stack' \in Seq(Call) /\ Len(stack') = Len(below) + 1
        /\ stack'[Len(stack')] = [of |-> Len(structs) + 1, next |-> 1]
    BY ONLY <1>1, <2>1, copy \in BOOLEAN, copy => HasGds(c), c \in Name, EnterFacts
  <2> QED BY <2>1, <2>2
<1>5. Len(structs) \in Nat /\ DOMAIN structs = 1 .. Len(structs)
      /\ DOMAIN structs' = 1 .. Len(structs) + 1 /\ DOMAIN stack' = {1}
  BY <1>1, <1>4 DEF TypeOK
<1>6. structs'[Len(structs) + 1].refs \in Seq(Name)
  <2>1. structs'[Len(structs) + 1] \in Struct
    BY <1>4, <1>5
  <2> QED BY <2>1 DEF Struct
<1>7. TypeOK'
  <2>1. first' \in 0 .. Len(structs')
    BY <1>3, <1>4, <1>5
  <2>2. \A k \in DOMAIN stack' : /\ stack'[k].of \in first' + 1 .. Len(structs')
                                 /\ stack'[k].next <= Len(structs'[stack'[k].of].refs) + 1
    BY <1>3, <1>4, <1>5, <1>6
  <2> QED BY <1>1, <1>3, <1>4, <2>1, <2>2 DEF TypeOK, design
<1>8. NothingLost'
  <2> SUFFICES ASSUME NEW k \in first' + 1 .. Len(structs'), NEW d \in Wanted(k)'
               PROVE  \E f \in DOMAIN stack' : stack'[f].of = k /\ d \in Pending(stack[f])'
    BY DEF NothingLost
  <2>1. k = Len(structs) + 1
    BY <1>3, <1>4, <1>5
  <2>2. PICK r \in DOMAIN structs'[k].refs : d = structs'[k].refs[r]
    BY DEF Wanted
  <2>3. r \in 1 .. Len(structs'[k].refs)
    BY <1>6, <2>1, <2>2
  <2>4. stack'[1].of = k /\ stack'[1].next = 1
    BY <1>4, <2>1
  <2>5. d \in Pending(stack[1])'
    BY <2>2, <2>3, <2>4 DEF Pending
  <2> QED BY <1>5, <2>4, <2>5
<1>9. ComposedOnce'
  BY <1>1, <1>4, <1>5 DEF ComposedOnce
<1> QED BY <1>7, <1>8, <1>9 DEF IInv

(* When the innermost call advances, its reference alone stops waiting.        *)
LEMMA StillPending ==
  ASSUME IInv, AtRef, NEW k \in first + 1 .. Len(structs), NEW c \in Wanted(k) \ Exported,
         ~(k = Top.of /\ c = Ref)
  PROVE  \E f \in DOMAIN Advanced : Advanced[f].of = k /\ c \in Pending(Advanced[f])
<1>1. TypeOK /\ stack # <<>>
  BY DEF IInv, AtRef
<1>2. PICK f \in DOMAIN stack : stack[f].of = k /\ c \in Pending(stack[f])
  BY <1>1 DEF IInv, NothingLost
<1>3. /\ DOMAIN Advanced = DOMAIN stack
      /\ f # Len(stack) => Advanced[f] = stack[f]
      /\ Advanced[Len(stack)] = [of |-> Top.of, next |-> Top.next + 1]
  BY <1>1, AdvancedFacts
<1>4. CASE f # Len(stack)
  BY <1>2, <1>3, <1>4
<1>5. CASE f = Len(stack)
  <2>1. stack[f] = Top /\ Top.of = k
    BY <1>2, <1>5 DEF Top
  <2>2. PICK r \in Top.next .. Len(structs[Top.of].refs) : c = structs[Top.of].refs[r]
    BY <1>2, <2>1 DEF Pending
  <2>3. c # Ref
    BY <2>1
  <2>4. r # Top.next
    BY <2>2, <2>3 DEF Ref, Current
  <2>5. Top.next \in Nat
    BY <1>1, TopFacts DEF Call
  <2>6. r \in Top.next + 1 .. Len(structs[Top.of].refs)
    BY <2>2, <2>4, <2>5
  <2>7. Advanced[f].of = k /\ Advanced[f].of = Top.of /\ Advanced[f].next = Top.next + 1
    BY <1>3, <1>5, <2>1
  <2>8. c \in Pending(Advanced[f])
    BY <2>2, <2>6, <2>7 DEF Pending
  <2> QED BY <1>2, <1>3, <2>7, <2>8
<1> QED BY <1>4, <1>5

(* A reference that is passed over is in the library, or is not wanted.        *)
LEMMA SkipStep ==
  ASSUME IInv, AtRef, Skip, UNCHANGED <<design, first>>,
         Ref \in Exported \/ (Current.loaded /\ ~HasGds(Ref))
  PROVE  IInv'
<1>1. TypeOK /\ ComposedOnce /\ stack' = Advanced /\ UNCHANGED <<structs, cells, insts, gds>>
  BY DEF IInv, Skip, design
<1>2. TypeOK'
  <2>1. /\ Advanced \in Seq(Call)
        /\ \A k \in DOMAIN Advanced :
             /\ Advanced[k].of \in first + 1 .. Len(structs)
             /\ Advanced[k].next <= Len(structs[Advanced[k].of].refs) + 1
    BY <1>1, AdvancedFacts
  <2> QED BY <1>1, <2>1 DEF TypeOK
<1>3. NothingLost'
  <2> SUFFICES ASSUME NEW k \in first' + 1 .. Len(structs'), NEW c \in Wanted(k)' \ Exported'
               PROVE  \E f \in DOMAIN stack' : stack'[f].of = k /\ c \in Pending(stack[f])'
    BY DEF NothingLost
  <2>a. k \in first + 1 .. Len(structs) /\ c \in Wanted(k) \ Exported
    BY <1>1 DEF Wanted, HasGds, Exported
  <2>1. ~(k = Top.of /\ c = Ref)
    <3>1. c \notin Exported /\ (structs[k].loaded => HasGds(c))
      BY <2>a DEF Wanted
    <3> QED BY <3>1 DEF Current
  <2>2. PICK f \in DOMAIN Advanced : Advanced[f].of = k /\ c \in Pending(Advanced[f])
    BY <2>a, <2>1, StillPending
  <2>3. (c \in Pending(stack[f]))'
    BY <1>1, <2>2 DEF Pending
  <2> QED BY <1>1, <2>2, <2>3
<1>4. ComposedOnce'
  BY <1>1 DEF ComposedOnce
<1> QED BY <1>2, <1>3, <1>4 DEF IInv

(* A structure that is entered is new, or copied; its own references wait.     *)
LEMMA EnterStep ==
  ASSUME IInv, AtRef, NEW copy \in BOOLEAN, copy => HasGds(Ref), copy \/ Ref \notin Exported,
         Enter(Ref, copy, Advanced), UNCHANGED <<design, first>>
  PROVE  IInv'
<1> DEFINE n == Len(structs) + 1
           m == Len(stack) + 1
<1>1. TypeOK /\ ComposedOnce /\ UNCHANGED <<cells, insts, gds>>
  BY DEF IInv, design
<1>2. /\ Advanced \in Seq(Call) /\ Len(Advanced) = Len(stack)
      /\ DOMAIN Advanced = DOMAIN stack
      /\ \A k \in DOMAIN Advanced :
           /\ Advanced[k].of \in first + 1 .. Len(structs)
           /\ Advanced[k].next <= Len(structs[Advanced[k].of].refs) + 1
  BY <1>1, AdvancedFacts
<1>3. /\ structs' \in Seq(Struct) /\ Len(structs') = n
      /\ \A k \in 1 .. Len(structs) : structs'[k] = structs[k]
      /\ structs'[n].name = Ref /\ structs'[n].loaded = copy
      /\ Exported' = Exported \cup {Ref}
      /\ stack' \in Seq(Call) /\ Len(stack') = m
      /\ \A k \in 1 .. Len(stack) : stack'[k] = Advanced[k]
      /\ stack'[m] = [of |-> n, next |-> 1]
  <2>1. Ref \in Name
    BY <1>1, RefFacts
  <2> QED BY <1>1, <1>2, <2>1, EnterFacts
<1>4. /\ Len(structs) \in Nat /\ DOMAIN structs = 1 .. Len(structs) /\ DOMAIN structs' = 1 .. n
      /\ Len(stack) \in Nat /\ DOMAIN stack = 1 .. Len(stack) /\ DOMAIN stack' = 1 .. m
      /\ first \in 0 .. Len(structs)
  BY <1>1, <1>3 DEF TypeOK
<1>5. structs'[n].refs \in Seq(Name)
  <2>1. structs'[n] \in Struct
    BY <1>3, <1>4
  <2> QED BY <2>1 DEF Struct
<1>6. TypeOK'
  <2>1. \A k \in DOMAIN stack' : /\ stack'[k].of \in first' + 1 .. Len(structs')
                                 /\ stack'[k].next <= Len(structs'[stack'[k].of].refs) + 1
    <3> SUFFICES ASSUME NEW k \in DOMAIN stack'
                 PROVE  /\ stack'[k].of \in first + 1 .. n
                        /\ stack'[k].next <= Len(structs'[stack'[k].of].refs) + 1
      BY <1>3
    <3>1. CASE k = m
      BY <1>3, <1>4, <1>5, <3>1
    <3>2. CASE k # m
      <4>1. k \in DOMAIN Advanced /\ stack'[k] = Advanced[k]
        BY <1>2, <1>3, <1>4, <3>2
      <4>2. Advanced[k].of \in first + 1 .. Len(structs)
            /\ Advanced[k].next <= Len(structs[Advanced[k].of].refs) + 1
        BY <1>2, <4>1
      <4>3. structs'[Advanced[k].of] = structs[Advanced[k].of]
        BY <1>3, <1>4, <4>2
      <4> QED BY <1>4, <4>1, <4>2, <4>3
    <3> QED BY <3>1, <3>2
  <2> QED BY <1>1, <1>3, <1>4, <2>1 DEF TypeOK
<1>7. NothingLost'
  <2> SUFFICES ASSUME NEW k \in first + 1 .. n, NEW c \in Wanted(k)' \ Exported'
               PROVE  \E f \in DOMAIN stack' : stack'[f].of = k /\ (c \in Pending(stack[f]))'
    BY <1>1, <1>3 DEF NothingLost
  <2>1. CASE k = n
    <3>1. PICK r \in DOMAIN structs'[k].refs : c = structs'[k].refs[r]
      BY DEF Wanted
    <3>2. r \in 1 .. Len(structs'[k].refs)
      BY <1>5, <2>1, <3>1
    <3>3. PICK p \in DOMAIN stack' : p = m
      BY <1>4
    <3>4. stack'[p].of = k /\ stack'[p].next = 1
      BY <1>3, <2>1, <3>3
    <3>5. (c \in Pending(stack[p]))'
      BY <3>1, <3>2, <3>4 DEF Pending
    <3> QED BY <3>4, <3>5
  <2>2. CASE k # n
    <3>1. k \in first + 1 .. Len(structs) /\ k \in 1 .. Len(structs) /\ structs'[k] = structs[k]
      BY <1>3, <1>4, <2>2
    <3>2. c \in Wanted(k) \ Exported /\ c # Ref
      BY <1>1, <1>3, <3>1 DEF Wanted, HasGds
    <3>3. PICK f \in DOMAIN Advanced : Advanced[f].of = k /\ c \in Pending(Advanced[f])
      BY <3>1, <3>2, StillPending
    <3>4. stack'[f] = Advanced[f] /\ f \in DOMAIN stack'
      BY <1>2, <1>3, <1>4
    <3>5. (c \in Pending(stack[f]))'
      BY <3>1, <3>3, <3>4 DEF Pending
    <3> QED BY <3>3, <3>4, <3>5
  <2> QED BY <2>1, <2>2
<1>8. ComposedOnce'
  <2> SUFFICES ASSUME NEW j \in 1 .. n, NEW k \in 1 .. n, j < k,
                      structs'[j].name = structs'[k].name
               PROVE  structs'[k].loaded \/ structs'[k].named
    BY <1>4 DEF ComposedOnce
  <2>1. CASE k = n
    <3>1. j \in DOMAIN structs /\ structs'[j] = structs[j]
      BY <1>3, <1>4, <2>1
    <3>2. Ref \in Exported
      BY <1>3, <2>1, <3>1 DEF Exported
    <3> QED BY <1>3, <2>1, <3>2
  <2>2. CASE k # n
    <3>1. j \in DOMAIN structs /\ k \in DOMAIN structs
      BY <1>4, <2>2
    <3>2. structs'[j] = structs[j] /\ structs'[k] = structs[k]
      BY <1>3, <1>4, <3>1
    <3> QED BY <1>1, <3>1, <3>2 DEF ComposedOnce
  <2> QED BY <2>1, <2>2
<1> QED BY <1>6, <1>7, <1>8 DEF IInv

(* A call that returns has nothing left to wait for.                           *)
LEMMA ReturnStep == ASSUME IInv, Return PROVE IInv'
<1>1. TypeOK /\ ComposedOnce /\ NothingLost /\ stack # <<>> /\ Top.next > Len(Current.refs)
      /\ stack' = SubSeq(stack, 1, Len(stack) - 1)
      /\ UNCHANGED <<cells, insts, gds, structs, first>>
  BY DEF IInv, Return, design
<1>2. stack \in Seq(Call) /\ Len(stack) \in Nat \ {0} /\ DOMAIN stack = 1 .. Len(stack)
      /\ Top \in Call /\ Current \in Struct
  BY <1>1, TopFacts DEF TypeOK
<1>3. /\ stack' \in Seq(Call) /\ Len(stack') = Len(stack) - 1
      /\ \A k \in 1 .. Len(stack) - 1 : stack'[k] = stack[k]
  BY <1>1, <1>2
<1>4. DOMAIN stack' = 1 .. Len(stack) - 1
  BY <1>2, <1>3
<1>5. TypeOK'
  <2>1. \A k \in DOMAIN stack' : k \in DOMAIN stack /\ stack'[k] = stack[k]
    BY <1>2, <1>3, <1>4
  <2> QED BY <1>1, <1>3, <2>1 DEF TypeOK
<1>6. Pending(Top) = {}
  <2>1. Top.next \in Nat /\ Len(Current.refs) \in Nat
    BY <1>2 DEF Call, Struct
  <2> QED BY <1>1, <2>1 DEF Pending, Current
<1>7. NothingLost'
  <2> SUFFICES ASSUME NEW k \in first' + 1 .. Len(structs'), NEW c \in Wanted(k)' \ Exported'
               PROVE  \E f \in DOMAIN stack' : stack'[f].of = k /\ c \in Pending(stack[f])'
    BY DEF NothingLost
  <2>1. k \in first + 1 .. Len(structs) /\ c \in Wanted(k) \ Exported
    BY <1>1 DEF Wanted, HasGds, Exported
  <2>2. PICK f \in DOMAIN stack : stack[f].of = k /\ c \in Pending(stack[f])
    BY <1>1, <2>1 DEF NothingLost
  <2>3. f # Len(stack)
    BY <1>6, <2>2 DEF Top
  <2>4. f \in DOMAIN stack' /\ stack'[f] = stack[f]
    BY <1>2, <1>3, <1>4, <2>3
  <2>5. (c \in Pending(stack[f]))'
    BY <1>1, <2>2, <2>4 DEF Pending
  <2> QED BY <2>2, <2>4, <2>5
<1>8. ComposedOnce'
  BY <1>1 DEF ComposedOnce
<1> QED BY <1>5, <1>7, <1>8 DEF IInv

(* Every step keeps the invariant.                                             *)
LEMMA NextIInv == IInv /\ [Next]_vars => IInv'
<1> SUFFICES ASSUME IInv, [Next]_vars PROVE IInv'
  OBVIOUS
<1>1. TypeOK
  BY DEF IInv
<1>2. ASSUME NEW c \in Name, LoadGds(c) PROVE IInv'
  <2>1. PICK refs \in Refs : /\ cells' = cells \cup {c} /\ gds' = [gds EXCEPT ![c] = refs]
                             /\ UNCHANGED <<insts, structs, first, stack>>
    BY <1>2 DEF LoadGds
  <2>2. refs \in Seq(Name) /\ stack = <<>>
    BY <1>2, RefsAreSequences DEF LoadGds, Idle
  <2>3. cells' \subseteq Name /\ insts' \in [Name -> Seq(Name)]
        /\ gds' \in [Name -> Seq(Name) \cup {None}]
    BY <1>1, <2>1, <2>2 DEF TypeOK
  <2> QED BY <2>1, <2>2, <2>3, DesignStep
<1>3. ASSUME NEW c \in Name, NEW d \in Name, NewInst(c, d) PROVE IInv'
  <2>1. /\ cells' = cells \cup {c, d} /\ insts' = [insts EXCEPT ![c] = Append(@, d)]
        /\ UNCHANGED <<gds, structs, first, stack>> /\ stack = <<>>
    BY <1>3 DEF NewInst, Idle
  <2>2. cells' \subseteq Name /\ gds' \in [Name -> Seq(Name) \cup {None}]
    BY <1>1, <2>1 DEF TypeOK
  <2>3. insts' \in [Name -> Seq(Name)]
    <3>1. insts[c] \in Seq(Name)
      BY <1>1 DEF TypeOK
    <3>2. Append(insts[c], d) \in Seq(Name)
      BY <3>1
    <3> QED BY <1>1, <2>1, <3>2 DEF TypeOK
  <2> QED BY <2>1, <2>2, <2>3, DesignStep
<1>4. ASSUME NEW c \in Name, CopyCellGds(c) PROVE IInv'
  BY <1>4, CommandStep DEF CopyCellGds
<1>5. ASSUME NEW c \in Name, MakeGdsForCell(c) PROVE IInv'
  BY <1>5, CommandStep DEF MakeGdsForCell
<1>6. CASE CopyRef
  <2>1. CASE HasGds(Ref)
    BY <1>6, <2>1, EnterStep DEF CopyRef
  <2>2. CASE ~HasGds(Ref)
    BY <1>6, <2>2, SkipStep DEF CopyRef
  <2> QED BY <2>1, <2>2
<1>7. CASE MakeRef
  <2>1. CASE Ref \in Exported
    BY <1>7, <2>1, SkipStep DEF MakeRef
  <2>2. CASE Ref \notin Exported
    <3> DEFINE copy == HasGds(Ref)
    <3>1. copy \in BOOLEAN
      BY DEF HasGds
    <3>2. Enter(Ref, copy, Advanced) /\ AtRef /\ UNCHANGED <<design, first>>
      BY <1>7, <2>2 DEF MakeRef
    <3>3. copy => HasGds(Ref)
      OBVIOUS
    <3> HIDE DEF copy
    <3> QED BY <2>2, <3>1, <3>2, <3>3, EnterStep
  <2> QED BY <2>1, <2>2
<1>8. CASE Return
  BY <1>8, ReturnStep
<1>9. CASE NewLibrary
  <2>1. structs' = <<>> /\ first' = 0 /\ stack' = <<>> /\ UNCHANGED <<cells, insts, gds>>
    BY <1>9 DEF NewLibrary, design
  <2>2. structs' \in Seq(Struct) /\ stack' \in Seq(Call) /\ DOMAIN structs' = {}
        /\ DOMAIN stack' = {} /\ first' \in 0 .. Len(structs')
    BY <2>1
  <2>3. TypeOK'
    BY <1>1, <2>1, <2>2 DEF TypeOK
  <2> QED BY <2>1, <2>2, <2>3 DEF IInv, NothingLost, ComposedOnce
<1>10. CASE UNCHANGED vars
  <2>1. UNCHANGED <<cells, insts, gds, structs, first, stack>>
    BY <1>10 DEF vars, design
  <2> QED BY <2>1 DEF IInv, TypeOK, NothingLost, ComposedOnce, Wanted, Exported, Pending, HasGds
<1> QED BY <1>2, <1>3, <1>4, <1>5, <1>6, <1>7, <1>8, <1>9, <1>10 DEF Next, Step

-----------------------------------------------------------------------------
(* The export of any design keeps its invariant.                               *)
LEMMA ExportInvariance == Spec => []IInv
BY InitIInv, NextIInv, PTL DEF Spec

(* The structures and calls of the export have their types.                    *)
THEOREM ExportTypeCorrect == Spec => []TypeOK
<1>1. IInv => TypeOK
  BY DEF IInv
<1> QED BY <1>1, ExportInvariance, PTL

(* What a structure of a command refers to is there or still to come.          *)
THEOREM NothingIsLost == Spec => []NothingLost
<1>1. IInv => NothingLost
  BY DEF IInv
<1> QED BY <1>1, ExportInvariance, PTL

(* Composed structures are there once, unless a command names their cell.      *)
THEOREM ComposedStructuresAreUnique == Spec => []ComposedOnce
<1>1. IInv => ComposedOnce
  BY DEF IInv
<1> QED BY <1>1, ExportInvariance, PTL

(* Without its last element a sequence is one shorter.                         *)
LEMMA FrontLength ==
  ASSUME NEW S, NEW s \in Seq(S), s # <<>>, NEW n \in Int, n = Len(s) - 1
  PROVE  Len(SubSeq(s, 1, n)) = n
<1>1. Len(s) \in Nat \ {0}
  BY EmptySeq
<1>2. \A i \in 1 .. n : s[i] \in S
  BY <1>1
<1>3. Len(SubSeq(s, 1, n)) = IF 1 <= n THEN n - 1 + 1 ELSE 0
  BY <1>2, SubSeqProperties, 1 \in Int
<1> QED BY <1>1, <1>3

(* A command that returns has exported all that its structures refer to and    *)
(* the design has.                                                             *)
THEOREM CompleteOnReturn == Spec => ReturnsComplete
<1> DEFINE Complete == stack # <<>> /\ stack' = <<>> =>
                         \A k \in first + 1 .. Len(structs) : Wanted(k) \subseteq Exported
<1>1. IInv /\ [Next]_vars => [Complete]_vars
  <2> SUFFICES ASSUME IInv, Next, stack # <<>>, stack' = <<>>,
                      NEW k \in first + 1 .. Len(structs), NEW c \in Wanted(k)
               PROVE  c \in Exported
    OBVIOUS
  <2>1. TypeOK /\ NothingLost /\ stack \in Seq(Call)
    BY DEF IInv, TypeOK
  <2>2. Return
    <3>1. \A f \in Seq(Call) : \A e : Append(f, e) # <<>>
      OBVIOUS
    <3>2. AtRef => Advanced \in Seq(Call) /\ Len(Advanced) = Len(stack)
      BY <2>1, AdvancedFacts
    <3>3. AtRef => Advanced # <<>>
      BY <2>1, <3>2, EmptySeq
    <3>4. ~CopyRef /\ ~MakeRef
      BY <3>1, <3>2, <3>3 DEF CopyRef, MakeRef, Enter, Skip
    <3> QED BY <3>4 DEF Next, Step, LoadGds, NewInst, CopyCellGds, MakeGdsForCell,
                        Command, NewLibrary, Idle
  <2>3. Len(stack) = 1
    <3>1. stack # <<>> /\ SubSeq(stack, 1, Len(stack) - 1) = <<>>
      BY <2>2 DEF Return
    <3>2. PICK n \in Int : n = Len(stack) - 1
      BY <2>1
    <3>3. Len(SubSeq(stack, 1, n)) = n
      BY <2>1, <3>1, <3>2, FrontLength
    <3>4. n = 0
      BY <3>1, <3>2, <3>3, EmptySeq
    <3> QED BY <2>1, <3>2, <3>4
  <2>4. Pending(Top) = {}
    <3>1. Top \in Call /\ Current \in Struct
      BY <2>1, TopFacts
    <3>2. Top.next \in Nat /\ Len(Current.refs) \in Nat
      BY <3>1 DEF Call, Struct
    <3> QED BY <2>2, <3>2 DEF Return, Pending, Current
  <2>5. \A f \in DOMAIN stack : stack[f] = Top
    BY <2>1, <2>3 DEF Top
  <2> QED BY <2>1, <2>4, <2>5 DEF NothingLost
<1> QED BY <1>1, ExportInvariance, PTL DEF Spec, ReturnsComplete

-------------------------------------------------------------------------------
(* The lookup tables of the cells that are composed: reading one between its     *)
(* breakpoints.                                                                  *)
(* The breakpoint at k is x or the next one to x on its side of it.            *)
Beside(s, x, k) ==
  \A j \in DOMAIN s : /\ s[k] < s[j] => x < s[j]
                      /\ s[j] < s[k] => s[j] < x

Below(s, x) == Cardinality({k \in DOMAIN s : s[k] < x})

(* The breakpoints below x come first, and the search ends behind them.        *)
LEMMA BelowCounts ==
  ASSUME NEW s \in Axis, NEW x \in Int
  PROVE  /\ Below(s, x) \in 0 .. Len(s)
         /\ \A k \in DOMAIN s : s[k] < x <=> k <= Below(s, x)
<1> DEFINE B == {k \in DOMAIN s : s[k] < x}
<1>1. s \in Seq(Int) /\ Len(s) \in Nat /\ DOMAIN s = 1 .. Len(s) /\ \A k \in 1 .. Len(s) : s[k] \in Int
  BY DEF Axis
<1>2. \A i \in B : \A j \in DOMAIN s : j <= i => j \in B
  <2> SUFFICES ASSUME NEW i \in B, NEW j \in DOMAIN s, j <= i PROVE s[j] < x
    OBVIOUS
  <2>1. s[j] < s[i] \/ i = j
    BY <1>1 DEF Axis
  <2> QED BY <1>1, <2>1
<1>3. \E n \in 0 .. Len(s) : B = 1 .. n
  <2>1. CASE B = {}
    BY <1>1, <2>1
  <2>2. CASE B # {}
    <3>1. B \in SUBSET (0 .. Len(s))
      BY <1>1
    <3>2. PICK n \in B : \A k \in B : k <= n
      <4> HIDE DEF B
      <4> QED BY <1>1, <2>2, <3>1, LargestThere
    <3>3. B = 1 .. n
      BY <1>1, <1>2, <3>2
    <3> QED BY <1>1, <3>3
  <2> QED BY <2>1, <2>2
<1>4. PICK n \in 0 .. Len(s) : B = 1 .. n
  BY <1>3
<1>5. Cardinality(1 .. n) = n
  <2>1. n \in Int /\ 1 \in Int /\ n >= 0
    BY <1>1
  <2>2. Cardinality(1 .. n) = IF 1 > n THEN 0 ELSE n - 1 + 1
    BY <2>1, FS_Interval
  <2> QED BY <2>1, <2>2
<1>6. Below(s, x) = n
  <2>1. Below(s, x) = Cardinality(B)
    BY DEF Below
  <2> HIDE DEF B
  <2> QED BY <1>4, <1>5, <2>1
<1>7. \A k \in DOMAIN s : s[k] < x <=> k \in 1 .. n
  BY <1>4
<1> QED BY <1>1, <1>6, <1>7

(* Of numbers that are not negative the difference of the patterns has the sign *)
(* of that of the numbers, and along increasing ones of them the search ends    *)
(* behind those below x: at x, if it is there.                                  *)
LEMMA LookupIsBelow ==
  ASSUME NEW s \in Axis, \A k \in DOMAIN s : s[k] \in Nat, NEW x \in Nat
  PROVE  Lookup(s, x).at = Below(s, x) /\ (Lookup(s, x).met <=> x \in ToSet(s))
<1> DEFINE len == Len(s)
           Spans == (0 .. len) \X (0 .. len)
           Ends == [at : 0 .. len, met : BOOLEAN]
           mid(r) == r[1] + (r[2] - r[1]) \div 2
           Half(f, r) == IF r[1] >= r[2] THEN [at |-> r[1], met |-> FALSE]
                         ELSE IF Difference(x, s[mid(r) + 1]) < 0 THEN f[<<r[1], mid(r)>>]
                         ELSE IF Difference(x, s[mid(r) + 1]) > 0 THEN f[<<mid(r) + 1, r[2]>>]
                         ELSE [at |-> mid(r), met |-> TRUE]
           find == CHOOSE f : f = [r \in Spans |-> Half(f, r)]
           rank == [r \in Spans |-> IF r[1] < r[2] THEN r[2] - r[1] ELSE 0]
           R == {e \in Spans \X Spans : rank[e[1]] < rank[e[2]]}
           F == [f \in [Spans -> Ends] |-> [r \in Spans |-> Half(f, r)]]
<1>1. s \in Seq(Int) /\ len \in Nat /\ DOMAIN s = 1 .. len /\ \A k \in 1 .. len : s[k] \in Nat
  BY DEF Axis
<1>2. Lookup(s, x) = find[<<0, len>>]
  BY DEF Lookup
<1> HIDE DEF len
<1>3. \A r \in Spans : r[1] \in 0 .. len /\ r[2] \in 0 .. len /\ r = <<r[1], r[2]>>
  OBVIOUS
<1>4. ASSUME NEW r \in Spans, r[1] < r[2]
      PROVE  /\ mid(r) \in 0 .. len /\ r[1] <= mid(r) /\ mid(r) < r[2]
             /\ mid(r) + 1 \in 0 .. len /\ mid(r) + 1 \in 1 .. len
             /\ <<r[1], mid(r)>> \in Spans /\ <<mid(r) + 1, r[2]>> \in Spans
             /\ <<<<r[1], mid(r)>>, r>> \in R /\ <<<<mid(r) + 1, r[2]>>, r>> \in R
  <2>1. /\ mid(r) \in Int /\ r[1] <= mid(r) /\ mid(r) < r[2]
        /\ r[1] \in 0 .. len /\ r[2] \in 0 .. len
    BY <1>1, <1>3, <1>4
  <2>2. mid(r) \in 0 .. len /\ mid(r) + 1 \in 0 .. len /\ mid(r) + 1 \in 1 .. len
    <3> HIDE DEF mid
    <3> QED BY <1>1, <2>1
  <2> HIDE DEF mid
  <2>3. <<r[1], mid(r)>> \in Spans /\ <<mid(r) + 1, r[2]>> \in Spans
    BY <2>1, <2>2
  <2>4. /\ rank[<<r[1], mid(r)>>] < rank[r] /\ rank[<<mid(r) + 1, r[2]>>] < rank[r]
    BY <1>1, <1>4, <2>1, <2>2, <2>3
  <2> HIDE DEF rank, Spans
  <2> QED BY <2>1, <2>2, <2>3, <2>4
<1>5. IsWellFoundedOn(R, Spans)
  <2>1. rank \in [Spans -> Nat]
    BY <1>1, <1>3
  <2> HIDE DEF rank, Spans
  <2> QED BY <2>1, RankIsWellFounded
<1>6. find = [r \in Spans |-> Half(find, r)]
  <2>1. ASSUME NEW f \in [Spans -> Ends], NEW r \in Spans PROVE Half(f, r) \in Ends
    <3>1. r[1] \in 0 .. len /\ r[2] \in 0 .. len
      <4> HIDE DEF Spans
      <4> QED BY <1>3
    <3>2. CASE r[1] >= r[2]
      <4> HIDE DEF Spans, mid
      <4>1. Half(f, r) = [at |-> r[1], met |-> FALSE]
        BY <3>2
      <4>2. [at |-> r[1], met |-> FALSE] \in Ends
        BY <3>1
      <4> HIDE DEF Half, Ends
      <4> QED BY <4>1, <4>2
    <3>3. CASE r[1] < r[2]
      <4>1. f[<<r[1], mid(r)>>] \in Ends /\ f[<<mid(r) + 1, r[2]>>] \in Ends /\ mid(r) \in 0 .. len
        <5> HIDE DEF mid, Spans, R, Ends
        <5> QED BY <1>4, <3>3
      <4>2. [at |-> mid(r), met |-> TRUE] \in Ends
        <5> HIDE DEF mid
        <5> QED BY <4>1
      <4>3. ~(r[1] >= r[2])
        BY <1>1, <3>1, <3>3
      <4> HIDE DEF mid, Spans, Ends
      <4> QED BY <4>1, <4>2, <4>3
    <3>4. r[1] >= r[2] \/ r[1] < r[2]
      BY <1>1, <3>1
    <3> QED BY <3>2, <3>3, <3>4
  <2>2. F \in [[Spans -> Ends] -> [Spans -> Ends]]
    <3> HIDE DEF Half, Spans, Ends
    <3> QED BY <2>1
  <2>3. ASSUME NEW g \in [Spans -> Ends], NEW h \in [Spans -> Ends], NEW r \in Spans,
               \A q \in Spans : <<q, r>> \in R => g[q] = h[q]
        PROVE  F[g][r] = F[h][r]
    <3>1. Half(g, r) = Half(h, r)
      <4>1. r[1] >= r[2] \/ r[1] < r[2]
        BY <1>1, <1>3
      <4> HIDE DEF mid, Spans, R, Ends
      <4> QED BY <1>4, <2>3, <4>1
    <3> HIDE DEF Half, Spans, Ends
    <3> QED BY <3>1
  <2> HIDE DEF F, R, Half, Spans
  <2>4. Ends # {}
    <3>1. 0 \in 0 .. len
      BY <1>1
    <3>2. [at |-> 0, met |-> FALSE] \in Ends
      BY <3>1
    <3> QED BY <3>2
  <2> HIDE DEF Ends
  <2>5. Local(F, R, Spans, Ends)
    BY <2>2, <2>3 DEF Local
  <2>6. \E f \in [Spans -> Ends] : f = F[f]
    BY <1>5, <2>4, <2>5, Recursion
  <2>7. \E f : f = [r \in Spans |-> Half(f, r)]
    BY <2>6 DEF F
  <2> QED BY <2>7
<1>7. PICK b \in 0 .. len : b = Below(s, x) /\ \A k \in 1 .. len : s[k] < x <=> k <= b
  <2>1. /\ Below(s, x) \in 0 .. len
        /\ \A k \in DOMAIN s : s[k] < x <=> k <= Below(s, x)
    BY BelowCounts DEF len
  <2> HIDE DEF Spans, Ends, find, mid, Half, rank, R, F
  <2> QED BY <1>1, <2>1
<1>8. \A k \in 1 .. len : Difference(x, s[k]) = x - s[k]
  <2> SUFFICES ASSUME NEW k \in 1 .. len PROVE Difference(x, s[k]) = x - s[k]
    OBVIOUS
  <2>1. s[k] \in Nat
    BY <1>1
  <2>2. ~(x < 0) /\ ~(s[k] < 0)
    BY <2>1
  <2> QED BY <2>2 DEF Difference, Overflows
<1>9. x \in ToSet(s) <=> b < len /\ s[b + 1] = x
  <2>1. ToSet(s) = {s[k] : k \in 1 .. len}
    BY <1>1 DEF ToSet
  <2>2. ASSUME NEW k \in 1 .. len, s[k] = x PROVE k = b + 1
    <3>1. ~(s[k] < x)
      BY <1>1, <2>2
    <3>2. ~(k <= b)
      BY <1>7, <3>1
    <3>3. k - 1 \in 1 .. len => s[k - 1] < s[k]
      BY <1>1, <2>2 DEF Axis
    <3>4. k - 1 \in 1 .. len => k - 1 <= b
      BY <1>7, <2>2, <3>3
    <3> QED BY <1>1, <1>7, <3>2, <3>4
  <2>3. ASSUME x \in ToSet(s) PROVE b < len /\ s[b + 1] = x
    <3>1. PICK k \in 1 .. len : s[k] = x
      BY <2>1, <2>3
    <3>2. k = b + 1
      BY <2>2, <3>1
    <3> QED BY <1>1, <1>7, <3>1, <3>2
  <2>4. ASSUME b < len, s[b + 1] = x PROVE x \in ToSet(s)
    <3>1. b + 1 \in 1 .. len
      BY <1>1, <1>7, <2>4
    <3> QED BY <2>1, <2>4, <3>1
  <2> QED BY <2>3, <2>4
<1> DEFINE there == b < len /\ s[b + 1] = x
           Good(r) == r[1] <= b /\ b <= r[2] /\ (there => b < r[2]) => find[r].at = b /\ (find[r].met <=> there)
           Bad == {r \in Spans : ~Good(r)}
<1>10. Bad = {}
  <2> SUFFICES ASSUME Bad # {} PROVE FALSE
    OBVIOUS
  <2>1. PICK r \in Bad : \A q \in Bad : <<q, r>> \notin R
    <3>1. Bad \subseteq Spans
      OBVIOUS
    <3> HIDE DEF Bad, R, Spans
    <3> QED BY <1>5, <3>1, WFMin
  <2>2. r \in Spans
    OBVIOUS
  <2>3. find[r] = Half(find, r)
    <3> HIDE DEF Half, find, Spans, Bad
    <3> QED BY <1>6, <2>2
  <2>r. r[1] \in 0 .. len /\ r[2] \in 0 .. len
    <3> HIDE DEF Spans, Bad
    <3> QED BY <1>3, <2>2
  <2> SUFFICES ASSUME r[1] <= b, b <= r[2], there => b < r[2] PROVE find[r].at = b /\ (find[r].met <=> there)
    OBVIOUS
  <2>4. CASE r[1] >= r[2]
    <3>1. r[1] = b /\ ~there
      <4> HIDE DEF there, Bad
      <4> QED BY <1>1, <1>7, <2>r, <2>4
    <3>2. find[r].at = r[1] /\ ~find[r].met
      <4>1. find[r] = [at |-> r[1], met |-> FALSE]
        <5> HIDE DEF find, mid, Bad
        <5> QED BY <2>3, <2>4
      <4> HIDE DEF find, Bad
      <4> QED BY <4>1
    <3> HIDE DEF find, there, Bad
    <3> QED BY <3>1, <3>2
  <2>5. CASE r[1] < r[2]
    <3> DEFINE m == mid(r)
    <3>1. /\ m \in 0 .. len /\ r[1] <= m /\ m < r[2] /\ m + 1 \in 1 .. len
          /\ Good(<<r[1], m>>) /\ Good(<<m + 1, r[2]>>)
      <4>1. \A q \in Spans : <<q, r>> \in R => Good(q)
        <5> HIDE DEF Good, R
        <5> QED BY <2>1
      <4> HIDE DEF mid, Good, R, Spans
      <4> QED BY <1>4, <2>2, <2>5, <4>1
    <3>2. find[r] = IF x - s[m + 1] < 0 THEN find[<<r[1], m>>]
                    ELSE IF x - s[m + 1] > 0 THEN find[<<m + 1, r[2]>>]
                    ELSE [at |-> m, met |-> TRUE]
      <4> HIDE DEF find, mid
      <4>1. ~(r[1] >= r[2])
        BY <1>1, <2>r, <2>5
      <4>2. Difference(x, s[m + 1]) = x - s[m + 1]
        BY <1>8, <3>1
      <4> QED BY <2>3, <4>1, <4>2
    <3>3. s[m + 1] \in Nat /\ r[1] \in Int /\ r[2] \in Int /\ b \in Int /\ m \in Int
      <4> HIDE DEF m, find, Bad, Good, Spans
      <4> QED BY <1>1, <1>7, <2>r, <3>1
    <3> HIDE DEF m, find
    <3>4. CASE x < s[m + 1]
      <4>1. b <= m
        <5>1. ~(s[m + 1] < x)
          BY <3>3, <3>4
        <5>2. ~(m + 1 <= b)
          BY <1>7, <3>1, <5>1
        <5> QED BY <3>3, <5>2
      <4>2. there => b < m
        <5>1. b # m \/ ~there
          BY <3>3, <3>4
        <5> HIDE DEF there
        <5> QED BY <3>3, <4>1, <5>1
      <4>3. find[<<r[1], m>>].at = b /\ (find[<<r[1], m>>].met <=> there)
        <5> HIDE DEF there
        <5> QED BY <3>1, <4>1, <4>2
      <4>4. x - s[m + 1] < 0
        BY <3>3, <3>4
      <4> HIDE DEF there
      <4> QED BY <3>2, <4>3, <4>4
    <3>5. CASE x > s[m + 1]
      <4>1. m + 1 <= b
        BY <1>7, <3>1, <3>3, <3>5
      <4>2. find[<<m + 1, r[2]>>].at = b /\ (find[<<m + 1, r[2]>>].met <=> there)
        <5> HIDE DEF there
        <5> QED BY <3>1, <4>1
      <4>3. x - s[m + 1] > 0 /\ ~(x - s[m + 1] < 0)
        BY <3>3, <3>5
      <4> HIDE DEF there
      <4> QED BY <3>2, <4>2, <4>3
    <3>6. CASE x = s[m + 1]
      <4>1. x \in ToSet(s) /\ m = b
        <5>1. m + 1 \in DOMAIN s
          BY <1>1, <3>1
        <5>2. x \in ToSet(s)
          BY <3>6, <5>1 DEF ToSet
        <5>3. s[b + 1] = x /\ b < len
          BY <1>9, <5>2
        <5>4. b + 1 \in 1 .. len
          BY <1>1, <1>7, <5>3
        <5>5. ~(m + 1 < b + 1) /\ ~(b + 1 < m + 1)
          <6>1. \A i, j \in 1 .. len : i < j => s[i] < s[j]
            BY <1>1 DEF Axis
          <6>2. ~(s[m + 1] < s[b + 1]) /\ ~(s[b + 1] < s[m + 1])
            BY <3>6, <5>3
          <6> QED BY <3>1, <5>4, <6>1, <6>2
        <5> QED BY <3>3, <5>2, <5>5
      <4>2. there
        BY <1>9, <4>1
      <4>3. ~(x - s[m + 1] < 0) /\ ~(x - s[m + 1] > 0)
        BY <3>3, <3>6
      <4> HIDE DEF there
      <4> QED BY <3>2, <4>1, <4>2, <4>3
    <3> QED BY <3>3, <3>4, <3>5, <3>6
  <2>6. r[1] >= r[2] \/ r[1] < r[2]
    <3> HIDE DEF find, Bad, Good, Spans
    <3> QED BY <1>1, <2>r
  <2> HIDE DEF find, there, Good, Bad
  <2> QED BY <2>4, <2>5, <2>6
<1>11. Good(<<0, len>>)
  <2>1. <<0, len>> \in Spans
    BY <1>1
  <2> HIDE DEF Good, Spans
  <2> QED BY <1>10, <2>1
<1>12. 0 <= b /\ b <= len
  BY <1>1, <1>7
<1> HIDE DEF find
<1>13. find[<<0, len>>].at = b /\ (find[<<0, len>>].met <=> there)
  BY <1>11, <1>12
<1>14. x \in ToSet(s) <=> there
  BY <1>9
<1> HIDE DEF there
<1> QED BY <1>2, <1>7, <1>13, <1>14

(* Along an axis without negative breakpoints, wherever it is read but at a     *)
(* negative number, the search takes two places of the axis and a factor        *)
(* between nothing and one; a place that the factor gives any weight is beside  *)
(* what is looked for, and a breakpoint that is met is read by itself           *)
(* (phx_table_axis_get_lerp): the interval is never beyond the ends, and never  *)
(* another than one that x borders on, whichever the search ends at.            *)
THEOREM LookupBeside ==
  ASSUME NEW s \in Axis, \A k \in DOMAIN s : s[k] \in Nat, NEW x \in Nat, ~LerpFails(s, x)
  PROVE  LET l == AxisLerp(s, x) IN
         /\ l.lower + 1 \in DOMAIN s /\ l.upper + 1 \in DOMAIN s
         /\ l.den \in Nat \ {0} /\ l.num \in 0 .. l.den
         /\ l.num < l.den => Beside(s, x, l.lower + 1)
         /\ l.num > 0 => Beside(s, x, l.upper + 1)
         /\ \A k \in DOMAIN s : s[k] = x => l.lower = k - 1 /\ l.num = 0 /\ l.den = 1
<1>1. s \in Seq(Int) /\ Len(s) \in Nat \ {0} /\ DOMAIN s = 1 .. Len(s) /\ \A k \in 1 .. Len(s) : s[k] \in Int
  BY DEF Axis
<1>2. PICK b \in 0 .. Len(s) : b = Below(s, x)
  BY BelowCounts
<1>0. Lookup(s, x).at = b /\ (Lookup(s, x).met <=> x \in ToSet(s))
  BY <1>2, LookupIsBelow
<1>3. \A k \in 1 .. Len(s) : s[k] < x <=> k <= b
  <2>1. x \in Int
    OBVIOUS
  <2>2. \A k \in DOMAIN s : s[k] < x <=> k <= Below(s, x)
    BY <2>1, BelowCounts
  <2> QED BY <1>1, <1>2, <2>2
<1>4. \A i, j \in 1 .. Len(s) : i < j => s[i] < s[j]
  BY <1>1 DEF Axis
<1>5. ToSet(s) = {s[k] : k \in 1 .. Len(s)}
  BY <1>1 DEF ToSet
<1>6. \A k \in 1 .. Len(s) : Beside(s, x, k) <=>
        \A j \in 1 .. Len(s) : (s[k] < s[j] => x < s[j]) /\ (s[j] < s[k] => s[j] < x)
  BY <1>1 DEF Beside
<1>7. CASE \E k \in 1 .. Len(s) : s[k] = x
  <2>1. PICK k \in 1 .. Len(s) : s[k] = x
    BY <1>7
  <2>2. b = k - 1 /\ \A j \in 1 .. Len(s) : s[j] = x => j = k
    <3>1. ASSUME NEW j \in 1 .. Len(s), s[j] = x PROVE j = k
      <4>1. ~(j < k) /\ ~(k < j)
        BY <1>1, <1>4, <2>1, <3>1
      <4> QED BY <1>1, <4>1
    <3>2. b < k
      BY <1>1, <1>3, <2>1
    <3>3. k - 1 \in 1 .. Len(s) => k - 1 <= b
      <4>1. k - 1 \in 1 .. Len(s) => s[k - 1] < s[k]
        BY <1>1, <1>4
      <4> QED BY <1>3, <2>1, <4>1
    <3> QED BY <1>1, <3>1, <3>2, <3>3
  <2>3. AxisLerp(s, x) = [lower |-> b, upper |-> b, num |-> 0, den |-> 1]
    <3>1. x \in ToSet(s)
      BY <1>5, <2>1
    <3> QED BY <1>0, <3>1 DEF AxisLerp
  <2>4. Beside(s, x, b + 1)
    BY <1>1, <1>6, <2>1, <2>2
  <2> QED BY <1>1, <2>1, <2>2, <2>3, <2>4
<1>8. CASE \A k \in 1 .. Len(s) : s[k] # x
  <2>1. Len(s) >= 2
    BY <1>0, <1>1, <1>5, <1>8 DEF LerpFails
  <2> DEFINE at == IF b + 1 >= Len(s) THEN Len(s) - 2 ELSE b
             w  == s[at + 2] - s[at + 1]
             n  == Clamp(x - s[at + 1], 0, w)
  <2>2. AxisLerp(s, x) = [lower |-> at, upper |-> at + 1, num |-> n, den |-> w]
    <3>1. x \notin ToSet(s)
      BY <1>5, <1>8
    <3> QED BY <1>0, <3>1 DEF AxisLerp
  <2>3. at \in Int /\ at + 1 \in 1 .. Len(s) /\ at + 2 \in 1 .. Len(s)
    BY <1>1, <2>1
  <2> HIDE DEF at
  <2>4. w \in Int /\ w > 0
    BY <1>1, <1>4, <2>3
  <2>5. x - s[at + 1] \in Int
    BY <1>1, <2>3
  <2>6. n \in 0 .. w /\ (n < w => x < s[at + 2]) /\ (n > 0 => s[at + 1] < x)
    BY <1>1, <2>3, <2>4, <2>5 DEF Clamp
  <2>7. n < w => Beside(s, x, at + 1)
    <3> SUFFICES ASSUME n < w, NEW j \in 1 .. Len(s)
                 PROVE  (s[at + 1] < s[j] => x < s[j]) /\ (s[j] < s[at + 1] => s[j] < x)
      BY <1>6, <2>3
    <3>1. x < s[at + 2]
      BY <2>6
    <3>2. s[at + 1] < s[j] => at + 1 < j
      <4>1. at + 1 \in Int /\ j \in Int /\ (j < at + 1 => s[j] < s[at + 1])
        BY <1>1, <1>4, <2>3
      <4> QED BY <1>1, <2>3, <4>1
    <3>3. s[j] < s[at + 1] => j < at + 1
      <4>1. at + 1 \in Int /\ j \in Int /\ (at + 1 < j => s[at + 1] < s[j])
        BY <1>1, <1>4, <2>3
      <4> QED BY <1>1, <2>3, <4>1
    <3>4. at <= b /\ b < at + 2
      <4>1. ~(s[at + 2] < x)
        <5>1. s[at + 2] \in Int
          BY <1>1, <2>3
        <5> QED BY <3>1, <5>1
      <4>2. ~(at + 2 <= b)
        BY <1>3, <2>3, <4>1
      <4>3. at <= b
        BY <1>1, <1>2, <2>1 DEF at
      <4> QED BY <1>2, <2>3, <4>2, <4>3
    <3>5. at + 1 < j => x < s[j]
      <4> SUFFICES ASSUME at + 1 < j PROVE x < s[j]
        OBVIOUS
      <4>1. ~(s[j] < x)
        BY <1>1, <1>3, <2>3, <3>4
      <4> QED BY <1>1, <1>8, <4>1
    <3>6. j < at + 1 => s[j] < x
      BY <1>1, <1>3, <2>3, <3>4
    <3> QED BY <3>2, <3>3, <3>5, <3>6
  <2>8. n > 0 => Beside(s, x, at + 2)
    <3> SUFFICES ASSUME n > 0, NEW j \in 1 .. Len(s)
                 PROVE  (s[at + 2] < s[j] => x < s[j]) /\ (s[j] < s[at + 2] => s[j] < x)
      BY <1>6, <2>3
    <3>1. s[at + 1] < x
      BY <2>6
    <3>2. at + 1 <= b
      BY <1>1, <1>3, <2>3, <3>1
    <3>3. s[at + 2] < s[j] => at + 2 < j
      <4>1. at + 2 \in Int /\ j \in Int /\ (j < at + 2 => s[j] < s[at + 2])
        BY <1>1, <1>4, <2>3
      <4> QED BY <1>1, <2>3, <4>1
    <3>4. s[j] < s[at + 2] => j < at + 2
      <4>1. at + 2 \in Int /\ j \in Int /\ (at + 2 < j => s[at + 2] < s[j])
        BY <1>1, <1>4, <2>3
      <4> QED BY <1>1, <2>3, <4>1
    <3>5. at + 2 = Len(s)
      BY <1>1, <1>2, <2>1, <2>3, <3>2 DEF at
    <3>6. j < at + 2 => s[j] < x
      BY <1>1, <1>3, <2>3, <3>2
    <3> QED BY <1>1, <3>3, <3>4, <3>5, <3>6
  <2> HIDE DEF n, w
  <2>9. AxisLerp(s, x).lower = at /\ AxisLerp(s, x).upper = at + 1
        /\ AxisLerp(s, x).num = n /\ AxisLerp(s, x).den = w
    BY <2>2
  <2>10. at + 1 + 1 = at + 2
    BY <2>3
  <2> QED BY <1>1, <1>8, <2>3, <2>4, <2>6, <2>7, <2>8, <2>9, <2>10
<1> QED BY <1>7, <1>8

(* Of the axes a table may have.                                               *)
AnyOf(s) == CHOOSE x \in s : TRUE
Sums(g, f, A) == g = [s \in SUBSET A |-> IF s = {} THEN 0 ELSE f[AnyOf(s)] + g[s \ {AnyOf(s)}]]
Term(f, A, a) == IF a \in A THEN f[a] ELSE 0

(* The sum over at most two elements is that of their terms.                   *)
LEMMA TwoTerms ==
  ASSUME NEW c, NEW d, c # d, NEW A \in SUBSET {c, d}, NEW f, \A a \in A : f[a] \in Int
  PROVE  /\ \E g : Sums(g, f, A)
         /\ \A g : Sums(g, f, A) => g[A] = Term(f, A, c) + Term(f, A, d)
<1>1. \A s \in SUBSET A : s # {} => AnyOf(s) \in s
  BY DEF AnyOf
<1>2. \A s \in SUBSET A : Term(f, s, c) \in Int /\ Term(f, s, d) \in Int
  BY DEF Term
<1>3. \A s \in SUBSET A : s # {} =>
        Term(f, s, c) + Term(f, s, d)
          = f[AnyOf(s)] + (Term(f, s \ {AnyOf(s)}, c) + Term(f, s \ {AnyOf(s)}, d))
  <2> SUFFICES ASSUME NEW s \in SUBSET A, s # {}, NEW x \in s, x = AnyOf(s)
               PROVE  Term(f, s, c) + Term(f, s, d)
                        = f[x] + (Term(f, s \ {x}, c) + Term(f, s \ {x}, d))
    BY <1>1
  <2>1. CASE x = c
    <3>1. Term(f, s \ {c}, c) = 0 /\ Term(f, s \ {c}, d) = Term(f, s, d) /\ Term(f, s, c) = f[c]
      BY <2>1 DEF Term
    <3>2. f[c] \in Int /\ Term(f, s, d) \in Int
      BY <1>2, <2>1
    <3> QED BY <2>1, <3>1, <3>2
  <2>2. CASE x = d
    <3>1. Term(f, s \ {d}, d) = 0 /\ Term(f, s \ {d}, c) = Term(f, s, c) /\ Term(f, s, d) = f[d]
      BY <2>2 DEF Term
    <3>2. f[d] \in Int /\ Term(f, s, c) \in Int
      BY <1>2, <2>2
    <3> QED BY <2>2, <3>1, <3>2
  <2> QED BY <2>1, <2>2
<1>4. \E g : Sums(g, f, A)
  <2> DEFINE g == [s \in SUBSET A |-> Term(f, s, c) + Term(f, s, d)]
  <2>1. Term(f, {}, c) + Term(f, {}, d) = 0
    BY DEF Term
  <2>2. \A s \in SUBSET A : s \ {AnyOf(s)} \in SUBSET A
    OBVIOUS
  <2>3. g = [s \in SUBSET A |-> IF s = {} THEN 0 ELSE f[AnyOf(s)] + g[s \ {AnyOf(s)}]]
    BY <1>3, <2>1, <2>2
  <2> QED BY <2>3 DEF Sums
<1>5. ASSUME NEW g, Sums(g, f, A) PROVE g[A] = Term(f, A, c) + Term(f, A, d)
  <2>1. \A s \in SUBSET A : g[s] = IF s = {} THEN 0 ELSE f[AnyOf(s)] + g[s \ {AnyOf(s)}]
    BY <1>5 DEF Sums
  <2>2. g[{}] = 0
    BY <2>1
  <2>3. \A x \in A : g[{x}] = f[x]
    <3> SUFFICES ASSUME NEW x \in A PROVE g[{x}] = f[x]
      OBVIOUS
    <3>1. AnyOf({x}) = x /\ {x} \ {x} = {} /\ {x} \in SUBSET A /\ {x} # {}
      BY <1>1
    <3>2. g[{x}] = f[x] + g[{}]
      BY <2>1, <3>1
    <3> QED BY <2>2, <3>2
  <2>4. CASE A = {c, d}
    <3>1. AnyOf(A) \in {c, d}
      BY <1>1, <2>4
    <3>2. {c, d} \ {c} = {d} /\ {c, d} \ {d} = {c}
      OBVIOUS
    <3>3. g[A] = f[AnyOf(A)] + g[A \ {AnyOf(A)}]
      BY <2>1, <2>4
    <3>4. g[A] = f[c] + f[d] \/ g[A] = f[d] + f[c]
      BY <2>3, <2>4, <3>1, <3>2, <3>3
    <3>5. f[c] \in Int /\ f[d] \in Int /\ Term(f, A, c) = f[c] /\ Term(f, A, d) = f[d]
      BY <2>4 DEF Term
    <3> QED BY <3>4, <3>5
  <2>5. CASE A = {c}
    BY <2>3, <2>5 DEF Term
  <2>6. CASE A = {d}
    BY <2>3, <2>6 DEF Term
  <2>7. CASE A = {}
    BY <2>2, <2>7 DEF Term
  <2> QED BY <2>4, <2>5, <2>6, <2>7
<1> QED BY <1>4, <1>5

AllAxes == {InTrans, OutCap}
Share(fmt, p, a) == IF a \in DOMAIN p THEN p[a] * fmt[a].stride ELSE 0

(* Where a point is stored is the sum of what its axes contribute.             *)
LEMMA OffsetIs ==
  ASSUME NEW fmt, NEW A \in SUBSET AllAxes, NEW p \in [A -> Nat],
         \A a \in A : fmt[a].stride \in Nat
  PROVE  /\ Offset(fmt, p) = Share(fmt, p, InTrans) + Share(fmt, p, OutCap)
         /\ Share(fmt, p, InTrans) \in Nat /\ Share(fmt, p, OutCap) \in Nat
<1> DEFINE f == [a \in A |-> p[a] * fmt[a].stride]
           Part(g, s) == IF s = {} THEN 0 ELSE LET x == AnyOf(s) IN p[x] * fmt[x].stride + g[s \ {x}]
           iter == CHOOSE g : g = [s \in SUBSET A |-> Part(g, s)]
<1>1. DOMAIN p = A /\ \A a \in A : p[a] \in Nat /\ f[a] = p[a] * fmt[a].stride
  OBVIOUS
<1>2. \A a \in A : f[a] \in Nat
  BY <1>1
<1>3. Offset(fmt, p) = iter[A]
  BY <1>1 DEF Offset, MapThenSumSet, MapThenFoldSet, AnyOf
<1>4. ASSUME NEW g PROVE g = [s \in SUBSET A |-> Part(g, s)] <=> Sums(g, f, A)
  <2>1. \A s \in SUBSET A : s # {} => f[AnyOf(s)] = p[AnyOf(s)] * fmt[AnyOf(s)].stride
    BY <1>1 DEF AnyOf
  <2>2. \A s \in SUBSET A : Part(g, s) = IF s = {} THEN 0 ELSE f[AnyOf(s)] + g[s \ {AnyOf(s)}]
    BY <2>1
  <2> HIDE DEF f, Part
  <2> QED BY <2>2 DEF Sums
<1>5. InTrans # OutCap /\ A \in SUBSET {InTrans, OutCap}
  BY DEF InTrans, OutCap, AllAxes
<1>6. (\E g : Sums(g, f, A)) /\ \A g : Sums(g, f, A) => g[A] = Term(f, A, InTrans) + Term(f, A, OutCap)
  <2> HIDE DEF f
  <2> QED BY <1>2, <1>5, TwoTerms
<1>7. Sums(iter, f, A)
  <2>1. \E g : g = [s \in SUBSET A |-> Part(g, s)]
    <3> HIDE DEF f, Part
    <3> QED BY <1>4, <1>6
  <2>2. iter = [s \in SUBSET A |-> Part(iter, s)]
    <3> HIDE DEF Part
    <3> QED BY <2>1
  <2> HIDE DEF iter, f, Part
  <2> QED BY <1>4, <2>2
<1>8. Term(f, A, InTrans) = Share(fmt, p, InTrans) /\ Term(f, A, OutCap) = Share(fmt, p, OutCap)
  BY <1>1 DEF Term, Share
<1>9. Share(fmt, p, InTrans) \in Nat /\ Share(fmt, p, OutCap) \in Nat
  <2> HIDE DEF f
  <2> QED BY <1>2, <1>8 DEF Term
<1> QED
  <2> HIDE DEF iter, f
  <2> QED BY <1>3, <1>6, <1>7, <1>8, <1>9

(* The points of a format have a position within each axis.                    *)
LEMMA PointsAre ==
  ASSUME NEW fmt, NEW A \in SUBSET AllAxes, \A a \in A : Extent(fmt, a) \in Nat
  PROVE  Points(fmt, A) = {p \in [A -> Nat] : \A a \in A : p[a] < Extent(fmt, a)}
<1> DEFINE S == {0} \cup {Extent(fmt, a) : a \in A}
<1>1. PICK n \in Nat : \A a \in A : Extent(fmt, a) <= n
  <2>1. CASE A = {}
    BY <2>1
  <2>2. CASE A = {InTrans}
    BY <2>2
  <2>3. CASE A = {OutCap}
    BY <2>3
  <2>4. CASE A = {InTrans, OutCap}
    <3>1. PICK x, y \in Nat : x = Extent(fmt, InTrans) /\ y = Extent(fmt, OutCap)
      BY <2>4
    <3>2. x + y \in Nat /\ x <= x + y /\ y <= x + y
      OBVIOUS
    <3> QED BY <2>4, <3>1, <3>2
  <2> QED BY <2>1, <2>2, <2>3, <2>4 DEF AllAxes
<1>2. S \in SUBSET (0 .. n) /\ S # {}
  BY <1>1
<1>3. Max(S) \in S /\ \A x \in S : x <= Max(S)
  <2> HIDE DEF S
  <2> QED BY <1>2, LargestThere
<1>4. Max(S) \in Nat /\ \A a \in A : Extent(fmt, a) <= Max(S)
  BY <1>2, <1>3
<1>5. Points(fmt, A) = {p \in [A -> 0 .. Max(S)] : \A a \in A : p[a] < Extent(fmt, a)}
  BY DEF Points
<1> HIDE DEF S
<1>6. ASSUME NEW p \in [A -> Nat], \A a \in A : p[a] < Extent(fmt, a) PROVE p \in [A -> 0 .. Max(S)]
  BY <1>4, <1>6
<1>7. ASSUME NEW p \in [A -> 0 .. Max(S)] PROVE p \in [A -> Nat]
  BY <1>4, <1>7
<1> QED BY <1>5, <1>6, <1>7

(* At most one axis, and it is b.                                              *)
AtMost(A, b) == A = {} \/ A = {b}

(* A sequence of at most one axis.                                             *)
LEMMA ByNumberOne ==
  ASSUME NEW b, NEW A, AtMost(A, b)
  PROVE  /\ DOMAIN ByNumber(A) = 1 .. Cardinality(A)
         /\ {ByNumber(A)[i] : i \in DOMAIN ByNumber(A)} = A
         /\ Cardinality(A) = IF A = {} THEN 0 ELSE 1
         /\ A # {} => ByNumber(A)[1] = b
<1>1. Cardinality(A) = IF A = {} THEN 0 ELSE 1
  BY FS_EmptySet, FS_Singleton DEF AtMost
<1> DEFINE Good(q) == \A i, j \in DOMAIN q : i < j => q[i] < q[j]
<1>2. \E q \in [1 .. Cardinality(A) -> A] : Good(q)
  <2>1. CASE A = {}
    <3>1. [i \in {} |-> b] \in [1 .. Cardinality(A) -> A]
      BY <1>1, <2>1
    <3>2. Good([i \in {} |-> b])
      OBVIOUS
    <3> QED BY <3>1, <3>2
  <2>2. CASE A = {b}
    <3>1. [i \in {1} |-> b] \in [1 .. Cardinality(A) -> A]
      BY <1>1, <2>2
    <3>2. Good([i \in {1} |-> b])
      OBVIOUS
    <3> QED BY <3>1, <3>2
  <2> QED BY <2>1, <2>2 DEF AtMost
<1>3. ByNumber(A) \in [1 .. Cardinality(A) -> A]
  <2>1. ByNumber(A) = CHOOSE q \in [1 .. Cardinality(A) -> A] : Good(q)
    BY DEF ByNumber
  <2> HIDE DEF Good
  <2> QED BY <1>2, <2>1
<1>4. CASE A = {}
  BY <1>1, <1>3, <1>4
<1>5. CASE A = {b}
  <2>1. ByNumber(A) \in [{1} -> {b}]
    <3>1. Cardinality(A) = 1 /\ 1 .. 1 = {1}
      BY <1>1, <1>5
    <3> QED BY <1>3, <1>5, <3>1
  <2> QED BY <1>1, <1>3, <1>5, <2>1
<1> QED BY <1>4, <1>5 DEF AtMost

(* The format of what is left when all axes but one at most are fixed.         *)
LEMMA RestFormat ==
  ASSUME NEW b, NEW A, AtMost(A, b), NEW f
  PROVE  LET U == UpdateStrides([a \in A |-> f[a].indices]) IN
         /\ DOMAIN U = A
         /\ \A a \in A : U[a].indices = f[a].indices /\ U[a].stride = 1
<1> DEFINE ix == [a \in A |-> f[a].indices]
           q  == ByNumber(A)
           Strd(a) == LET k == CHOOSE i \in DOMAIN q : q[i] = a IN
                      FoldSet(LAMBDA e, n : Len(ix[e]) * n, 1, {q[i] : i \in 1 .. k - 1})
<1>1. UpdateStrides(ix) = [a \in ToSet(q) |-> [indices |-> ix[a], stride |-> Strd(a)]]
  BY DEF UpdateStrides, Laid
<1>2. ToSet(q) = A
  BY ByNumberOne DEF ToSet
<1>3. ASSUME NEW a \in A PROVE Strd(a) = 1
  <2>1. A = {b} /\ a = b
    BY <1>3 DEF AtMost
  <2>2. DOMAIN q = {1} /\ q[1] = b
    <3>1. A # {} /\ 1 .. 1 = {1}
      BY <2>1
    <3> QED BY <3>1, ByNumberOne
  <2>3. (CHOOSE i \in DOMAIN q : q[i] = a) = 1
    BY <2>1, <2>2
  <2>4. Strd(a) = FoldSet(LAMBDA e, n : Len(ix[e]) * n, 1, {})
    <3>1. {q[i] : i \in 1 .. 1 - 1} = {}
      OBVIOUS
    <3> HIDE DEF q, ix
    <3> QED BY <2>3, <3>1
  <2> DEFINE g == CHOOSE g : g = [s \in SUBSET {} |-> IF s = {} THEN 1 ELSE LET x == AnyOf(s) IN Len(ix[x]) * g[s \ {x}]]
  <2>5. FoldSet(LAMBDA e, n : Len(ix[e]) * n, 1, {}) = g[{}]
    <3> HIDE DEF ix
    <3> QED BY DEF FoldSet, MapThenFoldSet, AnyOf
  <2>6. g[{}] = 1
    <3> DEFINE h == [s \in SUBSET {} |-> 1]
    <3> HIDE DEF ix
    <3>1. SUBSET {} = {{}}
      OBVIOUS
    <3>2. h = [s \in SUBSET {} |-> IF s = {} THEN 1 ELSE LET x == AnyOf(s) IN Len(ix[x]) * h[s \ {x}]]
      BY <3>1
    <3> HIDE DEF h
    <3>3. g = [s \in SUBSET {} |-> IF s = {} THEN 1 ELSE LET x == AnyOf(s) IN Len(ix[x]) * g[s \ {x}]]
      BY <3>2
    <3> HIDE DEF g
    <3> QED BY <3>3
  <2> QED BY <2>4, <2>5, <2>6
<1>4. DOMAIN UpdateStrides(ix) = A
  <2> HIDE DEF Strd, ix, q
  <2> QED BY <1>1, <1>2
<1>5. \A a \in A : UpdateStrides(ix)[a] = [indices |-> ix[a], stride |-> Strd(a)]
  <2> HIDE DEF Strd, ix, q
  <2> QED BY <1>1, <1>2
<1>6. \A a \in A : ix[a] = f[a].indices
  OBVIOUS
<1>7. \A a \in A : UpdateStrides(ix)[a].indices = f[a].indices /\ UpdateStrides(ix)[a].stride = 1
  <2> HIDE DEF Strd, ix, q
  <2> SUFFICES ASSUME NEW a \in A
               PROVE  UpdateStrides(ix)[a].indices = f[a].indices /\ UpdateStrides(ix)[a].stride = 1
    OBVIOUS
  <2>1. UpdateStrides(ix)[a] = [indices |-> ix[a], stride |-> 1]
    BY <1>3, <1>5
  <2> QED BY <1>6, <2>1
<1> QED BY <1>4, <1>7

(* How many values a table of at most one axis has.                            *)
LEMMA NumValuesOne ==
  ASSUME NEW b, NEW A, AtMost(A, b), NEW fmt, \A a \in A : Extent(fmt, a) \in Nat
  PROVE  NumValues(fmt, A) = IF A = {} THEN 1 ELSE Extent(fmt, b)
<1> DEFINE Part(g, s) == IF s = {} THEN 1 ELSE LET x == AnyOf(s) IN Extent(fmt, x) * g[s \ {x}]
           g == CHOOSE g : g = [s \in SUBSET A |-> Part(g, s)]
           h == [s \in SUBSET A |-> IF s = {} THEN 1 ELSE Extent(fmt, b)]
<1>1. NumValues(fmt, A) = g[A]
  BY DEF NumValues, FoldSet, MapThenFoldSet, AnyOf
<1>2. \A s \in SUBSET A : s # {} => A = {b} /\ s = {b} /\ AnyOf(s) = b /\ s \ {AnyOf(s)} = {} /\ Extent(fmt, b) \in Nat
  BY DEF AtMost, AnyOf
<1>3. h = [s \in SUBSET A |-> Part(h, s)]
  <2>1. h[{}] = 1
    OBVIOUS
  <2>2. \A s \in SUBSET A : h[s] = Part(h, s)
    <3> SUFFICES ASSUME NEW s \in SUBSET A PROVE h[s] = Part(h, s)
      OBVIOUS
    <3>1. CASE s = {}
      BY <3>1
    <3>2. CASE s # {}
      <4>1. h[s] = Extent(fmt, b)
        BY <3>2
      <4>2. Part(h, s) = Extent(fmt, b) * h[{}]
        <5> HIDE DEF h
        <5> QED BY <1>2, <3>2
      <4>3. Extent(fmt, b) \in Nat
        BY <1>2, <3>2
      <4> QED
        <5> HIDE DEF h, Part
        <5> QED BY <2>1, <4>1, <4>2, <4>3
    <3> QED BY <3>1, <3>2
  <2> HIDE DEF Part
  <2> QED BY <2>2
<1>4. g = [s \in SUBSET A |-> Part(g, s)]
  <2> HIDE DEF h, Part
  <2> QED BY <1>3
<1> HIDE DEF g
<1>5. \A s \in SUBSET A : g[s] = Part(g, s)
  <2> HIDE DEF Part
  <2> QED BY <1>4
<1>6. g[{}] = 1
  BY <1>5
<1>7. CASE A = {}
  BY <1>1, <1>6, <1>7
<1>8. CASE A = {b}
  <2>1. g[A] = Extent(fmt, b) * 1
    <3>1. A \in SUBSET A /\ A # {} /\ AnyOf(A) = b /\ A \ {b} = {}
      BY <1>2, <1>8
    <3>2. Part(g, A) = Extent(fmt, b) * g[{}]
      BY <3>1
    <3>3. g[A] = Part(g, A)
      <4> HIDE DEF Part
      <4> QED BY <1>5, <3>1
    <3> QED
      <4> HIDE DEF Part
      <4> QED BY <1>6, <3>2, <3>3
  <2> QED BY <1>1, <1>8, <2>1
<1> QED BY <1>7, <1>8 DEF AtMost

(* Reading along one axis takes two places.                                    *)
LEMMA SlotsOfOne ==
  ASSUME NEW fmt, NEW l, l.by.lower \in Nat, l.by.upper \in Nat, l.by.den \in Nat, l.by.num \in Int,
         fmt[l.axis].stride \in Nat, NEW q, DOMAIN q = {1}, q[1] = l
  PROVE  LerpSlots(fmt, q) =
           [at  |-> <<[off |-> l.by.lower * fmt[l.axis].stride, w |-> l.by.den - l.by.num],
                      [off |-> l.by.upper * fmt[l.axis].stride, w |-> l.by.num]>>,
            den |-> l.by.den]
<1> DEFINE s0 == [at |-> <<[off |-> 0, w |-> 1]>>, den |-> 1]
           Op(s, e) ==
             [at  |-> [k \in DOMAIN s.at |-> [off |-> s.at[k].off + e.by.lower * fmt[e.axis].stride,
                                              w   |-> s.at[k].w * (e.by.den - e.by.num)]]
                      \o [k \in DOMAIN s.at |-> [off |-> e.by.upper * fmt[e.axis].stride,
                                                 w   |-> e.by.num * s.den]],
              den |-> s.den * e.by.den]
           Part(g, s) == IF s = {} THEN s0 ELSE LET x == Max(s) IN Op(g[s \ {x}], q[x])
           g == CHOOSE g : g = [s \in SUBSET (DOMAIN q) |-> Part(g, s)]
           h == [s \in SUBSET {1} |-> IF s = {} THEN s0 ELSE Op(s0, l)]
<1>1. LerpSlots(fmt, q) = g[DOMAIN q]
  BY DEF LerpSlots, FoldLeft, MapThenFoldSet
<1>2. Max({1}) = 1
  BY DEF Max
<1>3. \A s \in SUBSET {1} : s = {} \/ s = {1}
  OBVIOUS
<1>4. h[{}] = s0 /\ h[{1}] = Op(s0, l)
  <2> HIDE DEF s0, Op
  <2> QED OBVIOUS
<1>5. \A s \in SUBSET {1} : h[s] = Part(h, s)
  <2>1. Part(h, {}) = s0
    OBVIOUS
  <2>2. Part(h, {1}) = Op(h[{}], l)
    <3> HIDE DEF h, Op, s0
    <3>1. {1} \ {1} = {}
      OBVIOUS
    <3> QED BY <1>2, <3>1
  <2> HIDE DEF h, Op, Part, s0
  <2> QED BY <1>3, <1>4, <2>1, <2>2
<1>6. h = [s \in SUBSET (DOMAIN q) |-> Part(h, s)]
  <2>1. h = [s \in SUBSET {1} |-> h[s]]
    OBVIOUS
  <2> HIDE DEF h, Part
  <2> QED BY <1>5, <2>1
<1>7. g = [s \in SUBSET (DOMAIN q) |-> Part(g, s)]
  <2> HIDE DEF h, Part
  <2> QED BY <1>6
<1> HIDE DEF g
<1>8. \A s \in SUBSET {1} : g[s] = Part(g, s)
  <2> HIDE DEF Part
  <2> QED BY <1>7
<1>9. g[{}] = s0
  BY <1>8
<1>10. g[{1}] = Op(g[{}], l)
  <2>1. {1} \ {1} = {} /\ {1} \in SUBSET {1} /\ {1} # {}
    OBVIOUS
  <2>2. Part(g, {1}) = Op(g[{}], l)
    <3> HIDE DEF Op
    <3> QED BY <1>2, <2>1
  <2> HIDE DEF Op, Part
  <2> QED BY <1>8, <2>1, <2>2
<1>11. LerpSlots(fmt, q) = Op(s0, l)
  <2> HIDE DEF Op, s0
  <2> QED BY <1>1, <1>9, <1>10
<1> DEFINE u == [off |-> l.by.lower * fmt[l.axis].stride, w |-> l.by.den - l.by.num]
           v == [off |-> l.by.upper * fmt[l.axis].stride, w |-> l.by.num]
           U == [k \in DOMAIN s0.at |-> [off |-> s0.at[k].off + l.by.lower * fmt[l.axis].stride,
                                         w   |-> s0.at[k].w * (l.by.den - l.by.num)]]
           V == [k \in DOMAIN s0.at |-> [off |-> l.by.upper * fmt[l.axis].stride, w |-> l.by.num * s0.den]]
<1>12. DOMAIN s0.at = {1} /\ s0.at[1].off = 0 /\ s0.at[1].w = 1 /\ s0.den = 1
  OBVIOUS
<1>13. l.by.lower * fmt[l.axis].stride \in Nat
  OBVIOUS
<1>14. U = <<u>>
  <2> HIDE DEF s0
  <2>1. 0 + l.by.lower * fmt[l.axis].stride = l.by.lower * fmt[l.axis].stride
    BY <1>13
  <2>2. 1 * (l.by.den - l.by.num) = l.by.den - l.by.num
    OBVIOUS
  <2>3. DOMAIN U = {1} /\ U[1] = u
    BY <1>12, <2>1, <2>2
  <2>4. U = [k \in {1} |-> u]
    BY <1>12, <2>3
  <2> HIDE DEF U, u
  <2> QED BY <2>4
<1>15. V = <<v>>
  <2> HIDE DEF s0
  <2>1. l.by.num * 1 = l.by.num
    OBVIOUS
  <2>2. DOMAIN V = {1} /\ V[1] = v
    BY <1>12, <2>1
  <2>3. V = [k \in {1} |-> v]
    BY <1>12, <2>2
  <2> HIDE DEF V, v
  <2> QED BY <2>3
<1>16. s0.den * l.by.den = l.by.den
  <2> HIDE DEF s0
  <2> QED BY <1>12
<1>17. Op(s0, l) = [at |-> U \o V, den |-> s0.den * l.by.den]
  <2> HIDE DEF s0
  <2> QED OBVIOUS
<1>18. <<u>> \o <<v>> = <<u, v>>
  <2>1. ASSUME NEW x, NEW y PROVE <<x>> \o <<y>> = <<x, y>>
    <3> DEFINE S == {x, y}
    <3>1. <<x>> \in Seq(S) /\ <<y>> \in Seq(S) /\ Len(<<x>>) = 1 /\ Len(<<y>>) = 1
      OBVIOUS
    <3>2. <<x>> \o <<y>> \in Seq(S) /\ Len(<<x>> \o <<y>>) = 2
      BY <3>1
    <3>3. (<<x>> \o <<y>>)[1] = x /\ (<<x>> \o <<y>>)[2] = y
      BY <3>1
    <3>4. <<x, y>> \in Seq(S) /\ Len(<<x, y>>) = 2 /\ <<x, y>>[1] = x /\ <<x, y>>[2] = y
      OBVIOUS
    <3>5. \A i \in 1 .. 2 : (<<x>> \o <<y>>)[i] = <<x, y>>[i]
      BY <3>3, <3>4
    <3> HIDE DEF S
    <3> QED BY <3>2, <3>4, <3>5, SeqEqual
  <2> HIDE DEF u, v
  <2> QED BY <2>1
<1> QED
  <2> HIDE DEF U, V, Op, s0
  <2>1. Op(s0, l) = [at |-> <<u, v>>, den |-> l.by.den]
    BY <1>14, <1>15, <1>16, <1>17, <1>18
  <2> QED BY <1>11, <2>1

(* What is left of table T when axis a is fixed.                               *)
RestOf(T, a) == DOMAIN T.fmt \ {a}
CutFmt(T, a) == UpdateStrides([b \in RestOf(T, a) |-> T.fmt[b].indices])

LEMMA CutFormat ==
  ASSUME NEW T, IsTable(T), NEW a \in DOMAIN T.fmt
  PROVE  /\ DOMAIN CutFmt(T, a) = RestOf(T, a)
         /\ \A b \in RestOf(T, a) : CutFmt(T, a)[b].indices = T.fmt[b].indices /\ CutFmt(T, a)[b].stride = 1
         /\ \E b : AtMost(RestOf(T, a), b)
<1>1. \E b : AtMost(RestOf(T, a), b)
  <2>1. DOMAIN T.fmt \subseteq {InTrans, OutCap}
    BY DEF IsTable
  <2>2. a = InTrans => AtMost(RestOf(T, a), OutCap)
    BY <2>1 DEF AtMost, RestOf
  <2>3. a = OutCap => AtMost(RestOf(T, a), InTrans)
    BY <2>1 DEF AtMost, RestOf
  <2> QED BY <2>1, <2>2, <2>3
<1>2. PICK b : AtMost(RestOf(T, a), b)
  BY <1>1
<1> QED BY <1>1, <1>2, RestFormat DEF CutFmt

(* Its points are those of T without the axis, each stored at a place of its    *)
(* own, which the new table has.                                               *)
LEMMA CutPoints ==
  ASSUME NEW T, IsTable(T), NEW a \in DOMAIN T.fmt
  PROVE  LET U == CutFmt(T, a)
             A == RestOf(T, a)
         IN  /\ Points(U, A) = {p \in [A -> Nat] : \A b \in A : p[b] < Extent(T.fmt, b)}
             /\ \A p \in Points(U, A) : Offset(U, p) \in 0 .. NumValues(U, A) - 1
             /\ \A p, q \in Points(U, A) : Offset(U, p) = Offset(U, q) => p = q
<1> DEFINE U == CutFmt(T, a)
           A == RestOf(T, a)
<1>1. DOMAIN U = A /\ (\A b \in A : U[b].indices = T.fmt[b].indices /\ U[b].stride = 1) /\ \E b : AtMost(A, b)
  BY CutFormat
<1>2. A \in SUBSET AllAxes /\ A \subseteq DOMAIN T.fmt
  BY DEF IsTable, AllAxes, RestOf
<1>3. \A b \in A : Extent(U, b) = Extent(T.fmt, b) /\ Extent(U, b) \in Nat
  <2>1. \A b \in A : T.fmt[b].indices \in Seq(Int)
    BY <1>2 DEF IsTable, Axis
  <2> HIDE DEF U, A
  <2> QED BY <1>1, <2>1 DEF Extent
<1> HIDE DEF U, A
<1>4. Points(U, A) = {p \in [A -> Nat] : \A b \in A : p[b] < Extent(U, b)}
  BY <1>2, <1>3, PointsAre
<1>5. PICK b : AtMost(A, b)
  BY <1>1
<1>6. NumValues(U, A) = IF A = {} THEN 1 ELSE Extent(U, b)
  BY <1>3, <1>5, NumValuesOne
<1>7. ASSUME NEW p \in Points(U, A) PROVE Offset(U, p) = IF A = {} THEN 0 ELSE p[b]
  <2>1. p \in [A -> Nat] /\ DOMAIN p = A /\ \A e \in A : U[e].stride = 1 /\ U[e].stride \in Nat /\ p[e] \in Nat
    BY <1>1, <1>4
  <2>2. Offset(U, p) = Share(U, p, InTrans) + Share(U, p, OutCap)
    BY <1>2, <2>1, OffsetIs
  <2>3. \A e \in A : Share(U, p, e) = p[e]
    <3> SUFFICES ASSUME NEW e \in A PROVE Share(U, p, e) = p[e]
      OBVIOUS
    <3>1. Share(U, p, e) = p[e] * 1
      BY <2>1 DEF Share
    <3> QED BY <2>1, <3>1
  <2>4. \A e : e \notin A => Share(U, p, e) = 0
    BY <2>1 DEF Share
  <2>5. InTrans # OutCap /\ A \subseteq {InTrans, OutCap}
    BY <1>2 DEF InTrans, OutCap, AllAxes
  <2>6. CASE A = {}
    BY <2>2, <2>4, <2>6
  <2>7. CASE A = {b}
    <3>1. p[b] \in Nat /\ (b = InTrans \/ b = OutCap)
      BY <2>1, <2>5, <2>7
    <3>2. b = InTrans => Offset(U, p) = p[b] + 0
      BY <2>2, <2>3, <2>4, <2>5, <2>7
    <3>3. b = OutCap => Offset(U, p) = 0 + p[b]
      BY <2>2, <2>3, <2>4, <2>5, <2>7
    <3> QED BY <2>7, <3>1, <3>2, <3>3
  <2> QED BY <1>5, <2>6, <2>7 DEF AtMost
<1>8. ASSUME NEW p \in Points(U, A) PROVE Offset(U, p) \in 0 .. NumValues(U, A) - 1
  <2>1. CASE A = {}
    BY <1>6, <1>7, <2>1
  <2>2. CASE A = {b}
    <3>1. p[b] \in Nat /\ p[b] < Extent(U, b) /\ Extent(U, b) \in Nat
      BY <1>3, <1>4, <2>2
    <3> QED BY <1>6, <1>7, <2>2, <3>1
  <2> QED BY <1>5, <2>1, <2>2 DEF AtMost
<1>9. ASSUME NEW p \in Points(U, A), NEW q \in Points(U, A), Offset(U, p) = Offset(U, q) PROVE p = q
  <2>1. p \in [A -> Nat] /\ q \in [A -> Nat]
    BY <1>4
  <2>2. A # {} => p[b] = q[b]
    BY <1>7, <1>9
  <2>3. \A e \in A : p[e] = q[e]
    BY <1>5, <2>2 DEF AtMost
  <2> QED BY <2>1, <2>3
<1> QED
  <2>1. {p \in [A -> Nat] : \A e \in A : p[e] < Extent(U, e)} = {p \in [A -> Nat] : \A e \in A : p[e] < Extent(T.fmt, e)}
    BY <1>3
  <2> QED BY <1>4, <1>8, <1>9, <2>1 DEF U, A

(* A point of what is left, put back on the axis, is a point of the table.     *)
LEMMA MovedPoint ==
  ASSUME NEW T, IsTable(T), NEW a \in DOMAIN T.fmt,
         NEW p \in Points(CutFmt(T, a), RestOf(T, a)), NEW k \in Nat, k < Extent(T.fmt, a)
  PROVE  /\ Moved(p, a, k) \in Points(T.fmt, DOMAIN T.fmt)
         /\ Offset(T.fmt, Moved(p, a, k)) = Offset(T.fmt, p) + k * T.fmt[a].stride
         /\ Narrow(p, RestOf(T, a)) = p
         /\ Offset(T.fmt, p) \in Nat
         /\ T.fmt[a].stride \in Nat
<1> DEFINE A == RestOf(T, a)
           D == DOMAIN T.fmt
           m == Moved(p, a, k)
           fmt == T.fmt
<1>1. p \in [A -> Nat] /\ \A b \in A : p[b] < Extent(fmt, b)
  BY CutPoints
<1>2. A = D \ {a} /\ a \in D /\ D \subseteq {InTrans, OutCap} /\ D \in SUBSET AllAxes /\ A \in SUBSET AllAxes
  BY DEF IsTable, RestOf, AllAxes
<1>3. \A b \in D : fmt[b].stride \in Nat /\ Extent(fmt, b) \in Nat
  BY DEF IsTable, Axis, Extent
<1> HIDE DEF A, D, fmt
<1>4. m = [b \in D |-> IF b = a THEN k ELSE p[b]]
  <2>1. DOMAIN p \cup {a} = D
    BY <1>1, <1>2
  <2> QED BY <2>1 DEF Moved
<1> HIDE DEF m
<1>5. m \in [D -> Nat] /\ \A b \in D : m[b] < Extent(fmt, b)
  <2>1. k < Extent(fmt, a)
    BY DEF fmt
  <2> QED BY <1>1, <1>2, <1>4, <2>1
<1>6. m \in Points(fmt, D)
  BY <1>2, <1>3, <1>5, PointsAre
<1>7. Offset(fmt, m) = Share(fmt, m, InTrans) + Share(fmt, m, OutCap)
  BY <1>2, <1>3, <1>5, OffsetIs
<1>8. /\ Offset(fmt, p) = Share(fmt, p, InTrans) + Share(fmt, p, OutCap)
      /\ Share(fmt, p, InTrans) \in Nat /\ Share(fmt, p, OutCap) \in Nat
  <2>1. \A b \in A : fmt[b].stride \in Nat
    BY <1>2, <1>3
  <2> QED BY <1>1, <1>2, <2>1, OffsetIs
<1>9. Share(fmt, p, a) = 0 /\ Share(fmt, m, a) = k * fmt[a].stride
  BY <1>1, <1>2, <1>4 DEF Share
<1>10. \A b : b # a => Share(fmt, m, b) = Share(fmt, p, b)
  BY <1>1, <1>2, <1>4 DEF Share
<1>11. k * fmt[a].stride \in Nat
  BY <1>2, <1>3
<1>12. Offset(fmt, m) = Offset(fmt, p) + k * fmt[a].stride
  <2>1. InTrans # OutCap
    BY DEF InTrans, OutCap
  <2>2. CASE a = InTrans
    BY <1>7, <1>8, <1>9, <1>10, <1>11, <2>1, <2>2
  <2>3. CASE a = OutCap
    BY <1>7, <1>8, <1>9, <1>10, <1>11, <2>1, <2>3
  <2> QED BY <1>2, <2>2, <2>3
<1>13. Narrow(p, A) = p
  BY <1>1 DEF Narrow
<1> QED BY <1>2, <1>3, <1>6, <1>8, <1>12, <1>13 DEF A, D, m, fmt

(* What it reads for a point, and the value that it gives the point.           *)
Held(A, src, p, d) == src.data[Offset(src.fmt, Narrow(p, A \cap DOMAIN src.fmt)) + d]
Mixed(A, src, slots, p) ==
  MapThenSumSet(LAMBDA k : slots.at[k].w * src.data[Offset(src.fmt, Narrow(p, A \cap DOMAIN src.fmt)) + slots.at[k].off],
                DOMAIN slots.at) \div slots.den

(* Each point has a place of its own among n.                                  *)
Apart(fmt, n) ==
  \A p \in Points(fmt, DOMAIN fmt) :
    /\ Offset(fmt, p) \in 0 .. n - 1
    /\ \A q \in Points(fmt, DOMAIN fmt) : Offset(fmt, p) = Offset(fmt, q) => p = q
Blank(fmt, n) == [fmt |-> fmt, own |-> FALSE, data |-> [k \in 0 .. n - 1 |-> 0]]

(* What CopyValues leaves in such a table.                                     *)
LEMMA CopyAll ==
  ASSUME NEW fmt, NEW src, NEW lerps, NEW n \in Nat, Apart(fmt, n)
  PROVE  /\ CopyValues(DOMAIN fmt, Blank(fmt, n), src, 0, lerps).fmt = fmt
         /\ \A p \in Points(fmt, DOMAIN fmt) :
              CopyValues(DOMAIN fmt, Blank(fmt, n), src, 0, lerps).data[Offset(fmt, p)]
                = Mixed(DOMAIN fmt, src, LerpSlots(src.fmt, lerps), p)
<1> DEFINE A == DOMAIN fmt
           dst == Blank(fmt, n)
           slots == LerpSlots(src.fmt, lerps)
           B == A \cap DOMAIN dst.fmt
           Hit(k) == {p \in Points(dst.fmt, B) : 0 + Offset(dst.fmt, p) = k}
           new == [k \in DOMAIN dst.data |-> IF Hit(k) = {} THEN dst.data[k] ELSE Mixed(B, src, slots, CHOOSE p \in Hit(k) : TRUE)]
<1>0. /\ dst.fmt = fmt /\ dst.data = [k \in 0 .. n - 1 |-> 0] /\ A = DOMAIN dst.fmt
      /\ dst = [fmt |-> fmt, own |-> FALSE, data |-> [k \in 0 .. n - 1 |-> 0]]
  BY DEF Blank
<1>1. B = A
  BY <1>0
<1>2. CopyValues(A, dst, src, 0, lerps) = [dst EXCEPT !.data = new]
  BY DEF CopyValues, Mixed
<1> HIDE DEF dst, A
<1>3. DOMAIN dst.data = 0 .. n - 1
  BY <1>0
<1>4. [dst EXCEPT !.data = new].fmt = dst.fmt /\ [dst EXCEPT !.data = new].data = new
  <2> HIDE DEF new
  <2> QED BY <1>0
<1>5. ASSUME NEW p \in Points(dst.fmt, B) PROVE new[Offset(dst.fmt, p)] = Mixed(B, src, slots, p)
  <2> DEFINE k == Offset(dst.fmt, p)
  <2>1. k \in DOMAIN dst.data /\ 0 + k = k
    <3>1. k \in 0 .. n - 1
      <4> HIDE DEF B
      <4> QED BY <1>0, <1>1, Zenon DEF Apart
    <3> HIDE DEF k
    <3> QED BY <1>3, <3>1
  <2>2. p \in Hit(k)
    BY <2>1
  <2>3. \A q \in Hit(k) : q = p
    <3> SUFFICES ASSUME NEW q \in Hit(k) PROVE q = p
      OBVIOUS
    <3>1. q \in Points(dst.fmt, B) /\ Offset(dst.fmt, q) \in 0 .. n - 1 /\ 0 + Offset(dst.fmt, q) = k
      BY <1>0, <1>1 DEF Apart
    <3>2. Offset(dst.fmt, q) = Offset(dst.fmt, p)
      BY <3>1
    <3> QED BY <1>0, <1>1, <3>1, <3>2 DEF Apart
  <2>4. Hit(k) = {p}
    <3> HIDE DEF Hit, k
    <3> QED BY <2>2, <2>3
  <2>5. (CHOOSE q \in Hit(k) : TRUE) = p
    <3> HIDE DEF Hit, k
    <3> QED BY <2>4
  <2>6. Hit(k) # {}
    <3> HIDE DEF Hit, k
    <3> QED BY <2>4
  <2> HIDE DEF k, slots, Hit
  <2>7. new[k] = Mixed(B, src, slots, p)
    BY <2>1, <2>5, <2>6
  <2> HIDE DEF new
  <2> QED BY <2>7 DEF k
<1> HIDE DEF new, slots, B
<1>6. \A p \in Points(dst.fmt, B) : CopyValues(A, dst, src, 0, lerps).data[Offset(dst.fmt, p)] = Mixed(B, src, slots, p)
  BY <1>2, <1>4, <1>5
<1>7. CopyValues(A, dst, src, 0, lerps).fmt = dst.fmt
  BY <1>2, <1>4
<1> QED BY <1>0, <1>1, <1>6, <1>7 DEF slots, dst, A

(* Two places are mixed by their weights.                                      *)
LEMMA MixOfTwo ==
  ASSUME NEW A, NEW src, NEW slots, NEW p, DOMAIN slots.at = {1, 2},
         \A k \in {1, 2} : slots.at[k].w \in Int /\ Held(A, src, p, slots.at[k].off) \in Int
  PROVE  Mixed(A, src, slots, p) =
           (slots.at[1].w * Held(A, src, p, slots.at[1].off)
             + slots.at[2].w * Held(A, src, p, slots.at[2].off)) \div slots.den
<1> DEFINE S == DOMAIN slots.at
           v == Held(A, src, p, slots.at[1].off)
           w == Held(A, src, p, slots.at[2].off)
           One(k) == slots.at[k].w * Held(A, src, p, slots.at[k].off)
           f == [k \in S |-> One(k)]
           Part(g, s) == IF s = {} THEN 0 ELSE LET x == AnyOf(s) IN One(x) + g[s \ {x}]
           iter == CHOOSE g : g = [s \in SUBSET S |-> Part(g, s)]
<1>1. Mixed(A, src, slots, p) = iter[S] \div slots.den
  BY DEF Mixed, Held, MapThenSumSet, MapThenFoldSet, AnyOf
<1>2. f[1] = slots.at[1].w * v /\ f[2] = slots.at[2].w * w
  <2>1. One(1) = slots.at[1].w * v /\ One(2) = slots.at[2].w * w
    OBVIOUS
  <2>2. f[1] = One(1) /\ f[2] = One(2)
    <3> HIDE DEF One
    <3> QED OBVIOUS
  <2> HIDE DEF f, One
  <2> QED BY <2>1, <2>2
<1>3. \A k \in S : f[k] = One(k)
  <2> HIDE DEF One
  <2> QED OBVIOUS
<1> HIDE DEF One, f
<1>4. \A k \in S : f[k] \in Int
  <2>1. v \in Int /\ w \in Int /\ slots.at[1].w \in Int /\ slots.at[2].w \in Int
    OBVIOUS
  <2> HIDE DEF v, w
  <2> QED BY <1>2, <2>1
<1>5. ASSUME NEW g PROVE g = [s \in SUBSET S |-> Part(g, s)] <=> Sums(g, f, S)
  <2>1. \A s \in SUBSET S : s # {} => f[AnyOf(s)] = One(AnyOf(s))
    BY <1>3 DEF AnyOf
  <2>2. \A s \in SUBSET S : Part(g, s) = IF s = {} THEN 0 ELSE f[AnyOf(s)] + g[s \ {AnyOf(s)}]
    BY <2>1
  <2> HIDE DEF Part
  <2> QED BY <2>2 DEF Sums
<1>6. (\E g : Sums(g, f, S)) /\ \A g : Sums(g, f, S) => g[S] = Term(f, S, 1) + Term(f, S, 2)
  <2>1. 1 # 2 /\ S \in SUBSET {1, 2}
    OBVIOUS
  <2> HIDE DEF S
  <2>2. ASSUME NEW c, NEW d, c # d, S \in SUBSET {c, d}
        PROVE  (\E g : Sums(g, f, S)) /\ \A g : Sums(g, f, S) => g[S] = Term(f, S, c) + Term(f, S, d)
    BY ONLY <1>4, <2>2, TwoTerms
  <2> QED BY <2>1, <2>2
<1>7. Sums(iter, f, S)
  <2>1. \E g : g = [s \in SUBSET S |-> Part(g, s)]
    <3> HIDE DEF Part, S
    <3> QED BY <1>5, <1>6
  <2>2. iter = [s \in SUBSET S |-> Part(iter, s)]
    <3> HIDE DEF Part, S
    <3> QED BY <2>1
  <2> HIDE DEF iter, Part, S
  <2> QED BY <1>5, <2>2
<1>8. Term(f, S, 1) = f[1] /\ Term(f, S, 2) = f[2]
  BY DEF Term
<1> HIDE DEF iter, S
<1>9. iter[S] = f[1] + f[2]
  BY <1>6, <1>7, <1>8
<1> QED BY <1>1, <1>2, <1>9

(* A table fixed at x on one axis mixes its values at the two places that are   *)
(* looked up on that axis.                                                     *)
LEMMA ReduceMixes ==
  ASSUME NEW T, IsTable(T), NEW a \in DOMAIN T.fmt, Upward(T, a), NEW x \in Nat,
         ~LerpFails(T.fmt[a].indices, x)
  PROVE  LET R == Reduce(T, Fixed(a, x))
             l == AxisLerp(T.fmt[a].indices, x)
         IN  /\ R.fmt = CutFmt(T, a)
             /\ \A p \in Points(CutFmt(T, a), RestOf(T, a)) :
                  /\ Moved(p, a, l.lower) \in Points(T.fmt, DOMAIN T.fmt)
                  /\ Moved(p, a, l.upper) \in Points(T.fmt, DOMAIN T.fmt)
                  /\ ValueAt(R, p) = ((l.den - l.num) * ValueAt(T, Moved(p, a, l.lower))
                                       + l.num * ValueAt(T, Moved(p, a, l.upper))) \div l.den
<1> DEFINE at   == T.fmt[a].indices
           l    == AxisLerp(at, x)
           A    == RestOf(T, a)
           U    == CutFmt(T, a)
           fix  == Fixed(a, x)
           one  == GetLerp(T, a, x)
           q    == [k \in DOMAIN ByNumber({a}) |-> GetLerp(T, ByNumber({a})[k], fix[ByNumber({a})[k]])]
           dst  == CreateWithFormat(U)
           R    == CopyValues(A, dst, T, 0, q)
           slots == LerpSlots(T.fmt, q)
<1>1. Reduce(T, fix) = R
  <2>1. DOMAIN fix = {a}
    BY DEF Fixed
  <2>2. DOMAIN T.fmt \cap DOMAIN fix = {a}
    BY <2>1
  <2>3. DOMAIN T.fmt \ {a} = A
    BY DEF RestOf
  <2>4. Reduce(T, fix) =
          LET cut  == DOMAIN T.fmt \cap DOMAIN fix
              rest == DOMAIN T.fmt \ cut
          IN  IF cut = {} THEN T
              ELSE CopyValues(rest, CreateWithFormat(UpdateStrides([b \in rest |-> T.fmt[b].indices])), T, 0,
                              [k \in DOMAIN ByNumber(cut) |-> GetLerp(T, ByNumber(cut)[k], fix[ByNumber(cut)[k]])])
    BY DEF Reduce
  <2>5. U = UpdateStrides([b \in A |-> T.fmt[b].indices])
    BY DEF CutFmt
  <2> HIDE DEF fix, A, U
  <2> QED BY <2>2, <2>3, <2>4, <2>5
<1>2. at \in Axis /\ T.fmt[a].stride \in Nat /\ \A k \in DOMAIN at : at[k] \in Nat
  BY DEF IsTable, Upward
<1>3. /\ l.lower + 1 \in DOMAIN at /\ l.upper + 1 \in DOMAIN at
      /\ l.den \in Nat \ {0} /\ l.num \in 0 .. l.den
      /\ l.lower \in Int /\ l.upper \in Int
  <2>1. l.lower + 1 \in DOMAIN at /\ l.upper + 1 \in DOMAIN at /\ l.den \in Nat \ {0} /\ l.num \in 0 .. l.den
    BY <1>2, LookupBeside
  <2>2. l.lower \in Int /\ l.upper \in Int
    <3>1. Lookup(at, x).at \in Int /\ Len(at) \in Int
      <4> HIDE DEF at
      <4>1. Lookup(at, x).at = Below(at, x)
        BY <1>2, LookupIsBelow
      <4> QED BY <1>2, <4>1, BelowCounts DEF Axis
    <3> HIDE DEF at
    <3> QED BY <3>1 DEF AxisLerp
  <2> QED BY <2>1, <2>2
<1>4. Extent(T.fmt, a) = Len(at) /\ DOMAIN at = 1 .. Len(at) /\ Len(at) \in Nat
  BY <1>2 DEF Axis, Extent
<1>5. /\ l.lower \in Nat /\ l.lower < Extent(T.fmt, a)
      /\ l.upper \in Nat /\ l.upper < Extent(T.fmt, a)
      /\ l.den \in Nat /\ l.num \in Int
  <2> HIDE DEF l, at
  <2> QED BY <1>3, <1>4
<1>6. DOMAIN q = {1} /\ q[1] = one
  <2>1. DOMAIN ByNumber({a}) = {1} /\ ByNumber({a})[1] = a
    <3>1. AtMost({a}, a) /\ {a} # {} /\ 1 .. 1 = {1}
      BY DEF AtMost
    <3>2. /\ DOMAIN ByNumber({a}) = 1 .. Cardinality({a})
          /\ Cardinality({a}) = IF {a} = {} THEN 0 ELSE 1
          /\ {a} # {} => ByNumber({a})[1] = a
      BY ONLY <3>1, ByNumberOne
    <3> QED BY ONLY <3>1, <3>2
  <2>2. fix[a] = x
    BY DEF Fixed
  <2> HIDE DEF fix
  <2> QED BY <2>1, <2>2
<1>7. one.axis = a /\ one.by = l
  BY DEF GetLerp
<1>8. slots = [at  |-> <<[off |-> l.lower * T.fmt[a].stride, w |-> l.den - l.num],
                         [off |-> l.upper * T.fmt[a].stride, w |-> l.num]>>,
               den |-> l.den]
  <2> HIDE DEF q, one, l, at
  <2>1. one.by.lower \in Nat /\ one.by.upper \in Nat /\ one.by.den \in Nat /\ one.by.num \in Int /\ T.fmt[one.axis].stride \in Nat
    BY <1>2, <1>5, <1>7
  <2>2. slots = [at  |-> <<[off |-> one.by.lower * T.fmt[one.axis].stride, w |-> one.by.den - one.by.num],
                           [off |-> one.by.upper * T.fmt[one.axis].stride, w |-> one.by.num]>>,
                 den |-> one.by.den]
    BY <1>6, <2>1, SlotsOfOne
  <2> QED BY <1>7, <2>2
<1>9. DOMAIN U = A
  BY CutFormat
<1> DEFINE n == NumValues(U, A)
<1>10. dst = [fmt |-> U, own |-> FALSE, data |-> [k \in 0 .. n - 1 |-> 0]]
  <2> HIDE DEF U, A
  <2> QED BY <1>9 DEF CreateWithFormat
<1>11. n \in Nat
  <2>1. PICK b : AtMost(A, b)
    BY CutFormat
  <2>2. \A e \in A : Extent(U, e) \in Nat
    <3>1. \A e \in A : U[e].indices = T.fmt[e].indices /\ e \in DOMAIN T.fmt
      BY CutFormat DEF RestOf
    <3>2. \A e \in DOMAIN T.fmt : T.fmt[e].indices \in Seq(Int)
      BY DEF IsTable, Axis
    <3> HIDE DEF U, A
    <3> QED BY <3>1, <3>2 DEF Extent
  <2>3. A # {} => b \in A
    BY <2>1 DEF AtMost
  <2> HIDE DEF U, A
  <2> QED BY <2>1, <2>2, <2>3, NumValuesOne
<1>12. /\ R.fmt = U
       /\ \A p \in Points(U, A) : R.data[Offset(U, p)] = Mixed(A, T, slots, p)
  <2>1. Apart(U, n)
    <3>1. \A p \in Points(U, A) : Offset(U, p) \in 0 .. n - 1
      BY CutPoints
    <3>2. \A p, r \in Points(U, A) : Offset(U, p) = Offset(U, r) => p = r
      BY CutPoints
    <3> HIDE DEF n, U, A
    <3> QED BY <1>9, <3>1, <3>2 DEF Apart
  <2>2. dst = Blank(U, n)
    <3> HIDE DEF n, U, A, dst
    <3> QED BY <1>10 DEF Blank
  <2> HIDE DEF n, U, dst, A, q
  <2>3. /\ CopyValues(A, Blank(U, n), T, 0, q).fmt = U
        /\ \A p \in Points(U, A) :
             CopyValues(A, Blank(U, n), T, 0, q).data[Offset(U, p)] = Mixed(A, T, LerpSlots(T.fmt, q), p)
    BY <1>9, <1>11, <2>1, CopyAll
  <2> QED BY <2>2, <2>3
<1>13. ASSUME NEW p \in Points(U, A)
       PROVE  /\ Moved(p, a, l.lower) \in Points(T.fmt, DOMAIN T.fmt)
              /\ Moved(p, a, l.upper) \in Points(T.fmt, DOMAIN T.fmt)
              /\ ValueAt(R, p) = ((l.den - l.num) * ValueAt(T, Moved(p, a, l.lower))
                                   + l.num * ValueAt(T, Moved(p, a, l.upper))) \div l.den
  <2> DEFINE v == ValueAt(T, Moved(p, a, l.lower))
             w == ValueAt(T, Moved(p, a, l.upper))
             o == Offset(T.fmt, p)
  <2>1. /\ Moved(p, a, l.lower) \in Points(T.fmt, DOMAIN T.fmt)
        /\ Offset(T.fmt, Moved(p, a, l.lower)) = o + l.lower * T.fmt[a].stride
        /\ Narrow(p, A) = p
    <3> HIDE DEF l
    <3> QED BY <1>5, MovedPoint
  <2>2. /\ Moved(p, a, l.upper) \in Points(T.fmt, DOMAIN T.fmt)
        /\ Offset(T.fmt, Moved(p, a, l.upper)) = o + l.upper * T.fmt[a].stride
    <3> HIDE DEF l
    <3> QED BY <1>5, MovedPoint
  <2>3. v \in Int /\ w \in Int
    BY <2>1, <2>2 DEF IsTable
  <2>4. A \cap DOMAIN T.fmt = A
    BY DEF RestOf
  <2>5. v = Held(A, T, p, l.lower * T.fmt[a].stride)
    <3> HIDE DEF l, A
    <3> QED BY <2>1, <2>4 DEF ValueAt, Held
  <2>6. w = Held(A, T, p, l.upper * T.fmt[a].stride)
    <3> HIDE DEF l, A
    <3> QED BY <2>1, <2>2, <2>4 DEF ValueAt, Held
  <2>7. /\ DOMAIN slots.at = {1, 2} /\ slots.den = l.den
        /\ slots.at[1].off = l.lower * T.fmt[a].stride /\ slots.at[1].w = l.den - l.num
        /\ slots.at[2].off = l.upper * T.fmt[a].stride /\ slots.at[2].w = l.num
    <3> HIDE DEF l, slots, at
    <3> QED BY <1>8
  <2>8. Mixed(A, T, slots, p) = ((l.den - l.num) * v + l.num * w) \div l.den
    <3>1. l.den - l.num \in Int /\ l.num \in Int
      <4> HIDE DEF l
      <4> QED BY <1>5
    <3> HIDE DEF l, slots, v, w, A, at
    <3>2. \A k \in {1, 2} : slots.at[k].w \in Int /\ Held(A, T, p, slots.at[k].off) \in Int
      BY <2>3, <2>5, <2>6, <2>7, <3>1
    <3>3. Mixed(A, T, slots, p) =
            (slots.at[1].w * Held(A, T, p, slots.at[1].off)
              + slots.at[2].w * Held(A, T, p, slots.at[2].off)) \div slots.den
      BY ONLY <2>7, <3>2, MixOfTwo
    <3> QED BY <2>5, <2>6, <2>7, <3>3
  <2>9. ValueAt(R, p) = Mixed(A, T, slots, p)
    <3> HIDE DEF R, slots, A, U
    <3> QED BY <1>12 DEF ValueAt
  <2> QED BY <2>1, <2>2, <2>8, <2>9
<1> HIDE DEF R, U, A, l, at, fix
<1> QED BY <1>1, <1>12, <1>13 DEF U, A, l, at, fix

(* The breakpoints beside x are the last one up to it and the first one from it. *)
LEMMA BesideIs ==
  ASSUME NEW s \in Axis, NEW x \in Int, NEW k \in DOMAIN s, Beside(s, x, k)
  PROVE  \/ k = Max({1} \cup {j \in DOMAIN s : s[j] <= x})
         \/ k = Min({Len(s)} \cup {j \in DOMAIN s : s[j] >= x})
<1> DEFINE Lo == {1} \cup {j \in DOMAIN s : s[j] <= x}
           Hi == {Len(s)} \cup {j \in DOMAIN s : s[j] >= x}
<1>1. Len(s) \in Nat /\ DOMAIN s = 1 .. Len(s) /\ \A j \in 1 .. Len(s) : s[j] \in Int
  BY DEF Axis
<1>2. Lo \subseteq Int /\ Hi \subseteq Int
  BY <1>1
<1>3. \A j \in 1 .. Len(s) : k < j => x < s[j]
  BY <1>1 DEF Axis, Beside
<1>4. \A j \in 1 .. Len(s) : j < k => s[j] < x
  BY <1>1 DEF Axis, Beside
<1>5. k \in 1 .. Len(s) /\ s[k] \in Int
  BY <1>1
<1>6. CASE s[k] <= x
  <2>1. k \in Lo
    BY <1>6
  <2>2. \A y \in Lo : k >= y
    BY <1>1, <1>3, <1>5
  <2> HIDE DEF Lo
  <2>3. ASSUME NEW m \in Lo, \A y \in Lo : m >= y PROVE m = k
    <3>1. m >= k /\ k >= m /\ m \in Int /\ k \in Int
      BY <1>2, <2>1, <2>2, <2>3
    <3> QED BY <3>1
  <2>4. Max(Lo) = k
    BY <2>1, <2>2, <2>3 DEF Max
  <2> QED BY <2>4 DEF Lo
<1>7. CASE s[k] >= x
  <2>1. k \in Hi
    BY <1>7
  <2>2. \A y \in Hi : k <= y
    BY <1>1, <1>4, <1>5
  <2> HIDE DEF Hi
  <2>3. ASSUME NEW m \in Hi, \A y \in Hi : m <= y PROVE m = k
    <3>1. m <= k /\ k <= m /\ m \in Int /\ k \in Int
      BY <1>2, <2>1, <2>2, <2>3
    <3> QED BY <3>1
  <2>4. Min(Hi) = k
    BY <2>1, <2>2, <2>3 DEF Min
  <2> QED BY <2>4 DEF Hi
<1> QED BY <1>5, <1>6, <1>7

(* Both are breakpoints.                                                       *)
LEMMA AroundAreThere ==
  ASSUME NEW s \in Axis, NEW x \in Int
  PROVE  /\ Max({1} \cup {j \in DOMAIN s : s[j] <= x}) \in DOMAIN s
         /\ Min({Len(s)} \cup {j \in DOMAIN s : s[j] >= x}) \in DOMAIN s
<1> DEFINE Lo == {1} \cup {j \in DOMAIN s : s[j] <= x}
           Hi == {Len(s)} \cup {j \in DOMAIN s : s[j] >= x}
<1>1. s # <<>> /\ Len(s) \in Nat \ {0} /\ DOMAIN s = 1 .. Len(s) /\ \A j \in 1 .. Len(s) : s[j] \in Int
  BY DEF Axis
<1>2. Lo \subseteq 1 .. Len(s) /\ Hi \subseteq 1 .. Len(s) /\ Lo # {} /\ Len(s) \in Hi
  BY <1>1
<1>3. Max(Lo) \in Lo
  <2>1. Lo \in SUBSET (0 .. Len(s))
    BY <1>1, <1>2
  <2> HIDE DEF Lo
  <2> QED BY <1>1, <1>2, <2>1, LargestThere
<1>4. \E m \in Hi : \A y \in Hi : m <= y
  <2>1. PICK b \in 0 .. Len(s) : b = Below(s, x)
    BY BelowCounts
  <2>2. \A j \in 1 .. Len(s) : s[j] < x <=> j <= b
    BY <1>1, <2>1, BelowCounts
  <2>3. CASE b < Len(s)
    <3>1. b + 1 \in Hi
      BY <1>1, <2>1, <2>2, <2>3
    <3>2. \A y \in Hi : b + 1 <= y
      BY <1>1, <2>1, <2>2, <2>3
    <3> HIDE DEF Hi
    <3> QED BY <3>1, <3>2
  <2>4. CASE b = Len(s)
    <3>1. \A y \in Hi : Len(s) <= y
      BY <1>1, <2>2, <2>4
    <3> HIDE DEF Hi
    <3> QED BY <1>2, <3>1
  <2> QED BY <1>1, <2>1, <2>3, <2>4
<1>5. Min(Hi) \in Hi
  <2> HIDE DEF Hi
  <2> QED BY <1>4 DEF Min
<1> HIDE DEF Lo, Hi
<1>6. Max(Lo) \in DOMAIN s /\ Min(Hi) \in DOMAIN s
  BY <1>1, <1>2, <1>3, <1>5
<1> QED BY <1>6 DEF Lo, Hi

(* A mixture of two numbers lies between them.                                 *)
LEMMA MixBetween ==
  ASSUME NEW u \in Int, NEW w \in Int, NEW lo \in Int, NEW hi \in Int,
         lo <= u, u <= hi, lo <= w, w <= hi,
         NEW den \in Nat \ {0}, NEW num \in 0 .. den
  PROVE  ((den - num) * u + num * w) \div den \in lo .. hi
<1> DEFINE c == den - num
           m == c * u + num * w
           d == m \div den
<1>1. c \in Nat /\ num \in Nat /\ den \in Nat /\ den > 0 /\ c + num = den
  OBVIOUS
<1> HIDE DEF c
<1>2. \A i \in Nat : \A a, b \in Int : a <= b => i * a <= i * b
  OBVIOUS
<1>3. c * lo <= c * u /\ c * u <= c * hi /\ num * lo <= num * w /\ num * w <= num * hi
  BY <1>1, <1>2
<1>4. c * lo + num * lo = den * lo /\ c * hi + num * hi = den * hi
  BY <1>1
<1>5. /\ c * lo \in Int /\ c * u \in Int /\ c * hi \in Int
      /\ num * lo \in Int /\ num * w \in Int /\ num * hi \in Int
  BY <1>1
<1>6. m \in Int /\ den * lo <= m /\ m <= den * hi
  BY <1>3, <1>4, <1>5
<1> HIDE DEF m
<1>7. d \in Int /\ den * d <= m /\ m < den * (d + 1)
  BY <1>1, <1>6
<1> HIDE DEF d
<1>8. d <= hi
  <2> SUFFICES ASSUME hi + 1 <= d PROVE FALSE
    BY <1>7
  <2>1. den * (hi + 1) <= den * d
    BY <1>1, <1>2, <1>7
  <2>2. den * (hi + 1) = den * hi + den /\ den * hi \in Int /\ den * d \in Int
    BY <1>1, <1>7
  <2> QED BY <1>1, <1>6, <1>7, <2>1, <2>2
<1>9. lo <= d
  <2> SUFFICES ASSUME d + 1 <= lo PROVE FALSE
    BY <1>7
  <2>1. den * (d + 1) <= den * lo
    BY <1>1, <1>2, <1>7
  <2>2. den * (d + 1) \in Int /\ den * lo \in Int
    BY <1>1, <1>7
  <2> QED BY <1>6, <1>7, <2>1, <2>2
<1> QED BY <1>7, <1>8, <1>9 DEF d, m, c

(* The smaller and the larger of two numbers.                                  *)
LEMMA Pair ==
  ASSUME NEW u \in Int, NEW w \in Int
  PROVE  /\ Min({u, w}) \in Int /\ Max({u, w}) \in Int
         /\ \A x \in {u, w} : Min({u, w}) <= x /\ x <= Max({u, w})
<1>1. \E x \in {u, w} : \A y \in {u, w} : x <= y
  OBVIOUS
<1>2. \E x \in {u, w} : \A y \in {u, w} : x >= y
  OBVIOUS
<1>3. Min({u, w}) \in {u, w} /\ \A y \in {u, w} : Min({u, w}) <= y
  BY <1>1 DEF Min
<1>4. Max({u, w}) \in {u, w} /\ \A y \in {u, w} : Max({u, w}) >= y
  BY <1>2 DEF Max
<1> QED BY <1>3, <1>4

(* The tables of the gates are those of the libraries.                         *)
LEMMA TabsAreTables ==
  ASSUME NEW I, lib \in [I -> LibArcs]
  PROVE  \A T \in Tabs : IsTable(T)
<1> SUFFICES ASSUME NEW T \in Tabs PROVE IsTable(T)
  OBVIOUS
<1>1. PICK i \in DOMAIN lib : T \in {lib[i].delay, lib[i].trans} \ {NoTable}
  BY DEF Tabs
<1>2. lib[i] \in LibArcs
  BY <1>1
<1> QED BY <1>1, <1>2, LibArcsAssumption

(* Whatever tables the libraries give the gates, each fixed at a breakpoint of  *)
(* an axis that has no negative ones is its slice there: no stride of the one   *)
(* format is taken for that of the other (phx_table_reduce,                     *)
(* phx_table_copy_values).                                                      *)
THEOREM TablesSliced ==
  ASSUME NEW I, lib \in [I -> LibArcs]
  PROVE  ReduceIsSlice
<1> SUFFICES ASSUME NEW T \in Tabs, NEW a \in DOMAIN T.fmt, Upward(T, a), NEW k \in 0 .. Extent(T.fmt, a) - 1
             PROVE  LET R == Reduce(T, Fixed(a, T.fmt[a].indices[k + 1]))
                    IN  /\ DOMAIN R.fmt = DOMAIN T.fmt \ {a}
                        /\ \A p \in Points(R.fmt, DOMAIN R.fmt) : ValueAt(R, p) = ValueAt(T, Moved(p, a, k))
  BY DEF ReduceIsSlice
<1> DEFINE at == T.fmt[a].indices
           x  == at[k + 1]
           l  == AxisLerp(at, x)
           R  == Reduce(T, Fixed(a, x))
<1>1. IsTable(T)
  BY TabsAreTables
<1>2. at \in Axis
  BY <1>1 DEF IsTable
<1>3. k + 1 \in DOMAIN at /\ k \in Int /\ \A j \in DOMAIN at : at[j] \in Nat
  BY <1>2 DEF Axis, Extent, Upward
<1>x. x \in Nat
  BY <1>3
<1>4. ~LerpFails(at, x)
  <2> HIDE DEF at
  <2>1. x \in ToSet(at)
    BY <1>3 DEF ToSet
  <2>2. Lookup(at, x).met
    BY <1>2, <1>3, <1>x, <2>1, LookupIsBelow
  <2> QED BY <2>2 DEF LerpFails
<1>5. l.lower = k /\ l.num = 0 /\ l.den = 1
  <2> HIDE DEF at
  <2>1. \A j \in DOMAIN at : at[j] = x => l.lower = j - 1 /\ l.num = 0 /\ l.den = 1
    BY <1>2, <1>3, <1>x, <1>4, LookupBeside
  <2>2. k + 1 - 1 = k
    BY <1>3
  <2> QED BY <1>3, <2>1, <2>2
<1>6. /\ R.fmt = CutFmt(T, a)
      /\ \A p \in Points(CutFmt(T, a), RestOf(T, a)) :
           /\ Moved(p, a, l.lower) \in Points(T.fmt, DOMAIN T.fmt)
           /\ Moved(p, a, l.upper) \in Points(T.fmt, DOMAIN T.fmt)
           /\ ValueAt(R, p) = ((l.den - l.num) * ValueAt(T, Moved(p, a, l.lower))
                                + l.num * ValueAt(T, Moved(p, a, l.upper))) \div l.den
  BY <1>1, <1>3, <1>x, <1>4, ReduceMixes
<1>7. DOMAIN R.fmt = RestOf(T, a)
  <2> HIDE DEF R
  <2> QED BY <1>1, <1>6, CutFormat
<1>8. ASSUME NEW p \in Points(R.fmt, DOMAIN R.fmt) PROVE ValueAt(R, p) = ValueAt(T, Moved(p, a, k))
  <2> HIDE DEF R, l, x, at
  <2>1. p \in Points(CutFmt(T, a), RestOf(T, a))
    BY <1>6, <1>7
  <2>2. ValueAt(T, Moved(p, a, l.lower)) \in Int /\ ValueAt(T, Moved(p, a, l.upper)) \in Int
    BY <1>1, <1>6, <2>1 DEF IsTable
  <2>3. \A v, w \in Int : ((1 - 0) * v + 0 * w) \div 1 = v
    OBVIOUS
  <2>4. ValueAt(R, p) = ((1 - 0) * ValueAt(T, Moved(p, a, l.lower)) + 0 * ValueAt(T, Moved(p, a, l.upper))) \div 1
    BY <1>5, <1>6, <2>1
  <2> QED BY <1>5, <2>2, <2>3, <2>4
<1> QED
  <2> HIDE DEF R
  <2>1. DOMAIN R.fmt = DOMAIN T.fmt \ {a}
    BY <1>7 DEF RestOf
  <2> QED BY <1>8, <2>1 DEF R

(* Whatever tables the libraries give the gates, each read along an axis that   *)
(* has no negative breakpoints, anywhere but at a negative number, gives a      *)
(* value between those at the breakpoints around, and that of its first or last *)
(* breakpoint beyond its ends: the interval that the search ends at and the     *)
(* factor that is kept within it never mix in another value.                    *)
THEOREM TablesBounded ==
  ASSUME NEW I, lib \in [I -> LibArcs]
  PROVE  LookupBounded
<1> DEFINE Bounded(T, a, x) ==
             LET at == T.fmt[a].indices
                 R == Reduce(T, Fixed(a, x))
                 lo == Max({1} \cup {k \in DOMAIN at : at[k] <= x})
                 hi == Min({Len(at)} \cup {k \in DOMAIN at : at[k] >= x})
             IN  \A p \in Points(R.fmt, DOMAIN R.fmt) :
                   LET V == {ValueAt(T, Moved(p, a, lo - 1)), ValueAt(T, Moved(p, a, hi - 1))}
                   IN  ValueAt(R, p) \in Min(V) .. Max(V)
<1>0. LookupBounded <=>
        \A T \in Tabs : \A a \in {b \in DOMAIN T.fmt : Upward(T, b)} :
          \A x \in {y \in T.fmt[a].indices[1] - 1 .. T.fmt[a].indices[Len(T.fmt[a].indices)] + 1 :
                     y \in Nat /\ ~LerpFails(T.fmt[a].indices, y)} : Bounded(T, a, x)
  BY Zenon DEF LookupBounded
<1> SUFFICES ASSUME NEW T \in Tabs, NEW a \in DOMAIN T.fmt, Upward(T, a), NEW x \in Nat,
                    ~LerpFails(T.fmt[a].indices, x)
             PROVE  Bounded(T, a, x)
  <2> HIDE DEF Bounded
  <2> QED BY <1>0
<1> DEFINE at == T.fmt[a].indices
           l  == AxisLerp(at, x)
           R  == Reduce(T, Fixed(a, x))
           lo == Max({1} \cup {k \in DOMAIN at : at[k] <= x})
           hi == Min({Len(at)} \cup {k \in DOMAIN at : at[k] >= x})
<1> SUFFICES ASSUME NEW p \in Points(R.fmt, DOMAIN R.fmt)
             PROVE  ValueAt(R, p) \in Min({ValueAt(T, Moved(p, a, lo - 1)), ValueAt(T, Moved(p, a, hi - 1))})
                                        .. Max({ValueAt(T, Moved(p, a, lo - 1)), ValueAt(T, Moved(p, a, hi - 1))})
  OBVIOUS
<1>1. IsTable(T)
  BY TabsAreTables
<1>2. at \in Axis /\ \A k \in DOMAIN at : at[k] \in Nat
  BY <1>1 DEF IsTable, Upward
<1>3. /\ l.lower + 1 \in DOMAIN at /\ l.upper + 1 \in DOMAIN at
      /\ l.den \in Nat \ {0} /\ l.num \in 0 .. l.den
      /\ l.num < l.den => Beside(at, x, l.lower + 1)
      /\ l.num > 0 => Beside(at, x, l.upper + 1)
  BY <1>2, LookupBeside
<1>4. l.num < l.den => l.lower + 1 = lo \/ l.lower + 1 = hi
  <2> HIDE DEF at, l
  <2> QED BY <1>2, <1>3, BesideIs
<1>5. l.num > 0 => l.upper + 1 = lo \/ l.upper + 1 = hi
  <2> HIDE DEF at, l
  <2> QED BY <1>2, <1>3, BesideIs
<1>6. l.lower \in Int /\ l.upper \in Int
  <2>1. Lookup(at, x).at \in Int /\ Len(at) \in Int
    <3> HIDE DEF at
    <3>1. Lookup(at, x).at \in 0 .. Len(at)
      <4>1. Lookup(at, x).at = Below(at, x)
        BY <1>2, LookupIsBelow
      <4>2. x \in Int
        OBVIOUS
      <4>3. Below(at, x) \in 0 .. Len(at)
        BY <1>2, <4>2, BelowCounts
      <4> QED BY <4>1, <4>3
    <3>2. Len(at) \in Nat
      BY <1>2 DEF Axis
    <3> QED BY <3>1, <3>2
  <2> HIDE DEF at
  <2> QED BY <2>1 DEF AxisLerp
<1>7. R.fmt = CutFmt(T, a)
  BY <1>1, ReduceMixes
<1>8. \A r \in Points(CutFmt(T, a), RestOf(T, a)) :
        /\ Moved(r, a, l.lower) \in Points(T.fmt, DOMAIN T.fmt)
        /\ Moved(r, a, l.upper) \in Points(T.fmt, DOMAIN T.fmt)
        /\ ValueAt(R, r) = ((l.den - l.num) * ValueAt(T, Moved(r, a, l.lower))
                             + l.num * ValueAt(T, Moved(r, a, l.upper))) \div l.den
  BY <1>1, ReduceMixes
<1>9. p \in Points(CutFmt(T, a), RestOf(T, a))
  <2> HIDE DEF R
  <2> QED BY <1>1, <1>7, CutFormat
<1> DEFINE u == ValueAt(T, Moved(p, a, l.lower))
           w == ValueAt(T, Moved(p, a, l.upper))
           v1 == ValueAt(T, Moved(p, a, lo - 1))
           v2 == ValueAt(T, Moved(p, a, hi - 1))
<1>10. u \in Int /\ w \in Int
  <2> HIDE DEF l
  <2> QED BY <1>1, <1>8, <1>9 DEF IsTable
<1>11. l.num < l.den => u \in {v1, v2}
  <2> HIDE DEF l, lo, hi
  <2>1. \A i, j \in Int : i + 1 = j => i = j - 1
    OBVIOUS
  <2>2. ASSUME NEW j, l.lower + 1 = j PROVE l.lower = j - 1
    BY <1>6, <2>2
  <2> QED BY <1>4, <2>2
<1>12. l.num > 0 => w \in {v1, v2}
  <2> HIDE DEF l, lo, hi
  <2>1. ASSUME NEW j, l.upper + 1 = j PROVE l.upper = j - 1
    BY <1>6, <2>1
  <2> QED BY <1>5, <2>1
<1>13. ValueAt(R, p) = ((l.den - l.num) * u + l.num * w) \div l.den
  <2> HIDE DEF R, l
  <2> QED BY <1>8, <1>9
<1>14. v1 \in Int /\ v2 \in Int
  <2>1. lo \in DOMAIN at /\ hi \in DOMAIN at
    <3> HIDE DEF at
    <3>1. x \in Int
      OBVIOUS
    <3> QED BY <1>2, <3>1, AroundAreThere
  <2>2. Extent(T.fmt, a) = Len(at) /\ DOMAIN at = 1 .. Len(at) /\ Len(at) \in Nat
    BY <1>2 DEF Axis, Extent
  <2> HIDE DEF lo, hi, at
  <2>3. lo - 1 \in Nat /\ lo - 1 < Extent(T.fmt, a) /\ hi - 1 \in Nat /\ hi - 1 < Extent(T.fmt, a)
    BY <2>1, <2>2
  <2>4. Moved(p, a, lo - 1) \in Points(T.fmt, DOMAIN T.fmt) /\ Moved(p, a, hi - 1) \in Points(T.fmt, DOMAIN T.fmt)
    BY <1>1, <1>9, <2>3, MovedPoint
  <2> QED BY <1>1, <2>4 DEF IsTable
<1> HIDE DEF u, w, v1, v2, R, l
<1> DEFINE low == Min({v1, v2})
           high == Max({v1, v2})
           n == l.num
           d == l.den
<1>15. low \in Int /\ high \in Int /\ \A v \in {v1, v2} : v \in Int /\ low <= v /\ v <= high
  BY <1>14, Pair
<1> HIDE DEF low, high
<1>16. \A y, z \in {v1, v2} : ((d - n) * y + n * z) \div d \in low .. high
  <2> SUFFICES ASSUME NEW y \in {v1, v2}, NEW z \in {v1, v2}
               PROVE  ((d - n) * y + n * z) \div d \in low .. high
    OBVIOUS
  <2>1. y \in Int /\ z \in Int /\ low <= y /\ y <= high /\ low <= z /\ z <= high
    BY <1>15
  <2> QED BY <1>3, <1>15, <2>1, MixBetween
<1>17. d \in Nat \ {0} /\ n \in 0 .. d
  BY <1>3
<1>18. ValueAt(R, p) = ((d - n) * u + n * w) \div d
  BY <1>13
<1>19. (n < d => u \in {v1, v2}) /\ (n > 0 => w \in {v1, v2})
  BY <1>11, <1>12
<1> HIDE DEF n, d
<1>20. ValueAt(R, p) \in low .. high
  <2>1. CASE n = 0
    <3>1. u \in {v1, v2}
      BY <1>17, <1>19, <2>1
    <3>2. (d - n) * u + n * w = (d - n) * u + n * u
      <4>1. n * w = 0 /\ n * u = 0
        BY <1>10, <2>1
      <4> QED BY <4>1
    <3> QED BY <1>16, <1>18, <3>1, <3>2
  <2>2. CASE n = d
    <3>1. w \in {v1, v2}
      BY <1>17, <1>19, <2>2
    <3>2. (d - n) * u + n * w = (d - n) * w + n * w
      <4>1. (d - n) * u = 0 /\ (d - n) * w = 0
        <5>1. d - n = 0
          BY <1>17, <2>2
        <5> QED BY <1>10, <5>1
      <4> QED BY <4>1
    <3> QED BY <1>16, <1>18, <3>1, <3>2
  <2>3. CASE n # 0 /\ n # d
    <3>1. u \in {v1, v2} /\ w \in {v1, v2}
      BY <1>17, <1>19, <2>3
    <3> QED BY <1>16, <1>18, <3>1
  <2> QED BY <2>1, <2>2, <2>3
<1> QED BY <1>20 DEF low, high, v1, v2

===============================================================================
