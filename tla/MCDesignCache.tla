---------------------------- MODULE MCDesignCache ----------------------------
(* A small instance of DesignCache: coordinates on a ring of Size points, so   *)
(* that placing stays among them, and two orientations, of which the second    *)
(* mirrors.                                                                    *)
EXTENDS DesignCache, TLC

CONSTANT Size

MCPoint       == 0 .. Size - 1
MCOffset      == 0 .. 1
MCOrientation == 0 .. 1

MCPlace(o, at, org, p) ==
  ((IF o = 1 THEN Size - 1 - p ELSE p) + at + Size - org) % Size

\* Bound: with three cells one point is drawn; with fewer what has pins, what is
\* moved or mirrored, the points drawn and the instances are up to five together.
FewEdits ==
  LET edited == Cardinality({c \in cells : pins[c] # {}}) + Cardinality({c \in cells : origin[c] # Zero})
                + Cardinality({i \in insts : pos[i] # Zero}) + Cardinality({i \in insts : orient[i] # Zero})
      drawn  == Cardinality(DrawnPoints(shapes))
  IN  IF cells = Cell THEN edited = 0 /\ drawn <= 1 ELSE edited + drawn + Cardinality(insts) <= 5

Symmetric == Permutations(Cell) \cup Permutations(Inst)
=============================================================================
