SPECIFICATION Spec
CONSTANTS
  Coord <- MCCoord
  NoBox = nobox
  NoInst = noinst
  Inst = {i1}
  Pin = {p1, p2}
CHECK_DEADLOCK FALSE
SYMMETRY Symmetric
INVARIANT TerminalOnOneNet
INVARIANT ExposedIffOuter
INVARIANT NetsAreComponents
INVARIANT ListedOnce
INVARIANT BoxBounds
INVARIANT RoundTrip
INVARIANT ExtBoundsMirrored
INVARIANT RoundedToNearest
INVARIANT MirroredAsDesigned
