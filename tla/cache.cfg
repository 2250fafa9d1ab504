SPECIFICATION Spec
CONSTANTS
  Cell = {c1, c2, c3}
  Inst = {i1, i2}
  Pin = {p1}
  Body = body
  Nil = nil
  Size = 2
  Zero = 0
  Point <- MCPoint
  Offset <- MCOffset
  Orientation <- MCOrientation
  Place <- MCPlace
  MaxDrawn = 2
  LateInst = FALSE
SYMMETRY Symmetric
INVARIANT UsersAreFlagged
INVARIANT LocallyExact
INVARIANT SettledIsExact
INVARIANT ValidIsExact
PROPERTY UpdateSettles
CONSTRAINT FewEdits
