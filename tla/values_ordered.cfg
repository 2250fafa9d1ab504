SPECIFICATION Spec
CONSTANTS
  Cell = {c1, c2, c3}
  Inst = {i1, i2}
  Pin = {p1}
  Nil = nil
  NoInst = noinst
  Value = {1}
  LateEdit = FALSE
  MaxConns = 3
SYMMETRY Symmetric
INVARIANT ValuesAgree
INVARIANT NothingWaitsBelow
