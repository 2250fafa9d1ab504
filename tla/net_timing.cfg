SPECIFICATION Spec
CONSTANTS
  Circuits <- MCCircuits
  LibArcs <- MCLibArcs
  Loads = {1, 2}
  NoTable = notable
  Flagging = TRUE
  MaxArcs = 1
  Wraps = TRUE
CHECK_DEADLOCK FALSE
INVARIANT SlopesCompose
INVARIANT ReduceIsSlice
INVARIANT LookupBounded
PROPERTY UpdateComplete
