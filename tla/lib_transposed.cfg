SPECIFICATION Spec
CONSTANTS
  Template = {"t"}
  Pin = {"A"}
  Unit = {4}
  Index <- MCIndex
  Default = 2
  Grain = 3
  Prelude <- MCPrelude
  None = none
  MaxStmts = 4
CHECK_DEADLOCK FALSE
INVARIANT LoadedAsInFile
