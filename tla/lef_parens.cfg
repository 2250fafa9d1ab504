SPECIFICATION Spec
CONSTANTS
  Prelude <- MCPrelude
  Statements <- MCStatements
  Names <- MCNames
  Number <- MCNumber
  MaxStmts = 2
CHECK_DEADLOCK FALSE
INVARIANT ShapesReadBack
