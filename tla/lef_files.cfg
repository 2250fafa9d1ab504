SPECIFICATION Spec
CONSTANTS
  Prelude <- MCPrelude
  Statements <- MCStatements
  Names <- MCNames
  Number <- MCNumber
  MaxStmts = 4
CHECK_DEADLOCK FALSE
INVARIANT TreeIsFile
INVARIANT WrittenSaysCells
