SPECIFICATION ScriptSpec
CONSTANTS
  a = a
  b = b
  p = p
  m1 = m1
  m2 = m2
  Addr = {1, 2, 3, 4}
  Id = {0, 11, 12}
  NoName = noname
  Name <- MCName
  Geometry <- MCGeometry
  Cell <- MCCell
  Plans <- MCPlans
CHECK_DEADLOCK FALSE
 
INVARIANT FoundWherever
INVARIANT InnermostBlock
INVARIANT WholeOrFailed
PROPERTY OnceIfSorted
