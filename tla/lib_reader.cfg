SPECIFICATION Spec
CONSTANTS
  Name = {n}
  None = none
  MaxWords = 3
  MaxParams = 2
CHECK_DEADLOCK FALSE
INVARIANT TreeIsFile
PROPERTY ReadEnds
