SPECIFICATION FairSpec
CONSTANTS
  Name = {a, b, c}
  None = none
  MaxRefs = 2
  MaxLinks = 3
  MaxStructs = 1
INVARIANT NothingLost
INVARIANT ComposedOnce
PROPERTY ReturnsComplete
PROPERTY CommandsReturn
