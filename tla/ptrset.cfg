SPECIFICATION FairSpec
CONSTANTS
  Ptr = {1, 2, 3, 4, 5}
  Junk = junk
INVARIANT Sorted
INVARIANT SearchIsRight
PROPERTY ImplementsPointerSet
PROPERTY CallsReturn
