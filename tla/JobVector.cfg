SPECIFICATION FairSpec
CONSTANTS
  MaxJob = 6
INVARIANTS
  Sorted
  CompactAssertions
PROPERTIES
  Implements
  LoopsEnd
