SPECIFICATION FairSpec
CONSTANTS
  MaxId = 3
  MaxTime = 2
  PerSecond = 2
  Deadline = {1, 2}
  PageSize = 1
INVARIANTS
  NothingTwice
  EverythingShown
  SkippedWithinSecond
PROPERTIES
  ReadingEnds
