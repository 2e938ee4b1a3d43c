CONSTANTS
  Tip = 5
  Ceilings = {0}
  WindowBlocks = 4
  RefillBelow = 2
  KeepBehind = 2
  spanBlocks = 2
  fetchSpans = 2
  queueMaxBytes = 9
  ReadAhead = 1
  CommitEvery = 1
  Follows = FALSE
  Wrongs = 1
SPECIFICATION FairSpec
PROPERTY ReAsked
