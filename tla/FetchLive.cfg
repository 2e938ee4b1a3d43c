\* Fair scheduling, two workers, a follower or a ceiling, one answer that does not link.
CONSTANTS
  Tip = 4
  Ceilings = {0, 3}
  WindowBlocks = 3
  RefillBelow = 2
  KeepBehind = 2
  spanBlocks = 2
  fetchSpans = 2
  queueMaxBytes = 3
  ReadAhead = 1
  CommitEvery = 1
  Follows = TRUE
  Wrongs = 1
SPECIFICATION FairSpec
INVARIANTS StopsAtCeiling
 
