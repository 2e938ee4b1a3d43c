\* Two workers, a follower, one answer that does not link.
CONSTANTS
  Tip = 4
  Ceilings = {0}
  WindowBlocks = 3
  RefillBelow = 2
  KeepBehind = 3
  spanBlocks = 2
  fetchSpans = 2
  queueMaxBytes = 4
  ReadAhead = 1
  CommitEvery = 2
  Follows = TRUE
  Wrongs = 1
SPECIFICATION Spec
INVARIANTS TypeOK  SpansInWindow BisectReadable
