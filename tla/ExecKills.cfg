\* Per-block commits; kills and failed seals at every step; no empty blocks.
CONSTANTS
  MaxHeight = 6
  FirstTx <- MCFirstTx
  FlushTxs = 3
  FlushBlocks = 2
  IOMayFail = TRUE
  StopOnError = FALSE
  CommitEvery = 1
  Empty = {}
  Deferred = 2
  walkBackBudget = 3
  PowerMayFail = FALSE
SPECIFICATION ExecSpec
INVARIANTS ExecTypeOK BoundariesByContent
PROPERTIES  StopsOnError
