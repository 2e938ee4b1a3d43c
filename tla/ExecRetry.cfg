\* A failed seal, and Executor.Close flushing the open batch again.
CONSTANTS
  MaxHeight = 6
  FirstTx <- MCFirstTx
  FlushTxs = 3
  FlushBlocks = 2
  IOMayFail = TRUE
  StopOnError = FALSE
  CommitEvery = 2
  Empty = {}
  Deferred = 2
  walkBackBudget = 3
  PowerMayFail = FALSE
SPECIFICATION ExecSpec
INVARIANT NoBlockLost
