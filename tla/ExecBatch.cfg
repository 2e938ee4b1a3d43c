\* Batches of two, empty blocks, kills, power losses and I/O errors at every step.
CONSTANTS
  MaxHeight = 6
  FirstTx <- MCFirstTx
  FlushTxs = 3
  FlushBlocks = 2
  IOMayFail = TRUE
  StopOnError = FALSE
  CommitEvery = 2
  Empty = {2, 3}
  Deferred = 2
  walkBackBudget = 3
  PowerMayFail = TRUE
SPECIFICATION FairExecSpec
INVARIANTS   NeverAHole LiveWithRows ResumesAtTop
 
CHECK_DEADLOCK FALSE
