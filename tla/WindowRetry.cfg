\* A caller that writes on after an error.
CONSTANTS
  MaxHeight = 7
  FirstTx <- MCFirstTx
  FlushTxs = 4
  FlushBlocks = 3
  IOMayFail = TRUE
  StopOnError = FALSE
SPECIFICATION Spec
INVARIANTS ExactlyOnce
