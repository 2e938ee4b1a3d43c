\* Kills, power losses and failed seals at every step of the write path.
CONSTANTS
  MaxHeight = 8
  FirstTx <- MCFirstTx
  FlushTxs = 4
  FlushBlocks = 3
  IOMayFail = TRUE
  StopOnError = TRUE
SPECIFICATION Spec
INVARIANTS TypeOK NoBlockLost NoHole ExactlyOnce TxNumsByContent OpenNeverRefuses IInv
