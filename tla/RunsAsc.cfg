CONSTANTS
  MaxHeight = 3
  FlushBlocks = 1
  TerminalTxs = 2
  Fanout = 1
  Writes = {1, 3}
  Ops = {"asc"}
  Fails = FALSE
  Readers = {r1}
SPECIFICATION Spec
INVARIANT AscendingComplete
