CONSTANTS
  MaxHeight = 4
  FlushBlocks = 1
  TerminalTxs = 2
  Fanout = 1
  Writes = {1, 3}
  Ops = {"asc", "desc"}
  Fails = FALSE
  Readers = {r1}
SPECIFICATION Spec
INVARIANTS OpenWhileHeld AscendingOrdered DescendingComplete
