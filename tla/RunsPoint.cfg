CONSTANTS
  MaxHeight = 4
  FlushBlocks = 1
  TerminalTxs = 2
  Fanout = 1
  Writes = {1, 3}
  Ops = {"chain", "latest"}
  Fails = TRUE
  Readers = {r1}
SPECIFICATION Spec
INVARIANTS TypeOK OpenWhileHeld DiskReturned RunsTile TerminalsByContent PointReads
