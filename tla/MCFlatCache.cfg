\* A budget whose half holds one large entry and a small one: rotations happen
\* inside a block, between blocks and on fills.
CONSTANTS
  k1 = k1  k2 = k2  empty = empty  v1 = v1  v2 = v2
  Keys <- MCKeys
  Vals <- MCVals
  MaxHeight = 3
  Last <- MCLast
  RowKey <- MCRowKey
  RowVal <- MCRowVal
  Size <- MCSize
  Budget = 6
  Readers = {r1, r2}
  NotFound = NotFound
  None = None
SPECIFICATION Spec
SYMMETRY Symmetry
INVARIANTS TypeOK CacheExact ReadsExact BudgetKept CacheInv
