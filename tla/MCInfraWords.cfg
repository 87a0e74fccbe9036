CONSTANTS
  Workers = {w1}
  Main = main
  MaxIndex = 3
  MaxGrain = 2
  MaxCalls = 2
  c = c
  w = w
  x = x
  y = y
  z = z
  NumThreads = 2
  Keys <- MCKeys
  RightKeys <- MCRightKeys
  Hash <- MCHash
  HashBits = 3
  AbsoluteMinSize = 1
  MaxEntries = 3
  ColumnHash <- MCColumnHash
  NumRight = 1
  MaxElements = 1
  Parts = {"words"}
SPECIFICATION MCSpec
INVARIANTS
  IntersectExact
