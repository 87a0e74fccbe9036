CONSTANTS
  Workers = {w1}
  Main = main
  MaxIndex = 3
  MaxGrain = 2
  MaxCalls = 2
  c = c
  w = w
  x = x
  y = y
  z = z
  NumThreads = 2
  Keys <- MCTwoKeys
  RightKeys <- MCTwoKeys
  Hash <- MCTwoHash
  HashBits = 3
  AbsoluteMinSize = 2
  MaxEntries = 2
  ColumnHash <- MCTwoColumnHash
  NumRight = 1
  MaxElements = 1
  Parts = {"join"}
SPECIFICATION MCSpec
INVARIANTS
  JoinExact
