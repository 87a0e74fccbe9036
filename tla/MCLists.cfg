CONSTANTS
  Threads = {t1, t2, t3}
  Nobody = nobody
  Deltas = {4}
  MaxSegment = 2
  MaxSize = 5
  InlineElements = 2
  MaxLength = 6
  MaxVector = 4
  t1 = t1
  t2 = t2
  t3 = t3
  o1 = o1
  o2 = o2
SPECIFICATION MCSpec
INVARIANTS
  ElementsExact
  MergedExact
PROPERTIES
  AllRefine
  AllReturn
\* After the destructor a list is gone.
CHECK_DEADLOCK FALSE
