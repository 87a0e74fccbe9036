\* The bump allocator alone, with no hypothesis on what its calls had read.
CONSTANTS
  Threads = {p1}
  NoThread = none
  FirstCapacity = 1
  MaxAllocations = 1
  WeakMayFail = FALSE
  t1 = t1
  t2 = t2
  o1 = o1
  o2 = o2
  a1 = a1
  a2 = a2
  a3 = a3
  LocalThreads = {t1}
  Objects = {o1}
  Addresses = {a1}
  Null = Null
  BumpThreads = {b1, b2}
  Allocators = {x1, x2}
  None = None
  InitialShift = 1
  FooterSize = 1
  Bases <- MCBases
  Requests <- MCRequests
  MaxCalls = 3
  Parts = {"bump"}
  MaxObjects = 1
  MaxStarts = 1
SPECIFICATION MCSpec
INVARIANT RegionsInside
\* All calls are done.
CHECK_DEADLOCK FALSE
