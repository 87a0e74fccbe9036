CONSTANTS
  Threads = {p1, p2, p3}
  NoThread = none
  FirstCapacity = 1
  MaxAllocations = 5
  WeakMayFail = FALSE
  t1 = t1
  t2 = t2
  o1 = o1
  o2 = o2
  a1 = a1
  a2 = a2
  a3 = a3
  LocalThreads = {t1, t2}
  Objects = {o1, o2}
  Addresses = {a1, a2, a3}
  Null = Null
  BumpThreads = {b1, b2}
  Allocators = {x1, x2}
  None = None
  InitialShift = 1
  FooterSize = 1
  Bases <- MCBases
  Requests <- MCRequests
  MaxCalls = 3
  Parts = {"pool", "bump", "local"}
  MaxObjects = 3
  MaxStarts = 3
SYMMETRY Symmetry
SPECIFICATION MCSpec
INVARIANTS
  WalkExact
  RegionsOwned
  MemoryExact
  Private
  ChainExact
  InstancesOwned
PROPERTIES
  SlotsUnique
\* After the destructor the pool is gone; all calls are done.
CHECK_DEADLOCK FALSE
