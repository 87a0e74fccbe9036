SPECIFICATION ExecSpec
CONSTANTS
  MaxScans = 4
  MaxEstimated = 3
  ChunkSize = 2
  BoundsWidth = 2
  Threads = 2
  Plans <- MCPlansAndForks
  Outputs <- MCOutputsAndForks
  Estimated <- MCEstimated
  Databases <- MCDatabasesOf
INVARIANTS
  TreesExact
  PipelinesDeliver
  ExecutionExact
  IterableExact
  CacheCoherent
\* Ends when the query has run.
CHECK_DEADLOCK FALSE
