SPECIFICATION ExecSpec
CONSTANTS
  MaxScans = 4
  MaxEstimated = 3
  ChunkSize = 2
  BoundsWidth = 2
  Threads = 2
  Plans <- MCForkPlans
  Outputs <- MCForkOutputs
  Estimated = {}
  Databases <- MCDatabasesOf
INVARIANT
  NoFault
\* Ends when the query has run.
CHECK_DEADLOCK FALSE
