CONSTANTS
  Selects <- MCSelects
  Values <- MCValues
  Algorithms <- MCAlgorithms
  Schemas <- MCSchemas
  Signatures <- MCSignatures
  Size <- MCSize
  IntMax = 7
  Oracles = {visitor, optimizer}
  Estimates <- MCEstimates
  Absent <- MCAbsent
  Backups = 2
  Autosave = {TRUE, FALSE}
  FirstFile <- MCFirstFile
  MaxEnds = 2
  Results <- MCResults
  Buffer = 4
  WritesWhole = TRUE
  MaxCommands = 4
  Parts = {"optimizer", "count", "file", "pipe"}
SPECIFICATION MCSpec
INVARIANTS
  CostsCurrent
  BestPlanChosen
  QueryKept
  CountExact
  AnswersExact
  Recoverable
  AnswersMatch
PROPERTIES
  EstimatesKept
  RequestEnds
