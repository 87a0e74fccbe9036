CONSTANTS
  Processes = {p}
  Codes = {a, b}
  Empty = empty
  MaxQueries = 5
  MaxTime = 3
  Names = {"r", "s", "t"}
  FirstNames <- MCFirstNames
  Files = {"f", "g"}
  NoFile = none
  NumRows = 2
  MaxVersion = 2
  MaxCopies = 3
  MaxRuns = 2
  MaxStarts = 2
  MaxToolRuns = 2
  UseAtOnce = FALSE
  Scripts <- AllScripts
  Main = "main"
  Schemas = {1, 2}
  Algorithms = {1}
  NoName = 0
  MaxProcesses = 3
SPECIFICATION MCSpec
INVARIANTS
  RunsOwnCode
  ReadsCopied
  OneVersion
  AsWritten
  PlanOfQuery
\* Sessions end, scripts end, queries are bounded and time does not advance for ever.
CHECK_DEADLOCK FALSE
