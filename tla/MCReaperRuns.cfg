SPECIFICATION FairSpec
CONSTANTS
  i1 = i1
  i2 = i2
  Issues = {i1, i2}
  Paths = {i1, i2}
  WorkPath <- MCWorkPath
  MaxRuns = 2
  Worlds <- MCWorlds
  Concurrency = 2
  Permits = 2
  MaxRetries = 1
  AiLimit = 2
  MaxRestarts = 1
INVARIANTS
  TypeOK
  PublishedWorkIsReviewed
  ReadyPrsPassedTests
  AiSpendIsCovered
  OnePrPerIssue
  RunReportsAreTrue
PROPERTIES
  RunsEnd
CHECK_DEADLOCK FALSE
