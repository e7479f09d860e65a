SPECIFICATION FairPublication
CONSTANTS
  r1 = r1
  r2 = r2
  url1 = url1
  url2 = url2
  Mixed = {}
  Reservations = {r1}
  Products <- MCProducts
  Owners = {"acme"}
  Runs = {"run1"}
  Names <- MCNames
  Urls <- MCUrls
  NoUrl = NoUrl
  Lower <- MCLower
  OwnerOf <- MCOwnerOf
  UrlRepo <- MCUrlRepo
  ProductOf <- MCProductOf
  RepoOf <- MCRepoOf
  RunOf <- MCRunOf
  PrOf <- MCPrOf
  OwnerLimits = {1}
  MaxOwnerLimit = 1
  SuiteLimits = {1}
  LimitTables <- MCLimitTables
  DefaultSuiteLimit = 2
  DefaultLimits <- MCDefaultLimits
  Callers = {"writer", "retry"}
  ClientReasons = {"dropped", "creation_failed", "operator"}
  PolicyStates <- MCPolicyStates
  MaxCalls = 8
  MaxRestarts = 2
INVARIANTS
  PublicationTypeOK
  PrsAreAccountedFor
  OutcomesAreTrue
  AcknowledgementsAreReal
PROPERTIES
  PendingCommitsSettle
  ClosedSlotsReturn
CHECK_DEADLOCK FALSE
