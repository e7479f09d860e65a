SPECIFICATION PublicationSpec
CONSTANTS
  r1 = r1
  r2 = r2
  url1 = url1
  url2 = url2
  Mixed = {}
  Reservations = {r1, r2}
  Products <- MCProducts
  Owners = {"acme"}
  Runs = {"run1"}
  Names <- MCNames
  Urls <- MCUrls
  NoUrl = NoUrl
  Lower <- MCLower
  OwnerOf <- MCOwnerOf
  UrlRepo <- MCUrlRepo
  ProductOf <- MCProductOf
  RepoOf <- MCRepoOf
  RunOf <- MCRunOf
  PrOf <- MCPrOf
  OwnerLimits = {2}
  MaxOwnerLimit = 2
  SuiteLimits = {}
  LimitTables <- MCLimitTables
  DefaultSuiteLimit = 2
  DefaultLimits <- MCDefaultLimits
  Callers = {"writer", "retry"}
  ClientReasons = {"dropped", "creation_failed"}
  PolicyStates = {}
  MaxCalls = 8
  MaxRestarts = 0
INVARIANTS
  OpenPrsKeepTheirSlots
CHECK_DEADLOCK FALSE
