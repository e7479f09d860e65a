SPECIFICATION Spec
CONSTANTS
  Reservations <- MCReservations
  Products <- MCProducts
  Owners <- MCOwners
  Runs <- MCRuns
  Names <- MCNames
  Urls <- MCUrls
  NoUrl = NoUrl
  Lower <- MCLower
  OwnerOf <- MCOwnerOf
  UrlRepo <- MCUrlRepo
  ProductOf <- MCProductOf
  RepoOf <- MCRepoOf
  RunOf <- MCRunOf
  OwnerLimits = {1}
  MaxOwnerLimit = 1
  SuiteLimits = {1}
  LimitTables <- MCLimitTables
  DefaultSuiteLimit = 2
  DefaultLimits <- MCDefaultLimits
  Callers = {"writer"}
  ClientReasons = {"operator"}
  PolicyStates = {}
  MaxCalls = 2
INVARIANTS
  TypeOK
  RowsDecode
PROPERTIES
  SuitePool
  LayerPools
CHECK_DEADLOCK FALSE
