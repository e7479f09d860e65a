SPECIFICATION FairSpec
CONSTANTS
  suite = suite
  mandate = mandate
  Items = {"fix", "audit"}
  Engine = {1, 2}
  Calls = {3, 4}
  NoTask = 0
  NoItem = NoItem
  Scopes = {suite}
  MandateScopes = {}
  Contracts <- MCContracts
  Covered <- MCCovered
  SlotPolicies = {1}
  AiPolicies = {2}
  Costs = {2}
  RateLimits <- MCRateLimits
  OwnerStates <- MCOwnerStates
  SmokeStates <- MCSmokeStates
  Requests = {0, 2}
  MaxTasks = 3
  MaxUpsets = 1
INVARIANTS
  TypeOK
  WorkIsSentOnce
  SentWorkIsNotOpen
PROPERTIES
  OutcomesAreFinal
  PausedWorkIsNotSent
  SandboxSlotsAreAPool
  ClaimsEnd
CHECK_DEADLOCK FALSE
