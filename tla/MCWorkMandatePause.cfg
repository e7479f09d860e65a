SPECIFICATION Spec
CONSTANTS
  suite = suite
  mandate = mandate
  Items = {"fix"}
  Engine = {1}
  Calls = {2}
  NoTask = 0
  NoItem = NoItem
  Scopes = {mandate}
  MandateScopes = {mandate}
  Contracts <- MCContracts
  Covered <- MCCovered
  SlotPolicies = {1}
  AiPolicies = {2}
  Costs = {2}
  RateLimits <- MCRateLimits
  OwnerStates <- MCOwnerStates
  SmokeStates <- MCSmokeStates
  Requests = {0, 2}
  MaxTasks = 2
  MaxUpsets = 1
PROPERTY PauseStopsMatchingDispatches
CHECK_DEADLOCK FALSE
