SPECIFICATION FairSpec
CONSTANTS
  r1 = r1
  c1 = c1
  c2 = c2
  Runs = {r1}
  Calls = {c1, c2}
  Length = 2
  Jobs = {1, 2}
  MaxWork = 3
  MaxRestarts = 1
INVARIANTS
  TypeOK
  
  StepsAreSentOnce
  OneActiveLaunch
PROPERTIES
  HaltedRunsSendNothing
  PausedSuiteSendsNothing
  DrainsEnd
CHECK_DEADLOCK FALSE
