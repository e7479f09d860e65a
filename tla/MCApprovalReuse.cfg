SPECIFICATION Spec
CONSTANTS
  a1 = a1
  a2 = a2
  t1 = t1
  t2 = t2
  Approvals = {a1, a2}
  Inputs = {"open_pr"}
  Contracts = {"v1", "v2", "automatic"}
  Gated = {"v1", "v2"}
  Tasks = {t1, t2}
  NoApproval = NoApproval
  NoSubject = NoSubject
  NoTask = NoTask
  MaxRestarts = 1
SYMMETRY MCSymmetry
INVARIANTS
  SingleUse
CHECK_DEADLOCK FALSE
