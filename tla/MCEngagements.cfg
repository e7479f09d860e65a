SPECIFICATION Spec
CONSTANTS
  m1 = m1
  m2 = m2
  Messages = {m1, m2}
  Deliveries = {1, 2}
  Decisions = {1, 2}
  Conversations <- MCConversations
  MaxFollowUps = 1
  MaxCommits = 1
  MaxFaults = 1
INVARIANTS
  TypeOK
  InboxIsTrue
  BranchIsReviewed
  AttemptsAreBounded
CHECK_DEADLOCK FALSE
