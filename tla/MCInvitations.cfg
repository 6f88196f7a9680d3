CONSTANTS
  i1 = i1
  i2 = i2
  s1 = s1
  s2 = s2
  u1 = u1
  u2 = u2
  Users = {u1, u2}
  Initiator <- TwoUsers
  Invites = {i1}
  Sockets = {s1, s2}
  MaxAnswers = 2
  Overlap = TRUE
SPECIFICATION FairSpec
INVARIANTS
  TypeOK
  StaleOnlyAfterRemoval
  SettledTableIsCurrent
  TrapNeedsRemoval
  ElementsAccountedFor
PROPERTIES
  RemovesAnswered
  ListedIsShown
CHECK_DEADLOCK FALSE
