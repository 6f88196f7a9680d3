CONSTANTS
  g1 = g1
  g2 = g2
  Groups = {g1, g2}
  NoGroup = NoGroup
  Existing <- EventsOfBoth
  MaxViews = 2
  MaxEvents = 3
SPECIFICATION FairSpec
INVARIANTS
  TypeOK
  OwnUnlessLate
  OnceUnlessOverlap
PROPERTIES
  DueComesUp
CHECK_DEADLOCK FALSE
