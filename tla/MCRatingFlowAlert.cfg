CONSTANTS
  e1 = e1
  e2 = e2
  u1 = u1
  u2 = u2
  Events = {e1, e2}
  NoEvent = NoEvent
  Members = {u1, u2}
  NoUser = NoUser
  MaxSessions = 2
SPECIFICATION Spec
INVARIANTS
  AlertIsTrue
CHECK_DEADLOCK FALSE
