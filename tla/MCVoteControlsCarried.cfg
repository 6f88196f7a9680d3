CONSTANTS
  MaxValue = 2
  MaxVisits = 1
SPECIFICATION Spec
PROPERTIES
  CountedIsSelected
CHECK_DEADLOCK FALSE
