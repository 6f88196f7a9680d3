CONSTANTS
  MaxValue = 2
  MaxVisits = 2
SPECIFICATION Spec
INVARIANTS
  TypeOK
  OnlyCarriedPicksHide
PROPERTIES
  EfficiencyIsShown
  LoyaltyIsOfAllQuestions
  ImplementsVoteStep
CHECK_DEADLOCK FALSE
