CONSTANTS
  MaxVisits = 2
SPECIFICATION Spec
INVARIANTS
  TypeOK
  AnswersHaveQuestion
  SaveIsAllOrNone
PROPERTIES
  GradeIsOfFullSheet
  ImplementsVoteStep
CHECK_DEADLOCK FALSE
