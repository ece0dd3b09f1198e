SPECIFICATION Spec
CONSTANTS
  Period = 2
  MinDelay = 2
  MaxDelay = 5
  Calls = 4
INVARIANTS
  TypeOK
  ContextsMatch
  AnswersInTime
PROPERTIES
  LosesOnlyOnCollision
  ImplementsService
