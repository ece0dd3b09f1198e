SPECIFICATION Spec
CONSTANTS
  Parameters <- MCParameters
INVARIANTS
  TypeOK
  AllAnswered
PROPERTIES
  LosesOnlyOnCollision
  ImplementsService
  Terminates
