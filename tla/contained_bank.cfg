SPECIFICATION Spec
CONSTANTS
  Parameters <- MCParameters
INVARIANTS
  InStep
  NoneLost
CHECK_DEADLOCK FALSE
