SPECIFICATION Spec
CONSTANTS
  Parameters <- MCParameters
PROPERTIES
  SetsTheOutput
CHECK_DEADLOCK FALSE
