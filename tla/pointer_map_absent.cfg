SPECIFICATION Spec
CONSTANTS
  Keys = {8, 16, 17, 24}
  Values = {1, 2}
  Capacity = 3
  Nothing = 0
PROPERTIES
  CrashesOnMissing
CHECK_DEADLOCK FALSE
