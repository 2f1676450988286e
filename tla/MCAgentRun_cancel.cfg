CONSTANTS
  e1 = e1
  e2 = e2
  Executors = {e1, e2}
  MaxIterations = 2
  MaxFaults = 1
SPECIFICATION Spec
PROPERTIES CancelIsFinal
CHECK_DEADLOCK FALSE
