CONSTANTS
  w1 = w1
  w2 = w2
  clean = clean
  new = new
  Workers = {w1}
  Contents = {clean, new}
  Clean = clean
  Earlier = {{}}
  MaxCalls = 3
  FailureLimit = 3
  Routes = 1
  MaxFaults = 0
SPECIFICATION Spec
INVARIANTS TestedChangeIsProvable
CHECK_DEADLOCK FALSE
