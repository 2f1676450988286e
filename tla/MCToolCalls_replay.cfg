CONSTANTS
  w1 = w1
  w2 = w2
  clean = clean
  new = new
  Workers = {w1, w2}
  Contents = {clean, new}
  Clean = clean
  Earlier = {{}}
  MaxCalls = 2
  FailureLimit = 3
  Routes = 2
  MaxFaults = 0
SYMMETRY Symmetry
SPECIFICATION Spec
PROPERTIES NeverReplaysAMutation
CHECK_DEADLOCK FALSE
