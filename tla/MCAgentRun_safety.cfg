CONSTANTS
  e1 = e1
  e2 = e2
  Executors = {e1, e2}
  MaxIterations = 2
  MaxFaults = 2
SPECIFICATION FairSpec
INVARIANTS ResultsWithinBudget ClaimsWithinBudget
PROPERTIES HoldersRespectTheEnd ResultsAreLeased RunComesToRest
CHECK_DEADLOCK FALSE
