CONSTANTS
  w1 = w1
  w2 = w2
  clean = clean
  new = new
  Workers = {w1, w2}
  Contents = {clean, new}
  Clean = clean
  Earlier = {{}}
  MaxCalls = 2
  FailureLimit = 2
  Routes = 2
  MaxFaults = 1
SPECIFICATION FairSpec
INVARIANTS ChainVerifies SettledCallsAreReceipted TaskTellsFailure LedgerFollowsWorkspace CountedMutationIsReceipted CircuitBoundsFailures
PROPERTIES TurnEnds
CHECK_DEADLOCK FALSE
