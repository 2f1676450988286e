CONSTANTS
  r1 = r1
  r2 = r2
  h1 = h1
  h2 = h2
  Reconcilers = {r1, r2}
  Handlers = {h1, h2}
  Requests <- AllRequests
  Routes = 2
  MaxRequests = 1
  MaxCrashes = 0
  MaxClaims = 2
  CloseoutFaults = FALSE
SPECIFICATION Spec
INVARIANT NoPerpetualRunning
CHECK_DEADLOCK FALSE
