CONSTANTS
  r1 = r1
  r2 = r2
  h1 = h1
  h2 = h2
  Reconcilers = {r1, r2}
  Handlers = {h1, h2}
  Requests <- OwnerRequests
  Routes = 2
  MaxRequests = 2
  MaxCrashes = 0
  MaxClaims = 4
  CloseoutFaults = FALSE
SPECIFICATION FairSpec
INVARIANT NoPerpetualRunning
PROPERTY RunSettles
CHECK_DEADLOCK FALSE
