CONSTANTS
  r1 = r1
  r2 = r2
  h1 = h1
  h2 = h2
  Reconcilers = {r1, r2}
  Handlers = {h1, h2}
  Requests <- AllRequests
  Routes = 2
  MaxRequests = 3
  MaxCrashes = 1
  MaxClaims = 4
  CloseoutFaults = TRUE
SYMMETRY Symmetry
SPECIFICATION Spec
INVARIANTS ClaimHeld SubmitOnce PublishedWithEvidence
PROPERTIES NoTurnWithoutPermission AbandonedForGood ImplementsExclusive
CHECK_DEADLOCK FALSE
