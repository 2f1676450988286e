CONSTANTS
  h1 = h1
  h2 = h2
  r1 = r1
  r2 = r2
  Posts = {h1, h2}
  Requests = {r1, r2}
  Cost = 2
  Bills <- ChatCosts
  Bought = 3
  Bonus = 1
  MaxCalls = 1
  MaxFaults = 1
  MaxDeaths = 0
  SignedReceipts = FALSE
SYMMETRY Symmetry
SPECIFICATION Spec
INVARIANT RefundOnlyReserved
CHECK_DEADLOCK FALSE
