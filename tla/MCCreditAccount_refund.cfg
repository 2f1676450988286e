CONSTANTS
  s1 = s1
  s2 = s2
  q1 = q1
  q2 = q2
  j1 = j1
  j2 = j2
  p1 = p1
  p2 = p2
  Stages = {s1, s2}
  Creators = {q1, q2}
  Jobs = {j1}
  Purchases = {p1, p2}
  Hold = 2
  Bills <- StageCosts
  PrCost = 2
  Bought = 3
  Granted = 2
  Fee = 1
  MaxAnswers = 2
  MaxPrepares = 1
  MaxChanges = 1
  MaxAborts = 0
  GithubFails = FALSE
SPECIFICATION Spec
INVARIANT RefundedUnused
CHECK_DEADLOCK FALSE
