CONSTANTS
  r1 = r1
  r2 = r2
  c1 = c1
  w1 = w1
  w2 = w2
  Requests = {r1, r2}
  Clients = {c1}
  Workers = {w1, w2}
  None = None
  MaxPolls = 1
  MaxCrashes = 2
SPECIFICATION FairSpec
INVARIANTS AtMostOnce NoJobLost
PROPERTIES FinalVerdictsHold KeepsPromise QueueDrains CallsReturn
CHECK_DEADLOCK FALSE
