CONSTANTS
  r1 = r1
  c1 = c1
  c2 = c2
  w1 = w1
  w2 = w2
  Requests = {r1}
  Clients = {c1, c2}
  Workers = {w1, w2}
  None = None
  MaxPolls = 2
  MaxCrashes = 1
SPECIFICATION Spec
PROPERTIES ResultKept
CHECK_DEADLOCK FALSE
