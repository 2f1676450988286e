CONSTANTS
  w1 = w1
  w2 = w2
  one = one
  two = two
  late = late
  Workers = {w1, w2}
  Cases = {one}
  Width <- OneFamily
  Stalled = {}
  Limit = 1
  MaxApprovals = 0
  MaxFaults = 0
SPECIFICATION Spec
INVARIANTS OneRepair
