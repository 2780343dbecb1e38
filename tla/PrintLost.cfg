SPECIFICATION Spec
CONSTANTS
  poll = poll  list = list
  o1 = o1  o2 = o2  o3 = o3  k1 = k1
  r1 = r1  r2 = r2
  Orders = {o1, o2, o3}
  ClassOf <- SameKey
  NoKey = NoKey
  Manual = {}
  Reqs = {r1, r2}
  Pollers = {poll}
  Listers = {}
  PollLimit = 3
  ListLimit = 2
  Faults = {}
  Overlap = TRUE
SYMMETRY Symmetry
CHECK_DEADLOCK FALSE
INVARIANT NoOrderLost
