SPECIFICATION FairSpec
CONSTANTS
  poll = poll  list = list
  o1 = o1  o2 = o2  o3 = o3  k1 = k1
  r1 = r1  r2 = r2
  Orders = {o1, o2}
  ClassOf <- SameKey
  NoKey = NoKey
  Manual = {}
  Reqs = {r1}
  Pollers = {poll}
  Listers = {list}
  PollLimit = 2
  ListLimit = 2
  Faults = {"confirmError"}
  Overlap = TRUE
CHECK_DEADLOCK FALSE
PROPERTY Settles
PROPERTY AutoConfirmed
