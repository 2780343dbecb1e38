SPECIFICATION Spec
CONSTANTS
  r1 = r1  r2 = r2
  Plans <- SmallPlans
  MaxLines <- Lines3or2
  MaxPieces = 2
  MaxOver = 1
  Reqs = {r1, r2}
  Faults = {"ocError", "lostReply", "dbError", "crash"}
  Calms = {TRUE, FALSE}
SYMMETRY Symmetry
CHECK_DEADLOCK FALSE
INVARIANT Mirrored
INVARIANT ProgressCounted
INVARIANT NeverUnderdelivers
PROPERTY ShippedStays
