SPECIFICATION Spec
CONSTANTS
  n1 = n1  n2 = n2  r1 = r1  r2 = r2
  Nos = {n1, n2}
  SFNos = {n1}
  Total = 2
  Planned = 2
  Calls <- AllCalls
  Reqs = {r1, r2}
  MaxGroups = 2
  Faults = {"ocError", "lostReply", "dbError", "crash"}
  Overlaps = {TRUE, FALSE}
SYMMETRY Symmetry
CHECK_DEADLOCK FALSE
 
INVARIANT PlanNotOverdrawn
 
INVARIANT NoOrphan
INVARIANT AnswersHold
