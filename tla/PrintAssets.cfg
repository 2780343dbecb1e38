SPECIFICATION Spec
CONSTANTS
  A = A  B = B  p = p  q = q  waybills = waybills  s1 = s1
  None = None  Blank = Blank  Absent = Absent
  Codes = {A, B}
  Passwords = {p, q}
  Workers = {1}
  Faults = {"dbError", "ssaError"}
  MaxCalls = 3
  MaxEdits = 1
  Auths = {waybills}
  Templates = {s1}
  Offers <- TwoOffers
  Legacy <- NoLegacy
SYMMETRY Symmetry
CHECK_DEADLOCK FALSE
 
INVARIANT ChosenPasswordHolds
INVARIANT PrintsUnderActive
INVARIANT AssetsOfRightAccount
INVARIANT MirrorsKdzs
 
 
