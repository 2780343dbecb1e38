SPECIFICATION Spec
CONSTANTS
  A = A  B = B  p = p  q = q  waybills = waybills  s1 = s1
  None = None  Blank = Blank  Absent = Absent
  Codes = {A, B}
  Passwords = {p, q}
  Workers = {1}
  Faults = {}
  MaxCalls = 2
  MaxEdits = 0
  Auths = {waybills}
  Templates = {s1}
  Offers <- TwoOffers
  Legacy <- OldRows
SYMMETRY Symmetry
CHECK_DEADLOCK FALSE
INVARIANT LegacyAdopted
