SPECIFICATION Spec
CONSTANTS
  s1 = s1  s2 = s2  s3 = s3
  o1 = o1
  c1 = c1
  r1 = r1  r2 = r2
  Ships = {s1, s2}
  Orders = {o1}
  Carriers = {c1}
  OrderOf <- SameOrder
  CarrierOf <- SameAccount
  KdzsShips = {s2}
  RefOnly = {}
  Reqs = {r1, r2}
  Ops = {"waybill", "print", "plugin", "pdf", "cancel", "delete", "sync"}
  Faults = {"ignored"}
  Overlap = FALSE
SYMMETRY Symmetry
CHECK_DEADLOCK FALSE
INVARIANTS NoOrphanWaybill OrderCoreAgrees
