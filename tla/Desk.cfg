SPECIFICATION Spec
CONSTANTS
  Batches = {b1}
  Uploads = {u1, u2, u3}
  MaxItems = 2
  TTL = 3
  KeepAlive = 1
  Renew = 2
  Tasks = {k1}
  Takers = {p1, p2}
  TaskTTL = 1
  MaxTime = 5

  Callers = {c1, c2}
  Lives = {0, 4, 5, 8}
  DefaultLife = 7
  Margin = 4
  LeastTTL = 2
  Timeout = 1
  MaxClock = 14

  Ids = {1, 2}
  Names = {n1, n2}
  Printers = {q1, q2}
  Editors = {e1, e2}
  MaxOps = 5
  Serials = {TRUE, FALSE}

  Machines = {m1}
  Doers = {d1, d2, d3}
  Jobs = {1, 2}
  MaxKeys = 2
  Modes <- AllModes

  Clocks <- ClocksOfADay
  Windows <- SomeWindows
  Items <- SomeItems
INVARIANT BatchLimit
INVARIANT HandedOutOnce
INVARIANT HandedAlive
INVARIANT OneDefault
 
 
INVARIANT KeyHolds
INVARIANT HoursAhead
INVARIANT TagsTrue
PROPERTY DoneIsFinal
PROPERTY PollSeesAll
 
CHECK_DEADLOCK FALSE
