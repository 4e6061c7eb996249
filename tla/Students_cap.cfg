\* The same institution, one request at a time.
SPECIFICATION Spec
CONSTANTS
  i1 = i1  c1 = c1  c2 = c2  c3 = c3  c4 = c4  c5 = c5  c6 = c6
  r1 = r1  r2 = r2  r3 = r3
  Institutions = {i1}
  Categories = {c1, c2, c3, c4, c5}
  Reasons = {x}
  NoReason = NoReason  Absent = Absent  Gone = Gone
  MaxIds = 5
  PriorRows <- FourActive
  Judged = {}
  Requests = {r1, r2, r3}
  May <- OneByOne
  MaxBulk = 1
  Concurrency = 1
INVARIANTS
  MaxFourActive
CHECK_DEADLOCK FALSE
