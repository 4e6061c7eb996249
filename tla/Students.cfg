\* An institution with four active students; three requests, two at a time.
SPECIFICATION Spec
CONSTANTS
  i1 = i1  c1 = c1  c2 = c2  c3 = c3  c4 = c4  c5 = c5  c6 = c6
  r1 = r1  r2 = r2  r3 = r3
  Institutions = {i1}
  Categories = {c1, c2, c3, c4, c5, c6}
  Reasons = {x}
  NoReason = NoReason  Absent = Absent  Gone = Gone
  MaxIds = 6
  PriorRows <- FourActive
  Judged = {1}
  Requests = {r1, r2, r3}
  May <- Mixed
  MaxBulk = 2
  Concurrency = 2
INVARIANTS
  ArchivedWhileDeleted
  CapExceededByRacesOnly
PROPERTIES
  PermanentDeleteIsIrreversible
CHECK_DEADLOCK FALSE
