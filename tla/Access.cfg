\* Three requests about institutions and two callers of the login, two at a time.
SPECIFICATION MCSpec
CONSTANTS
  r1 = r1  r2 = r2  r3 = r3
  Ids = {1, 2, 3, 4}
  Emails = {"A", "a", "b", "c"}
  Lower <- Spelling
  Batches <- BothOrders
  PriorRows <- OneApproved
  Requests = {r1, r2, r3}
  May <- Mixed
  Failing = {r2}
  Concurrency = 2
  Absent = Absent
  Nobody = Nobody
  Clients = {k1, k2}
  MaxCodes = 2
  MaxCalls = 5
  MaxAttempts = 2
INVARIANTS
  BatchesAreWhole
  ToldItsStatus
  OneCodeOneSession
  FewGuesses
PROPERTIES
  IntakesEnd
  RejectedIsLockedOut
CHECK_DEADLOCK FALSE
