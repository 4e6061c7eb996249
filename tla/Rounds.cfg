\* A FINAL round that lacks its guest judge; five requests, two at a time, any of which may die.
SPECIFICATION Spec
CONSTANTS
  u1 = u1  u2 = u2  u3 = u3  u4 = u4  s1 = s1  s2 = s2
  Users = {u1, u2, u3, u4}
  Students = {s1, s2}
  RoundType = "FINAL"
  Seated <- ThreeSeated
  Requests = {r1, r2, r3, r4, r5}
  Concurrency = 2
  Failing = {r1, r2, r3, r4, r5}
  Nobody = Nobody
SYMMETRY Symmetry
INVARIANTS
  EnoughJudges
  StageReachesScreens
PROPERTY
  StartedOnceWithValidPanel
CHECK_DEADLOCK FALSE
