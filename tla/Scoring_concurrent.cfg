\* Three submissions, two at a time, while a fourth judge may join the panel.
SPECIFICATION Spec
CONSTANTS
  j1 = j1  j2 = j2  j3 = j3  j4 = j4  s1 = s1  s2 = s2  c1 = c1
  Absent = Absent
  Judges = {j1, j2, j3, j4}
  Students = {s1, s2}
  StartPanel <- StartedWith
  Criteria = {c1}
  Crits = {c1}
  MaxPoints <- TwoPoints
  TopPoints = 2
  MaxAmount = 1
  Amounts = {1}
  Scale = 12
  Method = "AVERAGE"
  Earlier = {1, 2, 3, 4, 5, 6}
  Prior <- OneMarked
  PriorRows <- OneResult
  Submits = {q1, q2, q3}
  Undos = {}
  Region <- OneRegion
  Regional = TRUE
  Concurrency = 2
  MaxRows = 3
CHECK_DEADLOCK FALSE
SYMMETRY Symmetry
INVARIANTS
  ResultsRestOnFullPanel
  NoUnrankedResult
