\* Panels of three and four judges, two criteria of 3 and 1 points; sheets of a panel of two.
SPECIFICATION Spec
CONSTANTS
  c1 = c1  c2 = c2  other = other
  j1 = j1  j2 = j2  j3 = j3  j4 = j4
  Criteria = {c1, c2}
  MaxPoints <- Rubric
  TopPoints = 3
  MaxAmount = 2
  Scale = 12
  Method = "MEDIAN"
  Limit = 1
INVARIANTS
  JudgeScoreIsFlooredSum
  MedianIsMiddleOfSorted
  UnflaggedPanelAgrees
  SheetAgreesWithEngine
PROPERTIES
  OthersScoresStayHidden
CHECK_DEADLOCK FALSE
