------------------------------ MODULE MCScoring ------------------------------
(***************************************************************************)
(* Instances of Scoring, for a PRELIMINARY round of two students that was  *)
(* started with three judges.                                              *)
(***************************************************************************)
EXTENDS ScoringRefinement, TLC

CONSTANTS j1, j2, j3, j4, s1, s2, c1

StartedWith == {j1, j2, j3}
TwoPoints == [c \in {c1} |-> 2]
OneRegion == [s \in {s1, s2} |-> "coast"]
Mark(i, j, s) == [id |-> i, judge |-> j, student |-> s, crit |-> c1, amount |-> 1]

\* The first student still needs two judges, the second one.
HalfMarked == {Mark(1, j1, s1), Mark(2, j1, s2), Mark(3, j2, s2)}
NoResults == [id \in RowIds |-> Absent]

\* All judges have marked both students, which left two equal results; the
\* first judge has a point left, the others have deducted all there is.
AllMarked ==
  HalfMarked \cup {Mark(4, j2, s1), Mark(5, j3, s1), Mark(6, j3, s2)}
             \cup {Mark(7, j2, s1), Mark(8, j2, s2), Mark(9, j3, s1), Mark(10, j3, s2)}
LowTally == [j \in StartedWith |-> IF j = j1 THEN 1 ELSE 0]
Placed(s, k, tally) ==
  [student |-> s, score |-> PanelScoreOf(StartedWith, tally), rank |-> k]
TwoResults == [id \in RowIds |-> IF id = 1 THEN Placed(s1, 1, LowTally)
                                 ELSE IF id = 2 THEN Placed(s2, 2, LowTally)
                                 ELSE Absent]

\* The first student still needs two judges, the second has a result.
OneMarked == HalfMarked \cup {Mark(6, j3, s2)}
EvenTally == [j \in StartedWith |-> 1]
OneResult == [id \in RowIds |-> IF id = 1 THEN Placed(s2, 1, EvenTally) ELSE Absent]

Symmetry == Permutations(Submits)
==============================================================================
