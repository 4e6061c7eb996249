----------------------------- MODULE PanelScore -----------------------------
(***************************************************************************)
(* The arithmetic of the ranking engine (app/services/ranking_engine.py):  *)
(* a judge's score, the panel's score, the consistency flag and the        *)
(* ranking of a set of scores.  No state: the operators are used by the    *)
(* specifications of the scoring requests.                                 *)
(*                                                                         *)
(* Points are naturals (the unit is the smallest amount a rubric deducts). *)
(* A sum of naturals is the cardinality of the set of its points, and so   *)
(* is a clipped difference: "max(0, m - d)" is the number of points        *)
(* i \in 1..m with i > d.  Written this way every score is a natural by    *)
(* the finiteness of a set, with no recursion over the data.               *)
(***************************************************************************)
EXTENDS Integers, FiniteSets

CONSTANTS
  Criteria,     \* the ScoringCriteria rows of the round's category group
  MaxPoints,    \* criterion |-> max_points
  TopPoints,    \* an upper bound of max_points
  MaxAmount,    \* an upper bound of one deduction's amount
  Scale,        \* panel scores are kept in 1/Scale of a point, so that no
                \* average or median of a panel is rounded
  Method        \* CompetitionSeasonSettings.panel_score_method

ASSUME CriteriaAssumption ==
  /\ IsFiniteSet(Criteria)
  /\ MaxPoints \in [Criteria -> Nat]
  /\ TopPoints \in Nat /\ MaxAmount \in Nat
  /\ \A c \in Criteria : MaxPoints[c] <= TopPoints
ASSUME MethodAssumption ==
  /\ Scale \in Nat \ {0}
  /\ Method \in {"AVERAGE", "MEDIAN"}

-----------------------------------------------------------------------------
(* deductions_by_crit[c]: the sum of the amounts of the events E.          *)
Deducted(E) == Cardinality({p \in E \X (1..MaxAmount) : p[2] <= p[1].amount})

\* Mutant: one total for the whole rubric.
KeptOfOneTotal(E, c) == {i \in 1..MaxPoints[c] : i > Deducted(E)}
(* The points of criterion c that survive the events E of one judge.       *)
Kept(E, c) ==
  {i \in 1..TopPoints :
     /\ i <= MaxPoints[c]
     /\ i > Deducted({e \in E : e.crit = c})}

(* _compute_judge_score: every criterion of the category group is floored  *)
(* at 0 on its own; an event whose deduction type belongs to no criterion  *)
(* of the group takes nothing off.                                         *)
JudgeScore(E) ==
  Cardinality({p \in Criteria \X (1..TopPoints) : p[2] \in Kept(E, p[1])})

(* The highest score a judge can give.                                     *)
FullMarks ==
  Cardinality({p \in Criteria \X (1..TopPoints) : p[2] <= MaxPoints[p[1]]})

(* sum(judge_scores) over the judges P; sc[j] is judge j's score.          *)
ScoreSum(P, sc) == Cardinality({p \in P \X (1..FullMarks) : p[2] <= sc[p[1]]})

\* Mutant: off by one in the rank of the score.
KthSmallestLate(P, sc, k) ==
  Cardinality({i \in 1..FullMarks :
                 Cardinality({j \in P : sc[j] >= i}) >= Cardinality(P) - k})
(* The k-th smallest of the scores of P: it is at least i exactly when all *)
(* but k - 1 of the judges gave i or more.                                 *)
KthSmallest(P, sc, k) ==
  Cardinality({i \in 1..FullMarks :
                 Cardinality({j \in P : sc[j] >= i}) > Cardinality(P) - k})

(* statistics.median, in half points: twice the middle score, or the sum   *)
(* of the two middle ones.                                                 *)
TwiceMedian(P, sc) ==
  LET n == Cardinality(P)
  IN  KthSmallest(P, sc, (n + 1) \div 2) + KthSmallest(P, sc, (n \div 2) + 1)

(* compute_panel_score, in 1/Scale of a point.  A panel without judges     *)
(* scores 0.                                                               *)
PanelScoreOf(P, sc) ==
  IF P = {} THEN 0
  ELSE IF Method = "MEDIAN" THEN (TwiceMedian(P, sc) * Scale) \div 2
  ELSE (ScoreSum(P, sc) * Scale) \div Cardinality(P)

(* _check_consistency: some judge is more than Limit points away from the  *)
(* average of the panel, whatever the method (both sides times |P|).       *)
Distance(a, b) == IF a > b THEN a - b ELSE b - a
\* Mutant: average - score, without abs().
FlaggedBelowOnly(P, sc, Limit) ==
  \E j \in P : ScoreSum(P, sc) - Cardinality(P) * sc[j] > Cardinality(P) * Limit
Flagged(P, sc, Limit) ==
  \E j \in P :
    Distance(Cardinality(P) * sc[j], ScoreSum(P, sc)) > Cardinality(P) * Limit

-----------------------------------------------------------------------------
(* _recompute_rankings: f ranks the results D with scores sc.  Ranks run   *)
(* from 1 within each group (a region, or the whole round when the season  *)
(* does not balance regions), higher scores first.  Equal scores keep the  *)
(* order in which the database returned the rows, which has no ORDER BY:   *)
(* any order of them is a ranking.                                         *)
IsRanking(D, sc, group, f) ==
  /\ \A a \in D : f[a] \in 1..Cardinality({b \in D : group[a] = group[b]})
  /\ \A a, b \in D :
       a # b /\ group[a] = group[b] =>
         /\ f[a] # f[b]
         /\ sc[a] > sc[b] => f[a] < f[b]
=============================================================================
