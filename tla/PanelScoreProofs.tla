-------------------------- MODULE PanelScoreProofs ---------------------------
(***************************************************************************)
(* Bounds and monotonicity of the scores, for every rubric, every panel    *)
(* and every finite set of deductions; what a set of deductions tells; and *)
(* what the cardinalities of the model stand for.                          *)
(***************************************************************************)
EXTENDS Deductions, FiniteSetTheorems, TLAPS

(* A set of points 1..n of the members of a finite set is finite.          *)
LEMMA PointsFinite ==
  ASSUME NEW S, IsFiniteSet(S), NEW n \in Nat, NEW T \in SUBSET (S \X (1..n))
  PROVE  /\ IsFiniteSet(T) /\ Cardinality(T) \in Nat
         /\ Cardinality(T) <= Cardinality(S) * n
<1>1. IsFiniteSet(1..n) /\ Cardinality(1..n) = n
  BY FS_Interval
<1>2. /\ IsFiniteSet(S \X (1..n))
      /\ Cardinality(S \X (1..n)) = Cardinality(S) * Cardinality(1..n)
  BY <1>1, FS_Product
<1>3. IsFiniteSet(T) /\ Cardinality(T) <= Cardinality(S \X (1..n))
  BY <1>2, FS_Subset
<1>4. Cardinality(T) \in Nat
  BY <1>3, FS_CardinalityType
<1> QED BY <1>1, <1>2, <1>3, <1>4

LEMMA FullMarksType == FullMarks \in Nat
<1> DEFINE T == {p \in Criteria \X (1..TopPoints) : p[2] <= MaxPoints[p[1]]}
<1>1. T \in SUBSET (Criteria \X (1..TopPoints))
  OBVIOUS
<1>2. Cardinality(T) \in Nat
  BY <1>1, PointsFinite, CriteriaAssumption
<1> QED BY <1>2 DEF FullMarks

(* A judge's score lies between 0 and the full marks of the rubric,        *)
(* whatever was deducted (_compute_judge_score).                           *)
THEOREM JudgeScoreBounded ==
  ASSUME NEW E
  PROVE  JudgeScore(E) \in 0..FullMarks
<1> DEFINE F == {p \in Criteria \X (1..TopPoints) : p[2] <= MaxPoints[p[1]]}
           K == {p \in Criteria \X (1..TopPoints) : p[2] \in Kept(E, p[1])}
<1>1. F \in SUBSET (Criteria \X (1..TopPoints))
  OBVIOUS
<1>2. IsFiniteSet(F)
  BY <1>1, PointsFinite, CriteriaAssumption
<1>3. K \in SUBSET F
  BY DEF Kept
<1>4. IsFiniteSet(K) /\ Cardinality(K) <= Cardinality(F)
  BY <1>2, <1>3, FS_Subset
<1>5. Cardinality(K) \in Nat
  BY <1>4, FS_CardinalityType
<1>6. FullMarks = Cardinality(F) /\ JudgeScore(E) = Cardinality(K)
  BY DEF FullMarks, JudgeScore
<1> QED BY <1>4, <1>5, <1>6, FullMarksType

(* More deductions take more points off, of every criterion.               *)
LEMMA DeductedMonotone ==
  ASSUME NEW E, IsFiniteSet(E), NEW D \in SUBSET E
  PROVE  /\ Deducted(D) \in Nat /\ Deducted(E) \in Nat
         /\ Deducted(D) <= Deducted(E)
<1> DEFINE PE == {p \in E \X (1..MaxAmount) : p[2] <= p[1].amount}
           PD == {p \in D \X (1..MaxAmount) : p[2] <= p[1].amount}
<1>1. PE \in SUBSET (E \X (1..MaxAmount))
  OBVIOUS
<1>2. IsFiniteSet(PE) /\ Cardinality(PE) \in Nat
  BY <1>1, PointsFinite, CriteriaAssumption
<1>3. PD \in SUBSET PE
  OBVIOUS
<1>4. IsFiniteSet(PD) /\ Cardinality(PD) <= Cardinality(PE)
  BY <1>2, <1>3, FS_Subset
<1>5. Cardinality(PD) \in Nat
  BY <1>4, FS_CardinalityType
<1> QED BY <1>2, <1>4, <1>5 DEF Deducted

(* A deduction never raises a judge's score, and taking one back never     *)
(* lowers it.                                                              *)
THEOREM DeductionsLowerScores ==
  ASSUME NEW E, IsFiniteSet(E), NEW D \in SUBSET E
  PROVE  JudgeScore(E) <= JudgeScore(D)
<1> DEFINE KE == {p \in Criteria \X (1..TopPoints) : p[2] \in Kept(E, p[1])}
           KD == {p \in Criteria \X (1..TopPoints) : p[2] \in Kept(D, p[1])}
<1>1. ASSUME NEW c PROVE Kept(E, c) \subseteq Kept(D, c)
  <2> DEFINE Ec == {e \in E : e.crit = c}
             Dc == {e \in D : e.crit = c}
  <2>1. IsFiniteSet(Ec)
    <3>1. Ec \in SUBSET E  OBVIOUS
    <3> QED BY <3>1, FS_Subset
  <2>2. Dc \in SUBSET Ec
    OBVIOUS
  <2>3. /\ Deducted(Dc) \in Nat /\ Deducted(Ec) \in Nat
        /\ Deducted(Dc) <= Deducted(Ec)
    <3> HIDE DEF Ec, Dc
    <3> QED BY <2>1, <2>2, DeductedMonotone
  <2>4. \A i \in 1..TopPoints : i > Deducted(Ec) => i > Deducted(Dc)
    <3> HIDE DEF Ec, Dc
    <3> QED BY <2>3, CriteriaAssumption
  <2>5. \A i : i \in Kept(E, c) => i \in Kept(D, c)
    BY <2>4 DEF Kept
  <2> QED BY <2>5
<1>2. KE \in SUBSET KD
  <2>1. \A p \in Criteria \X (1..TopPoints) :
          p[2] \in Kept(E, p[1]) => p[2] \in Kept(D, p[1])
    BY <1>1
  <2> QED BY <2>1
<1>3. KD \in SUBSET (Criteria \X (1..TopPoints))
  OBVIOUS
<1>4. IsFiniteSet(KD)
  <2> HIDE DEF KD
  <2> QED BY <1>3, PointsFinite, CriteriaAssumption
<1>5. Cardinality(KE) <= Cardinality(KD)
  <2> HIDE DEF KD, KE
  <2> QED BY <1>2, <1>4, FS_Subset
<1> QED BY <1>5 DEF JudgeScore

LEMMA ScoreSumBounded ==
  ASSUME NEW P, IsFiniteSet(P), NEW sc
  PROVE  /\ Cardinality(P) \in Nat
         /\ ScoreSum(P, sc) \in Nat
         /\ ScoreSum(P, sc) <= Cardinality(P) * FullMarks
<1> DEFINE T == {p \in P \X (1..FullMarks) : p[2] <= sc[p[1]]}
<1>1. T \in SUBSET (P \X (1..FullMarks))
  OBVIOUS
<1>2. Cardinality(T) \in Nat /\ Cardinality(T) <= Cardinality(P) * FullMarks
  <2> HIDE DEF T
  <2> QED BY <1>1, PointsFinite, FullMarksType
<1>3. Cardinality(P) \in Nat
  BY FS_CardinalityType
<1> QED BY <1>2, <1>3 DEF ScoreSum

LEMMA KthSmallestBounded ==
  ASSUME NEW P, NEW sc, NEW k
  PROVE  KthSmallest(P, sc, k) \in 0..FullMarks
<1> DEFINE T == {i \in 1..FullMarks :
                   Cardinality({j \in P : sc[j] >= i}) > Cardinality(P) - k}
<1>1. IsFiniteSet(1..FullMarks) /\ Cardinality(1..FullMarks) = FullMarks
  BY FullMarksType, FS_Interval
<1>2. T \in SUBSET (1..FullMarks)
  OBVIOUS
<1>3. IsFiniteSet(T) /\ Cardinality(T) <= FullMarks
  <2> HIDE DEF T
  <2> QED BY <1>1, <1>2, FS_Subset
<1>4. Cardinality(T) \in Nat
  BY <1>3, FS_CardinalityType
<1> QED BY <1>3, <1>4, FullMarksType DEF KthSmallest

(* The panel score is a natural number of 1/Scale points and never exceeds *)
(* the full marks, with either method (compute_panel_score).               *)
THEOREM PanelScoreBounded ==
  ASSUME NEW P, IsFiniteSet(P), NEW sc
  PROVE  PanelScoreOf(P, sc) \in 0..(Scale * FullMarks)
<1> USE FullMarksType, MethodAssumption
<1> DEFINE n == Cardinality(P)
           S == ScoreSum(P, sc)
           F == FullMarks
<1>1. CASE P = {}
  BY <1>1 DEF PanelScoreOf
<1>2. CASE P # {} /\ Method = "MEDIAN"
  <2> DEFINE a == KthSmallest(P, sc, (n + 1) \div 2)
             b == KthSmallest(P, sc, (n \div 2) + 1)
  <2>1. a \in 0..F /\ b \in 0..F
    BY KthSmallestBounded
  <2>2. PanelScoreOf(P, sc) = ((a + b) * Scale) \div 2
    BY <1>2 DEF PanelScoreOf, TwiceMedian
  <2>3. (a + b) * Scale \in Nat /\ (a + b) * Scale <= 2 * (Scale * F)
    <3> HIDE DEF a, b, F
    <3>1. F \in Nat BY DEF F
    <3>2. (2 * F - (a + b)) \in Nat
      BY <2>1, <3>1
    <3>3. (2 * F - (a + b)) * Scale \in Nat
      BY <3>2
    <3>4. (a + b) * Scale \in Nat
      BY <2>1, <3>1
    <3> QED BY <2>1, <3>1, <3>3, <3>4
  <2>4. \A x, y \in Nat : x <= 2 * y => x \div 2 \in 0..y
    OBVIOUS
  <2>5. Scale * F \in Nat
    OBVIOUS
  <2> HIDE DEF a, b, F
  <2> QED BY <2>2, <2>3, <2>4, <2>5 DEF F
<1>3. CASE P # {} /\ Method = "AVERAGE"
  <2>1. n \in Nat /\ S \in Nat /\ S <= n * F
    BY ScoreSumBounded
  <2>2. n > 0
    BY <1>3, <2>1, FS_EmptySet
  <2>3. PanelScoreOf(P, sc) = (S * Scale) \div n
    BY <1>3 DEF PanelScoreOf
  <2> HIDE DEF n, S, F
  <2>4. F \in Nat
    BY DEF F
  <2>5. S * Scale \in Nat /\ S * Scale <= n * (Scale * F)
    <3>1. n * F - S \in Nat
      BY <2>1, <2>4
    <3>2. (n * F - S) * Scale \in Nat
      BY <3>1
    <3>3. S * Scale \in Nat
      BY <2>1
    <3> QED BY <2>1, <2>4, <3>2, <3>3
  <2>6. ASSUME NEW x \in Nat, NEW y \in Nat, x <= n * y
        PROVE  x \div n \in 0..y
    <3>1. x = n * (x \div n) + (x % n) /\ x % n \in 0..(n - 1) /\ x \div n \in Int
      BY <2>1, <2>2
    <3> QED BY <3>1, <2>1, <2>2, <2>6
  <2>7. Scale * F \in Nat
    BY <2>4
  <2> QED BY <2>3, <2>5, <2>6, <2>7 DEF F
<1> QED BY <1>1, <1>2, <1>3

(* Two judges of a panel that is not flagged are within twice the limit of *)
(* each other, whatever the panel and wherever its average lies.           *)
THEOREM UnflaggedPanelsAgree ==
  ASSUME NEW P, IsFiniteSet(P), NEW sc \in [P -> Nat], NEW Limit \in Nat,
         ~Flagged(P, sc, Limit),
         NEW j \in P, NEW k \in P
  PROVE  Distance(sc[j], sc[k]) <= 2 * Limit
<1> DEFINE n == Cardinality(P)
           S == ScoreSum(P, sc)
           a == sc[j]
           b == sc[k]
<1>1. n \in Nat \ {0} /\ S \in Nat /\ a \in Nat /\ b \in Nat
  BY ScoreSumBounded, FS_EmptySet
<1>2. Distance(n * a, S) <= n * Limit /\ Distance(n * b, S) <= n * Limit
  <2>1. n * a \in Nat /\ n * b \in Nat /\ n * Limit \in Nat
    BY <1>1
  <2>2. Distance(n * a, S) \in Nat /\ Distance(n * b, S) \in Nat
    BY <1>1, <2>1 DEF Distance
  <2> QED BY <2>1, <2>2 DEF Flagged
<1> HIDE DEF n, S, a, b
<1>3. ASSUME NEW x \in Nat, NEW y \in Nat, x > y,
             Distance(n * x, S) <= n * Limit, Distance(n * y, S) <= n * Limit
      PROVE  x - y <= 2 * Limit
  <2>1. n * x \in Nat /\ n * y \in Nat /\ n * Limit \in Nat
    BY <1>1
  <2>2. n * x - n * y <= n * Limit + n * Limit
    BY <1>1, <1>3, <2>1 DEF Distance
  <2>3. n * (x - y - 2 * Limit) <= 0
    BY <1>1, <2>2
  <2>4. CASE x - y - 2 * Limit > 0
    <3>1. n * (x - y - 2 * Limit) > 0
      BY <1>1, <2>4
    <3> QED BY <1>1, <2>3, <3>1
  <2> QED BY <1>1, <2>4
<1>4. a > b \/ b > a \/ a = b
  BY <1>1
<1>5. Distance(a, b) <= 2 * Limit
  BY <1>1, <1>2, <1>3, <1>4 DEF Distance
<1> QED BY <1>5 DEF a, b

-----------------------------------------------------------------------------
(* The judges who have marked a student.                                   *)
LEMMA MarkersMonotone ==
  ASSUME NEW E, NEW D \in SUBSET E, NEW s
  PROVE  Markers(D, s) \subseteq Markers(E, s)
BY DEF Markers

(* A new event adds its judge to the markers of its student, and to nobody *)
(* else's.                                                                 *)
LEMMA MarkersOfOne ==
  ASSUME NEW E, NEW e
  PROVE  /\ Markers(E \cup {e}, e.student) = Markers(E, e.student) \cup {e.judge}
         /\ \A s : s # e.student => Markers(E \cup {e}, s) = Markers(E, s)
BY DEF Markers

(* The score of a panel that consists of judges is a natural number.       *)
LEMMA PanelScoreType ==
  ASSUME NEW P \in SUBSET Judges, NEW sc
  PROVE  PanelScoreOf(P, sc) \in Nat
<1>1. IsFiniteSet(P)
  BY DeductionsAssumption, FS_Subset
<1>2. PanelScoreOf(P, sc) \in 0..(Scale * FullMarks)
  BY <1>1, PanelScoreBounded
<1>3. Scale * FullMarks \in Nat
  BY FullMarksType, MethodAssumption
<1> QED BY <1>2, <1>3

-----------------------------------------------------------------------------
(* What the cardinalities stand for: sums, clipped differences, the k-th   *)
(* smallest score and a place in the ranking.                              *)
LEMMA Interval ==
  ASSUME NEW n \in Nat PROVE IsFiniteSet(1..n) /\ Cardinality(1..n) = n
<1>1. 1 \in Int /\ n \in Int
  OBVIOUS
<1>2. IsFiniteSet(1..n) /\ Cardinality(1..n) = IF 1 > n THEN 0 ELSE n-1+1
  BY <1>1, FS_Interval, Zenon
<1> QED BY <1>2

(* The points 1..v[x] of the members x of S.  One more member adds his.    *)
Points(S, n, v) == {p \in S \X (1..n) : p[2] <= v[p[1]]}

LEMMA OneMore ==
  ASSUME NEW S, IsFiniteSet(S), NEW x, x \notin S,
         NEW n \in Nat, NEW v, v[x] \in 0..n
  PROVE  Cardinality(Points(S \cup {x}, n, v)) = Cardinality(Points(S, n, v)) + v[x]
<1> DEFINE A == Points(S, n, v)
           B == {x} \X (1..v[x])
<1>1. Points(S \cup {x}, n, v) = A \cup B
  <2>1. \A i : i \in 1..n /\ i <= v[x] <=> i \in 1..v[x]
    OBVIOUS
  <2> QED BY <2>1 DEF Points
<1>2. A \cap B = {}
  BY DEF Points
<1>3. IsFiniteSet(A) /\ Cardinality(A) \in Nat
  <2>1. A \in SUBSET (S \X (1..n))
    BY DEF Points
  <2> HIDE DEF A
  <2> QED BY <2>1, PointsFinite
<1>4. IsFiniteSet(B) /\ Cardinality(B) = v[x]
  <2>1. v[x] \in Nat
    OBVIOUS
  <2>2. IsFiniteSet(1..v[x]) /\ Cardinality(1..v[x]) = v[x]
    BY <2>1, Interval
  <2>3. IsFiniteSet({x}) /\ Cardinality({x}) = 1
    BY FS_Singleton
  <2>4. IsFiniteSet(B) /\ Cardinality(B) = Cardinality({x}) * Cardinality(1..v[x])
    BY <2>2, <2>3, FS_Product
  <2> QED BY <2>1, <2>2, <2>3, <2>4
<1> HIDE DEF A, B
<1>5. Cardinality(A \cup B) = Cardinality(A) + Cardinality(B) - Cardinality(A \cap B)
  BY <1>3, <1>4, FS_Union
<1>6. Cardinality(A \cap B) = 0
  BY <1>2, FS_EmptySet
<1>7. Cardinality(A \cup B) = Cardinality(A) + v[x]
  BY <1>3, <1>4, <1>5, <1>6
<1> QED BY <1>1, <1>7 DEF A

(* Deducted is the sum of the amounts: 0 of no event, and one more event   *)
(* adds its amount (deductions_by_crit in _compute_judge_score).           *)
THEOREM DeductionsAddUp ==
  /\ Deducted({}) = 0
  /\ \A E, e : IsFiniteSet(E) /\ e \notin E /\ e.amount \in 0..MaxAmount =>
       Deducted(E \cup {e}) = Deducted(E) + e.amount
<1>1. Deducted({}) = 0
  <2>1. {p \in {} \X (1..MaxAmount) : p[2] <= p[1].amount} = {}
    OBVIOUS
  <2> QED BY <2>1, FS_EmptySet DEF Deducted
<1>2. ASSUME NEW E, NEW e, IsFiniteSet(E), e \notin E, e.amount \in 0..MaxAmount
      PROVE  Deducted(E \cup {e}) = Deducted(E) + e.amount
  <2> DEFINE v == [d \in E \cup {e} |-> d.amount]
  <2>1. /\ \A p \in E \X (1..MaxAmount) : v[p[1]] = p[1].amount
        /\ \A p \in (E \cup {e}) \X (1..MaxAmount) : v[p[1]] = p[1].amount
        /\ v[e] = e.amount
    OBVIOUS
  <2>2. /\ Deducted(E) = Cardinality(Points(E, MaxAmount, v))
        /\ Deducted(E \cup {e}) = Cardinality(Points(E \cup {e}, MaxAmount, v))
    <3> HIDE DEF v
    <3>1. /\ Points(E, MaxAmount, v)
               = {p \in E \X (1..MaxAmount) : p[2] <= p[1].amount}
          /\ Points(E \cup {e}, MaxAmount, v)
               = {p \in (E \cup {e}) \X (1..MaxAmount) : p[2] <= p[1].amount}
      BY <2>1 DEF Points
    <3> QED BY <3>1 DEF Deducted
  <2>3. MaxAmount \in Nat /\ v[e] \in 0..MaxAmount
    BY <1>2, <2>1, CriteriaAssumption
  <2> HIDE DEF v
  <2>4. Cardinality(Points(E \cup {e}, MaxAmount, v))
          = Cardinality(Points(E, MaxAmount, v)) + v[e]
    BY <1>2, <2>3, OneMore
  <2> QED BY <2>1, <2>2, <2>4
<1> QED BY <1>1, <1>2

(* ScoreSum is the sum of the judges' scores (sum in compute_panel_score   *)
(* and in _check_consistency).                                             *)
THEOREM ScoresAddUp ==
  /\ \A sc : ScoreSum({}, sc) = 0
  /\ \A P, j, sc : IsFiniteSet(P) /\ j \notin P /\ sc[j] \in 0..FullMarks =>
       ScoreSum(P \cup {j}, sc) = ScoreSum(P, sc) + sc[j]
<1>1. ASSUME NEW sc PROVE ScoreSum({}, sc) = 0
  <2>1. {p \in {} \X (1..FullMarks) : p[2] <= sc[p[1]]} = {}
    OBVIOUS
  <2> QED BY <2>1, FS_EmptySet DEF ScoreSum
<1>2. ASSUME NEW P, NEW j, NEW sc, IsFiniteSet(P), j \notin P, sc[j] \in 0..FullMarks
      PROVE  ScoreSum(P \cup {j}, sc) = ScoreSum(P, sc) + sc[j]
  <2>1. Cardinality(Points(P \cup {j}, FullMarks, sc))
          = Cardinality(Points(P, FullMarks, sc)) + sc[j]
    BY <1>2, FullMarksType, OneMore
  <2> QED BY <2>1 DEF ScoreSum, Points
<1> QED BY <1>1, <1>2

(* Every criterion is floored at 0 on its own: it keeps its maximum less   *)
(* what was deducted from it, or nothing.                                  *)
THEOREM CriterionIsFloored ==
  ASSUME NEW E, IsFiniteSet(E), NEW c \in Criteria
  PROVE  LET d == Deducted({e \in E : e.crit = c})
         IN  Cardinality(Kept(E, c)) = IF d > MaxPoints[c] THEN 0 ELSE MaxPoints[c] - d
<1> DEFINE d == Deducted({e \in E : e.crit = c})
           m == MaxPoints[c]
<1>1. d \in Nat
  <2>1. {e \in E : e.crit = c} \in SUBSET E
    OBVIOUS
  <2> QED BY <2>1, DeductedMonotone
<1>2. m \in Nat /\ TopPoints \in Nat /\ m <= TopPoints
  BY CriteriaAssumption
<1>3. Kept(E, c) = {i \in 1..TopPoints : i <= m /\ i > d}
  BY DEF Kept
<1> HIDE DEF d, m
<1>4. Kept(E, c) = (d + 1)..m
  BY <1>1, <1>2, <1>3
<1>5. d + 1 \in Int /\ m \in Int
  BY <1>1, <1>2
<1>6. Cardinality((d + 1)..m) = IF d + 1 > m THEN 0 ELSE m - (d + 1) + 1
  BY <1>5, FS_Interval, Zenon
<1>7. Cardinality(Kept(E, c)) = IF d > m THEN 0 ELSE m - d
  BY <1>1, <1>2, <1>4, <1>6
<1> QED BY <1>7 DEF d, m

(* KthSmallest is the k-th smallest score of the panel: fewer than k       *)
(* judges gave less, at least k gave no more, and some judge gave it (the  *)
(* sorting in statistics.median).                                          *)
LEMMA DownwardClosed ==
  ASSUME NEW n \in Nat, NEW T \in SUBSET (1..n),
         \A i \in T : \A h \in 1..i : h \in T
  PROVE  T = 1..Cardinality(T) /\ Cardinality(T) \in 0..n
<1> DEFINE v == Cardinality(T)
<1>1. IsFiniteSet(1..n) /\ Cardinality(1..n) = n
  BY Interval
<1>2. IsFiniteSet(T) /\ v <= n
  BY <1>1, FS_Subset
<1>3. v \in Nat
  BY <1>2, FS_CardinalityType
<1>4. IsFiniteSet(1..v) /\ Cardinality(1..v) = v
  BY <1>3, Interval
<1>5. \A i \in T : i \in 1..v
  <2> SUFFICES ASSUME NEW i \in T PROVE i \in 1..v
    OBVIOUS
  <2>1. i \in Nat /\ i >= 1
    OBVIOUS
  <2>2. IsFiniteSet(1..i) /\ Cardinality(1..i) = i
    BY <2>1, Interval
  <2>3. 1..i \in SUBSET T
    OBVIOUS
  <2>4. Cardinality(1..i) <= v
    BY <1>2, <2>3, FS_Subset
  <2> HIDE DEF v
  <2> QED BY <1>3, <2>1, <2>2, <2>4
<1>6. T \in SUBSET (1..v)
  BY <1>5
<1>7. T = 1..v
  <2>1. Cardinality(1..v) = Cardinality(T)
    BY <1>4
  <2> QED BY <1>4, <1>6, <2>1, FS_Subset
<1> HIDE DEF v
<1>8. v \in 0..n
  BY <1>2, <1>3
<1> QED BY <1>7, <1>8 DEF v

THEOREM KthSmallestIsKth ==
  ASSUME NEW P, IsFiniteSet(P), NEW sc \in [P -> 0..FullMarks],
         NEW k \in 1..Cardinality(P)
  PROVE  LET v == KthSmallest(P, sc, k)
         IN  /\ Cardinality({j \in P : sc[j] < v}) < k
             /\ k <= Cardinality({j \in P : sc[j] <= v})
             /\ \E j \in P : sc[j] = v
<1> DEFINE n == Cardinality(P)
           F == FullMarks
           Above(i) == {j \in P : sc[j] >= i}
           Below(i) == {j \in P : sc[j] < i}
           T == {i \in 1..F : Cardinality(Above(i)) > n - k}
           v == Cardinality(T)
<1>1. n \in Nat /\ F \in Nat /\ k \in Nat /\ k >= 1 /\ k <= n
  BY FS_CardinalityType, FullMarksType
<1>2. ASSUME NEW i \in Int
      PROVE  /\ IsFiniteSet(Above(i)) /\ Cardinality(Above(i)) \in Nat
             /\ IsFiniteSet(Below(i)) /\ Cardinality(Below(i)) \in Nat
             /\ Cardinality(Below(i)) = n - Cardinality(Above(i))
  <2>1. Above(i) \in SUBSET P /\ Below(i) \in SUBSET P
    OBVIOUS
  <2>2. Below(i) = P \ Above(i) /\ P \cap Above(i) = Above(i)
    BY FullMarksType
  <2> HIDE DEF Above, Below
  <2>3. IsFiniteSet(Above(i)) /\ IsFiniteSet(Below(i))
    BY <2>1, FS_Subset
  <2>4. Cardinality(Below(i)) = n - Cardinality(Above(i))
    BY <2>2, FS_Difference
  <2> QED BY <2>3, <2>4, FS_CardinalityType
<1>3. ASSUME NEW i \in Int, NEW h \in Int, h <= i
      PROVE  Cardinality(Above(i)) <= Cardinality(Above(h))
  <2>1. Above(i) \in SUBSET Above(h)
    BY <1>3, FullMarksType
  <2> HIDE DEF Above
  <2> QED BY <1>2, <2>1, FS_Subset
<1>4. T = 1..v /\ v \in 0..F
  <2>1. T \in SUBSET (1..F)
    OBVIOUS
  <2>2. ASSUME NEW i \in T, NEW h \in 1..i PROVE h \in T
    <3>1. i \in Int /\ h \in Int /\ h <= i /\ h \in 1..F /\ Cardinality(Above(i)) > n - k
      BY <1>1
    <3>2. Cardinality(Above(i)) <= Cardinality(Above(h))
      BY <1>3, <3>1
    <3>3. Cardinality(Above(i)) \in Nat /\ Cardinality(Above(h)) \in Nat
      BY <1>2, <3>1
    <3> HIDE DEF Above
    <3> QED BY <1>1, <3>1, <3>2, <3>3
  <2> HIDE DEF T
  <2> QED BY <1>1, <2>1, <2>2, DownwardClosed
<1>5. v = KthSmallest(P, sc, k)
  BY DEF KthSmallest
<1>6. Cardinality(Above(v)) > n - k
  <2>1. CASE v = 0
    <3>1. Above(0) = P
      BY FullMarksType
    <3> HIDE DEF Above, v
    <3> QED BY <1>1, <2>1, <3>1
  <2>2. CASE v > 0
    <3> HIDE DEF v, T
    <3>1. v \in T
      BY <1>1, <1>4, <2>2
    <3> QED BY <3>1 DEF T
  <2> HIDE DEF v
  <2> QED BY <1>1, <1>4, <2>1, <2>2
<1>7. Cardinality(Above(v + 1)) <= n - k
  <2>1. CASE v = F
    <3> HIDE DEF v
    <3>1. Above(v + 1) = {}
      BY <1>1, <2>1
    <3>2. Cardinality(Above(v + 1)) = 0
      BY <3>1, FS_EmptySet
    <3> QED BY <1>1, <3>2
  <2>2. CASE v < F
    <3> HIDE DEF v, T
    <3>1. v + 1 \in 1..F /\ v + 1 \notin T
      BY <1>1, <1>4, <2>2
    <3>2. v + 1 \in Int /\ Cardinality(Above(v + 1)) \in Nat
      <4>1. v + 1 \in Int
        BY <3>1
      <4> QED BY <1>2, <4>1
    <3>3. ~(Cardinality(Above(v + 1)) > n - k)
      BY <3>1 DEF T
    <3> HIDE DEF Above
    <3> QED BY <1>1, <3>2, <3>3
  <2> HIDE DEF v
  <2> QED BY <1>1, <1>4, <2>1, <2>2
<1>8. /\ Cardinality(Below(v)) < k
      /\ k <= Cardinality(Below(v + 1))
  <2> HIDE DEF v
  <2>1. v \in Int /\ v + 1 \in Int
    BY <1>1, <1>4
  <2>2. /\ Cardinality(Below(v)) = n - Cardinality(Above(v))
        /\ Cardinality(Below(v + 1)) = n - Cardinality(Above(v + 1))
        /\ Cardinality(Above(v)) \in Nat /\ Cardinality(Above(v + 1)) \in Nat
    BY <1>2, <2>1
  <2> HIDE DEF Above, Below
  <2> QED BY <1>1, <1>6, <1>7, <2>2
<1>9. Below(v + 1) = {j \in P : sc[j] <= v}
  <2> HIDE DEF v
  <2> QED BY <1>1, <1>4
<1>10. \E j \in P : sc[j] = v
  <2> SUFFICES ASSUME \A j \in P : sc[j] # v PROVE FALSE
    OBVIOUS
  <2> HIDE DEF v
  <2>1. Below(v + 1) = Below(v)
    BY <1>1, <1>4
  <2>2. Cardinality(Below(v)) \in Nat
    <3>1. v \in Int
      BY <1>1, <1>4
    <3> QED BY <1>2, <3>1
  <2> HIDE DEF Below
  <2> QED BY <1>1, <1>8, <2>1, <2>2
<1> HIDE DEF v, T
<1> QED BY <1>5, <1>8, <1>9, <1>10

(* A rank is a place: fewer students of the group are better than he is    *)
(* than his rank says, and at least so many are as good, himself among     *)
(* them (_recompute_rankings).                                             *)
THEOREM RanksArePlaces ==
  ASSUME NEW D, IsFiniteSet(D), NEW sc \in [D -> Nat], NEW group, NEW f,
         IsRanking(D, sc, group, f), NEW a \in D
  PROVE  LET G == {b \in D : group[a] = group[b]}
         IN  /\ Cardinality({b \in G : sc[b] > sc[a]}) < f[a]
             /\ f[a] <= Cardinality({b \in G : sc[b] >= sc[a]})
<1> DEFINE G == {b \in D : group[a] = group[b]}
           n == Cardinality(G)
           Better == {b \in G : sc[b] > sc[a]}
           Worse == {b \in G : sc[b] < sc[a]}
           AsGood == {b \in G : sc[b] >= sc[a]}
<1>1. IsFiniteSet(G) /\ n \in Nat
  <2>1. G \in SUBSET D
    OBVIOUS
  <2> HIDE DEF G
  <2> QED BY <2>1, FS_Subset, FS_CardinalityType
<1>2. \A b \in G : f[b] \in 1..n
  <2> SUFFICES ASSUME NEW b \in G PROVE f[b] \in 1..n
    OBVIOUS
  <2>1. {c \in D : group[b] = group[c]} = G
    OBVIOUS
  <2>2. f[b] \in 1..Cardinality({c \in D : group[b] = group[c]})
    BY DEF IsRanking
  <2> HIDE DEF G
  <2> QED BY <2>1, <2>2
<1>3. \A b, c \in G : b # c => f[b] # f[c] /\ (sc[b] > sc[c] => f[b] < f[c])
  BY DEF IsRanking
<1>4. f[a] \in 1..n
  BY <1>2
<1>5. Cardinality(Better) <= f[a] - 1
  <2> DEFINE g == [b \in Better |-> f[b]]
             r == f[a] - 1
  <2>1. r \in Nat
    <3> HIDE DEF G
    <3> QED BY <1>1, <1>4
  <2>2. IsFiniteSet(1..r) /\ Cardinality(1..r) = r
    BY <2>1, Interval
  <2>3. \A b \in Better : f[b] \in 1..r
    <3> SUFFICES ASSUME NEW b \in Better PROVE f[b] \in 1..r
      OBVIOUS
    <3>1. f[b] \in 1..n /\ b # a /\ sc[b] > sc[a]
      BY <1>2
    <3>2. f[b] < f[a]
      BY <1>3, <3>1
    <3> HIDE DEF G
    <3> QED BY <1>1, <1>4, <3>1, <3>2
  <2>4. \A b, c \in Better : g[b] = g[c] => b = c
    BY <1>3
  <2>5. g \in Injection(Better, 1..r)
    <3> HIDE DEF r, Better
    <3> QED BY <2>3, <2>4 DEF Injection, IsInjective
  <2> HIDE DEF g, r, Better
  <2>6. Cardinality(Better) <= r
    BY <2>2, <2>5, FS_Injection
  <2> QED BY <2>6 DEF r
<1>6. Cardinality(Worse) <= n - f[a]
  <2> DEFINE g == [b \in Worse |-> f[b] - f[a]]
             r == n - f[a]
  <2>1. r \in Nat
    <3> HIDE DEF G
    <3> QED BY <1>1, <1>4
  <2>2. IsFiniteSet(1..r) /\ Cardinality(1..r) = r
    BY <2>1, Interval
  <2>3. \A b \in Worse : f[b] \in Int /\ f[b] - f[a] \in 1..r
    <3> SUFFICES ASSUME NEW b \in Worse PROVE f[b] \in Int /\ f[b] - f[a] \in 1..r
      OBVIOUS
    <3>1. f[b] \in 1..n /\ b # a /\ sc[b] < sc[a] /\ b \in D /\ sc[a] \in Nat /\ sc[b] \in Nat
      BY <1>2
    <3>2. f[a] < f[b]
      BY <1>3, <3>1
    <3> HIDE DEF G
    <3> QED BY <1>1, <1>4, <3>1, <3>2
  <2>4. \A b, c \in Worse : g[b] = g[c] => b = c
    <3>1. \A b, c \in Worse : f[b] - f[a] = f[c] - f[a] => f[b] = f[c]
      BY <2>3, <1>4
    <3> QED BY <1>3, <3>1
  <2>5. g \in Injection(Worse, 1..r)
    <3> HIDE DEF r, Worse
    <3> QED BY <2>3, <2>4 DEF Injection, IsInjective
  <2> HIDE DEF g, r, Worse
  <2>6. Cardinality(Worse) <= r
    BY <2>2, <2>5, FS_Injection
  <2> QED BY <2>6 DEF r
<1>7. Cardinality(AsGood) = n - Cardinality(Worse)
  <2>1. AsGood = G \ Worse /\ G \cap Worse = Worse
    OBVIOUS
  <2> HIDE DEF G, Worse, AsGood
  <2> QED BY <1>1, <2>1, FS_Difference
<1>8. Cardinality(Better) \in Nat /\ Cardinality(Worse) \in Nat
  <2>1. Better \in SUBSET G /\ Worse \in SUBSET G
    OBVIOUS
  <2> HIDE DEF G, Worse, Better
  <2> QED BY <1>1, <2>1, FS_Subset, FS_CardinalityType
<1> HIDE DEF G, Better, Worse, AsGood
<1>9. Cardinality(Better) < f[a] /\ f[a] <= Cardinality(AsGood)
  BY <1>1, <1>4, <1>5, <1>6, <1>7, <1>8
<1> QED BY <1>9 DEF G, Better, AsGood
=============================================================================
