----------------------------- MODULE MCPanelScore ----------------------------
(***************************************************************************)
(* The operators of PanelScore against the definitions a reader of the     *)
(* Python code expects, for every panel of three or four judges, every     *)
(* choice of their scores, and every sequence of deductions of one judge.  *)
(* The sheets of Sheet against the engine, for every category, both modes, *)
(* and the deductions of a panel of two judges.                            *)
(***************************************************************************)
EXTENDS PanelScore, FiniteSetsExt, SequencesExt

CONSTANTS c1, c2, other,   \* two criteria of the group, one of another group
          j1, j2, j3, j4,
          Limit            \* the flag's 10 points, in the points of this rubric

Rubric == [c \in {c1, c2} |-> IF c = c1 THEN 3 ELSE 1]
Judges == {j1, j2, j3, j4}
Panels == {P \in SUBSET Judges : Cardinality(P) >= 3}
Pool == [id: {1, 2}, crit: {c1, c2, other}, amount: {0, 2}]

(* The sheets: an amount for the fixed types, two for the others; question *)
(* 4 is not asked in each category, question 5 in none.                    *)
S == INSTANCE Sheet WITH Panel <- {j1, j2}, Moderators <- {j3}
ASSUME S!SheetAssumption
Mark == {e \in [judge: {j1, j2}, type: S!Types, question: {1, 4, 5},
                amount: {50, 100, 200, 1500}] :
           IF S!Points(e.type) = 0 THEN e.amount \in {50, 1500}
           ELSE e.amount = S!Points(e.type)}

VARIABLES
  panel, sc,   \* a panel and its scores
  made,        \* the deductions of one judge, so far
  sheet        \* mode, category and the deductions of a panel of two
mcvars == <<panel, sc, made, sheet>>
NoSheet == [mode |-> "none", cat |-> "none", events |-> {}]

Init ==
  /\ made = {}
  /\ \/ panel \in Panels /\ sc \in [panel -> 0..FullMarks] /\ sheet = NoSheet
     \/ /\ panel = {j1, j2, j3} /\ sc = [j \in panel |-> 0]
        /\ sheet \in [mode: S!Modes, cat: S!Categories, events: {{}}]

Deduct ==
  /\ sheet = NoSheet /\ Cardinality(made) < 2
  /\ \E e \in Pool : (\A x \in made : x.id # e.id) /\ made' = made \cup {e}
  /\ UNCHANGED <<panel, sc, sheet>>

Judge ==
  /\ sheet # NoSheet /\ Cardinality(sheet.events) < 3
  /\ \E e \in Mark : sheet' = [sheet EXCEPT !.events = @ \cup {e}]
  /\ UNCHANGED <<panel, sc, made>>

Next == Deduct \/ Judge
Spec == Init /\ [][Next]_mcvars

-----------------------------------------------------------------------------
Total(E) == MapThenSumSet(LAMBDA e : e.amount, E)
Floor0(n) == IF n < 0 THEN 0 ELSE n
Sum == MapThenSumSet(LAMBDA j : sc[j], panel)
Sorted == SortSeq([i \in 1..Cardinality(panel) |-> sc[SetToSeq(panel)[i]]],
                  LAMBDA a, b : a < b)

(* _compute_judge_score: the sum over the criteria of the group of         *)
(* max(0, max_points - deductions); each criterion is floored on its own,  *)
(* so an excess on one is never taken from another, and a deduction of     *)
(* another group's type counts nothing.                                    *)
JudgeScoreIsFlooredSum ==
  JudgeScore(made) =
    MapThenSumSet(LAMBDA c : Floor0(MaxPoints[c]
                               - Total({e \in made : e.crit = c})), Criteria)

(* compute_panel_score with MEDIAN: the middle of the sorted scores, or    *)
(* the mean of the two middle ones.                                        *)
MedianIsMiddleOfSorted ==
  LET n == Cardinality(panel)
  IN  TwiceMedian(panel, sc) = IF n % 2 = 1 THEN 2 * Sorted[(n + 1) \div 2]
                               ELSE Sorted[n \div 2] + Sorted[(n \div 2) + 1]

(* _check_consistency: when no judge is flagged, no two judges of the      *)
(* panel are further apart than twice the limit, whichever of them is the  *)
(* one off the average.                                                    *)
UnflaggedPanelAgrees ==
  ~Flagged(panel, sc, Limit) =>
    \A j, k \in panel : Distance(sc[j], sc[k]) <= 2 * Limit

(* The criteria of a category group in a mode, in hundredths.              *)
GroupMarks(mode, group) ==
  IF mode = "OFFICIAL_70_30" THEN [Memorization |-> 7000, Tajweed |-> 3000]
  ELSE IF group = "JUZ_30"
  THEN [Memorization |-> 4500, Tajweed |-> 2500, Tafsir |-> 1000, Saut |-> 2000]
  ELSE [Memorization |-> 5000, Tajweed |-> 3000, Saut |-> 2000]
EngineScore(E) ==
  LET marks == GroupMarks(sheet.mode, S!GroupOf(sheet.cat)) IN
  MapThenSumSet(LAMBDA c : Floor0(marks[c]
                  - Total({e \in E : S!CriterionOf(e.type) = c})), DOMAIN marks)

(* The summary computes the scores from names and question numbers, the    *)
(* engine from criteria: they agree for every seeded category, mode and    *)
(* deduction type, as long as the judge's questions are questions of the   *)
(* category; the average shown to a moderator does without that.           *)
SheetAgreesWithEngine ==
  sheet # NoSheet =>
    LET E == sheet.events
        mine(j) == {e \in E : e.judge = j} IN
    /\ \A j \in {j1, j2} :
         (\A e \in mine(j) : e.question \in 1..S!NumQuestions(sheet.cat)) =>
           S!Summary(sheet.mode, sheet.cat, E, j).total = EngineScore(mine(j))
    /\ S!OfficialSheet(sheet.mode, sheet.cat, E, j3).score =
         (EngineScore(mine(j1)) + EngineScore(mine(j2))) \div 2

(* get_my_score: nothing a judge is shown depends on what the others mark, *)
(* until all of them have marked.                                          *)
OthersScoresStayHidden ==
  [][\A j \in {j1, j2} :
       LET mine(E) == {e \in E : e.judge = j}
           shown(E) == S!Summary(sheet.mode, sheet.cat, E, j) IN
       \/ sheet = NoSheet
       \/ {e.judge : e \in sheet'.events} = {j1, j2}
       \/ mine(sheet'.events) # mine(sheet.events)
       \/ shown(sheet'.events) = shown(sheet.events)]_sheet
==============================================================================
