-------------------------------- MODULE Sheet --------------------------------
(***************************************************************************)
(* What a judge and a moderator are shown of a student's marks:            *)
(* get_judge_score_summary and the official sheet                          *)
(* (app/crud/scoring.py).  The summary computes the scores a second time,  *)
(* from the category's name, the names of the deduction types and the      *)
(* question numbers, where the ranking engine goes by the criteria of the  *)
(* category group.  No state; points are in hundredths.                    *)
(***************************************************************************)
EXTENDS Integers, FiniteSets, FiniteSetsExt

CONSTANTS
  Panel,       \* the judges assigned to the round
  Moderators   \* moderators and super-admins

SheetAssumption == IsFiniteSet(Panel) /\ Panel \cap Moderators = {}

Modes == {"OFFICIAL_70_30", "TRADITIONAL_TIERED"}
Boxes == {"hifdh", "tajweed", "tafsir", "saut"}

(* The seeded categories, by what their names contain.                     *)
Categories == {"Juz' 1-10", "Juz' 11-20", "Juz' 21-29", "Juz' 30 (Complete)"}
NameHas == [c \in Categories |->
  CASE c = "Juz' 1-10" -> {"10"} [] c = "Juz' 11-20" -> {"20"}
    [] c = "Juz' 21-29" -> {} [] c = "Juz' 30 (Complete)" -> {"30"}]
GroupOf(c) == IF c = "Juz' 30 (Complete)" THEN "JUZ_30" ELSE "JUZ_10_15_20"

(* _get_branch_info: the number of questions; the tests are made in this   *)
(* order, and a name that has none of the numbers counts as 30.            *)
NumQuestions(c) ==
  CASE "30" \in NameHas[c] -> 4
    [] "30" \notin NameHas[c] /\ "20" \in NameHas[c] -> 4
    [] NameHas[c] \cap {"30", "20"} = {} /\ NameHas[c] \cap {"10", "15", "5"} # {} -> 3
    [] NameHas[c] \cap {"30", "20", "10", "15", "5"} = {} -> 4
QuestionAllotment(c) == IF NumQuestions(c) = 4 THEN 2500 ELSE 3333

(* The full marks, by the mode and the name of the category.               *)
MaxMarks(mode, c) ==
  IF mode = "OFFICIAL_70_30"
  THEN [hifdh |-> 7000, tajweed |-> 3000, tafsir |-> 0, saut |-> 0]
  ELSE IF "30" \in NameHas[c]
  THEN [hifdh |-> 4500, tajweed |-> 2500, tafsir |-> 1000, saut |-> 2000]
  ELSE [hifdh |-> 5000, tajweed |-> 3000, tafsir |-> 0, saut |-> 2000]

(* The deduction types: criterion and fixed points (0: the judge's own).   *)
Types == {"Tanbeeh", "Fath", "Lahn", "Tajweed Error", "Saut", "Tafsir"}
CriterionOf(t) ==
  CASE t \in {"Tanbeeh", "Fath", "Lahn"} -> "Memorization"
    [] t = "Tajweed Error" -> "Tajweed"
    [] t = "Saut" -> "Saut" [] t = "Tafsir" -> "Tafsir"
Points(t) == CASE t = "Tanbeeh" -> 100 [] t \in {"Fath", "Lahn"} -> 200
               [] t = "Tajweed Error" -> 50 [] t \in {"Saut", "Tafsir"} -> 0

(* The chain of tests that puts an event of the judge in a box.            *)
BoxOf(e) ==
  LET crit == CriterionOf(e.type) IN
  CASE e.type \in {"Tanbeeh", "Fath", "Lahn"} -> "hifdh"
    [] crit = "Tafsir" -> "tafsir"
    [] crit = "Saut" -> "saut"
    [] crit = "Tajweed" -> "tajweed"

\* Mutant: half a point is a tajweed error whatever its type.
PanelBoxByAmount(e) ==
  LET crit == CriterionOf(e.type) IN
  CASE crit = "Memorization" -> "hifdh"
    [] crit # "Memorization" /\ e.amount = 50 -> "tajweed"
    [] crit = "Tafsir" /\ e.amount # 50 -> "tafsir"
    [] crit = "Saut" /\ e.amount # 50 -> "saut"
    [] crit = "Tajweed" /\ e.amount # 50 -> "tajweed"
(* The second chain, for the events of the panel.                          *)
PanelBoxOf(e) ==
  LET crit == CriterionOf(e.type) IN
  CASE crit = "Memorization" -> "hifdh"
    [] crit = "Tafsir" -> "tafsir"
    [] crit = "Saut" -> "saut"
    [] crit = "Tajweed" -> "tajweed"

Amounts(E) == MapThenSumSet(LAMBDA e : e.amount, E)
Floor0(n) == IF n < 0 THEN 0 ELSE n
Scores(mode, c, deducted) ==
  [b \in Boxes |-> Floor0(MaxMarks(mode, c)[b] - deducted[b])]
Sum(scores) == scores.hifdh + scores.tajweed + scores.saut + scores.tafsir

(* The judge's own events, question by question: those of a question that  *)
(* the category does not have are in none of the boxes.                    *)
Asked(c, E) == {e \in E : e.question \in 1..NumQuestions(c)}
OwnScores(mode, c, E) ==
  Scores(mode, c, [b \in Boxes |-> Amounts({e \in Asked(c, E) : BoxOf(e) = b})])
QuestionScore(c, E, q) ==
  Floor0(QuestionAllotment(c) - Amounts({e \in E : e.question = q}))
Limits(c, E) ==
  {q \in 1..NumQuestions(c) :
     Cardinality({e \in E : e.question = q /\ e.type = "Tanbeeh"}) >= 3}

(* The score of one judge of the panel counts all his events.              *)
PanelJudgeScore(mode, c, E) ==
  Sum(Scores(mode, c, [b \in Boxes |-> Amounts({e \in E : PanelBoxOf(e) = b})]))
By(E, j) == {e \in E : e.judge = j}
(* round(a / n, 2): to the nearest, half to even.                          *)
Rounded(a, n) ==
  LET q == (2 * a + n) \div (2 * n)
      tie == (2 * a + n) % (2 * n) = 0 IN
  IF tie /\ q % 2 = 1 THEN q - 1 ELSE q
PanelAverage(mode, c, E) ==
  Rounded(MapThenSumSet(LAMBDA j : PanelJudgeScore(mode, c, By(E, j)), Panel),
          Cardinality(Panel))

AllSubmitted(E) == Panel # {} /\ {e.judge : e \in E} = Panel
NotShown == -1

\* Mutant: the panel's score is shown once somebody has submitted.
SummaryForAnyone(mode, c, E, reader) ==
  LET own == OwnScores(mode, c, By(E, reader))
      panel == IF E # {} \/ reader \in Moderators
               THEN PanelAverage(mode, c, E) ELSE NotShown IN
  [scores |-> own, panel |-> panel,
   total |-> IF reader \in Moderators THEN panel ELSE Sum(own),
   questions |-> [q \in 1..NumQuestions(c) |-> QuestionScore(c, By(E, reader), q)],
   limits |-> Limits(c, By(E, reader)), complete |-> AllSubmitted(E)]
(* JudgeScoreSummary: a moderator's total is that of the panel.            *)
Summary(mode, c, E, reader) ==
  LET own == OwnScores(mode, c, By(E, reader))
      panel == IF AllSubmitted(E) \/ reader \in Moderators
               THEN PanelAverage(mode, c, E) ELSE NotShown IN
  [scores |-> own, panel |-> panel,
   total |-> IF reader \in Moderators THEN panel ELSE Sum(own),
   questions |-> [q \in 1..NumQuestions(c) |-> QuestionScore(c, By(E, reader), q)],
   limits |-> Limits(c, By(E, reader)), complete |-> AllSubmitted(E)]

(* The official sheet: the deductions of the questions, added up, beside   *)
(* the scores of the summary.                                              *)
OfficialSheet(mode, c, E, reader) ==
  LET s == Summary(mode, c, E, reader) IN
  [deducted |-> [b \in Boxes |-> Amounts({e \in Asked(c, By(E, reader)) : BoxOf(e) = b})],
   final |-> s.scores, score |-> s.total, panel |-> s.panel]
==============================================================================
