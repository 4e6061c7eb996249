----------------------------- MODULE Deductions -----------------------------
(***************************************************************************)
(* The data of one round that is being judged: its judges, its students    *)
(* and the deductions that can be made, with what the scoring code reads   *)
(* off a set of deductions.                                                *)
(***************************************************************************)
EXTENDS PanelScore

CONSTANTS
  Judges,       \* admin users with role JUDGE
  Students,
  StartPanel,   \* the panel start_round validated
  Crits,        \* criteria of all deduction types, those of other groups too
  Amounts,      \* amounts of a deduction
  Earlier,      \* ids of the deductions already made,
  Prior,        \* and these deductions
  Submits,      \* one id for each submission; it is also its event's id
  Region,       \* student |-> region of the student's institution
  Regional,     \* CompetitionSeasonSettings.regional_balancing_enabled
  Absent        \* "no such row"

Event == [id: Earlier \cup Submits, judge: Judges, student: Students,
          crit: Crits, amount: Amounts]

(* The result of a student, as the API shows it.                           *)
Result == [score: Nat, rank: Nat]

(* get_judges_who_submitted: the judges with an event for student s.  A    *)
(* judge who found nothing to deduct has none, and has not submitted.      *)
Markers(E, s) == {e.judge : e \in {x \in E : x.student = s}}

(* The events of judge j for student s, and the tally they give: the judge *)
(* score of each judge of the panel P (-1: not computed).                  *)
MarksBy(E, j, s) == {e \in E : e.judge = j /\ e.student = s}
Unread == -1
TallyOf(P, E, s) ==
  [j \in Judges |-> IF j \in P THEN JudgeScore(MarksBy(E, j, s)) ELSE Unread]

(* The students s is ranked with: those of his region, or all.             *)
GroupOf(s) == {t \in Students : Regional => Region[s] = Region[t]}

ASSUME DeductionsAssumption ==
  /\ StartPanel \subseteq Judges /\ StartPanel # {}
  /\ IsFiniteSet(Judges) /\ IsFiniteSet(Students)
  /\ IsFiniteSet(Earlier) /\ IsFiniteSet(Submits)
  /\ Earlier \cap Submits = {}
  /\ Criteria \subseteq Crits /\ Amounts \subseteq 0..MaxAmount
  /\ Regional \in BOOLEAN
  /\ Absent \notin Event \cup Result
ASSUME PriorAssumption ==
  /\ Prior \subseteq Event
  /\ \A e \in Prior : e.id \in Earlier /\ e.judge \in StartPanel
=============================================================================
