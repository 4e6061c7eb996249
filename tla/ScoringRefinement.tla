-------------------------- MODULE ScoringRefinement --------------------------
(***************************************************************************)
(* Scoring implements JudgedRound when requests do not overlap: the COMMIT *)
(* of a submission is the abstract Submit, every other statement of it is  *)
(* a stutter.  A student's abstract result is his row of round_results.    *)
(***************************************************************************)
EXTENDS Scoring

(* What requests that do not overlap leave behind, as far as the rows of   *)
(* before the run are concerned: every fully marked student has one        *)
(* result, of the deductions on record, and the results are ranked.        *)
PriorIds == {id \in RowIds : PriorRows[id] # Absent}
PriorIsSettled ==
  /\ \A a, b \in PriorIds : PriorRows[a].student = PriorRows[b].student => a = b
  /\ \A s \in Students : Markers(Prior, s) = StartPanel =>
       \E id \in PriorIds : PriorRows[id].student = s
  /\ \A id \in PriorIds : PriorRows[id].score =
       PanelScoreOf(StartPanel, TallyOf(StartPanel, Prior, PriorRows[id].student))
  /\ IsRanking(PriorIds, [id \in PriorIds |-> PriorRows[id].score],
               [id \in PriorIds |-> GroupOf(PriorRows[id].student)],
               [id \in PriorIds |-> PriorRows[id].rank])
ASSUME SerialAssumption == Concurrency <= 1 => PriorIsSettled

ResultOf(R, s) ==
  IF \E id \in RowIds : R[id] # Absent /\ R[id].student = s
  THEN LET row == R[CHOOSE id \in RowIds : R[id] # Absent /\ R[id].student = s]
       IN  [score |-> row.score, rank |-> row.rank]
  ELSE Absent

Promise == INSTANCE JudgedRound WITH
  results <- [s \in Students |-> ResultOf(rows, s)]

(* One request at a time: what the API does is what it promises.           *)
ImplementsPromise == Promise!Spec
==============================================================================
