----------------------------- MODULE JudgedRound -----------------------------
(***************************************************************************)
(* What the scoring API promises about a round that is being judged, with  *)
(* no requests, sessions or statements: an accepted deduction takes effect *)
(* at once, and with the deduction of the last assigned judge, and with    *)
(* every later one, the student's result and the ranking are computed from *)
(* all deductions on record.  Scoring implements this specification when   *)
(* requests do not overlap (module ScoringRefinement).                     *)
(***************************************************************************)
EXTENDS Deductions

VARIABLES
  status,    \* ACTIVE or COMPLETED
  panel,     \* the assigned judges
  token,     \* the judges whose token claims the round
  events,    \* the deductions on record
  audit,     \* every deduction ever accepted
  results    \* student |-> [score, rank], or Absent

vars == <<status, panel, token, events, audit, results>>

Ranked == {s \in Students : results[s] # Absent}

(* The results of a round that is being judged, as its deductions have led *)
(* to them so far.                                                         *)
SettledResults ==
  /\ results \in [Students -> Result \cup {Absent}]
  /\ \A s \in Students :
       /\ results[s] # Absent => StartPanel \subseteq Markers(Prior, s)
       /\ Markers(Prior, s) = StartPanel => results[s] # Absent
  /\ IsRanking(Ranked, [s \in Ranked |-> results[s].score],
               [s \in Ranked |-> GroupOf(s)],
               [s \in Ranked |-> results[s].rank])

Init ==
  /\ status = "ACTIVE" /\ panel = StartPanel /\ token = StartPanel
  /\ events = Prior /\ audit = Prior
  /\ SettledResults

(* finalize_and_broadcast: student s gets the panel's score of the events  *)
(* E, and everybody is ranked again.                                       *)
Finalize(s, E) ==
  LET R == Ranked \cup {s}
      score == [t \in R |-> IF t = s THEN PanelScoreOf(panel, TallyOf(panel, E, s))
                            ELSE results[t].score]
  IN  \E f \in [R -> 1..Cardinality(Students)] :
        /\ IsRanking(R, score, [t \in R |-> GroupOf(t)], f)
        /\ results' = [t \in Students |->
                         IF t \in R THEN [score |-> score[t], rank |-> f[t]]
                         ELSE Absent]

(* all_judges_submitted, with the new event e.                             *)
AllSubmitted(e) == Markers(events \cup {e}, e.student) = panel

(* POST /scoring/deductions.                                               *)
Submit(e) ==
  /\ status = "ACTIVE" /\ e.judge \in panel \cap token
  /\ \A x \in audit : x.id # e.id
  /\ events' = events \cup {e}
  /\ audit' = audit \cup {e}
  /\ IF AllSubmitted(e)
     THEN Finalize(e.student, events \cup {e})
     ELSE UNCHANGED results
  /\ UNCHANGED <<status, panel, token>>

(* DELETE /scoring/deductions/{id}: the results stay as they are.          *)
Undo(e) ==
  /\ events' = events \ {e}
  /\ UNCHANGED <<status, panel, token, audit, results>>

(* POST /rounds/{id}/judges, /auth/staff/login and /rounds/{id}/complete.  *)
AssignJudge(j) ==
  /\ j \notin panel
  /\ panel' = panel \cup {j}
  /\ UNCHANGED <<status, token, events, audit, results>>

RefreshToken(j) ==
  /\ j \in panel \ token
  /\ token' = token \cup {j}
  /\ UNCHANGED <<status, panel, events, audit, results>>

CompleteRound ==
  /\ status = "ACTIVE"
  /\ status' = "COMPLETED"
  /\ UNCHANGED <<panel, token, events, audit, results>>

Next ==
  \/ \E i \in Submits, j \in Judges, s \in Students, c \in Crits, a \in Amounts :
       Submit([id |-> i, judge |-> j, student |-> s, crit |-> c, amount |-> a])
  \/ \E e \in events : Undo(e)
  \/ \E j \in Judges : AssignJudge(j) \/ RefreshToken(j)
  \/ CompleteRound

Spec == Init /\ [][Next]_vars

-----------------------------------------------------------------------------
TypeOK ==
  /\ status \in {"ACTIVE", "COMPLETED"}
  /\ panel \subseteq Judges /\ token \subseteq Judges
  /\ events \subseteq Event /\ audit \subseteq Event
  /\ results \in [Students -> Result \cup {Absent}]

(* A student has a result as soon as every assigned judge has marked him,  *)
(* and the deletion of a deduction or a judge who joins the panel later    *)
(* takes no result away (docstring of submit_deduction_event).             *)
LastJudgeTriggers ==
  \A s \in Students : Markers(events, s) = panel => results[s] # Absent

(* No result before every judge of the starting panel has marked the       *)
(* student, at whatever time the other judges joined.                      *)
ResultsRestOnFullPanel ==
  \A s \in Ranked : StartPanel \subseteq Markers(audit, s)

(* The ranks are 1..k in each region (or in the round), no rank is given   *)
(* twice, and a higher score has the better rank.                          *)
RanksAgreeWithScores ==
  IsRanking(Ranked, [s \in Ranked |-> results[s].score],
            [s \in Ranked |-> GroupOf(s)],
            [s \in Ranked |-> results[s].rank])
=============================================================================
