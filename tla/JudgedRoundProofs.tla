-------------------------- MODULE JudgedRoundProofs --------------------------
(***************************************************************************)
(* The promise of the scoring API is consistent: whatever is submitted,    *)
(* undone and assigned, results exist when they should and are ranked.     *)
(***************************************************************************)
EXTENDS JudgedRound, PanelScoreProofs

(* Only assigned judges mark, and deletions are remembered by the audit    *)
(* log: with these two facts the three promises are inductive.             *)
IInv ==
  /\ TypeOK
  /\ StartPanel \subseteq panel /\ events \subseteq audit
  /\ \A s \in Students : Markers(events, s) \subseteq panel
  /\ LastJudgeTriggers /\ ResultsRestOnFullPanel /\ RanksAgreeWithScores

-----------------------------------------------------------------------------
(* A finalisation ranks the student with all who had a result before.      *)
LEMMA FinalizeRanks ==
  ASSUME TypeOK, NEW s \in Students, NEW E, Finalize(s, E)
  PROVE  /\ results' \in [Students -> Result \cup {Absent}]
         /\ Ranked' = Ranked \cup {s}
         /\ RanksAgreeWithScores'
<1> DEFINE R == Ranked \cup {s}
           score == [t \in R |-> IF t = s THEN PanelScoreOf(panel, TallyOf(panel, E, s))
                                 ELSE results[t].score]
<1>1. PICK f \in [R -> 1..Cardinality(Students)] :
        /\ IsRanking(R, score, [t \in R |-> GroupOf(t)], f)
        /\ results' = [t \in Students |->
                         IF t \in R THEN [score |-> score[t], rank |-> f[t]]
                         ELSE Absent]
  BY DEF Finalize
<1>2. PanelScoreOf(panel, TallyOf(panel, E, s)) \in Nat
  BY PanelScoreType DEF TypeOK
<1>3. \A t \in Ranked : results[t].score \in Nat
  BY DEF TypeOK, Ranked, Result
<1>4. \A t \in R : score[t] \in Nat
  BY <1>2, <1>3
<1>5. Cardinality(Students) \in Nat
  BY DeductionsAssumption, FS_CardinalityType
<1>6. R \subseteq Students
  BY DEF Ranked
<1> HIDE DEF score
<1>7. \A t \in R : [score |-> score[t], rank |-> f[t]] \in Result
  BY <1>1, <1>4, <1>5 DEF Result
<1>8. Absent \notin Result
  BY DeductionsAssumption
<1>9. results' \in [Students -> Result \cup {Absent}]
  BY <1>1, <1>7
<1>10. Ranked' = R
  <2>1. \A t \in Students : results'[t] # Absent <=> t \in R
    BY <1>1, <1>7, <1>8
  <2> QED BY <1>6, <2>1 DEF Ranked
<1>11. \A t \in R : results'[t].score = score[t] /\ results'[t].rank = f[t]
  BY <1>1, <1>6
<1>12. RanksAgreeWithScores'
  <2> HIDE DEF R
  <2> QED BY <1>1, <1>10, <1>11 DEF RanksAgreeWithScores, IsRanking
<1> QED BY <1>9, <1>10, <1>12

LEMMA SubmitStep ==
  ASSUME IInv, NEW e \in Event, Submit(e) PROVE IInv'
<1> DEFINE s == e.student
           E == events \cup {e}
<1>1. /\ events' = E /\ audit' = audit \cup {e}
      /\ e.judge \in panel /\ UNCHANGED <<status, panel, token>>
      /\ IF AllSubmitted(e) THEN Finalize(s, E) ELSE UNCHANGED results
  BY DEF Submit
<1>2. s \in Students
  BY DEF Event
<1>3. /\ Markers(E, s) = Markers(events, s) \cup {e.judge}
      /\ \A t : t # s => Markers(E, t) = Markers(events, t)
  BY MarkersOfOne
<1>4. \A t \in Students : Markers(E, t) \subseteq panel
  BY <1>1, <1>3 DEF IInv
<1>5. E \subseteq audit' /\ StartPanel \subseteq panel'
  BY <1>1 DEF IInv
<1>6. \A t : Markers(audit, t) \subseteq Markers(audit', t)
  BY <1>1, MarkersMonotone
<1>7. events' \subseteq Event /\ audit' \subseteq Event
  BY <1>1 DEF IInv, TypeOK
<1> HIDE DEF s, E
<1>8. CASE AllSubmitted(e)
  <2>1. /\ results' \in [Students -> Result \cup {Absent}]
        /\ Ranked' = Ranked \cup {s} /\ RanksAgreeWithScores'
    BY <1>1, <1>2, <1>8, FinalizeRanks DEF IInv
  <2>2. TypeOK'
    BY <1>1, <1>7, <2>1 DEF IInv, TypeOK
  <2>3. Markers(E, s) = panel
    BY <1>8 DEF AllSubmitted, s, E
  <2>4. LastJudgeTriggers'
    <3> SUFFICES ASSUME NEW t \in Students, Markers(events', t) = panel'
                 PROVE  results'[t] # Absent
      BY DEF LastJudgeTriggers
    <3>1. CASE t = s
      BY <2>1, <3>1 DEF Ranked
    <3>2. CASE t # s
      <4>1. Markers(events, t) = panel
        BY <1>1, <1>3, <3>2
      <4>2. results[t] # Absent
        BY <4>1 DEF IInv, LastJudgeTriggers
      <4> QED BY <2>1, <4>2 DEF Ranked
    <3> QED BY <3>1, <3>2
  <2>5. ResultsRestOnFullPanel'
    <3>1. StartPanel \subseteq Markers(audit', s)
      BY <1>1, <1>5, <2>3, MarkersMonotone
    <3> QED BY <1>6, <2>1, <3>1 DEF IInv, ResultsRestOnFullPanel
  <2> QED BY <1>1, <1>4, <1>5, <2>1, <2>2, <2>4, <2>5 DEF IInv
<1>9. CASE ~AllSubmitted(e)
  <2>1. UNCHANGED results
    BY <1>1, <1>9
  <2>2. TypeOK' /\ RanksAgreeWithScores'
    BY <1>1, <1>7, <2>1 DEF IInv, TypeOK, RanksAgreeWithScores, Ranked
  <2>3. Markers(E, s) # panel
    BY <1>9 DEF AllSubmitted, s, E
  <2>4. LastJudgeTriggers'
    <3> SUFFICES ASSUME NEW t \in Students, Markers(events', t) = panel'
                 PROVE  results'[t] # Absent
      BY DEF LastJudgeTriggers
    <3>1. t # s
      BY <1>1, <2>3
    <3>2. Markers(events, t) = panel
      BY <1>1, <1>3, <3>1
    <3> QED BY <2>1, <3>2 DEF IInv, LastJudgeTriggers
  <2>5. ResultsRestOnFullPanel'
    BY <1>6, <2>1 DEF IInv, ResultsRestOnFullPanel, Ranked
  <2> QED BY <1>1, <1>4, <1>5, <2>2, <2>4, <2>5 DEF IInv
<1> QED BY <1>8, <1>9

(* A deletion can take a student's marks below the panel, never above it;  *)
(* a new judge has marked nobody.                                          *)
LEMMA OtherStep ==
  ASSUME IInv,
         \/ \E e \in events : Undo(e)
         \/ \E j \in Judges : AssignJudge(j) \/ RefreshToken(j)
         \/ CompleteRound
         \/ UNCHANGED vars
  PROVE  IInv'
<1>1. /\ UNCHANGED <<audit, results>>
      /\ panel \subseteq panel' /\ events' \subseteq events
      /\ panel' = panel \/ (events' = events /\ \E j \in panel' : j \notin panel)
  <2>1. ASSUME NEW e \in events, Undo(e) PROVE <1>1!:
    BY <2>1 DEF Undo
  <2>2. ASSUME NEW j \in Judges, AssignJudge(j) PROVE <1>1!:
    BY <2>2 DEF AssignJudge
  <2>3. ASSUME NEW j \in Judges, RefreshToken(j) PROVE <1>1!:
    BY <2>3 DEF RefreshToken
  <2>4. CASE CompleteRound
    BY <2>4 DEF CompleteRound
  <2>5. CASE UNCHANGED vars
    BY <2>5 DEF vars
  <2> QED BY <2>1, <2>2, <2>3, <2>4, <2>5
<1>2. TypeOK'
  BY DEF IInv, TypeOK, Undo, AssignJudge, RefreshToken, CompleteRound, vars
<1>3. \A s : Markers(events', s) \subseteq Markers(events, s)
  BY <1>1, MarkersMonotone
<1>4. \A s \in Students : Markers(events', s) \subseteq panel'
  BY <1>1, <1>3 DEF IInv
<1>5. LastJudgeTriggers'
  <2> SUFFICES ASSUME NEW s \in Students, Markers(events', s) = panel'
               PROVE  results[s] # Absent
    BY <1>1 DEF LastJudgeTriggers
  <2>1. Markers(events', s) \subseteq Markers(events, s)
    BY <1>3
  <2>2. Markers(events, s) \subseteq panel
    BY DEF IInv
  <2>3. Markers(events, s) = panel
    BY <1>1, <2>1, <2>2
  <2> QED BY <2>3 DEF IInv, LastJudgeTriggers
<1>6. ResultsRestOnFullPanel' /\ RanksAgreeWithScores'
  BY <1>1 DEF IInv, ResultsRestOnFullPanel, RanksAgreeWithScores, Ranked
<1> QED BY <1>1, <1>2, <1>4, <1>5, <1>6 DEF IInv

LEMMA Initially == Init => IInv
<1> SUFFICES ASSUME Init PROVE IInv
  OBVIOUS
<1>1. TypeOK
  BY PriorAssumption, DeductionsAssumption DEF Init, SettledResults, TypeOK
<1>2. \A s \in Students : Markers(events, s) \subseteq panel
  BY PriorAssumption DEF Init, Markers
<1>3. LastJudgeTriggers /\ ResultsRestOnFullPanel /\ RanksAgreeWithScores
  BY DEF Init, SettledResults, LastJudgeTriggers, ResultsRestOnFullPanel, Ranked,
     RanksAgreeWithScores
<1> QED BY <1>1, <1>2, <1>3 DEF Init, IInv

LEMMA Inductive == IInv /\ [Next]_vars => IInv'
<1> SUFFICES ASSUME IInv, [Next]_vars PROVE IInv'
  OBVIOUS
<1>1. ASSUME NEW i \in Submits, NEW j \in Judges, NEW s \in Students, NEW c \in Crits,
             NEW a \in Amounts,
             Submit([id |-> i, judge |-> j, student |-> s, crit |-> c, amount |-> a])
      PROVE  IInv'
  <2>1. [id |-> i, judge |-> j, student |-> s, crit |-> c, amount |-> a] \in Event
    BY DEF Event
  <2> QED BY <1>1, <2>1, SubmitStep
<1> QED BY <1>1, OtherStep DEF Next

(* Students whom every assigned judge has marked have a result, results    *)
(* rest on the full starting panel and the ranks agree with the scores:    *)
(* the three promises hold together in every reachable state.              *)
THEOREM PromisesKept ==
  Spec => [](LastJudgeTriggers /\ ResultsRestOnFullPanel /\ RanksAgreeWithScores)
<1>1. Spec => []IInv
  BY Initially, Inductive, PTL DEF Spec
<1>2. IInv => LastJudgeTriggers /\ ResultsRestOnFullPanel /\ RanksAgreeWithScores
  BY DEF IInv
<1> QED BY <1>1, <1>2, PTL
==============================================================================
