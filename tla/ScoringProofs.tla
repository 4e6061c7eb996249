---------------------------- MODULE ScoringProofs ----------------------------
(***************************************************************************)
(* Type correctness and what holds under every interleaving of the scoring *)
(* requests: results rest on the full panel and are ranked, and a score    *)
(* moves only in the commit of a deduction of its student.  One request at *)
(* a time, the properties that need no overlap, and that Scoring then      *)
(* implements JudgedRound.  For any panel, rubric and round.               *)
(***************************************************************************)
EXTENDS ScoringRefinement, PanelScoreProofs, FunctionTheorems

(* A submission with next statement p and session t is sound: what it has  *)
(* read and written so far justifies the result it will commit.            *)
Deciding == {"panel", "tally", "find", "write"}
Unwritten == {"assigned", "submitted"} \cup Deciding

OwnsEvent(p, t) ==
  /\ p # "undo"
  /\ p \in {"idle", "done"} => t = Blank
  /\ p \notin {"idle", "done"} => t.own \in Event
(* The panel a session has read contains the starting panel, and all of it *)
(* has marked the student once the session computes his score.             *)
SawFullPanel(p, t) ==
  /\ p = "submitted" => StartPanel \subseteq t.seen
  /\ p \in Deciding =>
       StartPanel \subseteq Markers(audit \cup {t.own}, t.own.student)
  /\ \A id \in RowIds : t.pend[id] # Absent =>
       StartPanel \subseteq Markers(audit \cup {t.own}, t.pend[id].student)
(* The rows it is about to write exist.                                    *)
WritesItsRows(p, t) ==
  /\ p \in Unwritten => t.pend = NoRows
  /\ p \in Unwritten \ {"write"} => t.mine = 0
  /\ p = "write" /\ t.mine # 0 => rows[t.mine] # Absent /\ t.loaded \in Row
  /\ \A id \in RowIds :
       t.ranks[id] # 0 => t.pend[id] # Absent \/ rows[id] # Absent
(* An unranked row it has written is still to be ranked.                   *)
WillRank(p, t) ==
  \A id \in RowIds : t.pend[id] # Absent /\ t.pend[id].rank = 0 =>
    /\ p = "rank" => id = t.mine /\ t.loaded.rank = 0
    /\ p = "rankwrite" => t.ranks[id] # 0
    /\ p \notin {"broadcast", "commit"}
Sound(p, t) ==
  OwnsEvent(p, t) /\ SawFullPanel(p, t) /\ WritesItsRows(p, t) /\ WillRank(p, t)

(* The inductive invariant.                                                *)
IInv ==
  /\ TypeOK
  /\ StartPanel \subseteq panel /\ events \subseteq audit
  /\ ResultsRestOnFullPanel /\ NoUnrankedResult
  /\ \A r \in Submits : Sound(pc[r], txn[r])

-----------------------------------------------------------------------------
LEMMA BlankType == Blank \in Txn /\ Sound("done", Blank) /\ Sound("idle", Blank)
<1>1. Blank \in Txn
  BY ScoringAssumption DEF Blank, Txn, NoRanks, NoRows, NoTally, Unread
<1>2. ASSUME NEW p \in {"idle", "done"} PROVE Sound(p, Blank)
  BY <1>2 DEF Sound, OwnsEvent, SawFullPanel, WritesItsRows, WillRank, Deciding,
     Unwritten, Blank, NoRows, NoRanks
<1> QED BY <1>1, <1>2

(* What a session reads of round_results.                                  *)
LEMMA VisibleRowType ==
  ASSUME TypeOK, NEW r \in Requests, NEW id \in RowIds
  PROVE  VisibleRow(r, id) \in Row \cup {Absent}
BY DEF TypeOK, Txn, VisibleRow

(* The score it computes.                                                  *)
LEMMA ScoreType ==
  ASSUME TypeOK, NEW r \in Requests
  PROVE  Score(r) \in Nat
BY PanelScoreType DEF Score, TypeOK, Txn

(* A statement that only changes its own session, the sequence or the      *)
(* leaderboard keeps the invariant if it leaves the session sound.         *)
LEMMA LocalStep ==
  ASSUME IInv, NEW r \in Submits, NEW p \in Steps, NEW t \in Txn, Sound(p, t),
         pc' = [pc EXCEPT ![r] = p], txn' = [txn EXCEPT ![r] = t],
         UNCHANGED <<round, store>>,
         seq' \in 0..MaxRows, board' \subseteq Row
  PROVE  IInv'
<1> USE DEF IInv, round, store
<1>1. r \in Requests
  BY DEF Requests
<1>2. TypeOK'
  BY <1>1 DEF TypeOK
<1>3. \A q \in Submits : Sound(pc[q], txn[q])'
  <2> SUFFICES ASSUME NEW q \in Submits PROVE Sound(pc[q], txn[q])'
    OBVIOUS
  <2>1. /\ pc'[q] = IF q = r THEN p ELSE pc[q]
        /\ txn'[q] = IF q = r THEN t ELSE txn[q]
    BY DEF TypeOK, Requests
  <2>2. Sound(pc'[q], txn'[q])
    BY <2>1
  <2> QED BY <2>2 DEF Sound, OwnsEvent, SawFullPanel, WritesItsRows, WillRank
<1>4. (StartPanel \subseteq panel)' /\ (events \subseteq audit)'
  OBVIOUS
<1>5. ResultsRestOnFullPanel' /\ NoUnrankedResult'
  BY DEF ResultsRestOnFullPanel, NoUnrankedResult, Results
<1> QED BY <1>2, <1>3, <1>4, <1>5
-----------------------------------------------------------------------------
(* One lemma for each statement of a submission.                           *)

LEMMA SubmitBeginStep ==
  ASSUME IInv, NEW r \in Submits, SubmitBegin(r) PROVE IInv'
<1>1. PICK j \in Judges, s \in Students, c \in Crits, a \in Amounts :
        txn' = [txn EXCEPT ![r].own = [id |-> r, judge |-> j, student |-> s,
                                       crit |-> c, amount |-> a]]
  BY DEF SubmitBegin
<1> DEFINE e == [id |-> r, judge |-> j, student |-> s, crit |-> c, amount |-> a]
           t == [txn[r] EXCEPT !.own = e]
<1>2. txn[r] = Blank
  BY DEF SubmitBegin, IInv, Sound, OwnsEvent
<1>3. e \in Event
  BY DEF Event, IInv, TypeOK
<1>4. t \in Txn /\ txn' = [txn EXCEPT ![r] = t]
  <2> HIDE DEF e
  <2>1. t \in Txn
    BY <1>2, <1>3, BlankType DEF Txn
  <2> QED BY <1>1, <2>1 DEF e
<1>5. Sound("assigned", t)
  <2> HIDE DEF e
  <2> QED BY <1>2, <1>3 DEF Blank, NoRows, NoRanks, Sound, OwnsEvent,
          SawFullPanel, WritesItsRows, WillRank, Deciding, Unwritten
<1> HIDE DEF t
<1> QED BY <1>4, <1>5, LocalStep
        DEF SubmitBegin, Goto, IInv, TypeOK, Steps

LEMMA ReadAssignedStep ==
  ASSUME IInv, NEW r \in Submits, ReadAssigned(r) PROVE IInv'
<1> DEFINE t == [txn[r] EXCEPT !.seen = panel]
<1>1. txn[r] \in Txn /\ Sound("assigned", txn[r]) /\ r \in Requests
  BY DEF ReadAssigned, IInv, TypeOK, Requests
<1>2. t \in Txn /\ txn' = [txn EXCEPT ![r] = t]
  BY <1>1 DEF ReadAssigned, IInv, TypeOK, Txn
<1>3. Sound("submitted", t)
  BY <1>1 DEF IInv, Txn, Sound, OwnsEvent, SawFullPanel, WritesItsRows, WillRank,
     Deciding, Unwritten
<1> HIDE DEF t
<1> QED BY <1>2, <1>3, LocalStep DEF ReadAssigned, Goto, IInv, TypeOK, Steps

(* The step the panel invariant rests on: the judges seen on the panel are *)
(* the judges whose events the session sees, all of them in the audit log  *)
(* once it has committed.                                                  *)
LEMMA ReadSubmittedStep ==
  ASSUME IInv, NEW r \in Submits, ReadSubmitted(r) PROVE IInv'
<1> DEFINE t == txn[r]
<1>1. /\ t \in Txn /\ Sound("submitted", t) /\ r \in Requests
      /\ txn' = [txn EXCEPT ![r] = t]
  BY DEF ReadSubmitted, IInv, TypeOK, Requests
<1>2. ASSUME AllSubmitted(r) PROVE Sound("panel", t)
  <2>1. Markers(VisibleEvents(r), t.own.student)
          \subseteq Markers(audit \cup {t.own}, t.own.student)
    BY MarkersMonotone DEF VisibleEvents, IInv
  <2>2. StartPanel \subseteq Markers(audit \cup {t.own}, t.own.student)
    BY <1>1, <1>2, <2>1 DEF AllSubmitted, Sound, SawFullPanel
  <2> QED BY <1>1, <2>2 DEF Sound, OwnsEvent, SawFullPanel, WritesItsRows,
          WillRank, Deciding, Unwritten
<1>3. Sound("commit", t)
  BY <1>1 DEF Sound, OwnsEvent, SawFullPanel, WritesItsRows, WillRank, Deciding,
     Unwritten, NoRows
<1>4. PICK p \in {"panel", "commit"} : Sound(p, t) /\ pc' = [pc EXCEPT ![r] = p]
  BY <1>2, <1>3 DEF ReadSubmitted, Goto
<1>5. UNCHANGED <<round, store>> /\ seq' \in 0..MaxRows /\ board' \subseteq Row
  BY DEF ReadSubmitted, IInv, TypeOK
<1> HIDE DEF t
<1> QED BY <1>1, <1>4, <1>5, LocalStep DEF Steps

LEMMA ReadPanelStep ==
  ASSUME IInv, NEW r \in Submits, ReadPanel(r) PROVE IInv'
<1> DEFINE t == [txn[r] EXCEPT !.seen = panel]
<1>1. txn[r] \in Txn /\ Sound("panel", txn[r]) /\ r \in Requests
  BY DEF ReadPanel, IInv, TypeOK, Requests
<1>2. t \in Txn /\ txn' = [txn EXCEPT ![r] = t]
  BY <1>1 DEF ReadPanel, IInv, TypeOK, Txn
<1>3. Sound("tally", t)
  BY <1>1 DEF Txn, Sound, OwnsEvent, SawFullPanel, WritesItsRows, WillRank,
     Deciding, Unwritten
<1> HIDE DEF t
<1> QED BY <1>2, <1>3, LocalStep DEF ReadPanel, Goto, IInv, TypeOK, Steps

LEMMA TallyJudgeStep ==
  ASSUME IInv, NEW r \in Submits, NEW j \in Judges, TallyJudge(r, j) PROVE IInv'
<1> DEFINE score == ScoreBy(r, j)
           t == [txn[r] EXCEPT !.tally[j] = score]
<1>1. txn[r] \in Txn /\ Sound("tally", txn[r]) /\ r \in Requests
  BY DEF TallyJudge, IInv, TypeOK, Requests
<1>2. score \in Int
  BY JudgeScoreBounded, FullMarksType DEF ScoreBy
<1>3. t \in Txn /\ txn' = [txn EXCEPT ![r] = t]
  <2> HIDE DEF score
  <2>1. t \in Txn
    BY <1>1, <1>2 DEF Txn
  <2> QED BY <2>1 DEF TallyJudge, score
<1>4. Sound("tally", t) /\ Sound("find", t)
  <2> HIDE DEF score
  <2> QED BY <1>1 DEF Txn, Sound, OwnsEvent, SawFullPanel, WritesItsRows,
          WillRank, Deciding, Unwritten
<1>5. PICK p \in {"tally", "find"} : pc' = [pc EXCEPT ![r] = p]
  BY DEF TallyJudge, Goto
<1> HIDE DEF t
<1> QED BY <1>3, <1>4, <1>5, LocalStep DEF TallyJudge, IInv, TypeOK, Steps

(* A request that fails leaves nothing behind.                             *)
LEMMA RollbackStep ==
  ASSUME IInv, NEW r \in Requests, Rollback(r) PROVE IInv'
<1>1. TypeOK'
  BY BlankType DEF IInv, TypeOK, Rollback, Finish, Goto, Steps, store, round
<1>2. ASSUME NEW q \in Submits PROVE Sound(pc[q], txn[q])'
  <2>1. /\ pc'[q] = IF q = r THEN "done" ELSE pc[q]
        /\ txn'[q] = IF q = r THEN Blank ELSE txn[q]
    BY DEF IInv, TypeOK, Requests, Rollback, Finish, Goto
  <2>2. Sound(pc'[q], txn'[q])
    BY <2>1, BlankType DEF IInv
  <2> QED BY <2>2 DEF Sound, OwnsEvent, SawFullPanel, WritesItsRows, WillRank,
          Rollback, store, round
<1> QED BY <1>1, <1>2 DEF IInv, ResultsRestOnFullPanel, NoUnrankedResult, Results,
        Rollback, store, round
(* The row the upsert found is still there when it is updated: rows are    *)
(* never deleted.                                                          *)
LEMMA FindResultStep ==
  ASSUME IInv, NEW r \in Submits, FindResult(r) PROVE IInv'
<1>1. txn[r] \in Txn /\ Sound("find", txn[r]) /\ r \in Requests
  BY DEF FindResult, IInv, TypeOK, Requests
<1>2. UNCHANGED <<round, store>> /\ seq' \in 0..MaxRows /\ board' \subseteq Row
  BY DEF FindResult, Rollback, IInv, TypeOK
<1>3. CASE RowsOf(r) = {} /\ Goto(r, "write") /\ UNCHANGED txn
  <2> DEFINE t == txn[r]
  <2>1. t \in Txn /\ txn' = [txn EXCEPT ![r] = t]
    BY <1>1, <1>3 DEF IInv, TypeOK
  <2>2. Sound("write", t)
    BY <1>1 DEF Sound, OwnsEvent, SawFullPanel, WritesItsRows, WillRank, Deciding,
       Unwritten, RowIds, Txn, NoRows
  <2> HIDE DEF t
  <2> QED BY <1>2, <1>3, <2>1, <2>2, LocalStep DEF Goto, Steps
<1>4. ASSUME NEW id \in RowsOf(r), Goto(r, "write"),
             txn' = [txn EXCEPT ![r].mine = id, ![r].loaded = VisibleRow(r, id)]
      PROVE  IInv'
  <2> DEFINE row == VisibleRow(r, id)
             t == [txn[r] EXCEPT !.mine = id, !.loaded = row]
  <2>1. id \in RowIds /\ VisibleRow(r, id) # Absent
    BY DEF RowsOf, VisibleIds
  <2>2. VisibleRow(r, id) \in Row /\ VisibleRow(r, id) = rows[id]
    BY <1>1, <2>1, VisibleRowType DEF IInv, Sound, WritesItsRows, Unwritten,
       Deciding, VisibleRow, NoRows
  <2>3. t \in Txn /\ txn' = [txn EXCEPT ![r] = t]
    <3>1. id \in 0..MaxRows
      BY <2>1, ScoringAssumption DEF RowIds
    <3>2. t \in Txn
      <4> HIDE DEF row
      <4> QED BY <1>1, <2>2, <3>1 DEF Txn, row
    <3> QED BY <1>1, <1>4, <3>2 DEF IInv, TypeOK
  <2>4. Sound("write", t)
    BY <1>1, <2>1, <2>2 DEF Txn, Sound, OwnsEvent, SawFullPanel, WritesItsRows,
       WillRank, Deciding, Unwritten, NoRows
  <2> HIDE DEF t
  <2> QED BY <1>2, <1>4, <2>3, <2>4, LocalStep DEF Goto, Steps
<1> QED BY <1>1, <1>3, <1>4, RollbackStep DEF FindResult

LEMMA InsertResultStep ==
  ASSUME IInv, NEW r \in Submits, InsertResult(r) PROVE IInv'
<1> DEFINE id == seq + 1
           new == [student |-> txn[r].own.student, score |-> Score(r), rank |-> 0]
           t == [txn[r] EXCEPT !.mine = id, !.loaded = new, !.pend[id] = new]
<1>1. txn[r] \in Txn /\ Sound("write", txn[r]) /\ r \in Requests
  BY DEF InsertResult, IInv, TypeOK, Requests
<1>2. id \in RowIds /\ id \in 0..MaxRows
  BY ScoringAssumption DEF InsertResult, IInv, TypeOK, RowIds
<1>3. txn[r].own \in Event /\ new \in Row /\ new # Absent
  BY <1>1, ScoreType, ScoringAssumption
     DEF IInv, Sound, OwnsEvent, Event, Row
<1>4. t \in Txn /\ txn' = [txn EXCEPT ![r] = t]
  <2>1. t \in Txn
    <3> HIDE DEF new, id
    <3> QED BY <1>1, <1>2, <1>3 DEF Txn
  <2>2. txn' = [txn EXCEPT ![r] = t]
    BY DEF InsertResult
  <2> QED BY <2>1, <2>2
<1>5. \A i \in RowIds : t.pend[i] = IF i = id THEN new ELSE Absent
  <2> HIDE DEF new, id
  <2> QED BY <1>1, <1>2 DEF Txn, Sound, WritesItsRows, Unwritten, Deciding, NoRows
<1>6. t.own = txn[r].own /\ t.mine = id /\ t.loaded = new /\ t.ranks = txn[r].ranks
  <2> HIDE DEF new, id
  <2> QED BY <1>1 DEF Txn
<1>7. Sound("rank", t)
  <2>1. new.student = txn[r].own.student /\ new.rank = 0
    OBVIOUS
  <2> HIDE DEF new, id, t
  <2>2. OwnsEvent("rank", t)
    BY <1>1, <1>6 DEF Sound, OwnsEvent
  <2>3. SawFullPanel("rank", t)
    BY <1>1, <1>5, <1>6, <2>1 DEF Sound, SawFullPanel, Deciding
  <2>4. WritesItsRows("rank", t)
    BY <1>1, <1>5, <1>6 DEF Sound, WritesItsRows, Unwritten, Deciding, NoRows
  <2>5. WillRank("rank", t)
    BY <1>5, <1>6, <2>1 DEF WillRank
  <2> QED BY <2>2, <2>3, <2>4, <2>5 DEF Sound
<1>8. UNCHANGED <<round, store>> /\ seq' \in 0..MaxRows /\ board' \subseteq Row
  BY <1>2 DEF InsertResult, IInv, TypeOK
<1>9. pc' = [pc EXCEPT ![r] = "rank"]
  BY DEF InsertResult, Goto
<1> HIDE DEF t
<1> QED BY <1>4, <1>7, <1>8, <1>9, LocalStep DEF Steps

LEMMA UpdateResultStep ==
  ASSUME IInv, NEW r \in Submits, UpdateResult(r) PROVE IInv'
<1> DEFINE id == txn[r].mine
           new == IF Score(r) = txn[r].loaded.score
                  THEN rows[id] ELSE [rows[id] EXCEPT !.score = Score(r)]
           t == [txn[r] EXCEPT !.pend[id] = new, !.loaded.score = Score(r)]
<1>1. txn[r] \in Txn /\ Sound("write", txn[r]) /\ r \in Requests
  BY DEF UpdateResult, IInv, TypeOK, Requests
<1>2. id \in RowIds
  BY <1>1, ScoringAssumption DEF UpdateResult, Txn, RowIds
<1>3. rows[id] \in Row /\ rows[id] # Absent /\ txn[r].loaded \in Row
  BY <1>1, <1>2 DEF UpdateResult, Sound, WritesItsRows, IInv, TypeOK
<1>4. /\ new \in Row /\ new # Absent
      /\ new.student = rows[id].student /\ new.rank = rows[id].rank
  BY <1>1, <1>3, ScoreType, ScoringAssumption DEF IInv, Row
<1>5. new.rank # 0 /\ StartPanel \subseteq Markers(audit, new.student)
  <2> HIDE DEF new, id
  <2> QED BY <1>2, <1>3, <1>4 DEF IInv, NoUnrankedResult, ResultsRestOnFullPanel,
          Results
<1>6. t \in Txn /\ txn' = [txn EXCEPT ![r] = t]
  <2>1. [txn[r].loaded EXCEPT !.score = Score(r)] \in Row
    BY <1>1, <1>3, ScoreType DEF IInv, Row
  <2>2. t \in Txn
    <3> HIDE DEF new, id
    <3> QED BY <1>1, <1>2, <1>4, <2>1 DEF Txn
  <2>3. txn' = [txn EXCEPT ![r] = t]
    BY DEF UpdateResult
  <2> QED BY <2>2, <2>3
<1>7. /\ \A i \in RowIds : t.pend[i] = IF i = id THEN new ELSE Absent
      /\ t.own = txn[r].own /\ t.ranks = txn[r].ranks
  <2> HIDE DEF new, id
  <2> QED BY <1>1, <1>2 DEF Txn, Sound, WritesItsRows, Unwritten, Deciding, NoRows
<1>8. Sound("rank", t)
  <2> HIDE DEF new, id, t
  <2>1. OwnsEvent("rank", t)
    BY <1>1, <1>7 DEF Sound, OwnsEvent
  <2>2. SawFullPanel("rank", t)
    <3>1. Markers(audit, new.student)
            \subseteq Markers(audit \cup {t.own}, new.student)
      BY MarkersMonotone
    <3> QED BY <1>5, <1>7, <3>1 DEF SawFullPanel, Deciding
  <2>3. WritesItsRows("rank", t)
    BY <1>1, <1>7 DEF Sound, WritesItsRows, Unwritten, Deciding, NoRows
  <2>4. WillRank("rank", t)
    BY <1>5, <1>7 DEF WillRank
  <2> QED BY <2>1, <2>2, <2>3, <2>4 DEF Sound
<1>9. /\ UNCHANGED <<round, store>> /\ seq' \in 0..MaxRows /\ board' \subseteq Row
      /\ pc' = [pc EXCEPT ![r] = "rank"]
  BY DEF UpdateResult, Goto, IInv, TypeOK
<1> HIDE DEF t
<1> QED BY <1>6, <1>8, <1>9, LocalStep DEF Steps
(* Every row of the round that the session sees gets a rank of 1 or more;  *)
(* an unchanged rank is not written, but a NULL one always changes.        *)
LEMMA RankPositive ==
  ASSUME NEW r, NEW f, IsRankingFor(r, f), NEW id \in VisibleIds(r)
  PROVE  f[id] # 0
<1> DEFINE group == {b \in VisibleIds(r) :
                       GroupOf(RankedRow(r, id).student) = GroupOf(RankedRow(r, b).student)}
<1>1. f[id] \in 1..Cardinality(group)
  BY DEF IsRankingFor, IsRanking
<1>2. IsFiniteSet(RowIds)
  BY ScoringAssumption, FS_Interval DEF RowIds
<1>3. group \in SUBSET RowIds
  BY DEF VisibleIds
<1>4. Cardinality(group) \in Nat
  BY <1>2, <1>3, FS_Subset, FS_CardinalityType
<1> HIDE DEF group
<1> QED BY <1>1, <1>4

LEMMA ReadRanksStep ==
  ASSUME IInv, NEW r \in Submits, ReadRanks(r) PROVE IInv'
<1>1. PICK f \in [RowIds -> 0..MaxRows] :
        /\ IsRankingFor(r, f)
        /\ LET changed == [id \in RowIds |->
                    IF id \in VisibleIds(r) /\ f[id] # RankedRow(r, id).rank
                    THEN f[id] ELSE 0]
           IN  /\ txn' = [txn EXCEPT ![r].ranks = changed]
               /\ Goto(r, IF changed = NoRanks THEN "broadcast" ELSE "rankwrite")
  BY DEF ReadRanks
<1> DEFINE changed == [id \in RowIds |->
                    IF id \in VisibleIds(r) /\ f[id] # RankedRow(r, id).rank
                    THEN f[id] ELSE 0]
           t == [txn[r] EXCEPT !.ranks = changed]
<1>2. txn[r] \in Txn /\ Sound("rank", txn[r]) /\ r \in Requests
  BY DEF ReadRanks, IInv, TypeOK, Requests
<1>3. changed \in [RowIds -> Nat]
  BY ScoringAssumption
<1>4. t \in Txn /\ txn' = [txn EXCEPT ![r] = t]
  <2>1. t \in Txn
    <3> HIDE DEF changed
    <3> QED BY <1>2, <1>3 DEF Txn
  <2> QED BY <1>1, <2>1
<1>5. /\ t.own = txn[r].own /\ t.pend = txn[r].pend /\ t.ranks = changed
  <2> HIDE DEF changed
  <2> QED BY <1>2 DEF Txn
<1>6. \A id \in RowIds : changed[id] # 0 =>
         txn[r].pend[id] # Absent \/ rows[id] # Absent
  BY DEF VisibleIds, VisibleRow
<1>7. ASSUME NEW id \in RowIds, txn[r].pend[id] # Absent, txn[r].pend[id].rank = 0
      PROVE  changed[id] # 0
  <2>1. id = txn[r].mine /\ txn[r].loaded.rank = 0
    BY <1>2, <1>7 DEF Sound, WillRank
  <2>2. id \in VisibleIds(r) /\ RankedRow(r, id).rank = 0
    BY <1>7, <2>1 DEF VisibleIds, VisibleRow, RankedRow
  <2>3. f[id] # 0
    BY <1>1, <2>2, RankPositive
  <2> QED BY <2>2, <2>3
<1>8. PICK p \in {"broadcast", "rankwrite"} :
        /\ pc' = [pc EXCEPT ![r] = p]
        /\ p = "broadcast" => changed = NoRanks
  BY <1>1 DEF Goto
<1>9. Sound(p, t)
  <2> HIDE DEF changed, t
  <2>1. OwnsEvent(p, t)
    BY <1>2, <1>5 DEF Sound, OwnsEvent
  <2>2. SawFullPanel(p, t)
    BY <1>2, <1>5 DEF Sound, SawFullPanel, Deciding
  <2>3. WritesItsRows(p, t)
    BY <1>5, <1>6 DEF WritesItsRows, Unwritten, Deciding
  <2>4. WillRank(p, t)
    BY <1>5, <1>7, <1>8 DEF WillRank, NoRanks
  <2> QED BY <2>1, <2>2, <2>3, <2>4 DEF Sound
<1>10. UNCHANGED <<round, store>> /\ seq' \in 0..MaxRows /\ board' \subseteq Row
  BY DEF ReadRanks, IInv, TypeOK
<1>11. p \in Steps
  BY DEF Steps
<1> HIDE DEF changed, t
<1> QED BY <1>4, <1>8, <1>9, <1>10, <1>11, LocalStep

LEMMA WriteRankStep ==
  ASSUME IInv, NEW r \in Submits, WriteRank(r) PROVE IInv'
<1>1. PICK id \in NextRankIds(r) :
        LET left == [txn[r].ranks EXCEPT ![id] = 0]
        IN  /\ txn' = [txn EXCEPT
                 ![r].pend[id] = [VisibleRow(r, id) EXCEPT
                                    !.rank = txn[r].ranks[id]],
                 ![r].ranks = left]
            /\ Goto(r, IF left = NoRanks THEN "broadcast" ELSE "rankwrite")
  BY DEF WriteRank
<1> DEFINE left == [txn[r].ranks EXCEPT ![id] = 0]
           old == VisibleRow(r, id)
           new == [old EXCEPT !.rank = txn[r].ranks[id]]
           t == [txn[r] EXCEPT !.pend[id] = new, !.ranks = left]
<1>2. txn[r] \in Txn /\ Sound("rankwrite", txn[r]) /\ r \in Requests
  BY DEF WriteRank, IInv, TypeOK, Requests
<1>3. id \in RowIds /\ txn[r].ranks[id] # 0 /\ txn[r].ranks[id] \in Nat
  BY <1>2 DEF NextRankIds, Txn
<1>4. old # Absent /\ old \in Row
  BY <1>2, <1>3, VisibleRowType
     DEF VisibleRow, Sound, WritesItsRows, IInv
<1>5. /\ new \in Row /\ new # Absent
      /\ new.student = old.student /\ new.rank # 0
  <2> HIDE DEF old
  <2> QED BY <1>3, <1>4, ScoringAssumption DEF Row
<1>6. StartPanel \subseteq Markers(audit \cup {txn[r].own}, old.student)
  <2>1. CASE txn[r].pend[id] # Absent
    BY <1>2, <1>3, <2>1 DEF VisibleRow, Sound, SawFullPanel
  <2>2. CASE txn[r].pend[id] = Absent
    <3>1. StartPanel \subseteq Markers(audit, old.student)
      BY <1>3, <1>4, <2>2 DEF VisibleRow, IInv, ResultsRestOnFullPanel, Results
    <3> QED BY <3>1, MarkersMonotone
  <2> QED BY <2>1, <2>2
<1>7. left \in [RowIds -> Nat]
  BY <1>2, <1>3 DEF Txn
<1>8. t \in Txn /\ txn' = [txn EXCEPT ![r] = t]
  <2>1. t \in Txn
    <3> HIDE DEF new, left
    <3> QED BY <1>2, <1>3, <1>5, <1>7 DEF Txn
  <2>2. txn' = [txn EXCEPT ![r] = t]
    BY <1>1
  <2> QED BY <2>1, <2>2
<1>9. /\ t.own = txn[r].own /\ t.ranks = left
      /\ \A i \in RowIds : t.pend[i] = IF i = id THEN new ELSE txn[r].pend[i]
      /\ \A i \in RowIds : left[i] = IF i = id THEN 0 ELSE txn[r].ranks[i]
  <2>1. \A i \in RowIds : left[i] = IF i = id THEN 0 ELSE txn[r].ranks[i]
    BY <1>2, <1>3 DEF Txn
  <2> HIDE DEF new, left
  <2> QED BY <1>2, <1>3, <2>1 DEF Txn
<1>10. PICK p \in {"broadcast", "rankwrite"} :
         /\ pc' = [pc EXCEPT ![r] = p]
         /\ p = "broadcast" => left = NoRanks
  BY <1>1 DEF Goto
<1>11. Sound(p, t)
  <2> HIDE DEF new, left, t, old
  <2>1. OwnsEvent(p, t)
    BY <1>2, <1>9 DEF Sound, OwnsEvent
  <2>2. SawFullPanel(p, t)
    BY <1>2, <1>5, <1>6, <1>9 DEF Sound, SawFullPanel, Deciding
  <2>3. WritesItsRows(p, t)
    BY <1>2, <1>5, <1>9 DEF Sound, WritesItsRows, Unwritten, Deciding
  <2>4. WillRank(p, t)
    BY <1>2, <1>5, <1>9, <1>10 DEF Sound, WillRank, NoRanks
  <2> QED BY <2>1, <2>2, <2>3, <2>4 DEF Sound
<1>12. UNCHANGED <<round, store>> /\ seq' \in 0..MaxRows /\ board' \subseteq Row
  BY DEF WriteRank, IInv, TypeOK
<1>13. p \in Steps
  BY DEF Steps
<1> HIDE DEF left, old, new, t
<1> QED BY <1>8, <1>10, <1>11, <1>12, <1>13, LocalStep

LEMMA BroadcastStep ==
  ASSUME IInv, NEW r \in Submits, Broadcast(r) PROVE IInv'
<1> DEFINE t == txn[r]
<1>1. /\ t \in Txn /\ Sound("broadcast", t) /\ r \in Requests
      /\ txn' = [txn EXCEPT ![r] = t]
  BY DEF Broadcast, IInv, TypeOK, Requests
<1>2. Sound("commit", t)
  BY <1>1 DEF Sound, OwnsEvent, SawFullPanel, WritesItsRows, WillRank, Deciding,
     Unwritten
<1>3. board' \subseteq Row
  BY <1>1, VisibleRowType DEF Broadcast, VisibleIds, IInv
<1>4. /\ UNCHANGED <<round, store>> /\ seq' \in 0..MaxRows
      /\ pc' = [pc EXCEPT ![r] = "commit"]
  BY DEF Broadcast, Goto, IInv, TypeOK
<1> HIDE DEF t
<1> QED BY <1>1, <1>2, <1>3, <1>4, LocalStep DEF Steps
(* The commit of the triggering event and of the result it led to: the     *)
(* event enters the audit log with the rows that rest on it.               *)
LEMMA CommitStep ==
  ASSUME IInv, NEW r \in Submits, Commit(r) PROVE IInv'
<1> DEFINE own == txn[r].own
<1>1. /\ txn[r] \in Txn /\ Sound("commit", txn[r]) /\ r \in Requests
      /\ own \in Event
  BY DEF Commit, IInv, TypeOK, Requests, Sound, OwnsEvent
<1>2. /\ events' = events \cup {own} /\ audit' = audit \cup {own}
      /\ pc' = [pc EXCEPT ![r] = "done"] /\ txn' = [txn EXCEPT ![r] = Blank]
      /\ UNCHANGED <<status, panel, token, seq, board>>
      /\ \A id \in RowIds : rows'[id] = VisibleRow(r, id)
  BY DEF Commit, Finish, Goto, round
<1>3. rows' \in [RowIds -> Row \cup {Absent}]
  BY <1>1, VisibleRowType DEF Commit, IInv
<1>4. TypeOK'
  BY <1>1, <1>2, <1>3, BlankType DEF IInv, TypeOK, Steps
<1>5. ASSUME NEW id \in RowIds, rows'[id] # Absent
      PROVE  /\ StartPanel \subseteq Markers(audit', rows'[id].student)
             /\ rows'[id].rank # 0
  <2>1. CASE txn[r].pend[id] # Absent
    BY <1>1, <1>2, <2>1 DEF VisibleRow, Sound, SawFullPanel, WillRank
  <2>2. CASE txn[r].pend[id] = Absent
    <3>1. rows'[id] = rows[id]
      BY <1>2, <2>2 DEF VisibleRow
    <3>2. Markers(audit, rows[id].student) \subseteq Markers(audit', rows[id].student)
      BY <1>2, MarkersMonotone
    <3> QED BY <1>5, <3>1, <3>2 DEF IInv, ResultsRestOnFullPanel, NoUnrankedResult,
            Results
  <2> QED BY <2>1, <2>2
<1>6. ASSUME NEW q \in Submits PROVE Sound(pc[q], txn[q])'
  <2> DEFINE p == pc'[q]
             t == txn'[q]
  <2>1. /\ p = IF q = r THEN "done" ELSE pc[q]
        /\ t = IF q = r THEN Blank ELSE txn[q]
    BY <1>2 DEF IInv, TypeOK, Requests
  <2>2. Sound(p, t)
    BY <2>1, BlankType DEF IInv
  <2>3. \A id \in RowIds : rows[id] # Absent => rows'[id] # Absent
    BY <1>2 DEF VisibleRow
  <2>4. \A s : Markers(audit \cup {t.own}, s) \subseteq Markers(audit' \cup {t.own}, s)
    BY <1>2, MarkersMonotone
  <2>5. t.mine \in 0..MaxRows
    BY <1>4 DEF TypeOK, Txn, Requests
  <2>6. p = "write" /\ t.mine # 0 => t.mine \in RowIds
    BY <2>5, ScoringAssumption DEF RowIds
  <2>7. SawFullPanel(pc[q], txn[q])'
    BY <2>2, <2>4 DEF Sound, SawFullPanel
  <2>8. WritesItsRows(pc[q], txn[q])'
    BY <2>2, <2>3, <2>6 DEF Sound, WritesItsRows
  <2>9. OwnsEvent(pc[q], txn[q])' /\ WillRank(pc[q], txn[q])'
    BY <2>2 DEF Sound, OwnsEvent, WillRank
  <2> QED BY <2>7, <2>8, <2>9 DEF Sound
<1>7. (StartPanel \subseteq panel)' /\ (events \subseteq audit)'
  BY <1>2 DEF IInv
<1>8. ResultsRestOnFullPanel' /\ NoUnrankedResult'
  BY <1>5 DEF ResultsRestOnFullPanel, NoUnrankedResult, Results
<1> QED BY <1>4, <1>6, <1>7, <1>8 DEF IInv

-----------------------------------------------------------------------------
(* The other requests: none of them touches the audit log or the results.  *)
LEMMA OtherStep ==
  ASSUME IInv,
         \/ \E u \in Undos : UndoBegin(u) \/ UndoCommit(u)
         \/ \E j \in Judges : AssignJudge(j) \/ RefreshToken(j)
         \/ CompleteRound
  PROVE  IInv'
<1>1. /\ UNCHANGED <<audit, rows, seq, board>>
      /\ panel \subseteq panel' /\ panel' \subseteq Judges
      /\ events' \subseteq events /\ token' \subseteq Judges
      /\ status' \in {"ACTIVE", "COMPLETED"}
  BY DEF UndoBegin, UndoCommit, AssignJudge, RefreshToken, CompleteRound, store,
     round, IInv, TypeOK
<1>2. /\ pc' \in [Requests -> Steps] /\ txn' \in [Requests -> Txn]
      /\ \A q \in Submits : pc'[q] = pc[q] /\ txn'[q] = txn[q]
  <2>1. ASSUME NEW u \in Undos, UndoBegin(u) PROVE <1>2
    <3>1. PICK e \in events : txn' = [txn EXCEPT ![u].own = e]
      BY <2>1 DEF UndoBegin
    <3>2. u \in Requests /\ u \notin Submits /\ e \in Event /\ txn[u] \in Txn
      BY ScoringAssumption DEF Requests, IInv, TypeOK
    <3>3. [txn[u] EXCEPT !.own = e] \in Txn
      BY <3>2 DEF Txn
    <3>4. pc' = [pc EXCEPT ![u] = "undo"]
      BY <2>1 DEF UndoBegin, Goto
    <3> QED BY <3>1, <3>2, <3>3, <3>4 DEF IInv, TypeOK, Steps, Requests
  <2>2. ASSUME NEW u \in Undos, UndoCommit(u) PROVE <1>2
    <3>1. u \in Requests /\ u \notin Submits
      BY ScoringAssumption DEF Requests
    <3> QED BY <2>2, <3>1, BlankType
            DEF UndoCommit, Finish, Goto, IInv, TypeOK, Steps, Requests
  <2>3. ASSUME UNCHANGED <<pc, txn>> PROVE <1>2
    BY <2>3 DEF IInv, TypeOK
  <2> QED BY <2>1, <2>2, <2>3 DEF AssignJudge, RefreshToken, CompleteRound
<1>3. TypeOK'
  BY <1>1, <1>2 DEF IInv, TypeOK
<1>4. ASSUME NEW q \in Submits PROVE Sound(pc[q], txn[q])'
  <2>1. Sound(pc'[q], txn'[q])
    BY <1>2 DEF IInv
  <2> QED BY <1>1, <2>1 DEF Sound, OwnsEvent, SawFullPanel, WritesItsRows, WillRank
<1>5. ResultsRestOnFullPanel' /\ NoUnrankedResult'
  BY <1>1 DEF IInv, ResultsRestOnFullPanel, NoUnrankedResult, Results
<1>6. (StartPanel \subseteq panel)' /\ (events \subseteq audit)'
  BY <1>1 DEF IInv
<1> QED BY <1>3, <1>4, <1>5, <1>6 DEF IInv

LEMMA Initially == Init => IInv
<1> SUFFICES ASSUME Init PROVE IInv
  OBVIOUS
<1> DEFINE ids == {id \in RowIds : PriorRows[id] # Absent}
<1>1. IsFiniteSet(RowIds) /\ Cardinality(RowIds) = MaxRows
  BY ScoringAssumption, FS_Interval DEF RowIds
<1>2. Cardinality(ids) \in 0..MaxRows
  <2>1. ids \in SUBSET RowIds
    OBVIOUS
  <2>2. IsFiniteSet(ids) /\ Cardinality(ids) <= MaxRows
    <3> HIDE DEF ids
    <3> QED BY <1>1, <2>1, FS_Subset
  <2> QED BY <2>2, FS_CardinalityType, ScoringAssumption
<1>3. TypeOK
  BY <1>2, BlankType, PriorAssumption, PriorRowsAssumption, DeductionsAssumption
     DEF Init, TypeOK, Steps
<1>4. \A q \in Submits : Sound(pc[q], txn[q])
  BY BlankType DEF Init, Requests
<1>5. ResultsRestOnFullPanel /\ NoUnrankedResult
  BY PriorRowsAssumption DEF Init, ResultsRestOnFullPanel, NoUnrankedResult, Results
<1> QED BY <1>3, <1>4, <1>5 DEF Init, IInv

LEMMA Inductive == IInv /\ [Next]_vars => IInv'
<1> SUFFICES ASSUME IInv, [Next]_vars PROVE IInv'
  OBVIOUS
<1>1. ASSUME NEW r \in Submits, SubmitBegin(r) PROVE IInv'
  BY <1>1, SubmitBeginStep
<1>2. ASSUME NEW r \in Submits, SubmitStep(r) PROVE IInv'
  BY <1>2, ReadAssignedStep, ReadSubmittedStep, ReadPanelStep, TallyJudgeStep,
     FindResultStep, InsertResultStep, UpdateResultStep, ReadRanksStep,
     WriteRankStep, BroadcastStep, CommitStep DEF SubmitStep
<1>3. ASSUME NEW r \in Requests, Rollback(r) PROVE IInv'
  BY <1>3, RollbackStep
<1>4. CASE UNCHANGED vars
  <2>1. TypeOK'
    BY <1>4 DEF IInv, TypeOK, vars
  <2>2. ASSUME NEW q \in Submits PROVE Sound(pc[q], txn[q])'
    BY <1>4 DEF IInv, vars, Sound, OwnsEvent, SawFullPanel, WritesItsRows, WillRank
  <2> QED BY <1>4, <2>1, <2>2
          DEF IInv, vars, ResultsRestOnFullPanel, NoUnrankedResult, Results
<1> QED BY <1>1, <1>2, <1>3, <1>4, OtherStep
        DEF Next, DeadlockVictim, Fail, InFlight, Requests

(* IInv holds in every reachable state.                                    *)
THEOREM Invariance == Spec => []IInv
<1> QED BY Initially, Inductive, PTL DEF Spec

(* Every variable keeps its type: in particular every score is a natural,  *)
(* every session holds rows that exist.                                    *)
THEOREM TypeCorrect == Spec => []TypeOK
<1>1. IInv => TypeOK
  BY DEF IInv
<1> QED BY <1>1, Invariance, PTL

(* No committed result rests on part of the starting panel, with any       *)
(* number of judges, students and requests in flight.                      *)
THEOREM FullPanel == Spec => []ResultsRestOnFullPanel
<1>1. IInv => ResultsRestOnFullPanel
  BY DEF IInv
<1> QED BY <1>1, Invariance, PTL

(* A committed result is a ranked result.                                  *)
THEOREM AllRanked == Spec => []NoUnrankedResult
<1>1. IInv => NoUnrankedResult
  BY DEF IInv
<1> QED BY <1>1, Invariance, PTL
-----------------------------------------------------------------------------
(* Row locks.  A session knows the rows it has written: they are on record *)
(* with the same student and, but for the result it upserts, with the same *)
(* score; and no other session has written them.                           *)
Past(p) == p \notin Unwritten \cup {"idle", "done"}
KeepsRows(r, p, t) ==
  /\ p \notin {"idle", "done"} => t.own.id = r
  /\ p = "write" /\ t.mine # 0 => rows[t.mine].student = t.own.student
  /\ Past(p) /\ t.mine # 0 => t.pend[t.mine] # Absent
  /\ \A id \in RowIds : t.pend[id] # Absent =>
       /\ id <= seq
       /\ rows[id] # Absent => t.pend[id].student = rows[id].student
       /\ id = t.mine => t.pend[id].student = t.own.student
       /\ id # t.mine => rows[id] # Absent /\ t.pend[id].score = rows[id].score
Exclusive ==
  \A q, r \in Submits : q # r => Written(q) \cap Written(r) = {}
LockInv ==
  /\ \A id \in Results : id <= seq
  /\ \A e \in audit : e.id \in Earlier \/ pc[e.id] = "done"
  /\ Exclusive
  /\ \A r \in Submits : KeepsRows(r, pc[r], txn[r])

(* A statement that keeps to its own session keeps the locks, if it writes *)
(* no row that another session has written.                                *)
LEMMA LockStep ==
  ASSUME IInv, LockInv, NEW r \in Submits, pc[r] # "done",
         NEW p \in Steps, NEW t \in Txn,
         pc' = [pc EXCEPT ![r] = p], txn' = [txn EXCEPT ![r] = t],
         UNCHANGED <<audit, rows>>, seq' \in Nat, seq' >= seq,
         KeepsRows(r, p, t)',
         \A q \in Submits \ {r} : \A id \in Written(q) : t.pend[id] = Absent
  PROVE  LockInv'
<1>1. ASSUME NEW q \in Submits
      PROVE  /\ pc'[q] = IF q = r THEN p ELSE pc[q]
             /\ txn'[q] = IF q = r THEN t ELSE txn[q]
  BY DEF IInv, TypeOK, Requests
<1>2. seq \in Nat /\ seq' \in Nat
  BY ScoringAssumption DEF IInv, TypeOK
<1>3. (\A id \in Results : id <= seq)'
  BY <1>2, ScoringAssumption DEF LockInv, Results, RowIds
<1>4. (\A e \in audit : e.id \in Earlier \/ pc[e.id] = "done")'
  <2> SUFFICES ASSUME NEW e \in audit, e.id \notin Earlier PROVE pc'[e.id] = "done"
    OBVIOUS
  <2>1. e.id \in Submits
    BY DEF IInv, TypeOK, Event
  <2> QED BY <1>1, <2>1 DEF LockInv
<1>5. Exclusive'
  <2> SUFFICES ASSUME NEW q \in Submits, NEW s \in Submits, q # s, NEW id \in RowIds,
                      txn'[q].pend[id] # Absent, txn'[s].pend[id] # Absent
               PROVE  FALSE
    BY DEF Exclusive, Written
  <2>1. ASSUME NEW x \in Submits \ {r}
        PROVE  ~(txn[x].pend[id] # Absent /\ t.pend[id] # Absent)
    BY <2>1 DEF Written
  <2>2. txn[q].pend[id] # Absent /\ txn[s].pend[id] # Absent => FALSE
    BY DEF LockInv, Exclusive, Written
  <2> QED BY <1>1, <2>1, <2>2
<1>6. ASSUME NEW q \in Submits PROVE KeepsRows(q, pc[q], txn[q])'
  <2>1. CASE q = r
    BY <1>1, <2>1
  <2>2. CASE q # r
    <3>1. KeepsRows(q, pc[q], txn[q]) /\ pc'[q] = pc[q] /\ txn'[q] = txn[q]
      BY <1>1, <2>2 DEF LockInv
    <3> QED BY <1>2, <3>1, ScoringAssumption DEF KeepsRows, RowIds
  <2> QED BY <2>1, <2>2
<1> QED BY <1>3, <1>4, <1>5, <1>6 DEF LockInv

(* In particular a statement that writes no row.                           *)
LEMMA LockRead ==
  ASSUME IInv, LockInv, NEW r \in Submits, pc[r] \notin {"done", "write"},
         NEW p \in Steps \ {"write"}, NEW t \in Txn,
         pc' = [pc EXCEPT ![r] = p], txn' = [txn EXCEPT ![r] = t],
         UNCHANGED <<audit, rows, seq>>,
         p \notin {"idle", "done"}, pc[r] # "idle",
         t.own = txn[r].own, t.pend = txn[r].pend, t.mine = txn[r].mine
  PROVE  LockInv'
<1>1. KeepsRows(r, pc[r], txn[r]) /\ Sound(pc[r], txn[r])
  BY DEF LockInv, IInv
<1>2. Past(p) /\ t.mine # 0 => Past(pc[r])
  BY <1>1 DEF Past, Sound, WritesItsRows, Unwritten, Deciding
<1>3. KeepsRows(r, p, t)'
  BY <1>1, <1>2 DEF KeepsRows, Past
<1>4. \A q \in Submits \ {r} : \A id \in Written(q) : t.pend[id] = Absent
  BY DEF LockInv, Exclusive, Written
<1>5. seq' \in Nat /\ seq' >= seq
  BY ScoringAssumption DEF IInv, TypeOK
<1> QED BY <1>3, <1>4, <1>5, LockStep

LEMMA LockReads ==
  ASSUME IInv, LockInv, NEW r \in Submits,
         \/ ReadAssigned(r) \/ ReadSubmitted(r) \/ ReadPanel(r)
         \/ \E j \in Judges : TallyJudge(r, j)
         \/ ReadRanks(r) \/ Broadcast(r),
         IInv'
  PROVE  LockInv'
<1> DEFINE p == pc'[r]
           t == txn'[r]
<1>1. r \in Requests /\ txn[r] \in Txn
  BY DEF Requests, IInv, TypeOK
<1>2. p \in Steps /\ t \in Txn
  BY <1>1 DEF IInv, TypeOK
<1>3. pc' = [pc EXCEPT ![r] = p] /\ txn' = [txn EXCEPT ![r] = t]
  BY <1>1 DEF ReadAssigned, ReadSubmitted, ReadPanel, TallyJudge, ReadRanks,
     Broadcast, Goto, IInv, TypeOK
<1>4. /\ UNCHANGED <<audit, rows, seq>>
      /\ pc[r] \notin {"idle", "done", "write"} /\ p \notin {"idle", "done", "write"}
  BY <1>1 DEF ReadAssigned, ReadSubmitted, ReadPanel, TallyJudge, ReadRanks,
     Broadcast, Goto, IInv, TypeOK, store
<1>5. t.own = txn[r].own /\ t.pend = txn[r].pend /\ t.mine = txn[r].mine
  BY <1>1 DEF ReadAssigned, ReadSubmitted, ReadPanel, TallyJudge, ReadRanks,
     Broadcast, Txn, IInv, TypeOK
<1> QED BY <1>2, <1>3, <1>4, <1>5, LockRead


LEMMA LockBegin ==
  ASSUME IInv, LockInv, NEW r \in Submits, SubmitBegin(r), IInv' PROVE LockInv'
<1>0. PICK t : t = txn'[r]
  OBVIOUS
<1>1. r \in Requests /\ txn[r] = Blank /\ pc[r] = "idle"
  BY DEF Requests, SubmitBegin, IInv, Sound, OwnsEvent
<1>2. t \in Txn /\ txn' = [txn EXCEPT ![r] = t]
  BY <1>0, <1>1 DEF SubmitBegin, IInv, TypeOK
<1>3. t.own.id = r /\ t.mine = 0 /\ t.pend = NoRows
  BY <1>0, <1>1 DEF SubmitBegin, IInv, TypeOK, Blank
<1>4. KeepsRows(r, "assigned", t)'
  BY <1>3 DEF KeepsRows, Past, Unwritten, NoRows
<1>5. /\ UNCHANGED <<audit, rows, seq>> /\ pc' = [pc EXCEPT ![r] = "assigned"]
      /\ seq' \in Nat /\ seq' >= seq
  BY ScoringAssumption DEF SubmitBegin, store, Goto, IInv, TypeOK
<1>6. \A q \in Submits \ {r} : \A id \in Written(q) : t.pend[id] = Absent
  BY <1>3 DEF Written, NoRows
<1> QED BY <1>1, <1>2, <1>4, <1>5, <1>6, LockStep DEF Steps

(* A rolled-back session has written nothing.                              *)
LEMMA LockRollback ==
  ASSUME IInv, LockInv, NEW r \in InFlight, Rollback(r) PROVE LockInv'
<1>1. /\ UNCHANGED <<audit, rows, seq>>
      /\ \A q \in Requests : /\ pc'[q] = IF q = r THEN "done" ELSE pc[q]
                             /\ txn'[q] = IF q = r THEN Blank ELSE txn[q]
  BY DEF Rollback, Finish, Goto, store, IInv, TypeOK
<1>2. \A q \in Submits : q \in Requests
  BY DEF Requests
<1>3. Exclusive'
  BY <1>1, <1>2 DEF LockInv, Exclusive, Written, Blank, NoRows
<1>4. ASSUME NEW q \in Submits PROVE KeepsRows(q, pc[q], txn[q])'
  <2>1. CASE q = r
    BY <1>1, <1>2, <2>1 DEF KeepsRows, Past, Blank, NoRows
  <2>2. CASE q # r
    <3>1. KeepsRows(q, pc[q], txn[q]) /\ pc'[q] = pc[q] /\ txn'[q] = txn[q]
      BY <1>1, <1>2, <2>2 DEF LockInv
    <3> QED BY <1>1, <3>1 DEF KeepsRows
  <2> QED BY <2>1, <2>2
<1>5. (\A e \in audit : e.id \in Earlier \/ pc[e.id] = "done")'
  <2> SUFFICES ASSUME NEW e \in audit, e.id \notin Earlier PROVE pc'[e.id] = "done"
    BY <1>1
  <2>1. e.id \in Submits
    BY DEF IInv, TypeOK, Event
  <2> QED BY <1>1, <1>2, <2>1 DEF LockInv
<1> QED BY <1>1, <1>3, <1>4, <1>5 DEF LockInv, Results

(* The result that is found is the student's.                              *)
LEMMA LockFind ==
  ASSUME IInv, LockInv, NEW r \in Submits, FindResult(r), IInv' PROVE LockInv'
<1>0. PICK t : t = txn'[r]
  OBVIOUS
<1>1. r \in Requests /\ txn[r] \in Txn /\ Sound("find", txn[r]) /\ pc[r] = "find"
  BY DEF Requests, FindResult, IInv, TypeOK
<1>2. CASE Rollback(r)
  BY <1>1, <1>2, LockRollback DEF InFlight
<1>3. CASE ~Rollback(r)
  <2>1. /\ t \in Txn /\ txn' = [txn EXCEPT ![r] = t] /\ pc' = [pc EXCEPT ![r] = "write"]
        /\ UNCHANGED <<audit, rows, seq>>
    BY <1>0, <1>1, <1>3 DEF FindResult, Goto, store, IInv, TypeOK
  <2>2. t.own = txn[r].own /\ t.pend = NoRows
    <3>1. t.own = txn[r].own /\ t.pend = txn[r].pend
      <4>1. CASE UNCHANGED txn
        BY <1>0, <4>1
      <4>2. ASSUME NEW id, NEW row, txn' = [txn EXCEPT ![r].mine = id, ![r].loaded = row]
            PROVE  <3>1
        BY <1>0, <1>1, <4>2 DEF IInv, TypeOK, Txn
      <4> QED BY <1>1, <1>3, <4>1, <4>2 DEF FindResult
    <3> QED BY <1>1, <3>1 DEF Sound, WritesItsRows, Unwritten, Deciding
  <2>3. t.mine # 0 => rows[t.mine].student = t.own.student
    <3>1. CASE t = txn[r]
      BY <1>1, <3>1 DEF Sound, WritesItsRows, Unwritten, Deciding
    <3>2. CASE t # txn[r]
      <4>1. PICK id \in RowsOf(r) :
              txn' = [txn EXCEPT ![r].mine = id, ![r].loaded = VisibleRow(r, id)]
        BY <1>0, <1>1, <1>3, <3>2 DEF FindResult, IInv, TypeOK
      <4>2. t.mine = id
        BY <1>0, <1>1, <4>1 DEF IInv, TypeOK, Txn
      <4>3. VisibleRow(r, id) = rows[id] /\ VisibleRow(r, id).student = txn[r].own.student
        BY <1>1 DEF RowsOf, VisibleIds, VisibleRow, Sound, WritesItsRows, Unwritten,
           Deciding, NoRows
      <4> QED BY <2>2, <4>2, <4>3
    <3> QED BY <3>1, <3>2
  <2>4. t.own.id = r
    BY <1>1, <2>2 DEF LockInv, KeepsRows
  <2>5. KeepsRows(r, "write", t)'
    BY <2>1, <2>2, <2>3, <2>4 DEF KeepsRows, Past, Unwritten, Deciding, NoRows
  <2>6. seq' \in Nat /\ seq' >= seq
    BY <2>1, ScoringAssumption DEF IInv, TypeOK
  <2>7. \A q \in Submits \ {r} : \A id \in Written(q) : t.pend[id] = Absent
    BY <2>2 DEF Written, NoRows
  <2> QED BY <1>1, <2>1, <2>5, <2>6, <2>7, LockStep DEF Steps
<1> QED BY <1>2, <1>3

(* The id of an inserted row is new.                                       *)
LEMMA LockInsert ==
  ASSUME IInv, LockInv, NEW r \in Submits, InsertResult(r), IInv' PROVE LockInv'
<1> DEFINE k == seq + 1
<1>0. PICK t : t = txn'[r]
  OBVIOUS
<1>1. r \in Requests /\ txn[r] \in Txn /\ Sound("write", txn[r]) /\ pc[r] = "write"
  BY DEF Requests, InsertResult, IInv, TypeOK
<1>2. k \in RowIds /\ seq \in Nat /\ seq' = k
  BY ScoringAssumption DEF InsertResult, IInv, TypeOK, RowIds
<1>3. /\ t \in Txn /\ txn' = [txn EXCEPT ![r] = t] /\ pc' = [pc EXCEPT ![r] = "rank"]
      /\ UNCHANGED <<audit, rows>>
  <2>1. t \in Txn
    BY <1>0, <1>1 DEF IInv, TypeOK
  <2>2. txn' = [txn EXCEPT ![r] = t]
    <3>1. \A new : txn' = [txn EXCEPT ![r].mine = k, ![r].loaded = new, ![r].pend[k] = new]
                    => txn' = [txn EXCEPT ![r] = t]
      BY <1>0, <1>1 DEF IInv, TypeOK
    <3> QED BY <3>1 DEF InsertResult
  <2> QED BY <2>1, <2>2 DEF InsertResult, Goto, store
<1> DEFINE new == [student |-> txn[r].own.student, score |-> Score(r), rank |-> 0]
<1>4. t = [txn[r] EXCEPT !.mine = k, !.loaded = new, !.pend[k] = new]
  BY <1>0, <1>1 DEF InsertResult, IInv, TypeOK
<1>5. new # Absent /\ new.student = txn[r].own.student
  <2>1. txn[r].own.student \in Students
    BY <1>1 DEF Sound, OwnsEvent, Event
  <2> QED BY <1>1, <2>1, ScoreType, ScoringAssumption DEF IInv, Row
<1>6. /\ t.own = txn[r].own /\ t.mine = k
      /\ \A id \in RowIds : t.pend[id] = IF id = k THEN new ELSE Absent
  <2> HIDE DEF new, k
  <2> QED BY <1>1, <1>2, <1>4 DEF Txn, Sound, WritesItsRows, Unwritten, Deciding, NoRows
<1>7. rows[k] = Absent
  BY <1>2 DEF LockInv, Results
<1>8. \A q \in Submits \ {r} : \A id \in Written(q) : t.pend[id] = Absent
  <2>1. \A q \in Submits : \A id \in Written(q) : id <= seq
    BY DEF LockInv, KeepsRows, Written
  <2>2. \A q \in Submits : k \notin Written(q)
    BY <1>2, <2>1
  <2> QED BY <1>6, <2>2 DEF Written
<1>9. KeepsRows(r, "rank", t)'
  <2>1. t.own.id = r
    BY <1>1, <1>6 DEF LockInv, KeepsRows
  <2>2. k <= seq'
    BY <1>2
  <2> HIDE DEF new, k
  <2> QED BY <1>2, <1>3, <1>5, <1>6, <1>7, <2>1, <2>2 DEF KeepsRows
<1>10. seq' \in Nat /\ seq' >= seq
  BY <1>2
<1> QED BY <1>1, <1>3, <1>8, <1>9, <1>10, LockStep DEF Steps


(* The UPDATE waited for the lock of the row.                              *)
LEMMA LockUpdate ==
  ASSUME IInv, LockInv, NEW r \in Submits, UpdateResult(r), IInv' PROVE LockInv'
<1> DEFINE id == txn[r].mine
           new == IF Score(r) = txn[r].loaded.score
                  THEN rows[id] ELSE [rows[id] EXCEPT !.score = Score(r)]
<1>0. PICK t : t = txn'[r]
  OBVIOUS
<1>1. r \in Requests /\ txn[r] \in Txn /\ Sound("write", txn[r]) /\ pc[r] = "write"
  BY DEF Requests, UpdateResult, IInv, TypeOK
<1>2. id \in RowIds /\ rows[id] # Absent /\ rows[id] \in Row
  <2>1. id \in RowIds
    BY <1>1, ScoringAssumption DEF UpdateResult, Txn, RowIds
  <2> QED BY <1>1, <2>1 DEF UpdateResult, Sound, WritesItsRows, IInv, TypeOK
<1>3. /\ t = [txn[r] EXCEPT !.pend[id] = new, !.loaded.score = Score(r)]
      /\ txn' = [txn EXCEPT ![r] = t] /\ t \in Txn
  <2>1. txn' = [txn EXCEPT ![r] = [txn[r] EXCEPT !.pend[id] = new,
                                                 !.loaded.score = Score(r)]]
    BY DEF UpdateResult
  <2>2. t \in Txn
    BY <1>0, <1>1 DEF IInv, TypeOK
  <2> HIDE DEF new, id
  <2> QED BY <1>0, <1>1, <2>1, <2>2 DEF IInv, TypeOK
<1>4. /\ pc' = [pc EXCEPT ![r] = "rank"] /\ UNCHANGED <<audit, rows, seq>>
      /\ seq' \in Nat /\ seq' >= seq
  BY ScoringAssumption DEF UpdateResult, Goto, store, IInv, TypeOK
<1>5. new.student = rows[id].student
  BY <1>2 DEF Row
<1>6. /\ t.own = txn[r].own /\ t.mine = id
      /\ \A i \in RowIds : t.pend[i] = IF i = id THEN new ELSE Absent
  <2>1. txn[r].pend = NoRows
    BY <1>1 DEF Sound, WritesItsRows, Unwritten, Deciding
  <2> HIDE DEF new
  <2> QED BY <1>1, <1>2, <1>3, <2>1 DEF Txn, NoRows
<1>7. \A q \in Submits \ {r} : \A i \in Written(q) : t.pend[i] = Absent
  <2>1. \A q \in Submits \ {r} : id \notin Written(q)
    BY DEF UpdateResult, Holders
  <2> QED BY <1>6, <2>1 DEF Written
<1>8. KeepsRows(r, pc[r], txn[r]) /\ id <= seq
  BY <1>2 DEF LockInv, Results
<1>9. t.pend[id] # Absent
  <2>1. t.pend[id] = new /\ new \in Row
    BY <1>1, <1>2, <1>6, ScoreType, ScoringAssumption DEF IInv, Row
  <2> QED BY <2>1, ScoringAssumption
<1>10. KeepsRows(r, "rank", t)'
  <2>1. rows[id].student = txn[r].own.student
    BY <1>1, <1>2, <1>8, ScoringAssumption DEF KeepsRows, RowIds
  <2> HIDE DEF new, id
  <2> QED BY <1>1, <1>2, <1>4, <1>5, <1>6, <1>8, <1>9, <2>1 DEF KeepsRows
<1> QED BY <1>1, <1>3, <1>4, <1>7, <1>10, LockStep DEF Steps

(* A rank update leaves the score of the row as it is.                     *)
LEMMA LockWriteRank ==
  ASSUME IInv, LockInv, NEW r \in Submits, WriteRank(r), IInv' PROVE LockInv'
<1>0. PICK t : t = txn'[r]
  OBVIOUS
<1>1. /\ r \in Requests /\ txn[r] \in Txn /\ pc[r] = "rankwrite"
      /\ Sound("rankwrite", txn[r]) /\ KeepsRows(r, "rankwrite", txn[r])
  BY DEF Requests, WriteRank, IInv, TypeOK, LockInv
<1>2. PICK id \in NextRankIds(r) :
        /\ Holders(r, id) = {}
        /\ txn' = [txn EXCEPT
             ![r].pend[id] = [VisibleRow(r, id) EXCEPT !.rank = txn[r].ranks[id]],
             ![r].ranks = [txn[r].ranks EXCEPT ![id] = 0]]
        /\ \E p \in {"broadcast", "rankwrite"} : Goto(r, p)
  BY DEF WriteRank
<1>3. PICK p \in {"broadcast", "rankwrite"} : pc' = [pc EXCEPT ![r] = p]
  BY <1>2 DEF Goto
<1> DEFINE old == VisibleRow(r, id)
           new == [old EXCEPT !.rank = txn[r].ranks[id]]
<1>4. id \in RowIds /\ txn[r].ranks[id] # 0 /\ txn[r].ranks[id] \in Nat
  BY <1>1 DEF NextRankIds, Txn
<1>5. old \in Row /\ old # Absent
  BY <1>1, <1>4, VisibleRowType DEF VisibleRow, Sound, WritesItsRows, IInv
<1>6. /\ new.student = old.student /\ new.score = old.score
      /\ new \in Row /\ new # Absent
  <2> HIDE DEF old
  <2> QED BY <1>4, <1>5, ScoringAssumption DEF Row
<1>7. t \in Txn /\ txn' = [txn EXCEPT ![r] = t]
  <2>1. t \in Txn
    BY <1>0, <1>1 DEF IInv, TypeOK
  <2>2. \A x, y : txn' = [txn EXCEPT ![r].pend[id] = x, ![r].ranks = y]
                   => txn' = [txn EXCEPT ![r] = t]
    BY <1>0, <1>1 DEF IInv, TypeOK
  <2> QED BY <1>2, <2>1, <2>2
<1>8. /\ t.own = txn[r].own /\ t.mine = txn[r].mine
      /\ \A i \in RowIds : t.pend[i] = IF i = id THEN new ELSE txn[r].pend[i]
  <2> HIDE DEF new
  <2>1. \A y : txn' = [txn EXCEPT ![r].pend[id] = new, ![r].ranks = y]
               => <1>8
    BY <1>0, <1>1, <1>4 DEF IInv, TypeOK, Txn
  <2> QED BY <1>2, <2>1 DEF new
<1>9. /\ UNCHANGED <<audit, rows, seq>> /\ seq' \in Nat /\ seq' >= seq
  BY ScoringAssumption DEF WriteRank, store, IInv, TypeOK
<1>10. \A q \in Submits \ {r} : \A i \in Written(q) : t.pend[i] = Absent
  <2>1. \A q \in Submits \ {r} : id \notin Written(q)
    BY <1>2 DEF Holders
  <2>2. \A q \in Submits \ {r} : \A i \in Written(q) : i # id => txn[r].pend[i] = Absent
    BY DEF LockInv, Exclusive, Written
  <2> QED BY <1>8, <2>1, <2>2 DEF Written
<1>11. KeepsRows(r, p, t)'
  <2>1. /\ id <= seq
        /\ rows[id] # Absent => old.student = rows[id].student
        /\ id = txn[r].mine => old.student = txn[r].own.student
        /\ id # txn[r].mine => rows[id] # Absent /\ old.score = rows[id].score
    <3>1. CASE txn[r].pend[id] # Absent
      BY <1>1, <1>4, <3>1 DEF VisibleRow, KeepsRows
    <3>2. CASE txn[r].pend[id] = Absent
      <4>1. old = rows[id] /\ id \in Results
        BY <1>4, <1>5, <3>2 DEF VisibleRow, Results
      <4>2. id # txn[r].mine
        BY <1>1, <1>4, <3>2, ScoringAssumption DEF KeepsRows, Past, Unwritten, Deciding,
           RowIds
      <4> QED BY <4>1, <4>2 DEF LockInv, Results
    <3> QED BY <3>1, <3>2
  <2>2. t.mine # 0 => t.pend[t.mine] # Absent
    BY <1>1, <1>6, <1>8, ScoringAssumption DEF KeepsRows, Past, Unwritten, Deciding,
       Txn, RowIds
  <2> HIDE DEF old, new
  <2> QED BY <1>1, <1>6, <1>8, <1>9, <2>1, <2>2 DEF KeepsRows
<1> QED BY <1>1, <1>3, <1>7, <1>9, <1>10, <1>11, LockStep DEF Steps


(* What a commit does to the rows of the others: nothing.                  *)
LEMMA LockCommit ==
  ASSUME IInv, LockInv, NEW r \in Submits, Commit(r) PROVE LockInv'
<1> DEFINE own == txn[r].own
<1>1. /\ r \in Requests /\ txn[r] \in Txn /\ pc[r] = "commit" /\ own \in Event
      /\ KeepsRows(r, "commit", txn[r])
  BY DEF Requests, Commit, IInv, TypeOK, LockInv, Sound, OwnsEvent
<1>2. /\ audit' = audit \cup {own} /\ seq' = seq
      /\ \A q \in Requests : /\ pc'[q] = IF q = r THEN "done" ELSE pc[q]
                             /\ txn'[q] = IF q = r THEN Blank ELSE txn[q]
      /\ \A id \in RowIds : rows'[id] = VisibleRow(r, id)
  BY <1>1 DEF Commit, Finish, Goto, IInv, TypeOK
<1>3. \A q \in Submits : q \in Requests
  BY DEF Requests
<1>4. (\A id \in Results : id <= seq)'
  BY <1>1, <1>2 DEF Results, VisibleRow, LockInv, KeepsRows
<1>5. (\A e \in audit : e.id \in Earlier \/ pc[e.id] = "done")'
  <2> SUFFICES ASSUME NEW e \in audit', e.id \notin Earlier PROVE pc'[e.id] = "done"
    OBVIOUS
  <2>1. CASE e = own
    BY <1>1, <1>2, <2>1 DEF KeepsRows
  <2>2. CASE e \in audit
    <3>1. e.id \in Submits /\ pc[e.id] = "done"
      BY <2>2 DEF IInv, TypeOK, Event, LockInv
    <3> QED BY <1>2, <1>3, <3>1
  <2> QED BY <1>2, <2>1, <2>2
<1>6. Exclusive'
  BY <1>2, <1>3 DEF LockInv, Exclusive, Written, Blank, NoRows
<1>7. ASSUME NEW q \in Submits PROVE KeepsRows(q, pc[q], txn[q])'
  <2>1. CASE q = r
    BY <1>2, <1>3, <2>1 DEF KeepsRows, Past, Blank, NoRows
  <2>2. CASE q # r
    <3> DEFINE p == pc[q]
               t == txn[q]
    <3>1. KeepsRows(q, p, t) /\ pc'[q] = p /\ txn'[q] = t
      BY <1>2, <1>3, <2>2 DEF LockInv
    <3>2. \A id \in RowIds : t.pend[id] # Absent => rows'[id] = rows[id]
      BY <1>2, <2>2 DEF LockInv, Exclusive, Written, VisibleRow
    <3>3. \A id \in RowIds : rows[id] # Absent => rows'[id].student = rows[id].student
      BY <1>1, <1>2 DEF KeepsRows, VisibleRow
    <3>4. p = "write" /\ t.mine # 0 => t.mine \in RowIds /\ rows[t.mine] # Absent
      <4>1. t \in Txn /\ Sound(p, t)
        BY <1>3 DEF IInv, TypeOK
      <4> QED BY <4>1, ScoringAssumption DEF Sound, WritesItsRows, Txn, RowIds
    <3> HIDE DEF p, t
    <3> QED BY <1>2, <3>1, <3>2, <3>3, <3>4 DEF KeepsRows
  <2> QED BY <2>1, <2>2
<1> QED BY <1>4, <1>5, <1>6, <1>7 DEF LockInv

(* The other requests write no row.                                        *)
LEMMA LockOther ==
  ASSUME IInv, LockInv,
         UNCHANGED <<audit, rows, seq>>,
         \A q \in Submits : pc'[q] = pc[q] /\ txn'[q] = txn[q]
  PROVE  LockInv'
<1>1. (\A e \in audit : e.id \in Earlier \/ pc[e.id] = "done")'
  BY DEF LockInv, IInv, TypeOK, Event
<1>2. Exclusive'
  BY DEF LockInv, Exclusive, Written
<1>3. ASSUME NEW q \in Submits PROVE KeepsRows(q, pc[q], txn[q])'
  <2>1. KeepsRows(q, pc[q], txn[q]) /\ pc'[q] = pc[q] /\ txn'[q] = txn[q]
    BY DEF LockInv
  <2> QED BY <2>1 DEF KeepsRows
<1> QED BY <1>1, <1>2, <1>3 DEF LockInv, Results

LEMMA LockInitially == Init => LockInv
<1> SUFFICES ASSUME Init PROVE LockInv
  OBVIOUS
<1>1. \A r \in Submits : KeepsRows(r, pc[r], txn[r]) /\ Written(r) = {}
  BY DEF Init, Requests, KeepsRows, Past, Blank, NoRows, Written
<1>2. \A e \in audit : e.id \in Earlier
  BY PriorAssumption DEF Init
<1>3. \A id \in Results : id <= seq
  <2> SUFFICES ASSUME NEW id \in RowIds, PriorRows[id] # Absent
               PROVE  id <= Cardinality({k \in RowIds : PriorRows[k] # Absent})
    BY DEF Init, Results
  <2> DEFINE ids == {k \in RowIds : PriorRows[k] # Absent}
  <2>1. id \in Nat /\ id >= 1 /\ id <= MaxRows
    BY ScoringAssumption DEF RowIds
  <2>2. 1..id \subseteq ids
    BY <2>1, PriorRowsAssumption, ScoringAssumption DEF RowIds
  <2>3. IsFiniteSet(RowIds)
    BY FS_Interval, ScoringAssumption DEF RowIds
  <2>4. IsFiniteSet(ids)
    BY <2>3, FS_Subset
  <2> HIDE DEF ids
  <2>5. Cardinality(1..id) <= Cardinality(ids)
    BY <2>2, <2>4, FS_Subset
  <2>6. Cardinality(1..id) = id
    BY <2>1, FS_Interval
  <2> QED BY <2>5, <2>6 DEF ids
<1> QED BY <1>1, <1>2, <1>3 DEF LockInv, Exclusive

LEMMA LockInductive == IInv /\ LockInv /\ [Next]_vars => LockInv'
<1> SUFFICES ASSUME IInv, LockInv, [Next]_vars PROVE LockInv'
  OBVIOUS
<1> IInv'
  BY Inductive
<1>1. ASSUME NEW r \in Submits, SubmitBegin(r) PROVE LockInv'
  BY <1>1, LockBegin
<1>2. ASSUME NEW r \in Submits, SubmitStep(r) PROVE LockInv'
  BY <1>2, LockReads, LockFind, LockInsert, LockUpdate, LockWriteRank, LockCommit
     DEF SubmitStep
<1>3. ASSUME NEW r \in Submits, DeadlockVictim(r) PROVE LockInv'
  <2>1. Rollback(r) /\ r \in Requests
    BY <1>3 DEF DeadlockVictim, Requests
  <2>2. Blockers(r) # {}
    BY <1>3 DEF DeadlockVictim, Deadlocked
  <2>3. r \in InFlight
    BY <2>1, <2>2 DEF InFlight, Blockers, Awaited
  <2> QED BY <2>1, <2>3, LockRollback
<1>4. ASSUME NEW r \in Requests, Fail(r) PROVE LockInv'
  BY <1>4, LockRollback DEF Fail
<1>5. ASSUME NEW u \in Undos, UndoBegin(u) \/ UndoCommit(u) PROVE LockInv'
  <2>1. u \in Requests /\ u \notin Submits
    BY ScoringAssumption DEF Requests
  <2> QED BY <1>5, <2>1, LockOther DEF UndoBegin, UndoCommit, Finish, Goto, store,
          IInv, TypeOK, Requests
<1>6. CASE \/ \E j \in Judges : AssignJudge(j) \/ RefreshToken(j)
           \/ CompleteRound \/ UNCHANGED vars
  BY <1>6, LockOther DEF AssignJudge, RefreshToken, CompleteRound, store, vars
<1> QED BY <1>1, <1>2, <1>3, <1>4, <1>5, <1>6 DEF Next

(* A commit changes the score of the student whose deduction it commits,   *)
(* and the ranks of others.                                                *)
LEMMA CommitMovesOneScore ==
  ASSUME IInv, LockInv, NEW r \in Submits, Commit(r),
         NEW id \in RowIds, rows'[id] # rows[id]
  PROVE  \/ SameScore(rows[id], rows'[id])
         \/ \E e \in audit' \ audit : e.student = rows'[id].student
<1> DEFINE own == txn[r].own
<1>1. KeepsRows(r, "commit", txn[r]) /\ r \in Requests
  BY DEF Commit, LockInv, Requests
<1>2. audit' = audit \cup {own} /\ rows'[id] = VisibleRow(r, id)
  BY DEF Commit
<1>3. own \notin audit
  <2>1. own.id = r /\ r \notin Earlier /\ pc[r] # "done"
    BY <1>1, DeductionsAssumption DEF KeepsRows, Commit
  <2> QED BY <2>1 DEF LockInv
<1>4. txn[r].pend[id] # Absent /\ rows'[id] = txn[r].pend[id]
  BY <1>2 DEF VisibleRow
<1>5. CASE id = txn[r].mine
  BY <1>1, <1>2, <1>3, <1>4, <1>5 DEF KeepsRows
<1>6. CASE id # txn[r].mine
  BY <1>1, <1>4, <1>6 DEF KeepsRows, SameScore
<1> QED BY <1>5, <1>6

(* The score of a result appears or changes only in the commit of a        *)
(* deduction of its student, under any number of overlapping requests that *)
(* rank each other's students.                                             *)
THEOREM ScoresMoveByMarks == Spec => ScoresMoveOnlyWithTheirMarks
<1> DEFINE A == \A id \in RowIds :
                  rows'[id] # rows[id] =>
                    \/ SameScore(rows[id], rows'[id])
                    \/ \E e \in audit' \ audit : e.student = rows'[id].student
<1>1. Init => IInv /\ LockInv
  BY Initially, LockInitially
<1>2. IInv /\ LockInv /\ [Next]_vars => (IInv /\ LockInv)'
  BY Inductive, LockInductive
<1>3. IInv /\ LockInv /\ [Next]_vars => [A]_vars
  <2> SUFFICES ASSUME IInv, LockInv, Next, NEW id \in RowIds, rows'[id] # rows[id]
               PROVE  \/ SameScore(rows[id], rows'[id])
                      \/ \E e \in audit' \ audit : e.student = rows'[id].student
    OBVIOUS
  <2>1. \E r \in Submits : Commit(r)
    BY DEF Next, SubmitBegin, SubmitStep, ReadAssigned, ReadSubmitted, ReadPanel,
       TallyJudge, FindResult, InsertResult, UpdateResult, ReadRanks, WriteRank,
       Broadcast, DeadlockVictim, Fail, Rollback, UndoBegin, UndoCommit, AssignJudge,
       RefreshToken, CompleteRound, store
  <2> QED BY <2>1, CommitMovesOneScore
<1> QED BY <1>1, <1>2, <1>3, PTL DEF Spec, ScoresMoveOnlyWithTheirMarks


------------------------------------------------------------------------------
(***************************************************************************)
(* One request at a time: the properties of Scoring that need no overlap,  *)
(* and that Scoring then implements JudgedRound, whatever the sizes of the *)
(* panel, the rubric and the round.                                        *)
(***************************************************************************)
(* The results of a round: R is the committed table, or what a session     *)
(* sees of it.                                                             *)
IdsOf(R) == {id \in RowIds : R[id] # Absent}
OneEach(R) == \A a, b \in IdsOf(R) : R[a].student = R[b].student => a = b
RankedBy(R, f) ==
  IsRanking(IdsOf(R), [id \in IdsOf(R) |-> R[id].score],
            [id \in IdsOf(R) |-> GroupOf(R[id].student)], f)
View(t) == [id \in RowIds |-> IF t.pend[id] # Absent THEN t.pend[id] ELSE rows[id]]
RanksOf(R) == [id \in IdsOf(R) |-> R[id].rank]

(* What holds of the committed state between and during requests.          *)
FreshScore(s) == PanelScoreOf(panel, TallyOf(panel, events, s))
Intact(s) == panel = StartPanel /\ \A e \in audit \ events : e.student # s
Settled ==
  /\ OneEach(rows) /\ RankedBy(rows, RanksOf(rows))
  /\ \A s \in Students :
       /\ Markers(events, s) \subseteq panel
       /\ Markers(events, s) = panel => \E id \in IdsOf(rows) : rows[id].student = s
  /\ \A id \in IdsOf(rows) :
       Intact(rows[id].student) => rows[id].score = FreshScore(rows[id].student)

(* What the one submission that is under way has read and written.         *)
Marks(t) == events \cup {t.own}
Tallied(t) == TallyOf(panel, Marks(t), t.own.student)
Complete(t) == Markers(Marks(t), t.own.student) = panel
RanksLeft(t) ==
  [id \in IdsOf(View(t)) |-> IF t.ranks[id] # 0 THEN t.ranks[id] ELSE View(t)[id].rank]
Decided(p, t) ==
  /\ p \in {"assigned", "submitted", "panel"} => t.tally = NoTally
  /\ p \in {"submitted", "tally", "find", "write"} => t.seen = panel
  /\ p \in Deciding => Complete(t)
  /\ p = "tally" => \A j \in Judges : t.tally[j] \in {Unread, Tallied(t)[j]}
  /\ p \in {"find", "write"} => t.tally = Tallied(t)
  /\ p = "write" =>
       IF t.mine = 0 THEN \A id \in IdsOf(rows) : rows[id].student # t.own.student
       ELSE t.loaded = rows[t.mine]
Upserted(p, t) ==
  /\ p # "commit" => t.mine # 0
  /\ t.mine = 0 => t.pend = NoRows /\ ~Complete(t)
  /\ t.mine # 0 =>
       /\ Complete(t)
       /\ View(t)[t.mine].score = PanelScoreOf(panel, Tallied(t))
       /\ \A id \in IdsOf(rows) : rows[id].student = t.own.student => id = t.mine
       /\ p = "rank" => t.loaded = View(t)[t.mine]
       /\ p = "rankwrite" => RankedBy(View(t), RanksLeft(t))
       /\ p \in {"broadcast", "commit"} => RankedBy(View(t), RanksOf(View(t)))
OnTrack(p, t) ==
  /\ status = "ACTIVE" /\ t.own.judge \in panel \cap token
  /\ p \in Unwritten => Decided(p, t)
  /\ p \notin Unwritten => Upserted(p, t)

(* The board shows the results, or what the session that has sent it is    *)
(* about to commit.                                                        *)
Shown(R) == {R[id] : id \in IdsOf(R)}
Sent(r) == pc[r] = "commit" /\ txn[r].mine # 0
BoardInv ==
  /\ \A r \in Submits : Sent(r) => board = Shown(View(txn[r]))
  /\ AllCommitted /\ board # {} /\ (\A r \in Submits : ~Sent(r)) => board = Shown(rows)

SerialInv ==
  /\ IInv /\ LockInv
  /\ \A q, r \in InFlight : q = r
  /\ Settled
  /\ \A r \in Submits \cap InFlight : OnTrack(pc[r], txn[r])
  /\ \A u \in Undos : pc[u] = "undo" => txn[u].own \in events
  /\ BoardInv

-----------------------------------------------------------------------------
(* A new event moves the tally of its own student alone.                   *)
LEMMA TallyOfOthers ==
  ASSUME NEW P, NEW E, NEW e, NEW s, s # e.student
  PROVE  TallyOf(P, E \cup {e}, s) = TallyOf(P, E, s)
<1>1. \A j : MarksBy(E \cup {e}, j, s) = MarksBy(E, j, s)
  BY DEF MarksBy
<1> QED BY <1>1 DEF TallyOf

(* The mirror of it: so does an event that is taken away.                  *)
LEMMA TallyWithout ==
  ASSUME NEW P, NEW E, NEW e, NEW s, s # e.student
  PROVE  TallyOf(P, E \ {e}, s) = TallyOf(P, E, s)
<1>1. \A j : MarksBy(E \ {e}, j, s) = MarksBy(E, j, s)
  BY DEF MarksBy
<1> QED BY <1>1 DEF TallyOf

(* A ranking is one of the scores and ranks of its rows alone.             *)
LEMMA SameRanking ==
  ASSUME NEW V, NEW W, NEW f, NEW g, RankedBy(V, f),
         IdsOf(W) = IdsOf(V),
         \A k \in IdsOf(V) : /\ W[k].student = V[k].student /\ W[k].score = V[k].score
                             /\ g[k] = f[k]
  PROVE  RankedBy(W, g)
<1> DEFINE D == IdsOf(V)
           sc == [k \in D |-> V[k].score]
           gr == [k \in D |-> GroupOf(V[k].student)]
<1>1. sc = [k \in D |-> W[k].score] /\ gr = [k \in D |-> GroupOf(W[k].student)]
  OBVIOUS
<1>2. IsRanking(D, sc, gr, f) /\ \A k \in D : g[k] = f[k]
  BY DEF RankedBy
<1> HIDE DEF D, sc, gr
<1>3. IsRanking(D, sc, gr, g)
  BY <1>2 DEF IsRanking
<1> QED BY <1>1, <1>3 DEF RankedBy, D

LEMMA RequestsFinite ==
  ASSUME IInv, Concurrency <= 1, Room PROVE InFlight = {}
<1>1. IsFiniteSet(Requests)
  BY FS_Union, DeductionsAssumption, ScoringAssumption DEF Requests
<1>2. InFlight \in SUBSET Requests
  BY DEF InFlight
<1>3. IsFiniteSet(InFlight) /\ Cardinality(InFlight) \in Nat
  BY <1>1, <1>2, FS_Subset, FS_CardinalityType
<1>4. Cardinality(InFlight) = 0
  BY <1>3, ScoringAssumption DEF Room
<1> QED BY <1>3, <1>4, FS_EmptySet

(* A statement of the only request keeps the invariant if it leaves the    *)
(* session on track, and the board alone or just sent.                     *)
LEMMA SerialStep ==
  ASSUME SerialInv, IInv', LockInv',
         NEW r \in Submits, pc[r] # "done", r \in InFlight \/ InFlight = {},
         NEW p \in Steps \ {"idle", "done", "undo"}, NEW t,
         pc' = [pc EXCEPT ![r] = p], txn'[r] = t,
         \A q \in Requests \ {r} : txn'[q] = txn[q],
         UNCHANGED <<round, store>>,
         OnTrack(p, t),
         IF p = "commit" /\ t.mine # 0 THEN board' = Shown(View(t))
         ELSE board' = board /\ ~Sent(r)
  PROVE  SerialInv'
<1> USE DEF round, store
<1>1. r \in Requests /\ r \notin Undos
  BY ScoringAssumption DEF Requests
<1>2. /\ pc'[r] = p /\ \A q \in Requests \ {r} : pc'[q] = pc[q]
  BY <1>1 DEF SerialInv, IInv, TypeOK
<1>3. \A q \in InFlight : q = r
  BY DEF SerialInv
<1>4. \A q \in Requests \ {r} : pc[q] \in {"idle", "done"} /\ pc'[q] \in {"idle", "done"}
  BY <1>2, <1>3 DEF InFlight
<1>5. \A q \in InFlight' : q = r
  BY <1>4 DEF InFlight
<1>6. Settled'
  BY DEF SerialInv, Settled, Intact, FreshScore, RankedBy, OneEach, RanksOf, IdsOf
<1>7. OnTrack(pc[r], txn[r])'
  <2>1. OnTrack(pc'[r], txn'[r])
    BY <1>2
  <2> QED BY <2>1 DEF OnTrack, Decided, Upserted, Complete, Tallied, Marks, View,
          IdsOf, RanksLeft, RanksOf, RankedBy
<1>8. \A q \in Submits \ {r} : ~Sent(q) /\ ~Sent(q)'
  BY <1>4 DEF Sent, Requests
<1>9. AllCommitted' => AllCommitted
  BY <1>1, <1>2 DEF AllCommitted, Requests
<1>10. View(txn[r])' = View(t)
  BY DEF View
<1>11. BoardInv'
  <2>1. CASE p = "commit" /\ t.mine # 0
    <3>1. Sent(r)' /\ board' = Shown(View(t))
      BY <1>2, <2>1 DEF Sent
    <3> QED BY <1>8, <1>10, <3>1 DEF BoardInv, Shown, IdsOf
  <2>2. CASE ~(p = "commit" /\ t.mine # 0)
    <3>1. ~Sent(r) /\ ~Sent(r)' /\ board' = board
      BY <1>2, <2>2 DEF Sent
    <3> QED BY <1>8, <1>9, <3>1 DEF SerialInv, BoardInv, Shown, IdsOf
  <2> QED BY <2>1, <2>2
<1>12. \A u \in Undos : pc'[u] # "undo"
  BY <1>1, <1>4 DEF Requests
<1> QED BY <1>5, <1>6, <1>7, <1>11, <1>12 DEF SerialInv

(* What the invariants say of the session of the request under way.        *)
LEMMA SessionFacts ==
  ASSUME SerialInv, NEW r \in Submits, pc[r] \notin {"idle", "done"}
  PROVE  /\ r \in Requests /\ r \in InFlight /\ \A q \in InFlight : q = r
         /\ txn[r] \in Txn /\ txn[r].own \in Event /\ txn[r].own.id = r
         /\ Sound(pc[r], txn[r]) /\ KeepsRows(r, pc[r], txn[r])
         /\ OnTrack(pc[r], txn[r])
         /\ \A id \in RowIds : View(txn[r])[id] = VisibleRow(r, id)
         /\ VisibleEvents(r) = Marks(txn[r])
<1>1. r \in Requests /\ r \in InFlight
  BY DEF Requests, InFlight
<1>2. /\ \A q \in InFlight : q = r
      /\ txn[r] \in Txn /\ Sound(pc[r], txn[r]) /\ KeepsRows(r, pc[r], txn[r])
      /\ OnTrack(pc[r], txn[r])
  BY <1>1 DEF SerialInv, IInv, LockInv, TypeOK
<1>3. txn[r].own \in Event /\ txn[r].own.id = r
  BY <1>2 DEF Sound, OwnsEvent, KeepsRows
<1>4. /\ \A id \in RowIds : View(txn[r])[id] = VisibleRow(r, id)
      /\ VisibleEvents(r) = Marks(txn[r])
  BY DEF View, VisibleRow, VisibleEvents, Marks
<1> QED BY <1>1, <1>2, <1>3, <1>4

-----------------------------------------------------------------------------
LEMMA SerialBegin ==
  ASSUME SerialInv, IInv', LockInv', Concurrency <= 1,
         NEW r \in Submits, SubmitBegin(r)
  PROVE  SerialInv'
<1>1. InFlight = {}
  BY RequestsFinite DEF SerialInv, SubmitBegin
<1>2. PICK j \in Judges, s \in Students, c \in Crits, a \in Amounts :
        /\ MayMark(j)
        /\ txn' = [txn EXCEPT ![r].own = [id |-> r, judge |-> j, student |-> s,
                                          crit |-> c, amount |-> a]]
  BY DEF SubmitBegin
<1>3. txn[r] = Blank /\ r \in Requests
  BY DEF SubmitBegin, SerialInv, IInv, Sound, OwnsEvent, Requests
<1>4. PICK t : t = txn'[r]
  OBVIOUS
<1>5. t.own.judge = j /\ t.tally = NoTally
  BY <1>2, <1>3, <1>4 DEF SerialInv, IInv, TypeOK, Blank
<1>6. \A q \in Requests \ {r} : txn'[q] = txn[q]
  BY <1>2 DEF SerialInv, IInv, TypeOK
<1>7. OnTrack("assigned", t)
  BY <1>2, <1>5 DEF OnTrack, MayMark, Decided, Unwritten, Deciding
<1>8. /\ pc' = [pc EXCEPT ![r] = "assigned"] /\ ~Sent(r)
      /\ UNCHANGED <<round, store, board>>
  BY DEF SubmitBegin, Goto, Sent
<1>9. pc[r] # "done"
  BY DEF SubmitBegin
<1> QED BY <1>1, <1>4, <1>6, <1>7, <1>8, <1>9, SerialStep DEF Steps

LEMMA SerialReadAssigned ==
  ASSUME SerialInv, IInv', LockInv', NEW r \in Submits, ReadAssigned(r)
  PROVE  SerialInv'
<1>1. pc[r] = "assigned"
  BY DEF ReadAssigned
<1>2. PICK t : t = txn'[r]
  OBVIOUS
<1>3. /\ t.own = txn[r].own /\ t.tally = txn[r].tally /\ t.seen = panel
      /\ \A q \in Requests \ {r} : txn'[q] = txn[q]
  BY <1>1, <1>2, SessionFacts DEF ReadAssigned, SerialInv, IInv, TypeOK, Txn
<1>4. OnTrack("submitted", t)
  BY <1>1, <1>3, SessionFacts DEF OnTrack, Decided, Unwritten, Deciding
<1>5. /\ pc' = [pc EXCEPT ![r] = "submitted"] /\ ~Sent(r)
      /\ UNCHANGED <<round, store, board>>
  BY <1>1 DEF ReadAssigned, Goto, Sent
<1> QED BY <1>1, <1>2, <1>3, <1>4, <1>5, SessionFacts, SerialStep DEF Steps

(* Where it is decided whether the student's result is computed.           *)
LEMMA SerialReadSubmitted ==
  ASSUME SerialInv, IInv', LockInv', NEW r \in Submits, ReadSubmitted(r)
  PROVE  SerialInv'
<1>1. pc[r] = "submitted"
  BY DEF ReadSubmitted
<1>2. PICK t : t = txn[r]
  OBVIOUS
<1>3. /\ OnTrack("submitted", t) /\ VisibleEvents(r) = Marks(t)
      /\ Sound("submitted", t) /\ r \in InFlight
  BY <1>1, <1>2, SessionFacts
<1>4. t.seen = panel /\ t.seen # {}
  BY <1>3, DeductionsAssumption
     DEF OnTrack, Decided, Unwritten, Deciding, SerialInv, IInv
<1>5. AllSubmitted(r) <=> Complete(t)
  BY <1>2, <1>3, <1>4 DEF AllSubmitted, Complete
<1>6. t.mine = 0 /\ t.pend = NoRows
  BY <1>3 DEF Sound, WritesItsRows, Unwritten, Deciding
<1>7. CASE AllSubmitted(r)
  <2>1. OnTrack("panel", t)
    BY <1>3, <1>5, <1>7 DEF OnTrack, Decided, Unwritten, Deciding
  <2>2. pc' = [pc EXCEPT ![r] = "panel"]
    BY <1>2, <1>4, <1>7 DEF ReadSubmitted, Goto
  <2> QED BY <1>1, <1>2, <1>3, <2>1, <2>2, SerialStep DEF Steps, ReadSubmitted, Sent
<1>8. CASE ~AllSubmitted(r)
  <2>1. OnTrack("commit", t)
    BY <1>3, <1>5, <1>6, <1>8 DEF OnTrack, Upserted, Unwritten, Deciding
  <2>2. pc' = [pc EXCEPT ![r] = "commit"]
    BY <1>8 DEF ReadSubmitted, Goto
  <2> QED BY <1>1, <1>2, <1>3, <1>6, <2>1, <2>2, SerialStep DEF Steps, ReadSubmitted, Sent
<1> QED BY <1>7, <1>8

LEMMA SerialReadPanel ==
  ASSUME SerialInv, IInv', LockInv', NEW r \in Submits, ReadPanel(r)
  PROVE  SerialInv'
<1>1. pc[r] = "panel"
  BY DEF ReadPanel
<1>2. PICK t : t = txn'[r]
  OBVIOUS
<1>3. /\ t.own = txn[r].own /\ t.tally = txn[r].tally /\ t.seen = panel
      /\ \A q \in Requests \ {r} : txn'[q] = txn[q]
  BY <1>1, <1>2, SessionFacts DEF ReadPanel, SerialInv, IInv, TypeOK, Txn
<1>4. OnTrack("panel", txn[r])
  BY <1>1, SessionFacts
<1>5. OnTrack("tally", t)
  BY <1>3, <1>4 DEF OnTrack, Decided, Unwritten, Deciding, NoTally, Complete, Marks
<1>6. /\ pc' = [pc EXCEPT ![r] = "tally"] /\ ~Sent(r)
      /\ UNCHANGED <<round, store, board>>
  BY <1>1 DEF ReadPanel, Goto, Sent
<1> QED BY <1>1, <1>2, <1>3, <1>5, <1>6, SessionFacts, SerialStep DEF Steps

(* Nobody marks in between: the scores read one judge after the other are  *)
(* the tally of one set of events.                                         *)
LEMMA SerialTally ==
  ASSUME SerialInv, IInv', LockInv', NEW r \in Submits, NEW j \in Judges,
         TallyJudge(r, j)
  PROVE  SerialInv'
<1>1. pc[r] = "tally"
  BY DEF TallyJudge
<1>2. PICK t : t = txn'[r]
  OBVIOUS
<1>3. /\ OnTrack("tally", txn[r]) /\ VisibleEvents(r) = Marks(txn[r])
      /\ r \in InFlight /\ txn[r] \in Txn /\ r \in Requests
  BY <1>1, SessionFacts
<1>4. /\ t.own = txn[r].own /\ t.seen = txn[r].seen
      /\ t.tally = [txn[r].tally EXCEPT ![j] = ScoreBy(r, j)]
      /\ \A q \in Requests \ {r} : txn'[q] = txn[q]
  BY <1>2, <1>3 DEF TallyJudge, SerialInv, IInv, TypeOK, Txn
<1>5. Marks(t) = Marks(txn[r]) /\ Tallied(t) = Tallied(txn[r])
  BY <1>4 DEF Marks, Tallied
<1>6. /\ txn[r].seen = panel /\ Complete(txn[r])
      /\ \A k \in Judges : txn[r].tally[k] \in {Unread, Tallied(t)[k]}
  BY <1>3, <1>5 DEF OnTrack, Decided, Unwritten, Deciding
<1>7. j \in panel /\ ScoreBy(r, j) = Tallied(t)[j]
  <2>1. j \in panel
    BY <1>6 DEF TallyJudge
  <2> QED BY <1>3, <1>4, <2>1 DEF ScoreBy, Tallied, TallyOf, Marks
<1>8. /\ t.tally \in [Judges -> Int]
      /\ \A k \in Judges : t.tally[k] = IF k = j THEN Tallied(t)[j] ELSE txn[r].tally[k]
  <2>1. ScoreBy(r, j) \in Int
    BY JudgeScoreBounded, FullMarksType DEF ScoreBy
  <2> QED BY <1>3, <1>4, <1>7, <2>1 DEF Txn
<1>9. OnTrack("tally", t)
  BY <1>3, <1>4, <1>5, <1>6, <1>8 DEF OnTrack, Decided, Unwritten, Deciding, Complete
<1>10. ASSUME \A k \in txn[r].seen \ {j} : txn[r].tally[k] # Unread
       PROVE  OnTrack("find", t)
  <2>1. \A k \in Judges \ panel : Tallied(t)[k] = Unread
    BY DEF Tallied, TallyOf
  <2>2. \A k \in Judges : t.tally[k] = Tallied(t)[k]
    BY <1>6, <1>8, <1>10, <2>1
  <2>3. Tallied(t) = [k \in Judges |-> Tallied(t)[k]]
    BY DEF Tallied, TallyOf
  <2>4. t.tally = [k \in Judges |-> t.tally[k]]
    BY <1>8
  <2>5. t.tally = Tallied(t)
    BY <2>2, <2>3, <2>4
  <2> QED BY <1>9, <2>5 DEF OnTrack, Decided, Unwritten, Deciding
<1>11. PICK p \in {"tally", "find"} : pc' = [pc EXCEPT ![r] = p] /\ OnTrack(p, t)
  BY <1>9, <1>10 DEF TallyJudge, Goto
<1> QED BY <1>1, <1>2, <1>3, <1>4, <1>11, SerialStep DEF Steps, TallyJudge, Sent
(* A request that fails leaves the committed state; a submission that      *)
(* fails is never on record afterwards.                                    *)
LEMMA SerialRollback ==
  ASSUME SerialInv, IInv', LockInv', NEW r \in InFlight, Rollback(r)
  PROVE  SerialInv'
<1> USE DEF Rollback, round, store
<1>1. r \in Requests
  BY DEF InFlight
<1>2. /\ pc'[r] = "done" /\ txn'[r] = Blank
      /\ \A q \in Requests \ {r} : pc'[q] = pc[q] /\ txn'[q] = txn[q]
  BY <1>1 DEF Finish, Goto, SerialInv, IInv, TypeOK
<1>3. InFlight' = {}
  BY <1>2 DEF SerialInv, InFlight
<1>4. Settled'
  BY DEF SerialInv, Settled, Intact, FreshScore, RankedBy, OneEach, RanksOf, IdsOf
<1>5. \A q \in Submits : ~Sent(q)'
  BY <1>3 DEF InFlight, Sent, Requests
<1>6. AllCommitted' => r \in Undos /\ AllCommitted
  <2> SUFFICES ASSUME AllCommitted' PROVE r \in Undos /\ AllCommitted
    OBVIOUS
  <2>1. ASSUME r \in Submits PROVE FALSE
    <3>1. PICK e \in audit : e.id = r
      BY <1>2, <2>1 DEF AllCommitted
    <3> QED BY <2>1, <3>1, DeductionsAssumption DEF SerialInv, LockInv, InFlight
  <2>2. AllCommitted
    BY <1>2, <2>1 DEF AllCommitted, Requests
  <2> QED BY <1>1, <2>1, <2>2 DEF Requests
<1>7. r \in Undos => \A q \in Submits : ~Sent(q)
  BY ScoringAssumption DEF Sent, SerialInv, InFlight, Requests
<1>8. BoardInv'
  BY <1>5, <1>6, <1>7 DEF SerialInv, BoardInv, Shown, IdsOf
<1> QED BY <1>3, <1>4, <1>8 DEF SerialInv, InFlight, Requests

LEMMA SerialFind ==
  ASSUME SerialInv, IInv', LockInv', NEW r \in Submits, FindResult(r)
  PROVE  SerialInv'
<1>1. pc[r] = "find"
  BY DEF FindResult
<1>2. PICK t : t = txn'[r]
  OBVIOUS
<1>3. /\ OnTrack("find", txn[r]) /\ Sound("find", txn[r])
      /\ r \in InFlight /\ txn[r] \in Txn /\ r \in Requests
  BY <1>1, SessionFacts
<1>4. \A id \in RowIds : VisibleRow(r, id) = rows[id]
  BY <1>3 DEF Sound, WritesItsRows, Unwritten, Deciding, NoRows, VisibleRow
<1>5. txn[r].mine = 0
  BY <1>3 DEF Sound, WritesItsRows, Unwritten, Deciding
<1>6. CASE RowsOf(r) = {} /\ Goto(r, "write") /\ UNCHANGED <<round, store, seq, board, txn>>
  <2>1. \A id \in IdsOf(rows) : rows[id].student # txn[r].own.student
    BY <1>4, <1>6 DEF RowsOf, VisibleIds, IdsOf
  <2>2. OnTrack("write", txn[r])
    BY <1>3, <1>5, <2>1 DEF OnTrack, Decided, Unwritten, Deciding
  <2> QED BY <1>1, <1>3, <1>6, <2>2, SerialStep DEF Steps, Goto, Sent
<1>7. ASSUME NEW id \in RowsOf(r), Goto(r, "write"),
             txn' = [txn EXCEPT ![r].mine = id, ![r].loaded = VisibleRow(r, id)],
             UNCHANGED <<round, store, seq, board>>
      PROVE  SerialInv'
  <2>1. id \in RowIds /\ id # 0
    BY ScoringAssumption DEF RowsOf, VisibleIds, RowIds
  <2>2. /\ t.own = txn[r].own /\ t.seen = txn[r].seen /\ t.tally = txn[r].tally
        /\ t.mine = id /\ t.loaded = rows[id]
        /\ \A q \in Requests \ {r} : txn'[q] = txn[q]
    BY <1>2, <1>3, <1>4, <1>7, <2>1 DEF SerialInv, IInv, TypeOK, Txn
  <2>3. OnTrack("write", t)
    BY <1>3, <2>1, <2>2
       DEF OnTrack, Decided, Unwritten, Deciding, Complete, Tallied, Marks
  <2> QED BY <1>1, <1>2, <1>3, <1>7, <2>2, <2>3, SerialStep DEF Steps, Goto, Sent
<1> QED BY <1>1, <1>3, <1>6, <1>7, SerialRollback DEF FindResult

(* The score that is written is that of all the marks on record and the    *)
(* request's own.                                                          *)
LEMMA ScoreWritten ==
  ASSUME SerialInv, NEW r \in Submits, pc[r] = "write"
  PROVE  Score(r) = PanelScoreOf(panel, Tallied(txn[r])) /\ Complete(txn[r])
BY SessionFacts DEF OnTrack, Decided, Unwritten, Deciding, Score

LEMMA SerialInsert ==
  ASSUME SerialInv, IInv', LockInv', NEW r \in Submits, InsertResult(r)
  PROVE  SerialInv'
<1> DEFINE id == seq + 1
           new == [student |-> txn[r].own.student, score |-> Score(r), rank |-> 0]
<1>1. pc[r] = "write" /\ txn[r].mine = 0
  BY DEF InsertResult
<1>2. PICK t : t = txn'[r]
  OBVIOUS
<1>3. /\ OnTrack("write", txn[r]) /\ Sound("write", txn[r])
      /\ r \in InFlight /\ txn[r] \in Txn /\ r \in Requests
  BY <1>1, SessionFacts
<1>4. id \in RowIds /\ id # 0 /\ rows[id] = Absent
  BY ScoringAssumption
     DEF InsertResult, SerialInv, IInv, TypeOK, RowIds, LockInv, Results
<1>5. new \in Row /\ new # Absent /\ new.score = Score(r)
  <2>1. txn[r].own.student \in Students /\ Score(r) \in Nat
    BY <1>1, <1>3, SessionFacts, ScoreType DEF SerialInv, IInv, Event
  <2> QED BY <2>1, ScoringAssumption DEF Row
<1>6. /\ txn' = [txn EXCEPT ![r].mine = id, ![r].loaded = new, ![r].pend[id] = new]
      /\ Goto(r, "rank") /\ UNCHANGED <<round, store, board>>
  BY DEF InsertResult
<1> HIDE DEF id, new
<1>7. /\ t.own = txn[r].own /\ t.mine = id /\ t.loaded = new
      /\ t.pend = [txn[r].pend EXCEPT ![id] = new]
      /\ \A q \in Requests \ {r} : txn'[q] = txn[q]
  BY <1>2, <1>3, <1>6 DEF SerialInv, IInv, TypeOK, Txn
<1>8. View(t)[id] = new
  BY <1>3, <1>4, <1>5, <1>7 DEF View, Txn
<1>9. Tallied(t) = Tallied(txn[r]) /\ (Complete(t) <=> Complete(txn[r]))
  BY <1>7 DEF Tallied, Complete, Marks
<1>10. \A k \in IdsOf(rows) : rows[k].student # t.own.student
  BY <1>1, <1>3, <1>7 DEF OnTrack, Decided, Unwritten, Deciding
<1>11. OnTrack("rank", t)
  BY <1>1, <1>3, <1>4, <1>5, <1>7, <1>8, <1>9, <1>10, ScoreWritten
     DEF OnTrack, Upserted, Unwritten, Deciding
<1> QED BY <1>1, <1>2, <1>3, <1>6, <1>7, <1>11, SerialStep DEF Steps, Goto, Sent

LEMMA SerialUpdate ==
  ASSUME SerialInv, IInv', LockInv', NEW r \in Submits, UpdateResult(r)
  PROVE  SerialInv'
<1> DEFINE id == txn[r].mine
           new == IF Score(r) = txn[r].loaded.score
                  THEN rows[id] ELSE [rows[id] EXCEPT !.score = Score(r)]
<1>1. pc[r] = "write" /\ id # 0
  BY DEF UpdateResult
<1>2. PICK t : t = txn'[r]
  OBVIOUS
<1>3. /\ OnTrack("write", txn[r]) /\ Sound("write", txn[r])
      /\ KeepsRows(r, "write", txn[r])
      /\ r \in InFlight /\ txn[r] \in Txn /\ r \in Requests
  BY <1>1, SessionFacts
<1>4. id \in RowIds
  BY <1>1, <1>3, ScoringAssumption DEF Txn, RowIds
<1>5. /\ rows[id] \in Row /\ rows[id] # Absent /\ txn[r].loaded = rows[id]
      /\ rows[id].student = txn[r].own.student
  BY <1>1, <1>3, <1>4 DEF Sound, WritesItsRows, KeepsRows, OnTrack, Decided, Unwritten,
     Deciding, SerialInv, IInv, TypeOK
<1>6. Score(r) \in Nat
  BY <1>3, ScoreType DEF SerialInv, IInv
<1>7. /\ new = [rows[id] EXCEPT !.score = Score(r)] /\ new \in Row /\ new # Absent
      /\ new.score = Score(r)
  BY <1>5, <1>6, ScoringAssumption DEF Row
<1>8. /\ txn' = [txn EXCEPT ![r].pend[id] = new, ![r].loaded.score = Score(r)]
      /\ Goto(r, "rank") /\ UNCHANGED <<round, store, board>>
  BY DEF UpdateResult
<1>9. \A k \in IdsOf(rows) : rows[k].student = txn[r].own.student => k = id
  BY <1>4, <1>5 DEF SerialInv, Settled, OneEach, IdsOf
<1> HIDE DEF new
<1>10. /\ t.own = txn[r].own /\ t.mine = id
       /\ t.loaded = [txn[r].loaded EXCEPT !.score = Score(r)]
       /\ t.pend = [txn[r].pend EXCEPT ![id] = new]
       /\ \A q \in Requests \ {r} : txn'[q] = txn[q]
  BY <1>2, <1>3, <1>8 DEF SerialInv, IInv, TypeOK, Txn
<1>11. View(t)[id] = new
  BY <1>3, <1>4, <1>7, <1>10 DEF View, Txn
<1>12. Tallied(t) = Tallied(txn[r]) /\ (Complete(t) <=> Complete(txn[r]))
  BY <1>10 DEF Tallied, Complete, Marks
<1>13. OnTrack("rank", t)
  BY <1>1, <1>3, <1>5, <1>7, <1>9, <1>10, <1>11, <1>12, ScoreWritten
     DEF OnTrack, Upserted, Unwritten, Deciding
<1> QED BY <1>1, <1>2, <1>3, <1>8, <1>10, <1>13, SerialStep DEF Steps, Goto, Sent

-----------------------------------------------------------------------------
(* The ranking the session computes ranks the rows it sees, and differs    *)
(* from the ranks it has read where an update is left to be flushed.       *)
LEMMA SerialReadRanks ==
  ASSUME SerialInv, IInv', LockInv', NEW r \in Submits, ReadRanks(r)
  PROVE  SerialInv'
<1>1. pc[r] = "rank"
  BY DEF ReadRanks
<1>2. PICK t : t = txn'[r]
  OBVIOUS
<1>3. /\ OnTrack("rank", txn[r]) /\ txn[r].mine # 0
      /\ r \in InFlight /\ txn[r] \in Txn /\ r \in Requests
  BY <1>1, SessionFacts DEF OnTrack, Upserted, Unwritten, Deciding
<1>a. PICK f \in [RowIds -> 0..MaxRows] :
        /\ IsRankingFor(r, f)
        /\ LET c == [id \in RowIds |->
                     IF id \in VisibleIds(r) /\ f[id] # RankedRow(r, id).rank
                     THEN f[id] ELSE 0]
           IN  /\ txn' = [txn EXCEPT ![r].ranks = c]
               /\ Goto(r, IF c = NoRanks THEN "broadcast" ELSE "rankwrite")
  BY DEF ReadRanks
<1>b. PICK changed : changed =
        [id \in RowIds |-> IF id \in VisibleIds(r) /\ f[id] # RankedRow(r, id).rank
                           THEN f[id] ELSE 0]
  OBVIOUS
<1>4. /\ IsRankingFor(r, f)
      /\ txn' = [txn EXCEPT ![r].ranks = changed]
      /\ Goto(r, IF changed = NoRanks THEN "broadcast" ELSE "rankwrite")
  BY <1>a, <1>b
<1>5. /\ t.own = txn[r].own /\ t.mine = txn[r].mine /\ t.pend = txn[r].pend
      /\ t.ranks = changed
      /\ \A q \in Requests \ {r} : txn'[q] = txn[q]
  BY <1>2, <1>3, <1>4 DEF SerialInv, IInv, TypeOK, Txn
<1> DEFINE V == View(t)
<1>6. V = View(txn[r]) /\ Tallied(t) = Tallied(txn[r]) /\ (Complete(t) <=> Complete(txn[r]))
  BY <1>5 DEF View, Tallied, Complete, Marks
<1>7. /\ VisibleIds(r) = IdsOf(V)
      /\ \A id \in RowIds : RankedRow(r, id) = V[id]
  <2>1. \A id \in RowIds : VisibleRow(r, id) = V[id]
    BY <1>1, <1>6, SessionFacts
  <2>2. txn[r].loaded = V[txn[r].mine]
    BY <1>3, <1>6 DEF OnTrack, Upserted, Unwritten, Deciding
  <2> QED BY <2>1, <2>2 DEF VisibleIds, IdsOf, RankedRow
<1> HIDE DEF V
<1>8. RankedBy(V, f)
  <2>1. [id \in IdsOf(V) |-> RankedRow(r, id).score] = [id \in IdsOf(V) |-> V[id].score]
    BY <1>7 DEF IdsOf
  <2>2. [id \in IdsOf(V) |-> GroupOf(RankedRow(r, id).student)]
          = [id \in IdsOf(V) |-> GroupOf(V[id].student)]
    BY <1>7 DEF IdsOf
  <2> QED BY <1>4, <1>7, <2>1, <2>2 DEF RankedBy, IsRankingFor
<1>9. \A id \in IdsOf(V) : f[id] # 0
  BY <1>4, <1>7, RankPositive
<1>10. \A id \in IdsOf(V) :
         f[id] = IF changed[id] # 0 THEN changed[id] ELSE V[id].rank
  BY <1>b, <1>7, <1>9 DEF IdsOf
<1>11. RankedBy(V, RanksLeft(t))
  <2>1. \A id \in IdsOf(V) : RanksLeft(t)[id] = f[id]
    BY <1>5, <1>10 DEF RanksLeft, V
  <2> QED BY <1>8, <2>1 DEF RankedBy, IsRanking
<1>12. changed = NoRanks => RankedBy(V, RanksOf(V))
  <2> SUFFICES ASSUME changed = NoRanks PROVE RankedBy(V, RanksOf(V))
    OBVIOUS
  <2>1. \A id \in IdsOf(V) : RanksOf(V)[id] = f[id]
    BY <1>10 DEF RanksOf, NoRanks, IdsOf
  <2> QED BY <1>8, <2>1 DEF RankedBy, IsRanking
<1>13. /\ Complete(t) /\ V[t.mine].score = PanelScoreOf(panel, Tallied(t))
       /\ \A id \in IdsOf(rows) : rows[id].student = t.own.student => id = t.mine
  BY <1>3, <1>5, <1>6 DEF OnTrack, Upserted, Unwritten, Deciding
<1>14. OnTrack("rankwrite", t) /\ (changed = NoRanks => OnTrack("broadcast", t))
  BY <1>3, <1>5, <1>11, <1>12, <1>13 DEF OnTrack, Upserted, Unwritten, Deciding, V
<1>15. PICK p \in {"broadcast", "rankwrite"} :
         pc' = [pc EXCEPT ![r] = p] /\ OnTrack(p, t)
  BY <1>4, <1>14 DEF Goto
<1> QED BY <1>1, <1>2, <1>3, <1>5, <1>15, SerialStep DEF Steps, ReadRanks, Sent

(* Each flushed rank moves from the list of updates to the row; the ranks  *)
(* that are left and those already written stay one ranking.               *)
LEMMA SerialWriteRank ==
  ASSUME SerialInv, IInv', LockInv', NEW r \in Submits, WriteRank(r)
  PROVE  SerialInv'
<1>1. pc[r] = "rankwrite"
  BY DEF WriteRank
<1>2. PICK t : t = txn'[r]
  OBVIOUS
<1>3. /\ OnTrack("rankwrite", txn[r]) /\ txn[r].mine # 0
      /\ Sound("rankwrite", txn[r]) /\ KeepsRows(r, "rankwrite", txn[r])
      /\ r \in InFlight /\ txn[r] \in Txn /\ r \in Requests
  BY <1>1, SessionFacts DEF OnTrack, Upserted, Unwritten, Deciding
<1>a. PICK id \in NextRankIds(r) :
        LET l == [txn[r].ranks EXCEPT ![id] = 0]
        IN  /\ txn' = [txn EXCEPT
                 ![r].pend[id] = [VisibleRow(r, id) EXCEPT !.rank = txn[r].ranks[id]],
                 ![r].ranks = l]
            /\ Goto(r, IF l = NoRanks THEN "broadcast" ELSE "rankwrite")
  BY DEF WriteRank
<1>b. PICK left : left = [txn[r].ranks EXCEPT ![id] = 0]
  OBVIOUS
<1>c. PICK new : new = [VisibleRow(r, id) EXCEPT !.rank = txn[r].ranks[id]]
  OBVIOUS
<1>4. /\ txn' = [txn EXCEPT ![r].pend[id] = new, ![r].ranks = left]
      /\ Goto(r, IF left = NoRanks THEN "broadcast" ELSE "rankwrite")
  BY <1>a, <1>b, <1>c
<1> DEFINE V == View(txn[r])
           W == View(t)
<1>5. id \in RowIds /\ txn[r].ranks[id] # 0 /\ txn[r].ranks[id] \in Nat
  BY <1>3 DEF NextRankIds, Txn
<1>6. V[id] = VisibleRow(r, id) /\ V[id] # Absent /\ V[id] \in Row
  <2>1. V[id] = VisibleRow(r, id)
    BY <1>1, <1>5, SessionFacts
  <2>2. VisibleRow(r, id) # Absent /\ VisibleRow(r, id) \in Row
    BY <1>3, <1>5, VisibleRowType DEF VisibleRow, Sound, WritesItsRows, SerialInv, IInv
  <2> QED BY <2>1, <2>2
<1>7. /\ new \in Row /\ new # Absent /\ new.student = V[id].student
      /\ new.score = V[id].score /\ new.rank = txn[r].ranks[id]
  <2> HIDE DEF V
  <2> QED BY <1>c, <1>5, <1>6, ScoringAssumption DEF Row
<1>8. /\ t.own = txn[r].own /\ t.mine = txn[r].mine
      /\ t.pend = [txn[r].pend EXCEPT ![id] = new] /\ t.ranks = left
      /\ \A q \in Requests \ {r} : txn'[q] = txn[q]
  BY <1>2, <1>3, <1>4 DEF SerialInv, IInv, TypeOK, Txn
<1>9. \A k \in RowIds : W[k] = IF k = id THEN new ELSE V[k]
  BY <1>3, <1>5, <1>7, <1>8 DEF View, Txn
<1>10. \A k \in RowIds : left[k] = IF k = id THEN 0 ELSE txn[r].ranks[k]
  BY <1>3, <1>b, <1>5 DEF Txn
<1>11. /\ IdsOf(W) = IdsOf(V)
       /\ \A k \in IdsOf(V) : W[k].student = V[k].student /\ W[k].score = V[k].score
  <2> HIDE DEF V, W
  <2> QED BY <1>5, <1>6, <1>7, <1>9 DEF IdsOf
<1>12. \A k \in IdsOf(V) : RanksLeft(t)[k] = RanksLeft(txn[r])[k]
  <2>1. \A k \in IdsOf(V) :
          /\ RanksLeft(t)[k] = IF left[k] # 0 THEN left[k] ELSE W[k].rank
          /\ RanksLeft(txn[r])[k] = IF txn[r].ranks[k] # 0 THEN txn[r].ranks[k] ELSE V[k].rank
    BY <1>8, <1>11 DEF RanksLeft
  <2> HIDE DEF V, W
  <2> QED BY <1>7, <1>9, <1>10, <2>1, <1>5 DEF IdsOf
<1>13. RankedBy(W, RanksLeft(t))
  <2>1. RankedBy(V, RanksLeft(txn[r]))
    BY <1>3 DEF OnTrack, Upserted, Unwritten, Deciding
  <2> HIDE DEF V, W
  <2> QED BY <1>11, <1>12, <2>1, SameRanking
<1>14. left = NoRanks => RankedBy(W, RanksOf(W))
  <2> SUFFICES ASSUME left = NoRanks PROVE RankedBy(W, RanksOf(W))
    OBVIOUS
  <2>1. \A k \in IdsOf(W) : RanksOf(W)[k] = RanksLeft(t)[k]
    BY <1>8 DEF RanksOf, RanksLeft, NoRanks, IdsOf
  <2> HIDE DEF W
  <2> QED BY <1>13, <2>1 DEF RankedBy, IsRanking
<1>15. Tallied(t) = Tallied(txn[r]) /\ (Complete(t) <=> Complete(txn[r]))
  BY <1>8 DEF Tallied, Complete, Marks
<1>16. W[t.mine].score = V[t.mine].score
  <2>1. t.mine \in RowIds /\ V[t.mine] # Absent
    BY <1>3, <1>8, ScoringAssumption
       DEF Txn, RowIds, KeepsRows, Past, Unwritten, Deciding, View
  <2> HIDE DEF V, W
  <2> QED BY <1>11, <2>1 DEF IdsOf
<1>17. /\ Complete(t) /\ W[t.mine].score = PanelScoreOf(panel, Tallied(t))
       /\ \A k \in IdsOf(rows) : rows[k].student = t.own.student => k = t.mine
  BY <1>3, <1>8, <1>15, <1>16 DEF OnTrack, Upserted, Unwritten, Deciding
<1>18. OnTrack("rankwrite", t) /\ (left = NoRanks => OnTrack("broadcast", t))
  BY <1>3, <1>8, <1>13, <1>14, <1>17 DEF OnTrack, Upserted, Unwritten, Deciding
<1>19. PICK p \in {"broadcast", "rankwrite"} :
         pc' = [pc EXCEPT ![r] = p] /\ OnTrack(p, t)
  BY <1>4, <1>18 DEF Goto
<1> QED BY <1>1, <1>2, <1>3, <1>8, <1>19, SerialStep DEF Steps, WriteRank, Sent

(* The board that is sent is what the commit leaves.                       *)
LEMMA SerialBroadcast ==
  ASSUME SerialInv, IInv', LockInv', NEW r \in Submits, Broadcast(r)
  PROVE  SerialInv'
<1>1. pc[r] = "broadcast"
  BY DEF Broadcast
<1>2. PICK t : t = txn[r]
  OBVIOUS
<1>3. /\ OnTrack("broadcast", t) /\ t.mine # 0 /\ r \in InFlight
      /\ \A id \in RowIds : View(t)[id] = VisibleRow(r, id)
  BY <1>1, <1>2, SessionFacts DEF OnTrack, Upserted, Unwritten, Deciding
<1>4. OnTrack("commit", t)
  BY <1>3 DEF OnTrack, Upserted, Unwritten, Deciding
<1>5. board' = Shown(View(t))
  BY <1>3 DEF Broadcast, Shown, VisibleIds, IdsOf
<1> QED BY <1>1, <1>2, <1>3, <1>4, <1>5, SerialStep DEF Steps, Goto, Broadcast

-----------------------------------------------------------------------------
(* What the session that commits has made of the table: the student's      *)
(* result is there with its new score, the others are as they were.        *)
LEMMA CommittedView ==
  ASSUME SerialInv, NEW r \in Submits, pc[r] = "commit", txn[r].mine # 0
  PROVE  LET V == View(txn[r])
             s == txn[r].own.student
             mine == txn[r].mine
         IN  /\ mine \in IdsOf(V) /\ V[mine].student = s
             /\ V[mine].score = PanelScoreOf(panel, Tallied(txn[r]))
             /\ Complete(txn[r]) /\ RankedBy(V, RanksOf(V))
             /\ IdsOf(rows) \subseteq IdsOf(V)
             /\ \A id \in IdsOf(V) \ {mine} :
                  /\ id \in IdsOf(rows) /\ V[id].student = rows[id].student
                  /\ V[id].score = rows[id].score
                  /\ V[id].student # s
<1> DEFINE t == txn[r]
           V == View(t)
           s == t.own.student
           mine == t.mine
<1>1. /\ KeepsRows(r, "commit", t) /\ OnTrack("commit", t) /\ t \in Txn
  BY SessionFacts
<1>2. mine \in RowIds
  BY <1>1, ScoringAssumption DEF Txn, RowIds
<1>3. \A id \in RowIds : V[id] = IF t.pend[id] # Absent THEN t.pend[id] ELSE rows[id]
  BY DEF View
<1>4. t.pend[mine] # Absent /\ t.pend[mine].student = s
  BY <1>1, <1>2 DEF KeepsRows, Past, Unwritten, Deciding
<1>5. mine \in IdsOf(V) /\ V[mine].student = s
  BY <1>2, <1>3, <1>4 DEF IdsOf
<1>6. /\ V[mine].score = PanelScoreOf(panel, Tallied(t))
      /\ Complete(t) /\ RankedBy(V, RanksOf(V))
      /\ \A id \in IdsOf(rows) : rows[id].student = s => id = mine
  BY <1>1 DEF OnTrack, Upserted, Unwritten, Deciding
<1>7. IdsOf(rows) \subseteq IdsOf(V)
  BY <1>3 DEF IdsOf
<1>8. ASSUME NEW id \in IdsOf(V) \ {mine}
      PROVE  /\ id \in IdsOf(rows) /\ V[id].student = rows[id].student
             /\ V[id].score = rows[id].score
             /\ V[id].student # s
  <2>1. id \in RowIds /\ V[id] # Absent
    BY <1>8 DEF IdsOf
  <2>2. rows[id] # Absent /\ V[id].student = rows[id].student /\ V[id].score = rows[id].score
    BY <1>1, <1>3, <1>8, <2>1 DEF KeepsRows
  <2> QED BY <1>6, <1>8, <2>1, <2>2 DEF IdsOf
<1> QED BY <1>5, <1>6, <1>7, <1>8

(* The commit of a submission that computed nothing: the student is not    *)
(* fully marked, and if he has a result a deduction of his is missing.     *)
LEMMA CommitUncomputed ==
  ASSUME SerialInv, NEW r \in Submits, Commit(r), txn[r].mine = 0
  PROVE  Settled' /\ rows' = rows
<1> DEFINE own == txn[r].own
           s == own.student
<1>1. pc[r] = "commit"
  BY DEF Commit
<1>2. OnTrack("commit", txn[r]) /\ own \in Event /\ own.id = r
  BY <1>1, SessionFacts
<1>3. txn[r].pend = NoRows /\ ~Complete(txn[r]) /\ own.judge \in panel
  BY <1>2 DEF OnTrack, Upserted, Unwritten, Deciding
<1>4. rows' = rows
  BY <1>3 DEF Commit, VisibleRow, NoRows, SerialInv, IInv, TypeOK
<1>5. events' = events \cup {own} /\ audit' = audit \cup {own} /\ panel' = panel
  BY DEF Commit, round
<1>6. own \notin audit
  BY <1>1, <1>2, DeductionsAssumption DEF SerialInv, LockInv
<1>7. audit' \ events' = audit \ events
  BY <1>5, <1>6
<1>8. /\ Markers(events', s) = Markers(events, s) \cup {own.judge}
      /\ \A u : u # s => Markers(events', u) = Markers(events, u)
  <2> PICK e : e = own
    OBVIOUS
  <2>1. /\ Markers(events \cup {e}, e.student) = Markers(events, e.student) \cup {e.judge}
        /\ \A u : u # e.student => Markers(events \cup {e}, u) = Markers(events, u)
    BY DEF Markers
  <2> QED BY <1>5, <2>1
<1>9. Markers(events', s) # panel
  BY <1>3, <1>5 DEF Complete, Marks
<1>10. \A u \in Students : /\ Markers(events', u) \subseteq panel
                           /\ Markers(events', u) = panel =>
                                \E id \in IdsOf(rows) : rows[id].student = u
  BY <1>3, <1>8, <1>9 DEF SerialInv, Settled
<1>11. ASSUME NEW id \in IdsOf(rows), Intact(rows[id].student)'
       PROVE  rows[id].score = FreshScore(rows[id].student)'
  <2> DEFINE u == rows[id].student
  <2>1. Intact(u) /\ panel = StartPanel
    BY <1>4, <1>5, <1>7, <1>11 DEF Intact
  <2>2. u # s
    <3> SUFFICES ASSUME u = s PROVE FALSE
      OBVIOUS
    <3>1. StartPanel \subseteq Markers(audit, s)
      BY <1>11 DEF SerialInv, IInv, ResultsRestOnFullPanel, Results, IdsOf
    <3>2. Markers(audit, s) \subseteq Markers(events, s)
      BY <2>1 DEF Intact, Markers
    <3> QED BY <1>3, <1>8, <1>9, <2>1, <3>1, <3>2, <1>2
            DEF SerialInv, Settled, Event
  <2>3. TallyOf(panel, events', u) = TallyOf(panel, events, u)
    BY <1>5, <2>2, TallyOfOthers
  <2>4. rows[id].score = FreshScore(u)
    BY <2>1 DEF SerialInv, Settled
  <2> QED BY <1>4, <1>5, <2>3, <2>4 DEF FreshScore
<1>12. Settled'
  <2>1. IdsOf(rows)' = IdsOf(rows) /\ OneEach(rows)' /\ RankedBy(rows, RanksOf(rows))'
    BY <1>4 DEF SerialInv, Settled, RankedBy, OneEach, RanksOf, IdsOf
  <2> QED BY <1>4, <1>5, <1>10, <1>11, <2>1 DEF Settled
<1> QED BY <1>4, <1>12

(* The commit of the last judge's deduction, or of a later one: the result *)
(* and the new ranking become visible with it.                             *)
LEMMA CommitComputed ==
  ASSUME SerialInv, NEW r \in Submits, Commit(r), txn[r].mine # 0
  PROVE  Settled' /\ rows' = View(txn[r])
<1> DEFINE own == txn[r].own
           s == own.student
           mine == txn[r].mine
<1>1. pc[r] = "commit"
  BY DEF Commit
<1>2. OnTrack("commit", txn[r]) /\ own \in Event /\ own.id = r
  BY <1>1, SessionFacts
<1>3. own.judge \in panel
  BY <1>2 DEF OnTrack
<1> PICK V : V = View(txn[r])
  OBVIOUS
<1>4. rows' = V
  BY DEF Commit, VisibleRow, View
<1>5. events' = events \cup {own} /\ audit' = audit \cup {own} /\ panel' = panel
  BY DEF Commit, round
<1>6. own \notin audit
  BY <1>1, <1>2, DeductionsAssumption DEF SerialInv, LockInv
<1>7. audit' \ events' = audit \ events
  BY <1>5, <1>6
<1>8. /\ mine \in IdsOf(V) /\ V[mine].student = s
      /\ V[mine].score = PanelScoreOf(panel, Tallied(txn[r]))
      /\ RankedBy(V, RanksOf(V))
      /\ IdsOf(rows) \subseteq IdsOf(V)
      /\ \A id \in IdsOf(V) \ {mine} :
           /\ id \in IdsOf(rows) /\ V[id].student = rows[id].student
           /\ V[id].score = rows[id].score
           /\ V[id].student # s
  BY <1>1, CommittedView
<1>14. mine \in IdsOf(rows) => rows[mine].student = s
  <2>1. KeepsRows(r, "commit", txn[r])
    BY <1>1, SessionFacts
  <2> QED BY <1>8, <2>1 DEF KeepsRows, Past, Unwritten, Deciding, IdsOf
<1>9. OneEach(V)
  BY <1>8 DEF OneEach, SerialInv, Settled
<1>10. /\ Markers(events', s) = Markers(events, s) \cup {own.judge}
       /\ \A u : u # s => Markers(events', u) = Markers(events, u)
  <2> PICK e : e = own
    OBVIOUS
  <2>1. /\ Markers(events \cup {e}, e.student) = Markers(events, e.student) \cup {e.judge}
        /\ \A u : u # e.student => Markers(events \cup {e}, u) = Markers(events, u)
    BY DEF Markers
  <2> QED BY <1>5, <2>1
<1>11. ASSUME NEW u \in Students
       PROVE  /\ Markers(events', u) \subseteq panel
              /\ Markers(events', u) = panel => \E id \in IdsOf(V) : V[id].student = u
  <2>1. CASE u = s
    BY <1>3, <1>8, <1>10, <2>1 DEF SerialInv, Settled
  <2>2. CASE u # s
    <3>1. ASSUME Markers(events, u) = panel
          PROVE  \E id \in IdsOf(V) : V[id].student = u
      <4>1. PICK id \in IdsOf(rows) : rows[id].student = u
        BY <3>1 DEF SerialInv, Settled
      <4>2. id # mine
        BY <1>14, <2>2, <4>1
      <4> QED BY <1>8, <2>2, <4>1, <4>2
    <3> QED BY <1>10, <2>2, <3>1 DEF SerialInv, Settled
  <2> QED BY <2>1, <2>2
<1>12. ASSUME NEW id \in IdsOf(V), Intact(V[id].student)'
       PROVE  V[id].score = FreshScore(V[id].student)'
  <2>1. CASE id = mine
    BY <1>5, <1>8, <2>1 DEF FreshScore, Tallied, Marks
  <2>2. CASE id # mine
    <3>1. /\ id \in IdsOf(rows) /\ V[id].student = rows[id].student
          /\ V[id].score = rows[id].score /\ V[id].student # s
      BY <1>8, <2>2
    <3>2. Intact(rows[id].student)
      BY <1>4, <1>5, <1>7, <1>12, <3>1 DEF Intact
    <3>3. TallyOf(panel, events', rows[id].student) = TallyOf(panel, events, rows[id].student)
      BY <1>5, <3>1, TallyOfOthers
    <3>4. rows[id].score = FreshScore(rows[id].student)
      BY <3>1, <3>2 DEF SerialInv, Settled
    <3> QED BY <1>4, <1>5, <3>1, <3>3, <3>4 DEF FreshScore
  <2> QED BY <2>1, <2>2
<1>13. Settled'
  <2>1. IdsOf(rows)' = IdsOf(V) /\ OneEach(rows)' /\ RankedBy(rows, RanksOf(rows))'
    BY <1>4, <1>8, <1>9 DEF RankedBy, OneEach, RanksOf, IdsOf
  <2> QED BY <1>4, <1>5, <1>11, <1>12, <2>1 DEF Settled
<1> QED BY <1>4, <1>13

LEMMA SerialCommit ==
  ASSUME SerialInv, IInv', LockInv', NEW r \in Submits, Commit(r)
  PROVE  SerialInv'
<1>1. pc[r] = "commit" /\ r \in Requests /\ r \in InFlight /\ txn[r].own.id = r
  BY SessionFacts DEF Commit
<1>2. /\ pc'[r] = "done" /\ txn'[r] = Blank /\ board' = board
      /\ \A q \in Requests \ {r} : pc'[q] = pc[q] /\ txn'[q] = txn[q]
      /\ audit' = audit \cup {txn[r].own}
  BY <1>1 DEF Commit, Finish, Goto, SerialInv, IInv, TypeOK
<1>3. InFlight' = {}
  BY <1>1, <1>2 DEF SerialInv, InFlight
<1>4. Settled'
  BY CommitComputed, CommitUncomputed
<1>5. \A q \in Submits : ~Sent(q)'
  BY <1>3 DEF InFlight, Sent, Requests
<1>6. \A q \in Submits \ {r} : ~Sent(q)
  BY <1>1 DEF Sent, SerialInv, InFlight, Requests
<1>7. AllCommitted' => AllCommitted
  <2> SUFFICES ASSUME AllCommitted', NEW q \in Submits, pc[q] = "done"
               PROVE  \E e \in audit : e.id = q
    BY DEF AllCommitted
  <2>1. q # r
    BY <1>1
  <2>2. PICK e \in audit' : e.id = q
    BY <1>2, <2>1 DEF AllCommitted, Requests
  <2> QED BY <1>1, <1>2, <2>1, <2>2
<1>8. BoardInv'
  <2>1. CASE txn[r].mine = 0
    <3>1. rows' = rows /\ ~Sent(r)
      BY <2>1, CommitUncomputed DEF Sent
    <3> QED BY <1>2, <1>5, <1>6, <1>7, <3>1 DEF SerialInv, BoardInv, Shown, IdsOf
  <2>2. CASE txn[r].mine # 0
    <3>1. rows' = View(txn[r]) /\ Sent(r)
      BY <1>1, <2>2, CommitComputed DEF Sent
    <3>2. board = Shown(View(txn[r]))
      BY <3>1 DEF SerialInv, BoardInv
    <3> QED BY <1>2, <1>5, <3>1, <3>2 DEF BoardInv, Shown, IdsOf
  <2> QED BY <2>1, <2>2
<1> QED BY <1>3, <1>4, <1>8 DEF SerialInv, InFlight, Requests

-----------------------------------------------------------------------------
(* A deletion: the results of the student are no longer asked to be fresh, *)
(* and he may no longer be fully marked.                                   *)
LEMMA SerialUndo ==
  ASSUME SerialInv, IInv', LockInv', Concurrency <= 1, NEW u \in Undos,
         UndoBegin(u) \/ UndoCommit(u)
  PROVE  SerialInv'
<1>1. u \in Requests /\ u \notin Submits
  BY ScoringAssumption DEF Requests
<1>2. CASE UndoBegin(u)
  <2>1. InFlight = {}
    BY <1>2, RequestsFinite DEF SerialInv, UndoBegin
  <2>2. /\ pc'[u] = "undo" /\ txn'[u].own \in events
        /\ \A q \in Requests \ {u} : pc'[q] = pc[q] /\ txn'[q] = txn[q]
        /\ UNCHANGED <<round, store, board>>
    BY <1>1, <1>2 DEF UndoBegin, Goto, SerialInv, IInv, TypeOK, Txn
  <2>3. InFlight' = {u}
    BY <1>1, <2>1, <2>2 DEF InFlight
  <2>4. Settled'
    BY <2>2 DEF SerialInv, Settled, Intact, FreshScore, RankedBy, OneEach, RanksOf, IdsOf,
       round, store
  <2>5. AllCommitted' => AllCommitted
    BY <1>1, <2>2 DEF AllCommitted, Requests, store
  <2>6. \A q \in Submits : ~Sent(q) /\ ~Sent(q)'
    BY <1>1, <2>1, <2>3 DEF Sent, InFlight, Requests
  <2>7. BoardInv'
    BY <2>2, <2>5, <2>6 DEF SerialInv, BoardInv, Shown, IdsOf, store
  <2>8. \A x \in Undos : pc'[x] = "undo" => txn'[x].own \in events'
    BY <2>2, <2>3 DEF InFlight, Requests, store
  <2> QED BY <1>1, <2>3, <2>4, <2>7, <2>8 DEF SerialInv
<1>3. CASE UndoCommit(u)
  <2> PICK e : e = txn[u].own
    OBVIOUS
  <2>1. e \in events /\ e \in audit /\ e \in Event /\ u \in InFlight
    BY <1>1, <1>3 DEF SerialInv, UndoCommit, IInv, TypeOK, InFlight
  <2>2. /\ events' = events \ {e}
        /\ UNCHANGED <<panel, audit, rows, board>>
        /\ pc'[u] = "done"
        /\ \A q \in Requests \ {u} : pc'[q] = pc[q] /\ txn'[q] = txn[q]
    BY <1>1, <1>3 DEF UndoCommit, Finish, Goto, SerialInv, IInv, TypeOK, round
  <2>3. InFlight' = {}
    BY <2>1, <2>2 DEF SerialInv, InFlight
  <2>4. ASSUME NEW s \in Students
        PROVE  /\ Markers(events', s) \subseteq panel
               /\ Markers(events', s) = panel => \E id \in IdsOf(rows) : rows[id].student = s
    <3>1. Markers(events', s) \subseteq Markers(events, s) /\ Markers(events, s) \subseteq panel
      BY <2>2, MarkersMonotone DEF SerialInv, Settled
    <3> QED BY <3>1 DEF SerialInv, Settled
  <2>5. ASSUME NEW id \in IdsOf(rows), Intact(rows[id].student)'
        PROVE  rows[id].score = FreshScore(rows[id].student)'
    <3> PICK s : s = rows[id].student
      OBVIOUS
    <3>1. e.student # s
      BY <2>1, <2>2, <2>5 DEF Intact
    <3>2. Intact(s)
      BY <2>2, <2>5 DEF Intact
    <3>3. TallyOf(panel, events', s) = TallyOf(panel, events, s)
      BY <2>2, <3>1, TallyWithout
    <3> QED BY <2>2, <3>2, <3>3 DEF SerialInv, Settled, FreshScore
  <2>6. Settled'
    <3>1. IdsOf(rows)' = IdsOf(rows) /\ OneEach(rows)' /\ RankedBy(rows, RanksOf(rows))'
      BY <2>2 DEF SerialInv, Settled, RankedBy, OneEach, RanksOf, IdsOf
    <3> QED BY <2>2, <2>4, <2>5, <3>1 DEF Settled
  <2>7. \A q \in Submits : ~Sent(q) /\ ~Sent(q)'
    BY <1>1, <2>1, <2>3 DEF Sent, SerialInv, InFlight, Requests
  <2>8. AllCommitted' => AllCommitted
    BY <1>1, <2>2 DEF AllCommitted, Requests
  <2>9. BoardInv'
    BY <2>2, <2>7, <2>8 DEF SerialInv, BoardInv, Shown, IdsOf
  <2> QED BY <2>3, <2>6, <2>9 DEF SerialInv, InFlight, Requests
<1> QED BY <1>2, <1>3

(* A judge who joins the panel has marked nobody, and a round that is      *)
(* completed keeps what it has.                                            *)
LEMMA SerialOther ==
  ASSUME SerialInv, IInv', LockInv', Concurrency <= 1,
         \/ \E j \in Judges : AssignJudge(j) \/ RefreshToken(j)
         \/ CompleteRound \/ UNCHANGED vars
  PROVE  SerialInv'
<1>1. UNCHANGED <<events, audit, rows, board, pc, txn>>
  BY DEF AssignJudge, RefreshToken, CompleteRound, vars, store
<1>2. /\ InFlight' = InFlight
      /\ \A r \in Submits : pc'[r] = pc[r] /\ txn'[r] = txn[r] /\ (Sent(r)' <=> Sent(r))
      /\ AllCommitted' <=> AllCommitted
  BY <1>1 DEF InFlight, Sent, AllCommitted
<1>3. BoardInv'
  BY <1>1, <1>2 DEF SerialInv, BoardInv, Shown, IdsOf, View
<1>4. CASE UNCHANGED panel
  <2>1. Settled'
    BY <1>1, <1>4
       DEF SerialInv, Settled, Intact, FreshScore, RankedBy, OneEach, RanksOf, IdsOf
  <2>2. token \subseteq token' /\ (status' = status \/ InFlight = {})
    BY <1>4, RequestsFinite
       DEF SerialInv, AssignJudge, RefreshToken, CompleteRound, vars
  <2>3. ASSUME NEW r \in Submits \cap InFlight PROVE OnTrack(pc[r], txn[r])'
    <3>1. OnTrack(pc[r], txn[r]) /\ pc'[r] = pc[r] /\ txn'[r] = txn[r]
      BY <1>1 DEF SerialInv
    <3>2. OnTrack(pc'[r], txn'[r])
      BY <3>1
    <3> QED BY <1>1, <1>4, <2>2, <2>3, <3>2
            DEF OnTrack, Decided, Upserted, Complete, Tallied, Marks, View,
                IdsOf, RanksLeft, RanksOf, RankedBy
  <2> QED BY <1>1, <1>2, <1>3, <2>1, <2>3 DEF SerialInv
<1>5. ASSUME NEW j \in Judges, AssignJudge(j) PROVE SerialInv'
  <2>1. InFlight = {} /\ panel' = panel \cup {j} /\ j \notin panel
    BY <1>5, RequestsFinite DEF SerialInv, AssignJudge
  <2>2. \A s \in Students : Markers(events', s) \subseteq panel
    BY <1>1 DEF SerialInv, Settled
  <2>3. panel' # StartPanel
    BY <2>1 DEF SerialInv, IInv
  <2>4. Settled'
    <3>1. IdsOf(rows)' = IdsOf(rows) /\ OneEach(rows)' /\ RankedBy(rows, RanksOf(rows))'
      BY <1>1 DEF SerialInv, Settled, RankedBy, OneEach, RanksOf, IdsOf
    <3>2. \A s \in Students : Markers(events', s) # panel'
      BY <2>1, <2>2
    <3> QED BY <1>1, <2>1, <2>2, <2>3, <3>1, <3>2 DEF Settled, Intact
  <2> QED BY <1>1, <1>2, <1>3, <2>1, <2>4 DEF SerialInv, InFlight, Requests
<1> QED BY <1>4, <1>5 DEF RefreshToken, CompleteRound, vars

LEMMA SerialInitially == Concurrency <= 1 /\ Init => SerialInv
<1> SUFFICES ASSUME Concurrency <= 1, Init PROVE SerialInv
  OBVIOUS
<1>1. PriorIsSettled
  BY SerialAssumption
<1>2. IdsOf(rows) = PriorIds
  BY DEF Init, IdsOf, PriorIds
<1>3. OneEach(rows) /\ RankedBy(rows, RanksOf(rows))
  BY <1>1, <1>2 DEF PriorIsSettled, OneEach, RankedBy, RanksOf, Init
<1>4. \A s \in Students :
        /\ Markers(events, s) \subseteq panel
        /\ Markers(events, s) = panel => \E id \in IdsOf(rows) : rows[id].student = s
  BY <1>1, <1>2, PriorAssumption DEF PriorIsSettled, Init, Markers
<1>5. \A id \in IdsOf(rows) : rows[id].score = FreshScore(rows[id].student)
  BY <1>1, <1>2 DEF PriorIsSettled, Init, FreshScore
<1>6. InFlight = {}
  BY DEF Init, InFlight
<1>7. BoardInv /\ \A u \in Undos : pc[u] # "undo"
  BY DEF Init, BoardInv, Sent, Requests
<1> QED BY <1>3, <1>4, <1>5, <1>6, <1>7, Initially, LockInitially DEF SerialInv, Settled

LEMMA SerialInductive ==
  ASSUME Concurrency <= 1, SerialInv, [Next]_vars PROVE SerialInv'
<1>1. IInv' /\ LockInv'
  BY Inductive, LockInductive DEF SerialInv
<1>2. ASSUME NEW r \in Submits, SubmitBegin(r) PROVE SerialInv'
  BY <1>1, <1>2, SerialBegin
<1>3. ASSUME NEW r \in Submits, SubmitStep(r) PROVE SerialInv'
  BY <1>1, <1>3, SerialReadAssigned, SerialReadSubmitted, SerialReadPanel, SerialTally,
     SerialFind, SerialInsert, SerialUpdate, SerialReadRanks, SerialWriteRank,
     SerialBroadcast, SerialCommit DEF SubmitStep
<1>4. ASSUME NEW r \in Submits, DeadlockVictim(r) PROVE SerialInv'
  <2>1. Rollback(r) /\ Blockers(r) # {} /\ r \in Requests
    BY <1>4 DEF DeadlockVictim, Deadlocked, Requests
  <2>2. r \in InFlight
    BY <2>1 DEF InFlight, Blockers, Awaited
  <2> QED BY <1>1, <2>1, <2>2, SerialRollback
<1>5. ASSUME NEW r \in Requests, Fail(r) PROVE SerialInv'
  BY <1>1, <1>5, SerialRollback DEF Fail
<1> QED BY <1>1, <1>2, <1>3, <1>4, <1>5, SerialUndo, SerialOther DEF Next

THEOREM SerialInvariance ==
  ASSUME Concurrency <= 1
  PROVE  Spec => []SerialInv
<1>1. Init => SerialInv
  BY SerialInitially
<1>2. SerialInv /\ [Next]_vars => SerialInv'
  BY SerialInductive
<1> QED BY <1>1, <1>2, PTL DEF Spec

(* One request at a time, a student has one result.                        *)
THEOREM OneResult ==
  ASSUME Concurrency <= 1
  PROVE  Spec => []OneResultPerStudent
<1>1. SerialInv => OneResultPerStudent
  BY DEF SerialInv, Settled, OneEach, OneResultPerStudent, Results, IdsOf
<1> QED BY <1>1, SerialInvariance, PTL

(* One request at a time, the submission that completes the panel's marks  *)
(* leaves a result.                                                        *)
THEOREM LastJudgeHasTriggered ==
  ASSUME Concurrency <= 1
  PROVE  Spec => []LastJudgeTriggers
<1>1. SerialInv => LastJudgeTriggers
  BY DEF SerialInv, Settled, LastJudgeTriggers, Results, IdsOf
<1> QED BY <1>1, SerialInvariance, PTL

(* One request at a time, a result is the panel score of the deductions on *)
(* record, as long as none was deleted and no judge joined.                *)
THEOREM FreshScores ==
  ASSUME Concurrency <= 1
  PROVE  Spec => []ScoresAreFresh
<1>1. SerialInv => ScoresAreFresh
  BY DEF SerialInv, Settled, Intact, FreshScore, ScoresAreFresh, Results, IdsOf
<1> QED BY <1>1, SerialInvariance, PTL

(* One request at a time, the committed ranks rank the committed scores.   *)
THEOREM RanksAgree ==
  ASSUME Concurrency <= 1
  PROVE  Spec => []RanksAgreeWithScores
<1>1. SerialInv => RanksAgreeWithScores
  BY DEF SerialInv, Settled, RankedBy, RanksOf, RanksAgreeWithScores, Results, IdsOf
<1> QED BY <1>1, SerialInvariance, PTL

(* One request at a time, the last leaderboard shows the committed results *)
(* as long as no submission has failed.                                    *)
THEOREM BoardIsTrue ==
  ASSUME Concurrency <= 1
  PROVE  Spec => []BoardShowsResults
<1>1. SerialInv => BoardShowsResults
  <2> SUFFICES ASSUME SerialInv, Quiet, AllCommitted, board # {}
               PROVE  board = {rows[id] : id \in Results}
    BY DEF BoardShowsResults
  <2>1. \A r \in Submits : ~Sent(r)
    BY DEF Quiet, InFlight, Sent, Requests
  <2> QED BY <2>1 DEF SerialInv, BoardInv, Shown, Results, IdsOf
<1> QED BY <1>1, SerialInvariance, PTL

-----------------------------------------------------------------------------
(* The refinement.  JudgedRound comes with its own copy of the operators   *)
(* on deductions, scores and ranks.                                        *)
LEMMA PromiseOperators ==
  /\ \A E, s : Promise!Markers(E, s) = Markers(E, s)
  /\ \A P, E, s : Promise!PanelScoreOf(P, Promise!TallyOf(P, E, s))
                    = PanelScoreOf(P, TallyOf(P, E, s))
  /\ \A s : Promise!GroupOf(s) = GroupOf(s)
  /\ \A D, sc, gr, f : Promise!IsRanking(D, sc, gr, f) <=> IsRanking(D, sc, gr, f)
  /\ Promise!Result = Result
<1>0. ASSUME NEW S PROVE Promise!Cardinality(S) = Cardinality(S)
  BY DEF Cardinality, Promise!Cardinality
<1>1. \A E, s : Promise!Markers(E, s) = Markers(E, s)
  BY DEF Markers, Promise!Markers
<1>2. ASSUME NEW E PROVE Promise!JudgeScore(E) = JudgeScore(E)
  BY <1>0 DEF JudgeScore, Promise!JudgeScore, Kept, Promise!Kept, Deducted, Promise!Deducted
<1>3. \A P, E, s : Promise!TallyOf(P, E, s) = TallyOf(P, E, s)
  BY <1>2 DEF TallyOf, Promise!TallyOf, MarksBy, Promise!MarksBy, Unread, Promise!Unread
<1>4. ASSUME NEW P, NEW sc PROVE Promise!PanelScoreOf(P, sc) = PanelScoreOf(P, sc)
  BY <1>0 DEF PanelScoreOf, Promise!PanelScoreOf, TwiceMedian, Promise!TwiceMedian,
     KthSmallest, Promise!KthSmallest, ScoreSum, Promise!ScoreSum, FullMarks,
     Promise!FullMarks
<1>5. \A s : Promise!GroupOf(s) = GroupOf(s)
  BY DEF GroupOf, Promise!GroupOf
<1>6. ASSUME NEW D, NEW sc, NEW gr, NEW f
      PROVE  Promise!IsRanking(D, sc, gr, f) <=> IsRanking(D, sc, gr, f)
  BY <1>0 DEF IsRanking, Promise!IsRanking
<1>7. Promise!Result = Result
  BY DEF Result, Promise!Result
<1> QED BY <1>1, <1>3, <1>4, <1>5, <1>6, <1>7

(* A student's abstract result is his row.                                 *)
HasRow(R, s) == \E id \in IdsOf(R) : R[id].student = s
LEMMA ResultOfRow ==
  ASSUME NEW R, OneEach(R), NEW id \in IdsOf(R)
  PROVE  ResultOf(R, R[id].student) = [score |-> R[id].score, rank |-> R[id].rank]
<1> DEFINE k == CHOOSE x \in RowIds : R[x] # Absent /\ R[x].student = R[id].student
<1>1. k \in IdsOf(R) /\ R[k].student = R[id].student
  BY DEF IdsOf
<1>2. k = id
  BY <1>1 DEF OneEach
<1> HIDE DEF k
<1>3. \E x \in RowIds : R[x] # Absent /\ R[x].student = R[id].student
  BY DEF IdsOf
<1> QED BY <1>2, <1>3 DEF ResultOf, k

LEMMA ResultType ==
  ASSUME NEW R \in [RowIds -> Row \cup {Absent}], OneEach(R), NEW s
  PROVE  /\ ResultOf(R, s) \in Result \cup {Absent}
         /\ ResultOf(R, s) # Absent <=> HasRow(R, s)
<1>1. CASE HasRow(R, s)
  <2>1. PICK id \in IdsOf(R) : R[id].student = s
    BY <1>1 DEF HasRow
  <2>2. R[id].score \in Nat /\ R[id].rank \in Nat
    BY <2>1 DEF IdsOf, Row
  <2>3. ResultOf(R, s) = [score |-> R[id].score, rank |-> R[id].rank]
    BY <2>1, ResultOfRow
  <2>4. ResultOf(R, s) \in Result
    BY <2>2, <2>3 DEF Result
  <2> QED BY <1>1, <2>4, DeductionsAssumption
<1>2. CASE ~HasRow(R, s)
  BY <1>2 DEF HasRow, IdsOf, ResultOf
<1> QED BY <1>1, <1>2

(* The ranking of the rows is a ranking of the students: every group has   *)
(* as many students with a result as it has rows.                          *)
LEMMA RanksOfStudents ==
  ASSUME NEW R \in [RowIds -> Row \cup {Absent}], OneEach(R), RankedBy(R, RanksOf(R)),
         NEW D, D = {s \in Students : HasRow(R, s)}
  PROVE  /\ IsRanking(D, [s \in D |-> ResultOf(R, s).score], [s \in D |-> GroupOf(s)],
                      [s \in D |-> ResultOf(R, s).rank])
         /\ \A s \in D : ResultOf(R, s).rank \in 1..Cardinality(Students)
<1> DEFINE ids == IdsOf(R)
           sc == [id \in ids |-> R[id].score]
           gr == [id \in ids |-> GroupOf(R[id].student)]
<1>1. \A id \in ids : R[id] \in Row /\ R[id].student \in D
  BY DEF IdsOf, HasRow, Row
<1>2. ASSUME NEW id \in ids
      PROVE  /\ ResultOf(R, R[id].student).score = R[id].score
             /\ ResultOf(R, R[id].student).rank = R[id].rank
  <2>1. ResultOf(R, R[id].student) = [score |-> R[id].score, rank |-> R[id].rank]
    BY ResultOfRow
  <2> QED BY <2>1
<1>3. /\ \A a \in ids : R[a].rank \in 1..Cardinality({b \in ids : gr[a] = gr[b]})
      /\ \A a, b \in ids : a # b /\ gr[a] = gr[b] =>
           R[a].rank # R[b].rank /\ (sc[a] > sc[b] => R[a].rank < R[b].rank)
  BY DEF RankedBy, IsRanking, RanksOf
<1>4. ASSUME NEW a \in ids
      PROVE  LET G == {t \in D : GroupOf(R[a].student) = GroupOf(t)}
             IN  /\ R[a].rank \in 1..Cardinality(G)
                 /\ R[a].rank \in 1..Cardinality(Students)
  <2> DEFINE G == {t \in D : GroupOf(R[a].student) = GroupOf(t)}
             B == {b \in ids : gr[a] = gr[b]}
             f == [b \in B |-> R[b].student]
  <2>1. IsFiniteSet(Students)
    BY DeductionsAssumption
  <2>2. G \in SUBSET Students
    OBVIOUS
  <2>3. IsFiniteSet(G) /\ Cardinality(G) \in Nat /\ Cardinality(G) <= Cardinality(Students)
        /\ Cardinality(Students) \in Nat
    <3> HIDE DEF G
    <3> QED BY <2>1, <2>2, FS_Subset, FS_CardinalityType
  <2>4. f \in Injection(B, G)
    <3>1. \A b \in B : R[b].student \in G
      BY <1>1
    <3>2. \A b, c \in B : R[b].student = R[c].student => b = c
      BY DEF OneEach
    <3> HIDE DEF B, G
    <3> QED BY <3>1, <3>2, Fun_IsInj
  <2>5. Cardinality(B) <= Cardinality(G) /\ Cardinality(B) \in Nat
    <3> HIDE DEF B, G, f
    <3>1. IsFiniteSet(B) /\ Cardinality(B) <= Cardinality(G)
      BY <2>3, <2>4, FS_Injection
    <3> QED BY <3>1, FS_CardinalityType
  <2>6. R[a].rank \in 1..Cardinality(B)
    BY <1>3
  <2> HIDE DEF B, G
  <2> QED BY <2>3, <2>5, <2>6 DEF G
<1>5. \A s \in D : \E id \in ids : R[id].student = s
  BY DEF HasRow
<1>6. ASSUME NEW s \in D
      PROVE  /\ ResultOf(R, s).rank
                  \in 1..Cardinality({t \in D : GroupOf(s) = GroupOf(t)})
             /\ ResultOf(R, s).rank \in 1..Cardinality(Students)
  <2>1. PICK a \in ids : R[a].student = s
    BY <1>5
  <2> QED BY <1>2, <1>4, <2>1
<1>7. ASSUME NEW s \in D, NEW t \in D, s # t, GroupOf(s) = GroupOf(t)
      PROVE  /\ ResultOf(R, s).rank # ResultOf(R, t).rank
             /\ ResultOf(R, s).score > ResultOf(R, t).score =>
                  ResultOf(R, s).rank < ResultOf(R, t).rank
  <2>1. PICK a \in ids : R[a].student = s
    BY <1>5
  <2>2. PICK b \in ids : R[b].student = t
    BY <1>5
  <2> QED BY <1>2, <1>3, <1>7, <2>1, <2>2
<1>8. \A s \in D : {t \in D : [x \in D |-> GroupOf(x)][s] = [x \in D |-> GroupOf(x)][t]}
                     = {t \in D : GroupOf(s) = GroupOf(t)}
  OBVIOUS
<1> QED BY <1>6, <1>7, <1>8 DEF IsRanking

(* Who has a result, on both levels.                                       *)
LEMMA RankedStudents ==
  ASSUME SerialInv
  PROVE  /\ rows \in [RowIds -> Row \cup {Absent}] /\ OneEach(rows)
         /\ Promise!Ranked = {s \in Students : HasRow(rows, s)}
         /\ \A s \in Students : ResultOf(rows, s) # Absent <=> HasRow(rows, s)
<1>1. rows \in [RowIds -> Row \cup {Absent}] /\ OneEach(rows)
  BY DEF SerialInv, IInv, TypeOK, Settled
<1>2. \A s \in Students : ResultOf(rows, s) # Absent <=> HasRow(rows, s)
  BY <1>1, ResultType
<1> QED BY <1>1, <1>2 DEF Promise!Ranked

LEMMA PromiseInitially == Concurrency <= 1 /\ Init => Promise!Init
<1> SUFFICES ASSUME Concurrency <= 1, Init PROVE Promise!Init
  OBVIOUS
<1> PICK A : A = [s \in Students |-> ResultOf(rows, s)]
  OBVIOUS
<1> PICK D : D = {s \in Students : HasRow(rows, s)}
  OBVIOUS
<1>1. SerialInv /\ PriorIsSettled
  BY SerialInitially, SerialAssumption
<1>2. /\ rows \in [RowIds -> Row \cup {Absent}] /\ OneEach(rows)
      /\ Promise!Ranked = D /\ RankedBy(rows, RanksOf(rows))
  BY <1>1, RankedStudents DEF SerialInv, Settled
<1>3. A \in [Students -> Promise!Result \cup {Absent}]
  <2>1. \A s \in Students : ResultOf(rows, s) \in Result \cup {Absent}
    BY <1>2, ResultType
  <2> QED BY <2>1, PromiseOperators
<1>4. ASSUME NEW s \in Students
      PROVE  /\ A[s] # Absent => StartPanel \subseteq Promise!Markers(Prior, s)
             /\ Promise!Markers(Prior, s) = StartPanel => A[s] # Absent
  <2>1. A[s] # Absent <=> HasRow(rows, s)
    BY <1>1, RankedStudents
  <2>2. HasRow(rows, s) => StartPanel \subseteq Markers(Prior, s)
    BY PriorRowsAssumption DEF HasRow, IdsOf, Init
  <2>3. Markers(Prior, s) = StartPanel => HasRow(rows, s)
    BY <1>1 DEF PriorIsSettled, PriorIds, HasRow, IdsOf, Init
  <2> QED BY <2>1, <2>2, <2>3, PromiseOperators
<1>5. Promise!IsRanking(D, [s \in D |-> A[s].score], [s \in D |-> Promise!GroupOf(s)],
                        [s \in D |-> A[s].rank])
  <2>1. IsRanking(D, [s \in D |-> ResultOf(rows, s).score], [s \in D |-> GroupOf(s)],
                  [s \in D |-> ResultOf(rows, s).rank])
    BY <1>2, RanksOfStudents
  <2>2. /\ [s \in D |-> A[s].score] = [s \in D |-> ResultOf(rows, s).score]
        /\ [s \in D |-> A[s].rank] = [s \in D |-> ResultOf(rows, s).rank]
        /\ [s \in D |-> Promise!GroupOf(s)] = [s \in D |-> GroupOf(s)]
    BY PromiseOperators
  <2> QED BY <2>1, <2>2, PromiseOperators
<1>6. Promise!SettledResults
  BY <1>2, <1>3, <1>4, <1>5 DEF Promise!SettledResults
<1> QED BY <1>6 DEF Init, Promise!Init

(* The commit of a computed result is the abstract finalisation.           *)
LEMMA CommitFinalizes ==
  ASSUME SerialInv, SerialInv', NEW r \in Submits, Commit(r), txn[r].mine # 0
  PROVE  Promise!Finalize(txn[r].own.student, Marks(txn[r]))
<1> PICK s, E, mine, A, B, V :
      /\ s = txn[r].own.student /\ E = Marks(txn[r]) /\ mine = txn[r].mine
      /\ A = [x \in Students |-> ResultOf(rows, x)]
      /\ B = [x \in Students |-> ResultOf(rows', x)]
      /\ V = rows'
  OBVIOUS
<1> PICK R : R = {x \in Students : HasRow(V, x)}
  OBVIOUS
<1>1. pc[r] = "commit" /\ V = View(txn[r]) /\ s \in Students
  BY CommitComputed, SessionFacts DEF Commit, Event
<1>2. /\ mine \in IdsOf(V) /\ V[mine].student = s
      /\ V[mine].score = PanelScoreOf(panel, TallyOf(panel, E, s))
      /\ IdsOf(rows) \subseteq IdsOf(V)
      /\ \A id \in IdsOf(V) \ {mine} :
           /\ id \in IdsOf(rows) /\ V[id].student = rows[id].student
           /\ V[id].score = rows[id].score /\ V[id].student # s
  BY <1>1, CommittedView DEF Tallied
<1>3. V \in [RowIds -> Row \cup {Absent}] /\ OneEach(V) /\ RankedBy(V, RanksOf(V))
  BY DEF SerialInv, IInv, TypeOK, Settled, OneEach, RankedBy, RanksOf, IdsOf
<1>4. rows \in [RowIds -> Row \cup {Absent}] /\ OneEach(rows)
  BY RankedStudents
<1>5. mine \in IdsOf(rows) => rows[mine].student = s
  <2>1. KeepsRows(r, "commit", txn[r])
    BY <1>1, SessionFacts
  <2> QED BY <1>1, <1>2, <2>1
          DEF KeepsRows, Past, Unwritten, Deciding, IdsOf, View
<1>6. /\ Promise!Ranked = {x \in Students : HasRow(rows, x)}
      /\ R = Promise!Ranked \cup {s}
  <2>1. Promise!Ranked = {x \in Students : HasRow(rows, x)}
    BY RankedStudents
  <2>2. \A x \in Students : x # s => (HasRow(V, x) <=> HasRow(rows, x))
    BY <1>2, <1>5 DEF HasRow
  <2>3. HasRow(V, s)
    BY <1>2 DEF HasRow
  <2> QED BY <1>1, <2>1, <2>2, <2>3
<1>7. ASSUME NEW x \in R
      PROVE  /\ ResultOf(V, x) = [score |-> ResultOf(V, x).score, rank |-> ResultOf(V, x).rank]
             /\ ResultOf(V, x).score = IF x = s THEN PanelScoreOf(panel, TallyOf(panel, E, s))
                                       ELSE A[x].score
  <2>1. PICK id \in IdsOf(V) : V[id].student = x
    BY DEF HasRow
  <2>2. ResultOf(V, x) = [score |-> V[id].score, rank |-> V[id].rank]
    BY <1>3, <2>1, ResultOfRow
  <2>3. CASE x = s
    BY <1>2, <2>1, <2>2, <2>3
  <2>4. CASE x # s
    <3>1. id \in IdsOf(rows) /\ rows[id].student = x /\ rows[id].score = V[id].score
      BY <1>2, <2>1, <2>4
    <3>2. ResultOf(rows, x) = [score |-> rows[id].score, rank |-> rows[id].rank]
      BY <1>4, <3>1, ResultOfRow
    <3> QED BY <2>2, <2>4, <3>1, <3>2
  <2> QED BY <2>3, <2>4
<1>8. \A x \in Students \ R : ResultOf(V, x) = Absent
  BY <1>3, ResultType
<1>9. /\ IsRanking(R, [x \in R |-> ResultOf(V, x).score], [x \in R |-> GroupOf(x)],
                   [x \in R |-> ResultOf(V, x).rank])
      /\ \A x \in R : ResultOf(V, x).rank \in 1..Cardinality(Students)
  BY <1>3, RanksOfStudents
<1> PICK f, score :
      /\ f = [x \in R |-> ResultOf(V, x).rank]
      /\ score = [x \in R |-> IF x = s
                              THEN Promise!PanelScoreOf(panel, Promise!TallyOf(panel, E, s))
                              ELSE A[x].score]
  OBVIOUS
<1>10. score = [x \in R |-> ResultOf(V, x).score]
  BY <1>7, PromiseOperators
<1>11. f \in [R -> 1..Promise!Cardinality(Students)]
  <2>1. Promise!Cardinality(Students) = Cardinality(Students)
    BY DEF Cardinality, Promise!Cardinality
  <2> QED BY <1>9, <2>1
<1>12. Promise!IsRanking(R, score, [x \in R |-> Promise!GroupOf(x)], f)
  <2>1. [x \in R |-> Promise!GroupOf(x)] = [x \in R |-> GroupOf(x)]
    BY PromiseOperators
  <2> QED BY <1>9, <1>10, <2>1, PromiseOperators
<1>13. B = [x \in Students |-> IF x \in R THEN [score |-> score[x], rank |-> f[x]]
                               ELSE Absent]
  BY <1>7, <1>8, <1>10
<1>14. score = [x \in Promise!Ranked \cup {s} |->
                  IF x = s THEN Promise!PanelScoreOf(panel, Promise!TallyOf(panel, E, s))
                  ELSE [y \in Students |-> ResultOf(rows, y)][x].score]
  BY <1>6
<1>15. [x \in Students |-> ResultOf(rows, x)]' = B
  OBVIOUS
<1>16. Promise!Finalize(s, E)
  <2> DEFINE RR == Promise!Ranked \cup {s}
             sc == [t \in RR |->
                      IF t = s THEN Promise!PanelScoreOf(panel, Promise!TallyOf(panel, E, s))
                      ELSE [x \in Students |-> ResultOf(rows, x)][t].score]
  <2>1. RR = R /\ sc = score
    BY <1>6, <1>14
  <2> HIDE DEF RR, sc
  <2>2. \E g \in [RR -> 1..Promise!Cardinality(Students)] :
          /\ Promise!IsRanking(RR, sc, [t \in RR |-> Promise!GroupOf(t)], g)
          /\ [x \in Students |-> ResultOf(rows, x)]'
               = [t \in Students |-> IF t \in RR THEN [score |-> sc[t], rank |-> g[t]]
                                     ELSE Absent]
    <3>1. f \in [RR -> 1..Promise!Cardinality(Students)]
      BY <1>11, <2>1
    <3>2. Promise!IsRanking(RR, sc, [t \in RR |-> Promise!GroupOf(t)], f)
      BY <1>12, <2>1
    <3>3. [x \in Students |-> ResultOf(rows, x)]'
            = [t \in Students |-> IF t \in RR THEN [score |-> sc[t], rank |-> f[t]]
                                  ELSE Absent]
      BY <1>13, <1>15, <2>1
    <3> QED BY <3>1, <3>2, <3>3
  <2> QED BY <2>2 DEF Promise!Finalize, RR, sc
<1> QED BY <1>16

LEMMA SubmitOfEvent ==
  ASSUME NEW e \in Event, e.id \in Submits, Promise!Submit(e) PROVE Promise!Next
<1>1. e = [id |-> e.id, judge |-> e.judge, student |-> e.student, crit |-> e.crit,
           amount |-> e.amount]
  BY DEF Event
<1>2. e.judge \in Judges /\ e.student \in Students /\ e.crit \in Crits /\ e.amount \in Amounts
  BY DEF Event
<1>3. \E i \in Submits, j \in Judges, s \in Students, c \in Crits, a \in Amounts :
        Promise!Submit([id |-> i, judge |-> j, student |-> s, crit |-> c, amount |-> a])
  BY <1>1, <1>2
<1> QED BY <1>3 DEF Promise!Next

LEMMA CommitSubmits ==
  ASSUME SerialInv, SerialInv', NEW r \in Submits, Commit(r) PROVE Promise!Next
<1> PICK e : e = txn[r].own
  OBVIOUS
<1>1. pc[r] = "commit" /\ e \in Event /\ e.id = r /\ OnTrack("commit", txn[r])
  BY SessionFacts DEF Commit
<1>2. status = "ACTIVE" /\ e.judge \in panel \cap token
  BY <1>1 DEF OnTrack
<1>3. \A x \in audit : x.id # e.id
  BY <1>1, DeductionsAssumption DEF SerialInv, LockInv
<1>4. /\ events' = events \cup {e} /\ audit' = audit \cup {e}
      /\ UNCHANGED <<status, panel, token>>
  BY DEF Commit, round
<1>5. Complete(txn[r]) <=> txn[r].mine # 0
  BY <1>1 DEF OnTrack, Upserted, Unwritten, Deciding
<1>6. Promise!AllSubmitted(e) <=> Complete(txn[r])
  BY PromiseOperators DEF Promise!AllSubmitted, Complete, Marks
<1>7. CASE txn[r].mine # 0
  <2>1. Promise!Finalize(e.student, events \cup {e})
    BY <1>7, CommitFinalizes DEF Marks
  <2>2. Promise!Submit(e)
    BY <1>2, <1>3, <1>4, <1>5, <1>6, <1>7, <2>1 DEF Promise!Submit
  <2> QED BY <1>1, <2>2, SubmitOfEvent
<1>8. CASE txn[r].mine = 0
  <2>1. UNCHANGED [s \in Students |-> ResultOf(rows, s)]
    BY <1>8, CommitUncomputed
  <2>2. Promise!Submit(e)
    BY <1>2, <1>3, <1>4, <1>5, <1>6, <1>8, <2>1 DEF Promise!Submit
  <2> QED BY <1>1, <2>2, SubmitOfEvent
<1> QED BY <1>7, <1>8

(* Every other step of a request is invisible, but for the commit of a     *)
(* deletion.                                                               *)
LEMMA PromiseStep ==
  ASSUME Concurrency <= 1, SerialInv, SerialInv', [Next]_vars
  PROVE  [Promise!Next]_(Promise!vars)
<1>1. ASSUME NEW r \in Submits, Commit(r) PROVE Promise!Next
  BY <1>1, CommitSubmits
<1>2. ASSUME UNCHANGED <<round, store>> PROVE UNCHANGED Promise!vars
  BY <1>2 DEF round, store, Promise!vars
<1>3. ASSUME NEW u \in Undos, UndoCommit(u) PROVE Promise!Next
  <2>1. txn[u].own \in events
    BY <1>3 DEF SerialInv, UndoCommit
  <2>2. Promise!Undo(txn[u].own)
    BY <1>3 DEF UndoCommit, Promise!Undo, round
  <2> QED BY <2>1, <2>2 DEF Promise!Next
<1>4. ASSUME NEW j \in Judges, AssignJudge(j) \/ RefreshToken(j) PROVE Promise!Next
  <2>1. Promise!AssignJudge(j) \/ Promise!RefreshToken(j)
    BY <1>4 DEF AssignJudge, RefreshToken, Promise!AssignJudge, Promise!RefreshToken, store
  <2> QED BY <2>1 DEF Promise!Next
<1>5. ASSUME CompleteRound PROVE Promise!Next
  BY <1>5 DEF CompleteRound, Promise!CompleteRound, Promise!Next, store
<1>6. ASSUME NEW r \in Submits, SubmitBegin(r) \/ SubmitStep(r), ~Commit(r)
      PROVE  UNCHANGED <<round, store>>
  BY <1>6 DEF SubmitBegin, SubmitStep, ReadAssigned, ReadSubmitted, ReadPanel, TallyJudge,
     FindResult, InsertResult, UpdateResult, ReadRanks, WriteRank, Broadcast, Rollback
<1>7. ASSUME \/ \E r \in Submits : DeadlockVictim(r)
             \/ \E r \in Requests : Fail(r)
             \/ \E u \in Undos : UndoBegin(u)
             \/ UNCHANGED vars
      PROVE  UNCHANGED <<round, store>>
  BY <1>7 DEF DeadlockVictim, Fail, Rollback, UndoBegin, vars, round, store
<1> QED BY <1>1, <1>2, <1>3, <1>4, <1>5, <1>6, <1>7 DEF Next

(* One request at a time, the statements of the API implement the promise  *)
(* of JudgedRound: marks take effect at once, with the result they lead to *)
(* and a ranking of all results.                                           *)
THEOREM Refinement ==
  ASSUME Concurrency <= 1
  PROVE  Spec => ImplementsPromise
<1>1. Init => Promise!Init
  BY PromiseInitially
<1>2. SerialInv /\ SerialInv' /\ [Next]_vars => [Promise!Next]_(Promise!vars)
  BY PromiseStep
<1> QED BY <1>1, <1>2, SerialInvariance, PTL DEF Spec, Promise!Spec, ImplementsPromise
==============================================================================
