------------------------------- MODULE Scoring -------------------------------
(***************************************************************************)
(* Deductions and results of one round that is being judged.               *)
(*                                                                         *)
(* Every request is one coroutine with one database session, and so one    *)
(* PostgreSQL transaction at the default READ COMMITTED level: each SELECT *)
(* sees what is committed when it runs plus the session's own writes, an   *)
(* UPDATE waits for the transaction that holds the row, and nothing of the *)
(* session is visible to others before its COMMIT.  Requests interleave at *)
(* every await, that is between any two statements.                        *)
(*                                                                         *)
(*   POST /scoring/deductions          SubmitBegin .. Commit               *)
(*   DELETE /scoring/deductions/{id}   UndoBegin, UndoCommit               *)
(*   POST /rounds/{id}/judges          AssignJudge                         *)
(*   POST /rounds/{id}/complete        CompleteRound                       *)
(*   POST /auth/staff/login, refresh   RefreshToken                        *)
(*                                                                         *)
(* A request that a check refuses (403, 404, 409) changes nothing and is   *)
(* not a step here.  consistency_flagged and computed_at are left out of a *)
(* result: they are written with final_score and read by nobody here.      *)
(***************************************************************************)
EXTENDS Deductions

CONSTANTS
  PriorRows,    \* the results the deductions already made have led to
  Undos,        \* one id for each deletion of a deduction
  Concurrency,  \* bound on the requests in flight
  MaxRows       \* bound on the ids the round_results sequence hands out

RowIds == 1..MaxRows
Row == [student: Students, score: Nat, rank: Nat]      \* rank 0 is NULL
Requests == Submits \cup Undos

ASSUME ScoringAssumption ==
  /\ IsFiniteSet(Undos) /\ Submits \cap Undos = {}
  /\ MaxRows \in Nat /\ Concurrency \in Nat
  /\ Absent \notin Row
ASSUME PriorRowsAssumption ==
  /\ PriorRows \in [RowIds -> Row \cup {Absent}]
  /\ \A id \in RowIds : PriorRows[id] # Absent =>
       /\ StartPanel \subseteq Markers(Prior, PriorRows[id].student)
       /\ PriorRows[id].rank # 0
       /\ \A k \in 1..id : PriorRows[k] # Absent

VARIABLES
  status,   \* rounds.status
  panel,    \* judges with a row in round_judge_assignments
  token,    \* judges whose access token claims this round
  events,   \* deduction_events, committed
  audit,    \* the deductions with a CREATE entry in audit_logs
  rows,     \* round_results, committed
  seq,      \* last id the round_results sequence handed out
  board,    \* entries of the last leaderboard that was broadcast
  pc,       \* the next statement of each request
  txn       \* what the session of each submission holds

vars == <<status, panel, token, events, audit, rows, seq, board, pc, txn>>
round == <<status, panel, token>>
store == <<events, audit, rows>>

Steps == {"idle", "assigned", "submitted", "panel", "tally", "find", "write",
          "rank", "rankwrite", "broadcast", "commit", "undo", "done"}
InFlight == {r \in Requests : pc[r] \notin {"idle", "done"}}
Room == Cardinality(InFlight) < Concurrency

-----------------------------------------------------------------------------
(* A session.  own: its event; seen: the judges a SELECT on the panel      *)
(* returned; tally: the judge scores computed (-1: not yet); mine: the id  *)
(* of the RoundResult being upserted (0: none); loaded: that row as the    *)
(* session's identity map has it; ranks: the rank updates not yet flushed  *)
(* (0: none); pend: rows written and not committed, which it keeps locked. *)
Txn == [own: Event \cup {Absent}, seen: SUBSET Judges,
        tally: [Judges -> Int], mine: 0..MaxRows, loaded: Row \cup {Absent},
        ranks: [RowIds -> Nat], pend: [RowIds -> Row \cup {Absent}]]
NoRanks == [id \in RowIds |-> 0]
NoRows == [id \in RowIds |-> Absent]
NoTally == [j \in Judges |-> Unread]
Blank == [own |-> Absent, seen |-> {}, tally |-> NoTally, mine |-> 0,
          loaded |-> Absent, ranks |-> NoRanks, pend |-> NoRows]

(* What a SELECT of session r returns.                                     *)
VisibleEvents(r) == events \cup {txn[r].own}
VisibleRow(r, id) ==
  IF txn[r].pend[id] # Absent THEN txn[r].pend[id] ELSE rows[id]
VisibleIds(r) == {id \in RowIds : VisibleRow(r, id) # Absent}
Written(r) == {id \in RowIds : txn[r].pend[id] # Absent}

(* Row locks: an UPDATE of row id waits while another session has written  *)
(* it.  With the lock it changes the newest committed version.             *)
Holders(r, id) == {q \in Submits \ {r} : id \in Written(q)}

Goto(r, step) == pc' = [pc EXCEPT ![r] = step]
Finish(r) == Goto(r, "done") /\ txn' = [txn EXCEPT ![r] = Blank]

Init ==
  /\ status = "ACTIVE" /\ panel = StartPanel /\ token = StartPanel
  /\ events = Prior /\ audit = Prior
  /\ rows = PriorRows /\ seq = Cardinality({id \in RowIds : PriorRows[id] # Absent})
  /\ board = {}
  /\ pc = [r \in Requests |-> "idle"]
  /\ txn = [r \in Requests |-> Blank]

-----------------------------------------------------------------------------
\* Mutant: the status of the round is not looked at.
MayMarkAnyRound(j) == j \in panel \cap token
(* The checks of a submission: the token claim, the assignment row and the *)
(* ACTIVE status.                                                          *)
MayMark(j) == status = "ACTIVE" /\ j \in panel \cap token

(* submit_deduction_event up to its flush: the checks, the amount (fixed   *)
(* by the type or entered by the judge), and the INSERTs of the event and  *)
(* of its audit entry.  Nothing ties the student or the deduction type to  *)
(* the round.  The checks are one step with the INSERT, which no other     *)
(* session sees.                                                           *)
SubmitBegin(r) ==
  /\ pc[r] = "idle" /\ Room
  /\ \E j \in Judges, s \in Students, c \in Crits, a \in Amounts :
       /\ MayMark(j)
       /\ txn' = [txn EXCEPT ![r].own =
                    [id |-> r, judge |-> j, student |-> s, crit |-> c,
                     amount |-> a]]
  /\ Goto(r, "assigned")
  /\ UNCHANGED <<round, store, seq, board>>

(* all_judges_submitted, first SELECT: the assigned judges.                *)
ReadAssigned(r) ==
  /\ pc[r] = "assigned"
  /\ txn' = [txn EXCEPT ![r].seen = panel]
  /\ Goto(r, "submitted")
  /\ UNCHANGED <<round, store, seq, board>>

\* Mutants: counts for the sets, and the event of the request itself not
\* yet flushed.
AllSubmittedByCount(r) ==
  Cardinality(txn[r].seen)
    = Cardinality(Markers(VisibleEvents(r), txn[r].own.student))
AllSubmittedUnflushed(r) == txn[r].seen = Markers(events, txn[r].own.student)
(* Second SELECT: the judges who have marked the student.                  *)
AllSubmitted(r) ==
  txn[r].seen = Markers(VisibleEvents(r), txn[r].own.student)
ReadSubmitted(r) ==
  /\ pc[r] = "submitted"
  /\ Goto(r, IF AllSubmitted(r) /\ txn[r].seen # {} THEN "panel" ELSE "commit")
  /\ UNCHANGED <<round, store, seq, board, txn>>

\* Mutant: the event of the request itself is not counted.
ScoreByUnflushed(r, j) == JudgeScore(MarksBy(events, j, txn[r].own.student))
(* The score judge j gave, from what the session sees.                     *)
ScoreBy(r, j) == JudgeScore(MarksBy(VisibleEvents(r), j, txn[r].own.student))

(* compute_panel_score reads the panel again, then the events of one judge *)
(* after the other, each with a SELECT of its own.                         *)
ReadPanel(r) ==
  /\ pc[r] = "panel"
  /\ txn' = [txn EXCEPT ![r].seen = panel]
  /\ Goto(r, "tally")
  /\ UNCHANGED <<round, store, seq, board>>

TallyJudge(r, j) ==
  /\ pc[r] = "tally"
  /\ j \in txn[r].seen /\ txn[r].tally[j] = Unread
  /\ txn' = [txn EXCEPT ![r].tally[j] = ScoreBy(r, j)]
  /\ Goto(r, IF \A k \in txn[r].seen \ {j} : txn[r].tally[k] # Unread
             THEN "find" ELSE "tally")
  /\ UNCHANGED <<round, store, seq, board>>

Score(r) == PanelScoreOf(txn[r].seen, txn[r].tally)

\* Mutant: the session is not closed, and keeps its locks.
RollbackUnclosed(r) == Goto(r, "done") /\ UNCHANGED <<round, store, seq, board, txn>>
(* Undo of everything the session did: an exception in the handler, a lost *)
(* connection or a crash of the process.  get_session rolls back.          *)
Rollback(r) == Finish(r) /\ UNCHANGED <<round, store, seq, board>>

(* The SELECT of the upsert, with scalar_one_or_none: no row, one row, or  *)
(* MultipleResultsFound, which fails the request.                          *)
RowsOf(r) == {id \in VisibleIds(r) : VisibleRow(r, id).student
                                       = txn[r].own.student}
\* Mutant: every computation is inserted.
FindResultNone(r) ==
  /\ pc[r] = "find"
  /\ Goto(r, "write")
  /\ UNCHANGED <<round, store, seq, board, txn>>
FindResult(r) ==
  /\ pc[r] = "find"
  /\ \/ /\ RowsOf(r) = {}
        /\ Goto(r, "write")
        /\ UNCHANGED <<round, store, seq, board, txn>>
     \/ \E id \in RowsOf(r) :
          /\ RowsOf(r) = {id}
          /\ txn' = [txn EXCEPT ![r].mine = id, ![r].loaded = VisibleRow(r, id)]
          /\ Goto(r, "write")
          /\ UNCHANGED <<round, store, seq, board>>
     \/ /\ \E a, b \in RowsOf(r) : a # b
        /\ Rollback(r)

\* Mutant: a new result is broadcast before the ranking.
InsertResultUnranked(r) ==
  /\ pc[r] = "write" /\ txn[r].mine = 0 /\ seq < MaxRows
  /\ LET new == [student |-> txn[r].own.student, score |-> Score(r), rank |-> 0]
     IN  txn' = [txn EXCEPT ![r].mine = seq + 1, ![r].loaded = new,
                            ![r].pend[seq + 1] = new]
  /\ seq' = seq + 1
  /\ Goto(r, "broadcast")
  /\ UNCHANGED <<round, store, board>>
(* INSERT of the new result, with the next id of the sequence.             *)
InsertResult(r) ==
  /\ pc[r] = "write" /\ txn[r].mine = 0 /\ seq < MaxRows
  /\ LET new == [student |-> txn[r].own.student, score |-> Score(r), rank |-> 0]
     IN  txn' = [txn EXCEPT ![r].mine = seq + 1, ![r].loaded = new,
                            ![r].pend[seq + 1] = new]
  /\ seq' = seq + 1
  /\ Goto(r, "rank")
  /\ UNCHANGED <<round, store, board>>

\* Mutant: the score is written in a transaction of its own.
UpdateResultAtOnce(r) ==
  LET id == txn[r].mine
  IN  /\ pc[r] = "write" /\ id # 0 /\ Holders(r, id) = {}
      /\ rows' = [rows EXCEPT ![id].score = Score(r)]
      /\ txn' = [txn EXCEPT ![r].loaded.score = Score(r)]
      /\ Goto(r, "rank")
      /\ UNCHANGED <<round, events, audit, seq, board>>
(* UPDATE of the existing one.  The ORM sends final_score only when it     *)
(* differs from the value the SELECT loaded; computed_at always changes,   *)
(* so the row is locked and written in either case.                        *)
UpdateResult(r) ==
  LET id == txn[r].mine
      new == IF Score(r) = txn[r].loaded.score
             THEN rows[id] ELSE [rows[id] EXCEPT !.score = Score(r)]
  IN  /\ pc[r] = "write" /\ id # 0 /\ Holders(r, id) = {}
      /\ txn' = [txn EXCEPT ![r].pend[id] = new,
                            ![r].loaded.score = Score(r)]
      /\ Goto(r, "rank")
      /\ UNCHANGED <<round, store, seq, board>>

(* _recompute_rankings reads all results of the round.  The session's own  *)
(* result is the object it already has, not the row the SELECT returns.    *)
RankedRow(r, id) ==
  IF id = txn[r].mine THEN txn[r].loaded ELSE VisibleRow(r, id)
IsRankingFor(r, f) ==
  /\ \A id \in RowIds \ VisibleIds(r) : f[id] = 0
  /\ IsRanking(VisibleIds(r),
               [id \in VisibleIds(r) |-> RankedRow(r, id).score],
               [id \in VisibleIds(r) |-> GroupOf(RankedRow(r, id).student)], f)
\* Mutant: the new result alone is ranked.
ReadRanksOfMine(r) ==
  /\ pc[r] = "rank"
  /\ \E f \in [RowIds -> 0..MaxRows] :
       /\ IsRankingFor(r, f)
       /\ txn' = [txn EXCEPT ![r].ranks = [NoRanks EXCEPT ![txn[r].mine] =
                                             f[txn[r].mine]]]
  /\ Goto(r, "rankwrite")
  /\ UNCHANGED <<round, store, seq, board>>
(* Only the ranks that differ from the loaded ones are flushed.            *)
ReadRanks(r) ==
  /\ pc[r] = "rank"
  /\ \E f \in [RowIds -> 0..MaxRows] :
       /\ IsRankingFor(r, f)
       /\ LET changed == [id \in RowIds |->
                            IF id \in VisibleIds(r) /\ f[id] # RankedRow(r, id).rank
                            THEN f[id] ELSE 0]
          IN  /\ txn' = [txn EXCEPT ![r].ranks = changed]
              /\ Goto(r, IF changed = NoRanks THEN "broadcast" ELSE "rankwrite")
  /\ UNCHANGED <<round, store, seq, board>>

(* The flush sends the rank updates in the order of the row ids; each one  *)
(* changes the rank alone, and waits for the lock of its row.              *)
NextRankIds(r) ==
  {id \in RowIds : /\ txn[r].ranks[id] # 0
                   /\ \A k \in RowIds : txn[r].ranks[k] # 0 => id <= k}
WriteRank(r) ==
  /\ pc[r] = "rankwrite"
  /\ \E id \in NextRankIds(r) :
       LET left == [txn[r].ranks EXCEPT ![id] = 0]
       IN  /\ Holders(r, id) = {}
           /\ txn' = [txn EXCEPT
                ![r].pend[id] = [VisibleRow(r, id) EXCEPT
                                   !.rank = txn[r].ranks[id]],
                ![r].ranks = left]
           /\ Goto(r, IF left = NoRanks THEN "broadcast" ELSE "rankwrite")
  /\ UNCHANGED <<round, store, seq, board>>

\* Mutant: the rows are read with a session of their own.
BroadcastCommitted(r) ==
  /\ pc[r] = "broadcast"
  /\ board' = {rows[id] : id \in RowIds} \ {Absent}
  /\ Goto(r, "commit")
  /\ UNCHANGED <<round, store, seq, txn>>
(* _broadcast_leaderboard sends what the session sees, before the commit.  *)
Broadcast(r) ==
  /\ pc[r] = "broadcast"
  /\ board' = {VisibleRow(r, id) : id \in VisibleIds(r)}
  /\ Goto(r, "commit")
  /\ UNCHANGED <<round, store, seq, txn>>

Commit(r) ==
  /\ pc[r] = "commit"
  /\ events' = events \cup {txn[r].own}
  /\ audit' = audit \cup {txn[r].own}
  /\ rows' = [id \in RowIds |-> VisibleRow(r, id)]
  /\ Finish(r)
  /\ UNCHANGED <<round, seq, board>>

-----------------------------------------------------------------------------
(* A request may fail at any await; PostgreSQL fails one transaction of a  *)
(* cycle of lock waits.                                                    *)
Fail(r) == r \in InFlight /\ Rollback(r)

Awaited(r) ==
  IF pc[r] = "write" THEN {txn[r].mine} \ {0}
  ELSE IF pc[r] = "rankwrite" THEN NextRankIds(r) ELSE {}
Blockers(r) == UNION {Holders(r, id) : id \in Awaited(r)}
Deadlocked(r) ==
  \E C \in SUBSET Submits :
    /\ r \in C
    /\ \A q \in C : Blockers(q) # {}
    /\ C = UNION {Blockers(q) : q \in C}
DeadlockVictim(r) == Deadlocked(r) /\ Rollback(r)

-----------------------------------------------------------------------------
(* delete_deduction_event: the judge who made the deduction, a moderator   *)
(* or a superadmin, whatever the status of the round.  The results are not *)
(* computed again.  The DELETE is one step with the commit; of two         *)
(* deletions of one event the second deletes nothing.                      *)
UndoBegin(u) ==
  /\ pc[u] = "idle" /\ Room
  /\ \E e \in events : txn' = [txn EXCEPT ![u].own = e]
  /\ Goto(u, "undo")
  /\ UNCHANGED <<round, store, seq, board>>

UndoCommit(u) ==
  /\ pc[u] = "undo"
  /\ events' = events \ {txn[u].own}
  /\ Finish(u)
  /\ UNCHANGED <<round, audit, rows, seq, board>>

-----------------------------------------------------------------------------
(* assign_judge does not look at the status of the round; a second row for *)
(* a judge breaks uq_judge_round.  There is no way to take a judge off.    *)
AssignJudge(j) ==
  /\ Room /\ j \notin panel
  /\ panel' = panel \cup {j}
  /\ UNCHANGED <<status, token, store, seq, board, pc, txn>>

(* staff_login and staff_refresh copy the judge's assignments into the     *)
(* token; until then a judge assigned later is refused by the claim.       *)
RefreshToken(j) ==
  /\ j \in panel \ token
  /\ token' = token \cup {j}
  /\ UNCHANGED <<status, panel, store, seq, board, pc, txn>>

CompleteRound ==
  /\ Room /\ status = "ACTIVE"
  /\ status' = "COMPLETED"
  /\ UNCHANGED <<panel, token, store, seq, board, pc, txn>>

-----------------------------------------------------------------------------
(* The statements of a submission, in the order of the handler.            *)
SubmitStep(r) ==
  \/ ReadAssigned(r) \/ ReadSubmitted(r) \/ ReadPanel(r)
  \/ \E j \in Judges : TallyJudge(r, j)
  \/ FindResult(r) \/ InsertResult(r) \/ UpdateResult(r)
  \/ ReadRanks(r) \/ WriteRank(r) \/ Broadcast(r) \/ Commit(r)

Next ==
  \/ \E r \in Submits : SubmitBegin(r) \/ SubmitStep(r) \/ DeadlockVictim(r)
  \/ \E u \in Undos : UndoBegin(u) \/ UndoCommit(u)
  \/ \E r \in Requests : Fail(r)
  \/ \E j \in Judges : AssignJudge(j) \/ RefreshToken(j)
  \/ CompleteRound

Spec == Init /\ [][Next]_vars

(* The event loop runs every coroutine whose statement has been answered,  *)
(* and PostgreSQL finds every cycle of lock waits (deadlock_timeout).      *)
Fairness ==
  /\ \A r \in Submits : WF_vars(SubmitStep(r))
  /\ \A u \in Undos : WF_vars(UndoCommit(u))
  /\ WF_vars(\E r \in Submits : DeadlockVictim(r))
FairSpec == Spec /\ Fairness

-----------------------------------------------------------------------------
TypeOK ==
  /\ status \in {"ACTIVE", "COMPLETED"}
  /\ panel \subseteq Judges /\ token \subseteq Judges
  /\ events \subseteq Event /\ audit \subseteq Event
  /\ rows \in [RowIds -> Row \cup {Absent}]
  /\ seq \in 0..MaxRows
  /\ board \subseteq Row
  /\ pc \in [Requests -> Steps]
  /\ txn \in [Requests -> Txn]

Quiet == InFlight = {}
Results == {id \in RowIds : rows[id] # Absent}

(* A result exists only for a student whom every judge of the panel the    *)
(* round was started with has marked: whatever the interleaving of first   *)
(* submissions, deletions, late assignments and failures, no committed     *)
(* result rests on part of that panel (all_judges_submitted and the commit *)
(* of the triggering event together with the result).                      *)
ResultsRestOnFullPanel ==
  \A id \in Results : StartPanel \subseteq Markers(audit, rows[id].student)

(* A committed score appears or changes only in the commit of a deduction  *)
(* of the same student: re-ranking by the requests of other students moves *)
(* ranks, and failures move nothing (flush of the changed columns alone,   *)
(* under the row lock).                                                    *)
SameScore(old, new) ==
  old # Absent /\ new # Absent /\ old.student = new.student
  /\ old.score = new.score
ScoresMoveOnlyWithTheirMarks ==
  [][\A id \in RowIds :
       rows'[id] # rows[id] =>
         \/ SameScore(rows[id], rows'[id])
         \/ \E e \in audit' \ audit : e.student = rows'[id].student]_vars

(* Every committed result has a rank: a result inserted by one request and *)
(* the ranks it computed become visible together.                          *)
NoUnrankedResult == \A id \in Results : rows[id].rank # 0

(* Every request that was accepted ends, whatever rows the others hold:    *)
(* lock waits of two finalisations may close a cycle, and then one fails.  *)
RequestsEnd == \A r \in Requests : (r \in InFlight) ~> (r \notin InFlight)

(* --- What holds when requests do not overlap (Concurrency = 1) --------- *)

(* A student has at most one result (the upsert of finalize_and_broadcast, *)
(* whose SELECT would fail with MultipleResultsFound on two).              *)
OneResultPerStudent ==
  \A a, b \in Results : rows[a].student = rows[b].student => a = b

(* Once all assigned judges have submitted for a student, the ranking      *)
(* engine has fired (docstring of submit_deduction_event).                 *)
LastJudgeTriggers ==
  Quiet => \A s \in Students :
             Markers(events, s) = panel => \E id \in Results :
                                             rows[id].student = s

(* A result is the panel score of the deductions on record, as long as     *)
(* none of the student's was deleted and no judge was added.               *)
ScoresAreFresh ==
  Quiet => \A id \in Results :
    LET s == rows[id].student
    IN  panel = StartPanel /\ (\A e \in audit \ events : e.student # s)
          => rows[id].score = PanelScoreOf(panel, TallyOf(panel, events, s))

(* The committed ranks are a ranking of the committed scores: 1..k in each *)
(* group, no rank twice, higher scores first.                              *)
RanksAgreeWithScores ==
  Quiet => IsRanking(Results, [id \in Results |-> rows[id].score],
                     [id \in Results |-> GroupOf(rows[id].student)],
                     [id \in Results |-> rows[id].rank])

(* As long as every submission has committed, the leaderboard that was     *)
(* broadcast last shows the committed results: it is sent before the       *)
(* commit, from the rows and ranks the session has flushed (comments of    *)
(* finalize_and_broadcast).  A submission that fails after the broadcast   *)
(* leaves a result on the board that is not on record.                     *)
AllCommitted ==
  \A r \in Submits : pc[r] = "done" => \E e \in audit : e.id = r
BoardShowsResults ==
  Quiet /\ AllCommitted /\ board # {} => board = {rows[id] : id \in Results}
=============================================================================
