# musabaqa-api: a verification project

`musabaqa-api` (FastAPI, SQLAlchemy async, PostgreSQL, Celery, WebSockets) runs Quran
competitions: institutions register students, a panel of judges enters deductions for the
student on stage, and a ranking engine turns them into results and a live leaderboard. This
directory holds TLA+ modules of it, the TLC configurations that check them on small
instances, and TLAPS proofs of what holds for every instance. Paths below are relative to `src/app`.

## 1. Inventory

Every HTTP request is one asyncio coroutine with one `AsyncSession` (`core/database.py:65-75`),
which is one PostgreSQL transaction at the default READ COMMITTED level. Nothing in the code
raises the level, uses `SELECT .. FOR UPDATE` or holds a version column; `expire_on_commit` is
off. So requests interleave between any two statements, see what others have committed, and keep
values they read earlier; an UPDATE names only the columns in which the object differs from what
was loaded. This, and not threads, is where the system is hard.

| Component | State | Operations | Talks to | Hard part | What makes it correct | Modules |
|---|---|---|---|---|---|---|
| Ranking engine, arithmetic (`services/ranking_engine.py:50-141`) | none | judge score, panel score, consistency flag | called by scoring | floors, even medians, the threshold | scores are bounded and monotone in the deductions, an unflagged panel agrees | `PanelScore` |
| Score sheets (`crud/scoring.py:206-444`) | none | a judge's and a moderator's summary, the official sheet | read deductions | the scores are computed a second time, from names | agree with the engine, hide other judges' marks | `Sheet` |
| Deductions and results (`crud/scoring.py`, `routes/scoring.py`, `services/ranking_engine.py`) | `deduction_events`, `audit_logs`, `round_results`, the last leaderboard | submit, undo, finalise, rank, broadcast | rounds (panel, status), staff tokens, WebSocket hub | check-then-insert, ranks computed from old reads, row locks taken in different orders, broadcast before commit | results rest on the whole panel, are unique, ranked and fresh; requests end | `Deductions`, `JudgedRound`, `Scoring`, `ScoringRefinement` |
| Round questions (`crud/scoring.py:93-145`) | `round_questions` | save, list | scoring screens | find-then-insert, partial bodies | a saved column stays | `Questions` |
| Round lifecycle (`crud/rounds.py`, `routes/rounds.py`) | `rounds.status`, `active_student_id`, `round_judge_assignments` | assign judge, start, complete, set active student | scoring reads the panel and the status; hub | status and panel are read, checked and then overwritten | only a valid panel starts, and only once; screens follow the database | `Rounds` |
| Staff tokens (`core/security.py`, `api/deps.py`, `routes/auth.py:224-288`) | the `assigned_round_ids` claim | login, refresh | every judge request | the claim is a copy that goes stale | a judge marks only rounds that were his at login | `Scoring` (claim only) |
| Rubric (`services/rubric_manager.py`) | `deduction_types`, `scoring_criteria`, mode | switch | submissions refer to the types | reads per group, deletes under submissions in flight | criteria and mode agree; a switch deletes nothing in use | `Rubric` |
| Startup and seed (`main.py`, `core/seed.py`) | all reference data | seed once | — | servers that boot together | the data is seeded once | `Rubric` |
| Students (`crud/students.py`, `routes/students.py`) | `students` | create, update, approve, reject, reassign, soft delete, restore, delete, bulk | institutions, notifications | cap and slot are counted, then inserted; restore checks nothing | at most four active, one per category | `Students` |
| Institutions (`crud/institutions.py`, `routes/institutions.py`) | `institutions` | register, intake, batch intake, approve, reject | notifications | batches that lock each other's addresses, mails after commits | a batch is all or nothing, the last mail is true | `Institutions` |
| OTP login (`routes/auth.py:41-220`) | `institution_otps` with attempts and expiry | request, verify | institutions, mail | lost updates of the attempts counter, two live codes | a code opens one session, guesses are bounded, the rejected stay out | `Otp` |
| Competitions (`routes/competitions.py`) | editions, current flag, gallery | create, update, delete, set current, gallery | none | flag cleared and set without a constraint, one JSON column | one current edition, no lost item | `Competitions` |
| WebSocket hub (`core/websocket_manager.py`, `ws/*`) | sockets per channel | connect, snapshot, broadcast, disconnect | finalisations | snapshot against a broadcast under way, dead sockets | a viewer ends on the newest board | `Leaderboard` |
| Dossier jobs (`workers/tasks.py`, `routes/archive.py`) | Celery messages, a Redis key, an S3 object | start, retry, redeliver, poll | storage | a retry is queued while the run goes on | a finished job has its file, runs are bounded | `Jobs` |
| Notifications (`services/notifications.py`) | mails and SMS sent, `regret_email_logs` | registration, decision, category, regret | students, institutions | sent after the commit, or before the record; receipts that come late | what was told last is on record | `Letters`, `Institutions` |
| Documents and storage (`services/s3.py`, the upload routes) | objects, key columns | upload, register, PATCH, link | students, institutions | keys without row ids, joined from parts; columns that bodies write too | the link of an upload leads to the owner's last one | `Documents` |
| Readers, PDFs, workbooks, certificates, reference data | — | read, render | — | none | — | not modelled |

`PROJECT.json` lists the hazards one by one, each at its line.

## 2. Modules

    PanelScore <- Deductions <- JudgedRound  <-------- refinement --------.
        ^              ^                                                  |
        |              '------- Scoring <- ScoringRefinement <- MCScoring -'
    MCPanelScore -> Sheet      Rounds <- MCRounds         Students <- MCStudents
    Institutions <- Otp <- MCAccess                       Rubric <- MCRubric
    MCBackoffice -> Backoffice -> Jobs, Competitions, Leaderboard, Letters, Documents, Questions
    proofs: PanelScoreProofs <- { JudgedRoundProofs, ScoringProofs (with ScoringRefinement) }
            RoundsProofs, StudentsProofs, AccessProofs (Institutions and Otp), RubricProofs,
            BackofficeProofs (the six parts of Backoffice)

**PanelScore** — the arithmetic as operators. Points are integers (amounts in the database are
floats in steps the rubric fixes); an average of k judges is `floor(Scale * sum / k)` in units of
1/`Scale` point. `KthSmallest` stands for the sorting inside
`statistics.median` and counts instead of sorting.

**Sheet** — the second computation of the scores, for the screens: by the name of the category
(`NumQuestions`, `MaxMarks`), the names of the deduction types (`BoxOf`, `PanelBoxOf`: two different
chains of tests) and the question numbers, in hundredths of a point.

**Deductions** — the records of a round and the queries on them that both specifications share:
who has marked a student (`Markers`), the tally of a panel, which students are ranked together
(by region in a REGIONAL round, otherwise all).

**JudgedRound** — the promise, without requests or sessions: a submission is one step that records
the deduction and, if with it all assigned judges have marked the student, recomputes his result
and the ranking.

**Scoring** — the code. One action per statement of the handler, in its order:

| Action | Code |
|---|---|
| `SubmitBegin` | checks and INSERTs up to the flush, `routes/scoring.py:36-62`, `crud/scoring.py:27-72` |
| `ReadAssigned`, `ReadSubmitted` | the two SELECTs of `all_judges_submitted` |
| `ReadPanel`, `TallyJudge` | `compute_panel_score`: the panel again, then one judge after the other |
| `FindResult`, `InsertResult`, `UpdateResult` | the upsert of `finalize_and_broadcast` |
| `ReadRanks`, `WriteRank` | `_recompute_rankings` and the UPDATEs of its flush, in primary-key order |
| `Broadcast`, `Commit` | leaderboard, then the COMMIT of the route |
| `Fail`, `DeadlockVictim` | rollback by `get_session`, PostgreSQL's deadlock detector |
| `UndoBegin`, `UndoCommit` | `delete_deduction_event` |
| `AssignJudge`, `RefreshToken`, `CompleteRound` | the other requests that touch a running round, one step each |

`txn` is a session: the rows it has written and not committed (`pend`, which are its locks), the
row object its identity map holds (`loaded`, which is what the ORM compares with to decide which
columns an UPDATE contains), the ranks not yet flushed, and the values it read. `rows`, `events`
and `audit` are what is committed. `audit` never shrinks and remembers every accepted deduction.

**ScoringRefinement** — `Scoring` implements `JudgedRound` under a mapping from committed rows to
results.

**Rounds** — assignments, start, completion, the active student and the screens, with every read,
commit and broadcast a step.

**Students** — section 5.

**Institutions** — three ways on record (`RegisterBegin`, `IntakeBegin`, `BatchBegin`) that share
`Check`, `Insert`, `Commit`, and the review. `Sought` and `Written` are the spellings of an address
that are looked up and inserted: the intake looks for the address as given and inserts it in lower case,
the registration does neither. An INSERT waits for a session that has inserted the same address (`Holders`),
which is how two batches get into a deadlock.

**Otp** extends `Institutions`: the SELECT and the COMMIT of a request and of a verification are two
steps. A verification keeps the counter it has read (`attempts`) and writes it back plus one.

**Rubric** — servers that boot and seed, switches of the mode (`Season`, then for each group
`ReadGroup`, `Upsert`, and for each obsolete criterion `CheckReferences`, `Drop`), and submissions that refer
to a criterion, with the foreign key and the row locks. A criterion stands for its deduction types too.

**Competitions** — a request loads its edition (`Open`), reads who else is current (`ReadCurrent`) and
writes in one flush (`Commit`); `Updated` is the UPDATE of the changed columns on the newest row.

**Leaderboard** — the coroutines of the sockets and the two fan-out loops, one `send_text` a step, over a
copy of the room. **Jobs** — messages by their number of retries, the runs of the workers, the Redis key.
**Questions** — find and save.

**Letters** — decisions that are committed and then told (`DecisionCommit`, `Tell`), and the regret route, which
tells and then commits. `create_student` mails its receipt after the commit too and asks nothing of the row again: `Receipt`
may come after any number of decisions and their letters, or never.

**Documents** — upload, `Put` into the bucket, `Record` in the row. The key columns are also written by bodies: the rows start
as `POST /students` and `POST /institutions/register` left them (`Init`), with any of `Texts` in any column, and `PATCH /institutions/{id}` writes a name, texts
or nothing (`Update`); that of a student has no key columns (`Rename`). A PATCH is one step. A folder is the sequence of words that its parts make
when underscores join them: what comes from the last name and what from the id is not to be seen in it, as in `make_s3_folder_key`.

**Backoffice** puts the six side by side, each with variables of its own, and states once, for the run and for the
proofs, what is promised of each.

**History variables** are read by no guard; properties use them to say what a race may spoil.
`disturbed` (Rounds, Institutions), `overlapped` (Otp), `crossed`, `met`, `mixed`, `torn` and `stale` are set when
requests that can spoil the property have overlapped or died; each is kept as small as the code
allows (per student, per competition, per column, per socket) so that the property says something about runs with races too.
`late` (Letters) holds what a receipt named after another letter had, until the next letter that names it; `supplied` (Documents) the columns that
hold what a body had for them, until an upload writes its key there.

## 3. What is checked

Each run asks one question; the mutants in `PROJECT.json` are plausible bugs in the code, one per
property, that the same run must catch. Type invariants stand in the modules or open the inductive
invariants of the proof modules; they were checked with TLC beside these runs and are proved for every
module with state (section 4).

| Run | Instance | Shows |
|---|---|---|
| `panel_score` | panels of 3 and 4 judges with all their scores, up to two deductions over two criteria and a foreign one; for the sheets every seeded category, both modes, three deductions of a panel of two | the arithmetic agrees with the definitions in the Python code, a panel that is not flagged agrees within twice the limit; the sheets agree with the engine, and show a judge nothing of the others before all have marked |
| `scoring_concurrent` | 4 judges (one assigned late), three submissions, two in flight | no result before the starting panel has marked, no committed result without a rank, also with duplicates, failures and deadlocks |
| `scoring_live` | two finalisations that update each other's rows | every accepted request ends; a committed score changes only in the commit of a deduction of the same student |
| `scoring_serial` | one request at a time: three submissions, a deletion, a late judge, a completion | uniqueness, trigger, fresh scores, ranks that agree with the scores, board = record, and the refinement of `JudgedRound` |
| `rounds` | a FINAL round, three judges seated, five requests, two in flight, any may die | enough judges in every started round, one valid start, screens reached |
| `students` | an institution with four active students; two registrations or deletions and one request of any other kind, two in flight, bulk requests of two | columns of concurrent deletions and restores do not mix, permanent deletion is irreversible, and races exceed the cap by at most one |
| `access` | an approved institution; registration, intake, two batches in opposite orders, reviews; two callers, two codes, five verifications, two wrong answers allowed; two at a time | batches are whole, requests end although batches wait for each other, the last mail is the status; one session per code, a bound on the guesses of racing callers, the rejected stay out |
| `rubric` | two servers, three switches, two judges; two switches in flight, any may die | the rubric is that of its mode, and a switch fails only when it meets a request |
| `backoffice` | six parts, one in each behaviour (`focus`): two editions and a third; two viewers and a moderator, two rounds; a student with three decisions or regrets, his receipt pending or not, one request that may die; two students and two institutions, three uploads, one PATCH, names and ids that may join to one folder, a column posted with another's key; a question with two columns; a job of two students that may both fail, two workers, one retry, one lost worker | one current edition, galleries keep items, the last board reaches every socket, regrets are logged, students know their review, links lead to own files, saved columns stay, DONE has its file, runs are bounded and settle |

and these disagree with a statement in the repository (`expect: violation`; section 6):
`scoring_duplicate`, `scoring_untriggered`, `students_cap`.

**Serial and concurrent.** The repository's promises (the last judge triggers the engine, one
result per student, fresh scores, correct ranks) hold for requests that do not overlap, and the
serial run shows it together with the refinement. They fail for overlapping ones; two of the
failures are kept as runs, the others have the same cause: ranks are computed from the rows a
session saw, so two finalisations can commit the same rank twice; and a panel can become invalid
between its validation and the start, which is why `StartedOnceWithValidPanel` speaks only of
starts nothing disturbed. What holds under every interleaving is in `scoring_concurrent` and
`scoring_live`, and all of it but the liveness is proved. The same division runs through the other modules:
`OneCodeOneSession`, `CurrentIsUnique` and `FewGuesses` state the promise for requests that do not overlap
and the worst that overlapping ones can do. `FewGuesses` counts: with two callers at a time a counter of `n` can
be written back once for each of its earlier values, so the bound is `n + n(n+1)/2`.

**Bounds.** Two requests in flight are enough for every race in the code, since each is between
two sessions, and for a deadlock; a third request follows to see what a race leaves behind
(`MultipleResultsFound`, a switch after a switch). `MaxRows` is at least the earlier results plus the submissions that
can find their student without one, also when they insert and roll back; `InsertResult` is disabled
beyond it, and no run gets there. Deductions made before
the run (`Prior`) and the results they have led to (`PriorRows`) put the run at the interesting
moment: one judge missing, or all students already ranked. They are constrained to what the code
can produce (`ScoringAssumption`, `PriorRowsAssumption`). The code's limits of five wrong answers and three
retries are two and one in the runs; both are compared only with counters, and with two students that fail one retry
is enough for runs to multiply. A criterion has two points and each deduction is
of one, so that a judge's second deduction changes a score and his third meets the floor. `scoring_live`
starts with one judge who has a point left and two who have none: of two submissions some change a
score, others have no column of the result to write, and some wait for each other's rows.
In `access` the institutions that come in
and those that log in are not in one behaviour, since they share no row; reviews meet both. In `rubric`
requests come when every server has booted. In `backoffice` the moderator's socket connects first. In its
documents both students are called Ali, with the ids 2 and 1_2, and a PATCH may make the first an Ali_1, which gives both one folder; the text that bodies have is the
key of a photo of his, which he may put there before or after: asha's row was posted with it, and a PATCH may give it to a school;
asha uploads no id document there. Symmetry is not used where liveness is
checked. Deadlock checking is off where the configuration says so: a round whose requests are
all done has really stopped.

**Fairness.** `Scoring!Fairness`: weak fairness of the statements of each submission and of the
commit of a deletion: the event loop resumes every coroutine whose statement was answered, and an
UPDATE whose row is free is answered. Weak fairness of `DeadlockVictim`: PostgreSQL examines every
wait after `deadlock_timeout`. Nothing is assumed about new requests, and failures are never
assumed to happen. Without the second conjunct `RequestsEnd` is false: two finalisations lock
their own rows in the upsert and then each other's in the rank flush. `AccessFairness` is the same for
`Institutions`, and `IntakesEnd` needs it for the same reason. The other modules have
safety properties only and assume no fairness.

**Submitted.** A judge counts as having submitted when at least one deduction of his is on record
(`crud/scoring.py:157-168`). A judge with nothing to deduct has to enter a deduction of 0; the
model follows the code.

**The board.** The leaderboard is broadcast before the commit. A request that fails between the
two leaves a result on the screens that is not on record; `BoardShowsResults` therefore speaks of
histories in which every submission committed, and in `Leaderboard` such a failure, like two finalisations that cross
or one of an older round, makes every socket `stale` until the next undisturbed broadcast has reached it.

## 4. What is proved

All proofs are for every value of the constants under the named assumptions of the modules, which TLC
evaluates in the runs: finite sets of judges, students, ids, requests and callers, a rubric with natural maximum
points, a non-empty starting panel, ids of earlier deductions distinct from new ones, prior results that rest on
the starting panel (`PriorRowsAssumption`), institutions on record that no request of the run has inserted
(`PriorInstitutionsAssumption`), at most one competition current before the run (`CompetitionsAssumption`), and a value for
"no row" that is no row. Every state invariant is proved from an inductive one that TLC checked first on a small instance.

| Module | Theorems (the property of a run each one states) |
|---|---|
| `PanelScoreProofs` | `JudgeScoreBounded`, `PanelScoreBounded`, `DeductionsLowerScores`, `UnflaggedPanelsAgree` (what `UnflaggedPanelAgrees` says of the run's panels), `DeductionsAddUp`, `ScoresAddUp`, `CriterionIsFloored`, `KthSmallestIsKth`, `RanksArePlaces` |
| `JudgedRoundProofs` | `PromisesKept` |
| `ScoringProofs`, every interleaving | `TypeCorrect`, `FullPanel` (`ResultsRestOnFullPanel`), `AllRanked` (`NoUnrankedResult`), `ScoresMoveByMarks` (`ScoresMoveOnlyWithTheirMarks`) |
| `ScoringProofs`, one request at a time | `OneResult` (`OneResultPerStudent`), `LastJudgeHasTriggered` (`LastJudgeTriggers`), `FreshScores` (`ScoresAreFresh`), `RanksAgree` (`RanksAgreeWithScores`), `BoardIsTrue` (`BoardShowsResults`), `Refinement` (`ImplementsPromise`) |
| `RoundsProofs` | `RoundsTypeCorrect`, `StartedRoundHasJudges` (`EnoughJudges`), `StatusFollowsPanel` (`StartedOnceWithValidPanel`), `StageIsShown` (`StageReachesScreens`) |
| `StudentsProofs` | `TypeCorrect`, `DeletedAreArchived` (`ArchivedWhileDeleted`), `CapHolds` (`CapExceededByRacesOnly`), `GoneForGood` (`PermanentDeleteIsIrreversible`) |
| `AccessProofs` | `OtpTypeCorrect`, `AccessInvariance`, `WholeBatches` (`BatchesAreWhole`), `StatusIsTold` (`ToldItsStatus`), `OneSession` (`OneCodeOneSession`), `GuessesAreFew` (`FewGuesses`), `LockedOut` (`RejectedIsLockedOut`) |
| `RubricProofs` | `RubricInductive`, `WholeRubricHolds` (`WholeRubric`), `SwitchFailsOnlyByRaceHolds` (`SwitchFailsOnlyByRace`) |
| `BackofficeProofs`, jobs | `JobTypeCorrect`, `DoneIsStored` (`DoneHasFile`), `JobSettles` (`SettledInTheEnd`), `RunsBounded` (`RunsAreBounded`) |
| `BackofficeProofs`, competitions | `CompInductive`, `CurrentIsUniqueHolds` (`CurrentIsUnique`), `SetCurrentSettlesHolds` (`SetCurrentSettles`), `GalleryKeepsItemsHolds` (`GalleryKeepsItems`) |
| `BackofficeProofs`, letters | `LetterInductive`, `RegretsAreLoggedHolds` (`RegretsAreLogged`), `StudentsKnowTheirReviewHolds` (`StudentsKnowTheirReview`) |
| `BackofficeProofs`, questions and documents | `QuestionInductive`, `SavedColumnsAreKeptHolds` (`SavedColumnsAreKept`), `DocumentInductive`, `LinksLeadToOwnUploadsHolds` (`LinksLeadToOwnUploads`), `PlainIdsKeepFilesApart` |
| `BackofficeProofs`, leaderboard | `BoardInductive`, `LastBoardReachesViewersHolds` (`LastBoardReachesViewers`) |

**Arithmetic.** Sums and floors are written as cardinalities of sets of points, so that each bound is an
inclusion of finite sets (`FS_Subset`, `FS_Product`, `FS_Interval`) and needs no induction. `UnflaggedPanelsAgree`
goes through the average: each judge is within the limit of it. That the cardinalities are the numbers meant is proved too:
`DeductionsAddUp` and `ScoresAddUp` are the two equations that define a sum over a finite set, `CriterionIsFloored` is
`max(0, max_points - deducted)`, and `KthSmallestIsKth` needs that the levels reached by enough judges are downward closed,
so that their number is the highest of them. `RanksArePlaces` counts with two injections: the better students
have the ranks before, the worse ones those behind.

**The promise.** `PromisesKept` shows that `JudgedRound` is consistent. The last-judge trigger is not inductive
alone: a deletion could otherwise take a student *into* the state "exactly the panel has
marked". `IInv` adds that only assigned judges mark, so deletions move away from the panel, and that
the audit log contains the events, so results keep their evidence.

**Every interleaving of the scoring requests** (one lemma per action). The properties are not
inductive, because a step of a session depends on what it read before. `IInv` therefore speaks of sessions: one that is past
`ReadSubmitted` in the finalising branch saw the full starting panel mark its student in events
that are its own or in the audit log (`SawFullPanel`); rows it wrote belong to such students
(`WritesItsRows`); an unranked row it wrote is about to be ranked before it can commit
(`WillRank`); the event it holds is its own (`OwnsEvent`). `LockInv` adds the row locks: no two sessions have written
the same row (`Exclusive`), so what a session has written rests on the row that is still committed, and the
rows of other students in it carry their committed scores (`KeepsRows`). Then only the commit of a student's
own deduction can move his score.

**One request at a time** (under `Concurrency <= 1`). The promises of the repository are false for
overlapping submissions (section 6), so this hypothesis is the theorem's content and not a convenience; everything
else is arbitrary: how many judges, students, regions and deductions, which requests die or are refused, deletions, late
judges and the completion of the round. What was there before the run must then be what such requests leave behind
(`SerialAssumption`: one result for each fully marked student, of the deductions on record, ranked); every run's constants satisfy it
or allow more than one request. `SerialInv` says that the committed state is settled whenever nobody is in flight, and
for the request in flight which part of its work is done (`OnTrack`): it has seen the panel, its tally covers the judges it has passed, the
row it found is the student's only one, the ranks it has written are those of the view it reads. The refinement maps each
`Commit` of a finalising submission to the abstract `Submit` and every other statement to a stutter;
the mapping picks a student's row with CHOOSE, and uniqueness of results makes that choice the only one.

**Rounds.** A request that is past its validation saw a panel
with enough judges (`StartsAreValidated`), and the panel only grows (`EnoughGrows`), so the start that is
committed later still finds them; that the panel may have become too large is why `StatusFollowsPanel` is
about undisturbed histories: in those at most one request is in flight (`Undisturbed`), and what it
has read is still so. `OnStage` adds what a stage change knows between its commit and its announcement.

**Students.** The cap is a counting argument: whoever has passed `CheckCap` and not inserted is `Admitted`, there are at
most `Concurrency` of those, each was admitted when fewer than `Cap` were active, and only a restore adds one without having counted. That
deleted and archived agree rests on the row locks (`Exclusive`) and on sessions that write both columns of the newest row.

**Institutions and logins** (`AccessProofs`). `InstInv` keeps, for each request, what its batch still owes its list (`Owed`), whose rows it
has flushed (`Flushes`) and when rows of it may be on record (`Committed`), and, while nothing is disturbed, what a review knows. `OtpInv` keeps
what a call has read: a reserved code is not taken, an answered code is of the caller's institution, and a code's sessions together with the
calls about to open one are no more than the callers. `Quiet` is the stronger knowledge while no call overlaps.
`FewGuesses` needs a potential: `Left(a)` is twice what a code with counter `a` can still take, `LeftWith(v, a)` the same with a caller who has read `v`,
and no step raises `2 * guesses + Left` above its start. `GuessesAreFew` holds for any number of callers, codes and calls, two at a time
(`Concurrency <= 2`, the case the bound is stated for; three callers who read the same value exceed it already with `n = 1`).

**Rubric.** `RubricInv` is `RubricTypes /\ RecordInv /\ RaceInv`. Until a switch that repeats the mode runs beside another, `Progress` says
what a switch in flight would leave if it committed now (`View`: the committed rows with its own writes over them): the groups
behind it have the rows of its mode, those ahead are as on record, and the group it is at lacks only the deletions still in
`obsolete`; at the COMMIT all groups are behind. A switch to another mode holds the row of the season, which is why two of
them cannot be under way. `RaceInv` is the other half: a switch that has met no
request works on rows that are all still committed, so neither the foreign key nor a missing row can stop it.

**Jobs.** A run at `Report` has stored the file, and no step removes it; while the key says RUNNING some run is under way or queued,
unless one broke off: a run that queues a retry leaves a message behind. `RunsBounded` counts the nodes of the tree of retries
without a power or a sum: a node is the sequence of students that failed on the way to it (`Paths`). `RunsInv` adds to the runs so far the nodes below
each queued message and below each running worker's students still to come, and no step raises the total except the loss of a worker, which
adds one tree. The sets below different messages are kept apart by tags, so that their cardinalities add (`Tagged`).

**Competitions.** `CompQuiet`: a request about to promote has read every current edition, unless it met another that says
who is current. `CompBudget` is the bound for races: a set `X` of current editions and the promotions that are blind to it (which clear none of
`X`) number at most `AtOnce` together, since they were all in flight when the first of `X` became current.
`CompGallery`: an edit that met no other has loaded the gallery as it is.

**Letters.** `Accounted`: a student's letters are those logged, those lost by a request that died in between, and those of requests
at `record` (`Between`). `ToldInv`: a decision that crossed no other knows the row it will write, and
from its commit to its mail the other column's news has been told already, or unsaid by a receipt that came late (`late`). A pending receipt names the category of the registration;
while the student has been told of none, that is also the one on record, so it then tells the truth (`KnowsCategory`).

**Questions and documents.** `Kept`: before a question has a row its only saver is at the INSERT, and from then on every saver is at the
UPDATE and, for a column it gives alone, has loaded what is on record. `DocumentInv`: every key in a row
or in the bucket was made from a name its owner has had (`MadeFor`), so it belongs to him wherever owners are `Apart`; that holds for the columns that are not `supplied`, of which alone it is known where their key is from.
While uploads to a column do not cross, the file under its key is that of the last recorded upload or of the one about to be recorded.
`PlainIdsKeepFilesApart` says when students need not rely on their names: two joined sequences whose last parts have one length are equal only if these
parts are (`JoinedApart`), so ids that differ and have equally many words between underscores keep folders apart through every rename.

**Leaderboard.** `Quiet`: when no finalisation is in flight each socket that is not stale shows the record, or is about to be greeted with it.
`Cast` follows an undisturbed finalisation: its board is the record with its result, and each open socket is still to be sent to or shows
it. `Busy`: a socket that connects during a finalisation is stale, because its snapshot may be from before the commit.

Only model-checked: `RequestsEnd` and `IntakesEnd`, which need fairness and ENABLED; `JudgeScoreIsFlooredSum`, `MedianIsMiddleOfSorted` and
`SheetAgreesWithEngine`, which compare with folds and sorting and would need induction over data (the arithmetic theorems
characterise the same scores without them); `UnflaggedPanelAgrees`, whose general form is `UnflaggedPanelsAgree`; and
`OthersScoresStayHidden`, a property of the sheets, whose totals are folds.

## 5. Students

A registration counts the active students, looks at the slot (institution, category) and inserts:
three statements, `CheckCap`, `CheckSlot`, `Insert`. Every other change of a record is one protocol,
`ChangeBegin`, `Load`, (`CheckTarget`), `Write`, `Commit`, repeated over the students of a bulk
request; a single request is a bulk request of one, since a refusal and a skip both change
nothing. `After` is the object after the handler's assignments, and `Updated` what SQLAlchemy makes of
it: an UPDATE of the columns that differ from the loaded ones, on the newest committed row. A
session waits (`Blockers`) for a row another one has written and for a slot another one is about to
take or leave; `uq_student_institution_category` counts deleted rows, so a slot stays taken by a
deleted student and the INSERT that passed `CheckSlot` fails. The run starts with four active
students because the cap of the code is the literal 4.

`CapExceededByRacesOnly` says how far the check-then-insert can go wrong: with `Concurrency`
requests in flight at most `Concurrency - 1` students too many, plus one for every restore, since
`restore_student` does not count. `restored` is a history variable for this bound. National ids,
phones and ages only refuse requests; `Fail` may stop a request at any step and covers them.

## 6. Disagreements

| Run | What the repository says | What the code does |
|---|---|---|
| `scoring_duplicate` | "Upsert RoundResult" (`services/ranking_engine.py:173`) | two finalisations of one student both find no row and both insert; no constraint forbids it, and every later submission for him fails with `MultipleResultsFound` |
| `scoring_untriggered` | the engine fires when all assigned judges have submitted (`routes/scoring.py:32-33`) | two last judges who submit together do not see each other's event; no result is computed until somebody submits again |
| `students_cap` | "Max 4 active students per institution" (`crud/students.py:4,56`) | delete one of four, register another, restore the first: five, one request at a time |

Met while modelling, without a run of their own:

* A start that read PENDING in time reopens a round completed since (`crud/rounds.py:110`); commits and broadcasts of two
  stage changes may cross (`routes/rounds.py:131-135`). Both are behaviours of `Rounds` and the reason for `disturbed`.
* `_snapshot` announces "the most recent active/completed round" (`ws/leaderboard.py:28`) and takes the one scheduled
  last, whatever its status (`Leaderboard!Newest`).
* Two first saves of one question leave two rows, and every later save of it fails (`Questions!Find`).
* Institutions whose names differ only in punctuation, and students whose initial, last name and national id make the same
  text, share storage keys (`Documents!Apart`): the national id loses its punctuation but not its underscores, so Ali_1 with the id 2 and
  Ali with the id 1_2 have one folder (`services/s3.py:44-47`).
* Whatever a registration or `PATCH /institutions/{id}` has for a key column becomes a link, to nothing or to the file of somebody else
  (`schemas/student.py:19-20`, `schemas/institution.py:15-19,48-52`); `LinksLeadToOwnUploads` is about what uploads have written.
* A decision that is committed and told before the receipt of the registration is mailed (`routes/students.py:59-63`) is followed by "under review"
  and the old category (`Letters!Receipt`).
* `/students/bulk/restore`, `/bulk/permanent` and `/bulk/regret-email` are declared after `/{student_id}/restore`, `/{student_id}/permanent` and
  `/{student_id}/regret-email`, which match first and refuse the word `bulk` as an id. `Students` has the bulk restore and the bulk permanent
  deletion all the same: their handlers are modelled, and what holds with them holds without.
* A job that is DONE goes back to RUNNING when one of its queued retries begins (`Jobs!Take`).
* The regret letter to a student without a deletion reason asks for `review_notes`, a column students do not
  have, and raises (`services/notifications.py:283`, `Letters!RegretWritten`).
* `POST /students/bulk/regret-email` says that it sends the letters (`routes/students.py:497`); the task it queues
  (`workers/tasks.py`) sends none, which is why `Letters` has the single route only.
* The duplicate check for the form (`routes/students.py:130-164`) ignores deleted students, the creation refuses them.
* The clean-up of obsolete deduction types (`services/rubric_manager.py:234-242`) finds none between the two configured modes.

## 7. Not modelled

Dossiers, workbooks and certificates (`services/dossier.py`, `services/reporting.py`, `services/certificate.py`) are
layout. Read-only routes, podium and replication of an edition, templates, migrations and one-off
patch scripts change no state that a property could be about. `generate_excel_export_task` is started by nothing.
PATCHes of personal data write the columns they were given. Authentication is
reduced to the round claim of a judge's token, one-time codes and the standing of an institution: passwords, signatures and
expiry of tokens are left to their libraries. Tie-breaking votes are a `pass` in the engine. The queue of
Celery may deliver a message again or lose it with a worker; that Redis or PostgreSQL lose what they have
acknowledged is not considered, nor that a message is delivered again while the worker that holds it is still at it (a visibility timeout). `Scoring`, `Rounds` and
`Leaderboard` have one hub, as the one process of `start.sh` has: with several of them, which only `Rubric` considers, a broadcast would
reach the sockets of its own process.

## 8. What is left

1. Proofs: the sheets of `Sheet`, with its sums written as cardinalities like those of `PanelScore`.
2. Liveness of the bulk requests of `Students`, which lock rows in the order of the request.
3. `Leaderboard` composed with `Scoring!Broadcast` in one specification, and `Rubric` with `Scoring`'s events.
