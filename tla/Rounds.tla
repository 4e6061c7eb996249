------------------------------- MODULE Rounds --------------------------------
(***************************************************************************)
(* The life of one round: its judge panel, its status and the student on   *)
(* stage (app/crud/rounds.py, app/api/v1/routes/rounds.py).                *)
(*                                                                         *)
(*   POST /rounds/{id}/judges               AssignCheck, AssignCommit      *)
(*   POST /rounds/{id}/start                StartRead, StartValidate,      *)
(*                                          StartCommit                    *)
(*   POST /rounds/{id}/complete             CompleteRead, CompleteCommit   *)
(*   POST /rounds/{id}/active-student/{s}   StudentRead, StudentCommit,    *)
(*                                          StudentBroadcast               *)
(*   PATCH /admin-users/{id} (role)         ChangeRole                     *)
(*                                                                         *)
(* Each request is one READ COMMITTED transaction: what it read may have   *)
(* changed when it writes, and its UPDATE sets its own columns only.  A    *)
(* request that is refused changes nothing and simply ends.                *)
(***************************************************************************)
EXTENDS Integers, FiniteSets

CONSTANTS
  Users,        \* admin users
  Students,
  Seated,       \* the assignments made before the requests below
  RoundType,    \* "PRELIMINARY" or "FINAL"
  Requests,     \* one id for each request
  Concurrency,  \* bound on the requests in flight
  Failing,      \* requests that may die between two statements
  Nobody        \* no student on stage

JudgeRoles == {"REGULAR", "GUEST_NEUTRAL"}

ASSUME RoundsAssumption ==
  /\ IsFiniteSet(Users)
  /\ Seated \subseteq Users \X JudgeRoles
  /\ \A a, b \in Seated : a[1] = b[1] => a = b
  /\ RoundType \in {"PRELIMINARY", "FINAL"}
  /\ Failing \subseteq Requests /\ Concurrency \in Nat
  /\ Nobody \notin Students

VARIABLES
  status,    \* rounds.status
  panel,     \* round_judge_assignments: <<user, judge_role>>
  judges,    \* users whose role is JUDGE
  student,   \* rounds.active_student_id
  screen,    \* the student last announced to the judges' screens
  pc,        \* the next statement of each request
  arg,       \* what the request was given, or has read
  disturbed  \* history: two requests have overlapped, or one has died

vars == <<status, panel, judges, student, screen, pc, arg, disturbed>>

Steps == {"idle", "assign", "validate", "start", "complete", "student",
          "broadcast", "done"}
Args == [user: Users \cup {Nobody}, role: JudgeRoles,
         student: Students \cup {Nobody}, loaded: Students \cup {Nobody}]
NoArg == [user |-> Nobody, role |-> "REGULAR", student |-> Nobody,
          loaded |-> Nobody]

InFlight == {r \in Requests : pc[r] \notin {"idle", "done"}}
Begin(r, step) ==
  /\ pc[r] = "idle" /\ Cardinality(InFlight) < Concurrency
  /\ pc' = [pc EXCEPT ![r] = step]
  /\ disturbed' = (disturbed \/ InFlight # {})
Goto(r, step) == pc' = [pc EXCEPT ![r] = step] /\ UNCHANGED disturbed
Drop(r) == pc' = [pc EXCEPT ![r] = "done"] /\ arg' = [arg EXCEPT ![r] = NoArg]
Finish(r) == Drop(r) /\ UNCHANGED disturbed

(* _validate_panel.                                                        *)
OfRole(p, role) == {a \in p : a[2] = role}
ValidPanel(p) ==
  /\ Cardinality(OfRole(p, "REGULAR")) = 3
  /\ Cardinality(OfRole(p, "GUEST_NEUTRAL"))
       = IF RoundType = "FINAL" THEN 1 ELSE 0
Assigned(p) == {a[1] : a \in p}

(* create_round, and the assignments made so far.                          *)
Init ==
  /\ status = "PENDING" /\ panel = Seated /\ judges = Users
  /\ student = Nobody /\ screen = Nobody
  /\ pc = [r \in Requests |-> "idle"]
  /\ arg = [r \in Requests |-> NoArg]
  /\ disturbed = FALSE

-----------------------------------------------------------------------------
(* assign_judge: the user must be a JUDGE; the status is not looked at.    *)
AssignCheck(r) ==
  /\ Begin(r, "assign")
  /\ \E u \in judges, role \in JudgeRoles :
       arg' = [arg EXCEPT ![r].user = u, ![r].role = role]
  /\ UNCHANGED <<status, panel, judges, student, screen>>

(* INSERT and commit; uq_judge_round refuses a second row for a user.      *)
AssignCommit(r) ==
  /\ pc[r] = "assign"
  /\ panel' = IF arg[r].user \in Assigned(panel) THEN panel
              ELSE panel \cup {<<arg[r].user, arg[r].role>>}
  /\ Finish(r)
  /\ UNCHANGED <<status, judges, student, screen>>

(* start_round: read the round, read and validate the panel, write.        *)
StartRead(r) ==
  /\ status = "PENDING"
  /\ Begin(r, "validate")
  /\ UNCHANGED <<status, panel, judges, student, screen, arg>>

\* Mutant: the panel is not validated.
StartUnvalidated(r) ==
  /\ pc[r] = "validate"
  /\ Goto(r, "start")
  /\ UNCHANGED <<status, panel, judges, student, screen, arg>>
StartValidate(r) ==
  /\ pc[r] = "validate"
  /\ Goto(r, IF ValidPanel(panel) THEN "start" ELSE "done")
  /\ UNCHANGED <<status, panel, judges, student, screen, arg>>

StartCommit(r) ==
  /\ pc[r] = "start"
  /\ status' = "ACTIVE"
  /\ Finish(r)
  /\ UNCHANGED <<panel, judges, student, screen>>

\* Mutant: any round can be completed.
CompleteReadAny(r) ==
  /\ Begin(r, "complete")
  /\ UNCHANGED <<status, panel, judges, student, screen, arg>>
(* complete_round.                                                         *)
CompleteRead(r) ==
  /\ status = "ACTIVE"
  /\ Begin(r, "complete")
  /\ UNCHANGED <<status, panel, judges, student, screen, arg>>

CompleteCommit(r) ==
  /\ pc[r] = "complete"
  /\ status' = "COMPLETED"
  /\ Finish(r)
  /\ UNCHANGED <<panel, judges, student, screen>>

(* set_active_student: the round must be ACTIVE when it is read; any       *)
(* student will do.                                                        *)
StudentRead(r) ==
  /\ status = "ACTIVE"
  /\ Begin(r, "student")
  /\ \E s \in Students :
       arg' = [arg EXCEPT ![r].student = s, ![r].loaded = student]
  /\ UNCHANGED <<status, panel, judges, student, screen>>

(* The ORM sends no UPDATE when the student is the one it has loaded.      *)
StudentCommit(r) ==
  /\ pc[r] = "student"
  /\ student' = IF arg[r].student = arg[r].loaded THEN student
                ELSE arg[r].student
  /\ Goto(r, "broadcast")
  /\ UNCHANGED <<status, panel, judges, screen, arg>>

\* Mutant: the student who was on stage before is announced.
StudentBroadcastLoaded(r) ==
  /\ pc[r] = "broadcast"
  /\ screen' = arg[r].loaded
  /\ Finish(r)
  /\ UNCHANGED <<status, panel, judges, student>>
(* Announced after the commit.                                             *)
StudentBroadcast(r) ==
  /\ pc[r] = "broadcast"
  /\ screen' = arg[r].student
  /\ Finish(r)
  /\ UNCHANGED <<status, panel, judges, student>>

(* The role of a user changes; assignments stay.                           *)
ChangeRole(u) ==
  /\ Cardinality(InFlight) < Concurrency
  /\ judges' = IF u \in judges THEN judges \ {u} ELSE judges \cup {u}
  /\ UNCHANGED <<status, panel, student, screen, pc, arg, disturbed>>

(* A request that dies is rolled back; what it committed stays.            *)
Fail(r) ==
  /\ r \in InFlight \cap Failing
  /\ Drop(r)
  /\ disturbed' = TRUE
  /\ UNCHANGED <<status, panel, judges, student, screen>>

Next ==
  \/ \E r \in Requests :
       \/ AssignCheck(r) \/ AssignCommit(r)
       \/ StartRead(r) \/ StartValidate(r) \/ StartCommit(r)
       \/ CompleteRead(r) \/ CompleteCommit(r)
       \/ StudentRead(r) \/ StudentCommit(r) \/ StudentBroadcast(r)
       \/ Fail(r)
  \/ \E u \in Users : ChangeRole(u)

Spec == Init /\ [][Next]_vars

-----------------------------------------------------------------------------
TypeOK ==
  /\ status \in {"PENDING", "ACTIVE", "COMPLETED"}
  /\ panel \subseteq Users \X JudgeRoles
  /\ judges \subseteq Users
  /\ student \in Students \cup {Nobody} /\ screen \in Students \cup {Nobody}
  /\ pc \in [Requests -> Steps]
  /\ arg \in [Requests -> Args]
  /\ disturbed \in BOOLEAN

(* A round that has been started has at least the judges its type needs,   *)
(* however assignments and starts interleave: the panel only grows after   *)
(* it was validated (start_round, assign_judge).                           *)
EnoughJudges ==
  status # "PENDING" =>
    /\ Cardinality(OfRole(panel, "REGULAR")) >= 3
    /\ RoundType = "FINAL" => Cardinality(OfRole(panel, "GUEST_NEUTRAL")) >= 1

(* --- What holds as long as no two requests have overlapped, none died -- *)

(* The panel is valid at the moment the round becomes ACTIVE ("enforced    *)
(* before a round can move to ACTIVE", models/round.py), and the status    *)
(* never goes back.                                                        *)
StartedOnceWithValidPanel ==
  [][status' # status /\ ~disturbed =>
       \/ status = "PENDING" /\ status' = "ACTIVE" /\ ValidPanel(panel)
       \/ status = "ACTIVE" /\ status' = "COMPLETED"]_vars

(* Every change of the student on stage reaches the screens ("so all judge *)
(* screens sync automatically").                                           *)
StageReachesScreens == InFlight = {} /\ ~disturbed => screen = student
==============================================================================
