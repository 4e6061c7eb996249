----------------------------- MODULE RoundsProofs ----------------------------
(***************************************************************************)
(* The panel of a started round and the student on its stage, for any      *)
(* number of users and requests, any assignments made before, and any      *)
(* bound on the requests in flight.                                        *)
(***************************************************************************)
EXTENDS Rounds, FiniteSetTheorems, TLAPS

(* What a start has validated, or a status shows, of the panel: it only    *)
(* grows afterwards.                                                       *)
Enough(p) ==
  /\ Cardinality(OfRole(p, "REGULAR")) >= 3
  /\ RoundType = "FINAL" => Cardinality(OfRole(p, "GUEST_NEUTRAL")) >= 1
AssignsAUser == \A r \in Requests : pc[r] = "assign" => arg[r].user \in Users
StartedHasEnough == status # "PENDING" => Enough(panel)
StartsAreValidated == \A r \in Requests : pc[r] = "start" => Enough(panel)
StatusIsRead == \A r \in Requests : pc[r] = "complete" => status # "PENDING"
(* And exactly, as long as the requests do not overlap.                    *)
Undisturbed ==
  ~disturbed =>
    /\ \A q, r \in InFlight : q = r
    /\ \A r \in Requests :
         /\ pc[r] \in {"validate", "start"} => status = "PENDING"
         /\ pc[r] = "start" => ValidPanel(panel)
         /\ pc[r] = "complete" => status = "ACTIVE"
IInv == /\ TypeOK /\ AssignsAUser /\ StartedHasEnough
        /\ StartsAreValidated /\ StatusIsRead /\ Undisturbed

LEMMA PanelFinite ==
  ASSUME NEW p \in SUBSET (Users \X JudgeRoles), NEW role
  PROVE  IsFiniteSet(OfRole(p, role)) /\ Cardinality(OfRole(p, role)) \in Nat
<1>1. IsFiniteSet(JudgeRoles)
  <2>1. JudgeRoles = {"REGULAR"} \cup {"GUEST_NEUTRAL"}
    BY DEF JudgeRoles
  <2>2. IsFiniteSet({"REGULAR"})
    BY FS_Singleton
  <2> QED BY <2>1, <2>2, FS_AddElement
<1>2. IsFiniteSet(Users \X JudgeRoles)
  BY <1>1, FS_Product, RoundsAssumption
<1> QED BY <1>2, FS_Subset, FS_CardinalityType DEF OfRole

LEMMA EnoughGrows ==
  ASSUME NEW p \in SUBSET (Users \X JudgeRoles), NEW q \in SUBSET p, Enough(q)
  PROVE  Enough(p)
<1>1. ASSUME NEW role
      PROVE  Cardinality(OfRole(q, role)) <= Cardinality(OfRole(p, role))
  <2>1. OfRole(q, role) \subseteq OfRole(p, role)
    BY DEF OfRole
  <2> QED BY <2>1, PanelFinite, FS_Subset
<1>2. \A role : /\ Cardinality(OfRole(p, role)) \in Nat
                /\ Cardinality(OfRole(q, role)) \in Nat
  BY PanelFinite
<1>3. Cardinality(OfRole(p, "REGULAR")) >= 3
  BY <1>1, <1>2 DEF Enough
<1>4. RoundType = "FINAL" => Cardinality(OfRole(p, "GUEST_NEUTRAL")) >= 1
  BY <1>1, <1>2 DEF Enough
<1> QED BY <1>3, <1>4 DEF Enough

LEMMA ValidIsEnough == ASSUME NEW p, ValidPanel(p) PROVE Enough(p)
BY DEF ValidPanel, Enough

LEMMA InductiveInit == Init => IInv
<1> SUFFICES ASSUME Init PROVE IInv
  OBVIOUS
<1>1. TypeOK
  BY RoundsAssumption DEF Init, TypeOK, Steps, Args, NoArg, JudgeRoles
<1> QED BY <1>1 DEF Init, IInv, AssignsAUser, StartedHasEnough, StartsAreValidated, StatusIsRead, Undisturbed,
                    InFlight

LEMMA NoArgType == NoArg \in Args
BY DEF NoArg, Args, JudgeRoles

-----------------------------------------------------------------------------
(* A request that begins makes the history disturbed, or is alone.         *)
LEMMA BeginStep ==
  ASSUME TypeOK, Undisturbed, NEW r \in Requests, NEW step \in Steps, Begin(r, step)
  PROVE  /\ pc' \in [Requests -> Steps] /\ disturbed' \in BOOLEAN
         /\ pc' = [pc EXCEPT ![r] = step]
         /\ ~disturbed' => /\ ~disturbed /\ InFlight = {}
                           /\ \A q \in Requests : pc[q] \in {"idle", "done"}
                           /\ \A p, q \in InFlight' : p = q
<1>1. pc' = [pc EXCEPT ![r] = step] /\ disturbed' = (disturbed \/ InFlight # {})
  BY DEF Begin
<1>2. pc' \in [Requests -> Steps] /\ disturbed' \in BOOLEAN
  BY <1>1 DEF TypeOK
<1>3. ASSUME ~disturbed'
      PROVE  ~disturbed /\ InFlight = {} /\ \A q \in Requests : pc[q] \in {"idle", "done"}
  BY <1>1, <1>3 DEF InFlight
<1>4. ASSUME ~disturbed', NEW p \in InFlight', NEW q \in InFlight'
      PROVE  p = q
  BY <1>1, <1>3, <1>4 DEF InFlight, TypeOK
<1> QED BY <1>1, <1>2, <1>3, <1>4

(* A request that goes on, or ends, leaves the others where they are.      *)
LEMMA GoStep ==
  ASSUME TypeOK, Undisturbed, NEW r \in InFlight, NEW step \in Steps,
         pc' = [pc EXCEPT ![r] = step], disturbed' = disturbed \/ disturbed' = TRUE
  PROVE  /\ r \in Requests /\ pc' \in [Requests -> Steps] /\ disturbed' \in BOOLEAN
         /\ ~disturbed' => /\ ~disturbed
                           /\ \A q \in Requests \ {r} : pc[q] \in {"idle", "done"}
                           /\ \A p, q \in InFlight' : p = q
<1>1. r \in Requests /\ pc' \in [Requests -> Steps] /\ disturbed' \in BOOLEAN
  BY DEF TypeOK, InFlight
<1>2. ASSUME ~disturbed'
      PROVE  ~disturbed /\ \A q \in Requests \ {r} : pc[q] \in {"idle", "done"}
  <2>1. ~disturbed
    BY <1>2
  <2> QED BY <2>1 DEF Undisturbed, InFlight
<1>3. ASSUME ~disturbed', NEW p \in InFlight', NEW q \in InFlight'
      PROVE  p = q
  BY <1>2, <1>3 DEF InFlight, TypeOK
<1> QED BY <1>1, <1>2, <1>3

(* A request begins: nothing but its place and what it was given changes.  *)
LEMMA BeginKeeps ==
  ASSUME IInv, NEW r \in Requests,
         NEW step \in {"assign", "validate", "complete", "student"}, Begin(r, step),
         UNCHANGED <<status, panel, student, screen, judges>>,
         arg' \in [Requests -> Args], \A q \in Requests \ {r} : arg'[q] = arg[q],
         step = "assign" => arg'[r].user \in Users,
         step = "validate" => status = "PENDING",
         step = "complete" => status = "ACTIVE"
  PROVE  IInv'
<1>1. TypeOK /\ Undisturbed /\ step \in Steps
  BY DEF IInv, Steps
<1>2. /\ pc' \in [Requests -> Steps] /\ disturbed' \in BOOLEAN
      /\ pc' = [pc EXCEPT ![r] = step]
      /\ ~disturbed' => /\ ~disturbed /\ \A q \in Requests : pc[q] \in {"idle", "done"}
                        /\ \A p, q \in InFlight' : p = q
  BY <1>1, BeginStep
<1>3. pc'[r] = step /\ \A q \in Requests \ {r} : pc'[q] = pc[q]
  BY <1>1, <1>2 DEF TypeOK
<1>4. TypeOK'
  BY <1>1, <1>2 DEF TypeOK
<1>5. AssignsAUser' /\ StartedHasEnough' /\ StartsAreValidated' /\ StatusIsRead'
  BY <1>3 DEF IInv, AssignsAUser, StartedHasEnough, StartsAreValidated, StatusIsRead, Enough
<1>6. Undisturbed'
  BY <1>2, <1>3 DEF Undisturbed
<1> QED BY <1>4, <1>5, <1>6 DEF IInv

(* A request goes on or ends; the status may move and the panel grow.      *)
LEMMA GoKeeps ==
  ASSUME IInv, NEW r \in InFlight, NEW step \in {"start", "broadcast", "done"},
         pc' = [pc EXCEPT ![r] = step], disturbed' = disturbed \/ disturbed' = TRUE,
         panel' \subseteq Users \X JudgeRoles, panel \subseteq panel',
         status' \in {status, "ACTIVE", "COMPLETED"},
         status' # status => pc[r] \in {"start", "complete"},
         step = "start" => ValidPanel(panel) /\ pc[r] = "validate" /\ panel' = panel,
         step # "start" \/ status' = status,
         judges' = judges, student' \in Students \cup {Nobody},
         screen' \in Students \cup {Nobody},
         arg' \in [Requests -> Args], \A q \in Requests \ {r} : arg'[q] = arg[q]
  PROVE  IInv'
<1>1. TypeOK /\ Undisturbed /\ step \in Steps
  BY DEF IInv, Steps
<1>2. /\ r \in Requests /\ pc' \in [Requests -> Steps] /\ disturbed' \in BOOLEAN
      /\ ~disturbed' => /\ ~disturbed
                        /\ \A q \in Requests \ {r} : pc[q] \in {"idle", "done"}
                        /\ \A p, q \in InFlight' : p = q
  BY <1>1, GoStep
<1>3. pc'[r] = step /\ \A q \in Requests \ {r} : pc'[q] = pc[q]
  BY <1>1, <1>2 DEF TypeOK
<1>4. TypeOK'
  BY <1>1, <1>2 DEF TypeOK
<1>5. Enough(panel) => Enough(panel')
  BY EnoughGrows
<1>6. StartedHasEnough'
  <2>1. CASE status' = status
    BY <2>1, <1>5 DEF IInv, StartedHasEnough
  <2>2. CASE status' # status
    <3>1. Enough(panel)
      BY <2>2, <1>2 DEF IInv, StartedHasEnough, StartsAreValidated, StatusIsRead
    <3> QED BY <3>1, <1>5 DEF StartedHasEnough
  <2> QED BY <2>1, <2>2
<1>7. StartsAreValidated'
  <2> SUFFICES ASSUME NEW q \in Requests, pc'[q] = "start" PROVE Enough(panel')
    BY DEF StartsAreValidated
  <2>1. CASE q = r
    BY <2>1, <1>3, <1>5, ValidIsEnough
  <2>2. CASE q # r
    BY <2>2, <1>3, <1>5 DEF IInv, StartsAreValidated
  <2> QED BY <2>1, <2>2
<1>8. AssignsAUser'
  BY <1>3 DEF IInv, AssignsAUser
<1>9. StatusIsRead'
  BY <1>3 DEF IInv, StatusIsRead
<1>10. Undisturbed'
  <2> SUFFICES ASSUME ~disturbed'
               PROVE  /\ \A p, q \in InFlight' : p = q
                      /\ \A q \in Requests :
                           /\ pc'[q] \in {"validate", "start"} => status' = "PENDING"
                           /\ pc'[q] = "start" => ValidPanel(panel')
                           /\ pc'[q] = "complete" => status' = "ACTIVE"
    BY DEF Undisturbed
  <2>1. pc[r] = "validate" => status = "PENDING"
    BY <1>2 DEF IInv, Undisturbed
  <2> QED BY <1>2, <1>3, <2>1
<1> QED BY <1>4, <1>6, <1>7, <1>8, <1>9, <1>10 DEF IInv

LEMMA InductiveStep == IInv /\ [Next]_vars => IInv'
<1> SUFFICES ASSUME IInv, [Next]_vars PROVE IInv'
  OBVIOUS
<1>0. TypeOK
  BY DEF IInv
<1>1. ASSUME NEW r \in Requests, AssignCheck(r) PROVE IInv'
  <2>1. PICK u \in judges, role \in JudgeRoles :
          arg' = [arg EXCEPT ![r].user = u, ![r].role = role]
    BY <1>1 DEF AssignCheck
  <2>2. arg' \in [Requests -> Args] /\ arg'[r].user \in Users
    BY <1>0, <2>1 DEF TypeOK, Args
  <2>3. \A q \in Requests \ {r} : arg'[q] = arg[q]
    BY <1>0, <2>1 DEF TypeOK
  <2> QED BY <1>1, <2>2, <2>3, BeginKeeps DEF AssignCheck
<1>2. ASSUME NEW r \in Requests, AssignCommit(r) PROVE IInv'
  <2>1. arg[r].user \in Users /\ arg[r].role \in JudgeRoles
    BY <1>0, <1>2 DEF AssignCommit, IInv, AssignsAUser, TypeOK, Args
  <2>2. panel' \subseteq Users \X JudgeRoles /\ panel \subseteq panel'
    BY <1>0, <1>2, <2>1 DEF AssignCommit, TypeOK
  <2>3. /\ pc' = [pc EXCEPT ![r] = "done"] /\ disturbed' = disturbed
        /\ arg' = [arg EXCEPT ![r] = NoArg] /\ r \in InFlight
    BY <1>2 DEF AssignCommit, Finish, Drop, InFlight
  <2>4. arg' \in [Requests -> Args] /\ \A q \in Requests \ {r} : arg'[q] = arg[q]
    BY <1>0, <2>3, NoArgType DEF TypeOK
  <2> QED BY <1>0, <1>2, <2>2, <2>3, <2>4, GoKeeps DEF AssignCommit, TypeOK
<1>3. ASSUME NEW r \in Requests, StartRead(r) PROVE IInv'
  BY <1>0, <1>3, BeginKeeps DEF StartRead, TypeOK
<1>4. ASSUME NEW r \in Requests, StartValidate(r) PROVE IInv'
  <2>1. r \in InFlight
    BY <1>4 DEF StartValidate, InFlight
  <2>2. CASE ValidPanel(panel)
    BY <1>0, <1>4, <2>1, <2>2, GoKeeps DEF StartValidate, Goto, TypeOK
  <2>3. CASE ~ValidPanel(panel)
    BY <1>0, <1>4, <2>1, <2>3, GoKeeps DEF StartValidate, Goto, TypeOK
  <2> QED BY <2>2, <2>3
<1>5. ASSUME NEW r \in Requests,
             StartCommit(r) \/ CompleteCommit(r) \/ StudentBroadcast(r) \/ Fail(r)
      PROVE  IInv'
  <2>1. /\ pc' = [pc EXCEPT ![r] = "done"] /\ r \in InFlight
        /\ arg' = [arg EXCEPT ![r] = NoArg] /\ (disturbed' = disturbed \/ disturbed' = TRUE)
        /\ panel' = panel /\ judges' = judges
        /\ status' \in {status, "ACTIVE", "COMPLETED"}
        /\ status' # status => pc[r] \in {"start", "complete"}
        /\ student' = student
    BY <1>5 DEF StartCommit, CompleteCommit, StudentBroadcast, Fail, Finish, Drop, InFlight
  <2>2. arg' \in [Requests -> Args] /\ \A q \in Requests \ {r} : arg'[q] = arg[q]
    BY <1>0, <2>1, NoArgType DEF TypeOK
  <2>3. screen' \in Students \cup {Nobody}
    BY <1>0, <1>5 DEF StartCommit, CompleteCommit, StudentBroadcast, Fail, TypeOK, Args
  <2> QED BY <1>0, <2>1, <2>2, <2>3, GoKeeps DEF TypeOK
<1>6. ASSUME NEW r \in Requests, CompleteRead(r) PROVE IInv'
  BY <1>0, <1>6, BeginKeeps DEF CompleteRead, TypeOK
<1>7. ASSUME NEW r \in Requests, StudentRead(r) PROVE IInv'
  <2>1. PICK t \in Students :
          arg' = [arg EXCEPT ![r].student = t, ![r].loaded = student]
    BY <1>7 DEF StudentRead
  <2>2. arg' \in [Requests -> Args] /\ \A q \in Requests \ {r} : arg'[q] = arg[q]
    BY <1>0, <2>1 DEF TypeOK, Args
  <2> QED BY <1>7, <2>2, BeginKeeps DEF StudentRead
<1>8. ASSUME NEW r \in Requests, StudentCommit(r) PROVE IInv'
  <2>1. r \in InFlight /\ pc' = [pc EXCEPT ![r] = "broadcast"] /\ disturbed' = disturbed
    BY <1>8 DEF StudentCommit, InFlight, Goto
  <2>2. student' \in Students \cup {Nobody}
    BY <1>0, <1>8 DEF StudentCommit, TypeOK, Args
  <2> QED BY <1>0, <1>8, <2>1, <2>2, GoKeeps DEF StudentCommit, TypeOK
<1>9. ASSUME NEW u \in Users, ChangeRole(u) PROVE IInv'
  <2>1. TypeOK'
    BY <1>0, <1>9 DEF ChangeRole, TypeOK
  <2> QED BY <1>9, <2>1 DEF ChangeRole, IInv, AssignsAUser, StartedHasEnough, StartsAreValidated,
             StatusIsRead, Undisturbed, InFlight
<1>10. CASE UNCHANGED vars
  <2>1. TypeOK'
    BY <1>0, <1>10 DEF vars, TypeOK
  <2> QED BY <1>10, <2>1 DEF vars, IInv, AssignsAUser, StartedHasEnough, StartsAreValidated,
             StatusIsRead, Undisturbed, InFlight
<1> QED BY <1>1, <1>2, <1>3, <1>4, <1>5, <1>6, <1>7, <1>8, <1>9, <1>10 DEF Next

-----------------------------------------------------------------------------
(* The rounds routes keep their variables in their domains.                *)
THEOREM RoundsTypeCorrect == Spec => []TypeOK
<1>1. IInv => TypeOK
  BY DEF IInv
<1> QED BY <1>1, InductiveInit, InductiveStep, PTL DEF Spec

(* A started round has the judges its type needs, however assignments,     *)
(* starts, completions and failures interleave (start_round,               *)
(* _validate_panel).                                                       *)
THEOREM StartedRoundHasJudges == Spec => []EnoughJudges
<1>1. IInv => EnoughJudges
  BY DEF IInv, StartedHasEnough, EnoughJudges, Enough
<1> QED BY <1>1, InductiveInit, InductiveStep, PTL DEF Spec

(* As long as requests do not overlap, the status moves forward only, and  *)
(* to ACTIVE on a valid panel (start_round, complete_round).               *)
THEOREM StatusFollowsPanel == Spec => StartedOnceWithValidPanel
<1> DEFINE Good == status' # status /\ ~disturbed =>
              \/ status = "PENDING" /\ status' = "ACTIVE" /\ ValidPanel(panel)
              \/ status = "ACTIVE" /\ status' = "COMPLETED"
<1>1. IInv /\ [Next]_vars => [Good]_vars
  <2> SUFFICES ASSUME IInv, Next, status' # status, ~disturbed
               PROVE  \/ status = "PENDING" /\ status' = "ACTIVE" /\ ValidPanel(panel)
                      \/ status = "ACTIVE" /\ status' = "COMPLETED"
    OBVIOUS
  <2>1. PICK r \in Requests : StartCommit(r) \/ CompleteCommit(r)
    BY DEF Next, AssignCheck, AssignCommit, StartRead, StartValidate, CompleteRead,
           StudentRead, StudentCommit, StudentBroadcast, ChangeRole, Fail
  <2> QED BY <2>1 DEF StartCommit, CompleteCommit, IInv, Undisturbed
<1> QED BY <1>1, InductiveInit, InductiveStep, PTL DEF Spec, StartedOnceWithValidPanel

-----------------------------------------------------------------------------
(* The student on stage, while nothing overlaps: a request knows him, and  *)
(* the screens show him but between the commit and the announcement.       *)
OnStage ==
  ~disturbed =>
    /\ \A r \in Requests : pc[r] = "student" => arg[r].loaded = student
    /\ \A r \in Requests : pc[r] = "broadcast" => arg[r].student = student
    /\ screen = student \/ \E r \in Requests : pc[r] = "broadcast"

LEMMA OnStageBegins ==
  ASSUME IInv, OnStage, NEW r \in Requests, NEW step \in Steps, Begin(r, step),
         step # "broadcast", step = "student" => arg'[r].loaded = student,
         UNCHANGED <<student, screen>>
  PROVE  OnStage'
<1> SUFFICES ASSUME ~disturbed'
             PROVE  /\ \A q \in Requests : pc'[q] = "student" => arg'[q].loaded = student
                    /\ \A q \in Requests : pc'[q] = "broadcast" => arg'[q].student = student
                    /\ screen = student
  BY DEF OnStage
<1>1. /\ pc' = [pc EXCEPT ![r] = step] /\ pc' \in [Requests -> Steps] /\ ~disturbed
      /\ \A q \in Requests : pc[q] \in {"idle", "done"}
  BY BeginStep DEF IInv
<1>2. \A q \in Requests : pc'[q] = IF q = r THEN step ELSE pc[q]
  BY <1>1 DEF IInv, TypeOK
<1> QED BY <1>1, <1>2 DEF OnStage

LEMMA OnStageGoes ==
  ASSUME IInv, OnStage, NEW r \in InFlight, NEW step \in {"start", "broadcast", "done"},
         pc' = [pc EXCEPT ![r] = step], disturbed' = disturbed \/ disturbed' = TRUE,
         ~disturbed' =>
           IF step = "broadcast" THEN arg'[r].student = student'
           ELSE student' = student /\ screen' = IF pc[r] = "broadcast" THEN student ELSE screen
  PROVE  OnStage'
<1> SUFFICES ASSUME ~disturbed'
             PROVE  /\ \A q \in Requests : pc'[q] = "student" => arg'[q].loaded = student'
                    /\ \A q \in Requests : pc'[q] = "broadcast" => arg'[q].student = student'
                    /\ screen' = student' \/ \E q \in Requests : pc'[q] = "broadcast"
  BY DEF OnStage
<1>1. /\ r \in Requests /\ ~disturbed
      /\ \A q \in Requests \ {r} : pc[q] \in {"idle", "done"}
  BY GoStep DEF IInv, Steps
<1>2. \A q \in Requests : pc'[q] = IF q = r THEN step ELSE pc[q]
  BY DEF IInv, TypeOK
<1> QED BY <1>1, <1>2 DEF OnStage

LEMMA OnStageStep == IInv /\ OnStage /\ [Next]_vars => OnStage'
<1> SUFFICES ASSUME IInv, OnStage, [Next]_vars PROVE OnStage'
  OBVIOUS
<1>1. ASSUME NEW r \in Requests, AssignCheck(r) \/ StartRead(r) \/ CompleteRead(r)
      PROVE  OnStage'
  BY <1>1, OnStageBegins DEF AssignCheck, StartRead, CompleteRead, Steps
<1>2. ASSUME NEW r \in Requests, StudentRead(r) PROVE OnStage'
  <2>1. arg'[r].loaded = student
    BY <1>2 DEF StudentRead, IInv, TypeOK, Args
  <2> QED BY <1>2, <2>1, OnStageBegins DEF StudentRead, Steps
<1>3. ASSUME NEW r \in Requests,
             \/ AssignCommit(r) \/ StartValidate(r) \/ StartCommit(r) \/ CompleteCommit(r)
             \/ StudentBroadcast(r) \/ Fail(r)
      PROVE  OnStage'
  <2>1. /\ r \in InFlight /\ (disturbed' = disturbed \/ disturbed' = TRUE) /\ student' = student
        /\ \E step \in {"start", "done"} : pc' = [pc EXCEPT ![r] = step]
    BY <1>3 DEF AssignCommit, StartValidate, StartCommit, CompleteCommit, StudentBroadcast, Fail,
                Finish, Drop, Goto, InFlight
  <2>2. ~disturbed' => screen' = IF pc[r] = "broadcast" THEN student ELSE screen
    BY <1>3 DEF AssignCommit, StartValidate, StartCommit, CompleteCommit, StudentBroadcast, Fail,
                Finish, Goto, OnStage
  <2> QED BY <2>1, <2>2, OnStageGoes
<1>4. ASSUME NEW r \in Requests, StudentCommit(r) PROVE OnStage'
  <2>1. /\ r \in InFlight /\ pc' = [pc EXCEPT ![r] = "broadcast"] /\ disturbed' = disturbed
        /\ arg' = arg
    BY <1>4 DEF StudentCommit, InFlight, Goto
  <2>2. ~disturbed => arg[r].student = student'
    BY <1>4 DEF StudentCommit, OnStage
  <2> QED BY <2>1, <2>2, OnStageGoes
<1>5. ASSUME UNCHANGED <<student, screen, pc, arg, disturbed>> PROVE OnStage'
  BY <1>5 DEF OnStage
<1> QED BY <1>1, <1>2, <1>3, <1>4, <1>5 DEF Next, ChangeRole, vars

(* Requests that did not overlap, and have ended, leave the student of the *)
(* database on all screens (set_active_student announces him after its     *)
(* commit).                                                                *)
THEOREM StageIsShown == Spec => []StageReachesScreens
<1>1. Init => OnStage
  BY DEF Init, OnStage
<1>2. OnStage => StageReachesScreens
  BY DEF OnStage, StageReachesScreens, InFlight
<1> QED BY <1>1, <1>2, OnStageStep, InductiveInit, InductiveStep, PTL DEF Spec
=============================================================================
