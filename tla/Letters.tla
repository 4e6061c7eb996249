------------------------------- MODULE Letters -------------------------------
(***************************************************************************)
(* What a student is told (app/services/notifications.py) by the routes    *)
(* that decide about him (app/api/v1/routes/students.py).                  *)
(*                                                                         *)
(*   POST /students/{id}/approve, /reject,                                 *)
(*   PATCH /students/{id}/category           DecisionBegin,                *)
(*                                           DecisionCommit,               *)
(*                                           Tell                          *)
(*   POST /students/{id}/regret-email        RegretBegin, RegretMail,      *)
(*                                           RegretCommit                  *)
(*   POST /students                          Receipt                       *)
(*   DELETE /students/{id}, .../restore      SetDeletion                   *)
(*                                                                         *)
(* A decision is committed and then told; the regret route writes, and     *)
(* records it after.  The rules these records obey are in Students: what   *)
(* is one step here is taken apart there.                                  *)
(***************************************************************************)
EXTENDS Integers, FiniteSets

CONSTANTS
  Students,     \* the students on record
  Categories,
  Requests,     \* one id for each request
  AtOnce,       \* bound on the requests in flight
  Failing,      \* requests that may die, or whose letter may be lost
  MaxEdits,     \* bound on deletions and restores
  Blank         \* nothing

LettersAssumption ==
  /\ IsFiniteSet(Students)
  /\ IsFiniteSet(Requests) /\ Failing \subseteq Requests
  /\ AtOnce \in Nat /\ MaxEdits \in Nat
  /\ Blank \notin Students \cup Categories \cup {"APPROVED", "REJECTED"}

VARIABLES
  record,   \* the columns of each student that a letter depends on
  pc,       \* the next statement of each request
  req,      \* what each request was given, and the record it holds
  inbox,    \* what each student was last told of his review and category
  texted,   \* students whose guardian was sent an SMS
  regrets,  \* regret letters handed to the provider
  logs,     \* regret_email_logs
  lost,     \* history: regret letters whose request died before its commit
  edits,    \* deletions and restores so far
  receipts, \* the category that a receipt not mailed yet will name, or Blank
  late,     \* history: what a receipt named after another letter had, by student
  crossed   \* history: students about whom two decisions overlapped, or whose
            \* letter was lost

vars == <<record, pc, req, inbox, texted, regrets, logs, lost, edits, receipts, late, crossed>>
mail == <<inbox, texted, regrets, logs, lost, receipts, late>>

Decisions == {"APPROVED", "REJECTED"}
Record == [review: Decisions \cup {"PENDING_REVIEW"}, category: Categories,
           deletion: {"given", "none"}, regret: BOOLEAN]
NoReq == [student |-> Blank, column |-> "review", value |-> Blank, loaded |-> Blank]
InFlight == {r \in Requests : pc[r] \notin {"idle", "done", "failed"}}

Told == {"review", "category"}

Goto(r, step) == pc' = [pc EXCEPT ![r] = step]
Deciding(s) == {r \in InFlight : req[r].student = s /\ pc[r] \in {"decide", "tell"}}

Init ==
  /\ record \in [Students -> [review: {"PENDING_REVIEW"}, category: Categories,
                              deletion: {"none"}, regret: {FALSE}]]
  /\ pc = [r \in Requests |-> "idle"]
  /\ req = [r \in Requests |-> NoReq]
  /\ inbox = [s \in Students |-> [review |-> Blank, category |-> Blank]]
  /\ texted = {}
  /\ regrets = [s \in Students |-> 0] /\ logs = [s \in Students |-> 0]
  /\ lost = [s \in Students |-> 0]
  \* Some registrations are committed, and their receipts are not mailed yet.
  /\ receipts \in [Students -> Categories \cup {Blank}]
  /\ \A s \in Students : receipts[s] \in {Blank, record[s].category}
  /\ edits = 0 /\ late = {} /\ crossed = {}

-----------------------------------------------------------------------------
(* The letters, by what a student who was told box is told next: a receipt *)
(* and an approval name the category too.                                  *)
RegistrationReceipt(category) == [review |-> "UNDER REVIEW", category |-> category]
CategoryLetter(box, category) == [box EXCEPT !.category = category]
ApprovalLetter(category) == [review |-> "APPROVED", category |-> category]
RejectionLetter(box) == [box EXCEPT !.review = "REJECTED"]
(* A regret letter gives the reason of the deletion; without one it asks   *)
(* for a column that students lack (review_notes) and raises.              *)
RegretWritten(student) == student.deletion = "given"

-----------------------------------------------------------------------------
Begin(r, s, column, value) ==
  /\ pc[r] = "idle" /\ Cardinality(InFlight) < AtOnce
  /\ req' = [req EXCEPT ![r] = [student |-> s, column |-> column, value |-> value,
                                loaded |-> record[s]]]

(* approve_student, reject_student, reassign_category: the student is      *)
(* loaded, ...                                                             *)
DecisionBegin(r) ==
  /\ \E s \in Students :
       /\ \/ \E d \in Decisions : Begin(r, s, "review", d)
          \/ \E c \in Categories : Begin(r, s, "category", c)
       /\ crossed' = IF Deciding(s) # {} THEN crossed \cup {s} ELSE crossed
  /\ Goto(r, "decide")
  /\ UNCHANGED <<record, edits, mail>>
\* Mutant: what was decided once stays.
DecisionCommitOnce(r) ==
  /\ pc[r] = "decide" /\ Goto(r, "tell")
  /\ LET q == req[r] IN
     /\ record' = [record EXCEPT ![q.student][q.column] =
                     IF q.loaded.review # "PENDING_REVIEW" THEN @ ELSE q.value]
     /\ req' = [req EXCEPT ![r].loaded = record'[q.student]]
  /\ UNCHANGED <<edits, crossed, mail>>
(* ... updated if that changes anything, read again by the refresh, and    *)
(* committed ...                                                           *)
DecisionCommit(r) ==
  /\ pc[r] = "decide" /\ Goto(r, "tell")
  /\ LET q == req[r] IN
     /\ record' = [record EXCEPT ![q.student][q.column] =
                     IF q.loaded[q.column] = q.value THEN @ ELSE q.value]
     /\ req' = [req EXCEPT ![r].loaded = record'[q.student]]
  /\ UNCHANGED <<edits, crossed, mail>>
DecisionLetter(box, q) ==
  CASE q.column = "category" -> CategoryLetter(box, q.value)
    [] q.column = "review" /\ q.value = "APPROVED" -> ApprovalLetter(q.loaded.category)
    [] q.column = "review" /\ q.value = "REJECTED" -> RejectionLetter(box)
NamedBy(q) == {q.column} \cup {c \in {"category"} : q.value = "APPROVED"}
(* ... and told; a guardian is texted only about an approval.  What goes   *)
(* wrong at the provider is swallowed.                                     *)
Tell(r) ==
  /\ pc[r] = "tell" /\ Goto(r, "done")
  /\ LET s == req[r].student IN
     \/ /\ inbox' = [inbox EXCEPT ![s] = DecisionLetter(@, req[r])]
        /\ texted' = IF req[r].value = "APPROVED" THEN texted \cup {s} ELSE texted
        /\ late' = late \ ({s} \X NamedBy(req[r]))
        /\ UNCHANGED crossed
     \/ /\ r \in Failing /\ crossed' = crossed \cup {s}
        /\ UNCHANGED <<inbox, texted, late>>
  /\ req' = [req EXCEPT ![r] = NoReq]
  /\ UNCHANGED <<record, regrets, logs, lost, edits, receipts>>

(* send_regret_email_endpoint: the letter goes out first, ...              *)
RegretBegin(r) ==
  /\ \E s \in Students : Begin(r, s, "review", Blank)
  /\ Goto(r, "regret")
  /\ UNCHANGED <<record, edits, crossed, mail>>
RegretMail(r) ==
  /\ pc[r] = "regret"
  /\ IF RegretWritten(req[r].loaded)
     THEN /\ regrets' = [regrets EXCEPT ![req[r].student] = @ + 1]
          /\ Goto(r, "record") /\ UNCHANGED req
     ELSE /\ req' = [req EXCEPT ![r] = NoReq]
          /\ Goto(r, "failed") /\ UNCHANGED regrets
  /\ UNCHANGED <<record, inbox, texted, logs, lost, edits, receipts, late, crossed>>
\* Mutant: a student who was flagged before is not logged again.
RegretCommitOnce(r) ==
  /\ pc[r] = "record" /\ Goto(r, "done")
  /\ LET s == req[r].student IN
     /\ record' = [record EXCEPT ![s].regret = TRUE]
     /\ logs' = [logs EXCEPT ![s] = IF req[r].loaded.regret THEN @ ELSE @ + 1]
  /\ req' = [req EXCEPT ![r] = NoReq]
  /\ UNCHANGED <<inbox, texted, regrets, lost, edits, receipts, late, crossed>>
(* ... then the flag and the log entry, whatever became of it.             *)
RegretCommit(r) ==
  /\ pc[r] = "record" /\ Goto(r, "done")
  /\ LET s == req[r].student IN
     /\ record' = [record EXCEPT ![s].regret = TRUE]
     /\ logs' = [logs EXCEPT ![s] = @ + 1]
  /\ req' = [req EXCEPT ![r] = NoReq]
  /\ UNCHANGED <<inbox, texted, regrets, lost, edits, receipts, late, crossed>>

-----------------------------------------------------------------------------
(* create_student: the receipt is mailed after the commit, with the        *)
(* category that was loaded before it, whatever has been decided and told  *)
(* since; what goes wrong is swallowed.                                    *)
Receipt(s) ==
  /\ receipts[s] # Blank /\ receipts' = [receipts EXCEPT ![s] = Blank]
  /\ \/ /\ inbox' = [inbox EXCEPT ![s] = RegistrationReceipt(receipts[s])]
        /\ late' = late \cup ({s} \X {c \in Told : inbox[s][c] # Blank})
     \/ UNCHANGED <<inbox, late>>
  /\ UNCHANGED <<record, pc, req, texted, regrets, logs, lost, edits, crossed>>
(* soft_delete_student gives a reason, restore_student takes it away;      *)
(* neither writes to anybody.                                              *)
SetDeletion(s) ==
  /\ edits < MaxEdits /\ edits' = edits + 1
  /\ record' = [record EXCEPT ![s].deletion = IF @ = "none" THEN "given" ELSE "none"]
  /\ UNCHANGED <<pc, req, crossed, mail>>

(* Any request may die where it is.                                        *)
Fail(r) ==
  /\ r \in InFlight \cap Failing /\ Goto(r, "failed")
  /\ crossed' = IF pc[r] = "tell" THEN crossed \cup {req[r].student} ELSE crossed
  /\ lost' = IF pc[r] = "record" THEN [lost EXCEPT ![req[r].student] = @ + 1] ELSE lost
  /\ req' = [req EXCEPT ![r] = NoReq]
  /\ UNCHANGED <<record, inbox, texted, regrets, logs, edits, receipts, late>>

Next ==
  \/ \E r \in Requests : \/ DecisionBegin(r) \/ DecisionCommit(r) \/ Tell(r)
                         \/ RegretBegin(r) \/ RegretMail(r) \/ RegretCommit(r)
                         \/ Fail(r)
  \/ \E s \in Students : Receipt(s) \/ SetDeletion(s)

Spec == Init /\ [][Next]_vars
-----------------------------------------------------------------------------
TypeOK ==
  /\ record \in [Students -> Record]
  /\ pc \in [Requests -> {"idle", "decide", "tell", "regret", "record", "done", "failed"}]
  /\ inbox \in [Students -> [review: Decisions \cup {"UNDER REVIEW", Blank},
                             category: Categories \cup {Blank}]]
  /\ texted \subseteq Students /\ edits \in 0..MaxEdits /\ crossed \subseteq Students
  /\ regrets \in [Students -> Nat] /\ logs \in [Students -> Nat] /\ lost \in [Students -> Nat]
  /\ receipts \in [Students -> Categories \cup {Blank}] /\ late \subseteq Students \X Told

(* Every regret letter is on the log but those of a request that has died, *)
(* or will go on, between the letter and its commit; and a student is      *)
(* flagged exactly when a letter to him is on the log.                     *)
RegretsAreLogged ==
  \A s \in Students :
    /\ regrets[s] = logs[s] + lost[s]
         + Cardinality({r \in Requests : pc[r] = "record" /\ req[r].student = s})
    /\ record[s].regret <=> logs[s] > 0

(* What a student was last told of his review and of his category is what  *)
(* is on record, a decision on record has been told, and the guardian of   *)
(* an approved student has an SMS, unless two decisions about him crossed  *)
(* or a letter was lost: each is committed and then told.  A receipt that  *)
(* comes after such a letter may unsay what it names, until the next       *)
(* letter that names it, and never turns one decision into another.        *)
StudentsKnowTheirReview ==
  \A s \in Students \ crossed :
    Deciding(s) = {} =>
      /\ inbox[s].review \in Decisions => inbox[s].review = record[s].review
      /\ record[s].review \in Decisions =>
           inbox[s].review = record[s].review \/ <<s, "review">> \in late
      /\ inbox[s].category # Blank =>
           inbox[s].category = record[s].category \/ <<s, "category">> \in late
      /\ record[s].review = "APPROVED" => s \in texted
==============================================================================
