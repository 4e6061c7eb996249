---------------------------- MODULE Institutions -----------------------------
(***************************************************************************)
(* How an institution gets on record and is reviewed                       *)
(* (app/crud/institutions.py, app/api/v1/routes/institutions.py), and the  *)
(* mails it is sent about that (app/services/notifications.py).            *)
(*                                                                         *)
(*   POST /institutions/register       RegisterBegin, Check, Insert,       *)
(*                                     Commit, Mail                        *)
(*   POST /institutions/admin-intake   IntakeBegin, Check, Insert, Commit  *)
(*   POST /institutions/batch-intake   BatchBegin, Check, Insert, Commit   *)
(*   POST /institutions/{id}/approve   ReviewBegin, ReviewCommit, Mail     *)
(*   POST /institutions/{id}/reject    ReviewBegin, ReviewCommit, Mail     *)
(*                                                                         *)
(* Each request is one READ COMMITTED transaction; an INSERT whose address *)
(* another transaction has inserted and not committed waits for it.        *)
(***************************************************************************)
EXTENDS Integers, Sequences, FiniteSets

CONSTANTS
  Ids,          \* primary keys, in the order they are given out
  Emails,       \* addresses as they may be spelled in a request
  Lower,        \* Lower[e] is the spelling in lower case
  Batches,      \* the lists a batch intake may bring
  PriorRows,    \* the institutions on record before the run
  Requests,     \* one id for each request
  May,          \* May[r]: what request r may be
  Failing,      \* requests that may die between two statements
  Concurrency,  \* bound on the requests in flight
  Absent,       \* no row
  Nobody        \* no address, no request

ASSUME InstitutionsAssumption ==
  /\ Ids \subseteq Nat /\ IsFiniteSet(Ids) /\ IsFiniteSet(Requests) /\ Concurrency \in Nat
  /\ Lower \in [Emails -> Emails] /\ \A e \in Emails : Lower[Lower[e]] = Lower[e]
  /\ Batches \subseteq Seq(Emails)
  /\ Failing \subseteq Requests
  /\ Nobody \notin Emails \cup Requests

VARIABLES
  rows,      \* institutions: the committed row of each id, or Absent
  pend,      \* pend[r]: the rows r has inserted and not committed, or Absent
  pc,        \* the next statement of each request
  arg,       \* what each request was given, or has read
  inbox,     \* the last mail sent to each institution
  disturbed  \* history: requests overlapped, one died, or a mail was lost

instVars == <<rows, pend, pc, arg, inbox, disturbed>>

Decisions == {"APPROVED", "REJECTED"}
Statuses == Decisions \cup {"PENDING"}
Reasons == {"none", "given"}
(* by: the request that inserted the row, which only properties look at.   *)
Row == [email: Emails, status: Statuses, reason: Reasons,
        by: Requests \cup {Nobody}]
ASSUME PriorInstitutionsAssumption ==
  /\ Absent \notin Row /\ PriorRows \in [Ids -> Row \cup {Absent}]
  /\ \A i \in Ids : PriorRows[i] # Absent => PriorRows[i].by = Nobody
Kinds == {"register", "intake", "batch", "review"}
Arg == [kind: Kinds, list: Seq(Emails), todo: Seq(Emails), id: Ids \cup {Absent},
        decision: Statuses, loaded: Row \cup {Absent}]
NoArg == [kind |-> "review", list |-> <<>>, todo |-> <<>>, id |-> Absent,
          decision |-> "PENDING", loaded |-> Absent]

Steps == {"idle", "check", "insert", "commit", "review", "mail", "done", "failed"}
InFlight == {r \in Requests : pc[r] \notin {"idle", "done", "failed"}}
OnRecord == {i \in Ids : rows[i] # Absent}
Registered(e) == \E i \in OnRecord : rows[i].email = e
Flushed(r) == {i \in Ids : pend[r][i] # Absent}
Inserted(r) == {pend[r][i].email : i \in Flushed(r)}
Unwritten == [i \in Ids |-> Absent]

(* The primary key of the next row, if there is one left.                  *)
Free == {i \in Ids \ OnRecord : \A q \in Requests : i \notin Flushed(q)}
NextIds == {i \in Free : \A j \in Free : i <= j}

Goto(r, step) == pc' = [pc EXCEPT ![r] = step]
Begin(r, kind, step) ==
  /\ pc[r] = "idle" /\ kind \in May[r]
  /\ Cardinality(InFlight) < Concurrency
  /\ Goto(r, step)
  /\ disturbed' = (disturbed \/ InFlight # {})
  /\ UNCHANGED <<rows, pend, inbox>>

Init ==
  /\ rows = PriorRows
  /\ pend = [r \in Requests |-> Unwritten]
  /\ pc = [r \in Requests |-> "idle"]
  /\ arg = [r \in Requests |-> NoArg]
  /\ inbox = [i \in Ids |-> "none"]
  /\ disturbed = FALSE

-----------------------------------------------------------------------------
(* The three ways in bring one address or a list of them.                  *)
Bring(r, kind, list) ==
  /\ Begin(r, kind, "check")
  /\ arg' = [arg EXCEPT ![r].kind = kind, ![r].list = list, ![r].todo = list]
RegisterBegin(r) == \E e \in Emails : Bring(r, "register", <<e>>)
IntakeBegin(r) == \E e \in Emails : Bring(r, "intake", <<e>>)
BatchBegin(r) == \E list \in Batches : Bring(r, "batch", list)

(* The spelling that is looked up and the one that is inserted: the intake *)
(* looks for the address as it is given.                                   *)
Sought(a) == IF a.kind = "batch" THEN Lower[Head(a.todo)] ELSE Head(a.todo)
Written(a) == IF a.kind = "register" THEN Head(a.todo) ELSE Lower[Head(a.todo)]

\* Mutant: the session is left open after an exception.
AbortUnclosed(r) ==
  /\ Goto(r, "failed")
  /\ UNCHANGED <<rows, pend, arg, inbox>>
(* rollback: what was flushed is gone.                                     *)
Abort(r) ==
  /\ Goto(r, "failed")
  /\ pend' = [pend EXCEPT ![r] = Unwritten]
  /\ UNCHANGED <<rows, arg, inbox>>

(* The SELECT by email.  A known address is refused (409), or skipped by   *)
(* the batch, which also sees the rows it has flushed itself.              *)
Known(r) == Registered(Sought(arg[r])) \/ Sought(arg[r]) \in Inserted(r)
Check(r) ==
  /\ pc[r] = "check" /\ UNCHANGED disturbed
  /\ \/ /\ arg[r].todo = <<>> /\ Goto(r, "commit")
        /\ UNCHANGED <<rows, pend, arg, inbox>>
     \/ /\ arg[r].todo # <<>> /\ ~Known(r) /\ Goto(r, "insert")
        /\ UNCHANGED <<rows, pend, arg, inbox>>
     \/ /\ arg[r].todo # <<>> /\ Known(r) /\ arg[r].kind = "batch"
        /\ arg' = [arg EXCEPT ![r].todo = Tail(@)]
        /\ UNCHANGED <<rows, pend, pc, inbox>>
     \/ arg[r].todo # <<>> /\ Known(r) /\ arg[r].kind # "batch" /\ Abort(r)

(* institutions.email is UNIQUE, case and all.                             *)
Holders(r) == {q \in Requests \ {r} : Written(arg[r]) \in Inserted(q)}

\* Mutant: the batch commits each institution as it goes.
InsertAtOnce(r) ==
  /\ pc[r] = "insert" /\ Holders(r) = {}
  /\ LET e == Written(arg[r]) IN
     IF Registered(e) THEN Abort(r)
     ELSE \E i \in NextIds :
            /\ rows' = [rows EXCEPT ![i] =
                 [email |-> e, reason |-> "none", by |-> r,
                  status |-> IF arg[r].kind = "register" THEN "PENDING"
                             ELSE "APPROVED"]]
            /\ arg' = [arg EXCEPT ![r].todo = Tail(@), ![r].id = i]
            /\ Goto(r, "check")
            /\ UNCHANGED <<inbox, pend>>
  /\ UNCHANGED disturbed
(* The INSERT: it waits for a transaction that inserted the same address,  *)
(* then violates the unique index or goes through.                         *)
Insert(r) ==
  /\ pc[r] = "insert" /\ Holders(r) = {}
  /\ LET e == Written(arg[r]) IN
     IF Registered(e) \/ e \in Inserted(r) THEN Abort(r)
     ELSE \E i \in NextIds :
            /\ pend' = [pend EXCEPT ![r][i] =
                 [email |-> e, reason |-> "none", by |-> r,
                  status |-> IF arg[r].kind = "register" THEN "PENDING"
                             ELSE "APPROVED"]]
            /\ arg' = [arg EXCEPT ![r].todo = Tail(@), ![r].id = i]
            /\ Goto(r, "check")
            /\ UNCHANGED <<rows, inbox>>
  /\ UNCHANGED disturbed

(* One COMMIT for all rows of the request; only a registration is mailed.  *)
Commit(r) ==
  /\ pc[r] = "commit"
  /\ rows' = [i \in Ids |-> IF i \in Flushed(r) THEN pend[r][i] ELSE rows[i]]
  /\ pend' = [pend EXCEPT ![r] = Unwritten]
  /\ Goto(r, IF arg[r].kind = "register" THEN "mail" ELSE "done")
  /\ UNCHANGED <<arg, inbox, disturbed>>

-----------------------------------------------------------------------------
(* approve_institution, reject_institution: the row is loaded ...          *)
ReviewBegin(r) ==
  /\ Begin(r, "review", "review")
  /\ \E i \in OnRecord, d \in Decisions :
       arg' = [arg EXCEPT ![r].id = i, ![r].decision = d, ![r].loaded = rows[i]]

ReasonFor(d) == IF d = "REJECTED" THEN "given" ELSE "none"

(* ... and its columns that differ from what was loaded are updated and    *)
(* committed with the audit entry.                                         *)
ReviewCommit(r) ==
  /\ pc[r] = "review"
  /\ LET a == arg[r] IN
     rows' = [rows EXCEPT
       ![a.id].status = IF a.loaded.status = a.decision THEN @ ELSE a.decision,
       ![a.id].reason = IF a.loaded.reason = ReasonFor(a.decision) THEN @
                        ELSE ReasonFor(a.decision)]
  /\ Goto(r, "mail")
  /\ UNCHANGED <<pend, arg, inbox, disturbed>>

(* What the mail says: the receipt of a registration, or the decision.     *)
RegistrationReceipt == "UNDER REVIEW"
ApprovalNotice == "APPROVED"
RejectionNotice == "REJECTED"
\* Mutant: the mail tells the status the row had when it was loaded.
NoticeOfLoaded(a) ==
  IF a.kind = "register" THEN RegistrationReceipt
  ELSE IF a.loaded.status = "APPROVED" THEN ApprovalNotice ELSE RejectionNotice
Notice(a) ==
  IF a.kind = "register" THEN RegistrationReceipt
  ELSE IF a.decision = "APPROVED" THEN ApprovalNotice ELSE RejectionNotice

(* _send_resend_email: a failure of the provider is logged and swallowed.  *)
Mail(r) ==
  /\ pc[r] = "mail"
  /\ \/ inbox' = [inbox EXCEPT ![arg[r].id] = Notice(arg[r])]
        /\ UNCHANGED disturbed
     \/ r \in Failing /\ disturbed' = TRUE /\ UNCHANGED inbox
  /\ Goto(r, "done")
  /\ UNCHANGED <<rows, pend, arg>>

-----------------------------------------------------------------------------
Fail(r) == r \in InFlight \cap Failing /\ Abort(r) /\ disturbed' = TRUE

(* Two batches that inserted each other's next address wait for each       *)
(* other: PostgreSQL aborts one of them.                                   *)
Deadlocked(r) ==
  pc[r] = "insert" /\ \E q \in Holders(r) : pc[q] = "insert" /\ r \in Holders(q)
DeadlockVictim(r) == Deadlocked(r) /\ Abort(r) /\ UNCHANGED disturbed

Statement(r) ==
  \/ Check(r) \/ Insert(r) \/ Commit(r) \/ ReviewCommit(r) \/ Mail(r)
Next ==
  \E r \in Requests :
    \/ RegisterBegin(r) \/ IntakeBegin(r) \/ BatchBegin(r) \/ ReviewBegin(r)
    \/ Statement(r) \/ Fail(r) \/ DeadlockVictim(r)

Spec == Init /\ [][Next]_instVars

(* The event loop resumes every request whose statement was answered, and  *)
(* PostgreSQL breaks every deadlock.                                       *)
Fairness ==
  \A r \in Requests : WF_instVars(Statement(r)) /\ WF_instVars(DeadlockVictim(r))
-----------------------------------------------------------------------------
TypeOK ==
  /\ rows \in [Ids -> Row \cup {Absent}]
  /\ pend \in [Requests -> [Ids -> Row \cup {Absent}]]
  /\ pc \in [Requests -> Steps] /\ arg \in [Requests -> Arg]
  /\ inbox \in [Ids -> {"none", "UNDER REVIEW"} \cup Decisions]
  /\ disturbed \in BOOLEAN

(* Every request ends: of the batches that wait for each other's addresses *)
(* one is aborted, and its rollback lets the other one through.            *)
IntakesEnd == \A r \in {q \in Requests : May[q] # {"review"}} :
  pc[r] = "check" ~> pc[r] \in {"done", "failed"}

(* A batch intake leaves all of its institutions or none: while it runs,   *)
(* and when it has failed or lost a deadlock, nothing of it is on record;  *)
(* when it has answered, every address of its list is (created, or skipped *)
(* because it was there).  admin_batch_intake_institutions has one commit. *)
BatchesAreWhole ==
  \A r \in Requests :
    arg[r].kind = "batch" =>
      /\ pc[r] # "done" => \A i \in OnRecord : rows[i].by # r
      /\ pc[r] = "done" =>
           \A k \in DOMAIN arg[r].list : Registered(Lower[arg[r].list[k]])

(* The last word an institution had is its status: requests that do not    *)
(* overlap commit a decision and then mail it (approve_institution,        *)
(* reject_institution, register_institution).  Overlapping ones may cross. *)
ToldItsStatus ==
  ~disturbed /\ InFlight = {} =>
    \A i \in OnRecord : inbox[i] \in Decisions => inbox[i] = rows[i].status

==============================================================================
