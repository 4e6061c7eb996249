------------------------------- MODULE Students ------------------------------
(***************************************************************************)
(* The register of students (app/crud/students.py, routes/students.py):    *)
(* at most four active ones per institution, one per category, and the     *)
(* life of a record from review to soft delete, restore and permanent      *)
(* delete, alone or in bulk.                                               *)
(*                                                                         *)
(*   POST /students                    CreateBegin, CheckCap, CheckSlot,   *)
(*                                     Insert                              *)
(*   every other change of a record    ChangeBegin, Load, CheckTarget,     *)
(*                                     Write, Commit                       *)
(*                                                                         *)
(* Requests are READ COMMITTED transactions as in module Scoring.  Checks  *)
(* on data left out here (national id and guardian phone, the age limits   *)
(* of a category) refuse a request and change nothing: a request may fail  *)
(* at any step.  Personal data, files and mails are left out.              *)
(***************************************************************************)
EXTENDS Integers, FiniteSets

CONSTANTS
  Institutions, Categories,
  Reasons,      \* deletion and rejection reasons
  NoReason,     \* NULL
  Absent,       \* no row with this id
  Gone,         \* a row deleted and not yet committed
  MaxIds,       \* bound on the ids the students sequence hands out
  PriorRows,    \* the students registered before
  Judged,       \* students whom deductions, results or rounds refer to
  Requests,     \* one id for each request
  May,          \* bound: the kinds of each request
  MaxBulk,      \* bound on the students of a bulk request
  Concurrency   \* bound on the requests in flight

Ids == 1..MaxIds
Cap == 4
BulkKinds == {"soft_delete", "restore", "permanent"}
Kinds == BulkKinds \cup {"create", "approve", "reject", "reason", "reassign"}
Row == [inst: Institutions, cat: Categories, deleted: BOOLEAN,
        archived: BOOLEAN,                       \* archived_at is set
        reason: Reasons \cup {NoReason},         \* deletion_reason
        review: {"PENDING_REVIEW", "APPROVED", "REJECTED"},
        why: Reasons \cup {NoReason}]            \* rejection_reason
NewRow(i, c) == [inst |-> i, cat |-> c, deleted |-> FALSE, archived |-> FALSE,
                 reason |-> NoReason, review |-> "PENDING_REVIEW",
                 why |-> NoReason]

Slot(row) == <<row.inst, row.cat>>
Rows(R) == {id \in Ids : R[id] # Absent}
Active(R, i) == {id \in Rows(R) : R[id].inst = i /\ ~R[id].deleted}

ASSUME StudentsAssumption ==
  /\ IsFiniteSet(Requests) /\ IsFiniteSet(Institutions)
  /\ MaxIds \in Nat /\ MaxBulk \in Nat /\ Concurrency \in Nat \ {0}
  /\ NoReason \notin Reasons /\ Absent # Gone
  /\ Absent \notin Row /\ Gone \notin Row
  /\ Judged \subseteq Ids /\ May \in [Requests -> SUBSET Kinds]
ASSUME PriorStudentsAssumption ==
  /\ PriorRows \in [Ids -> Row \cup {Absent}]
  /\ \A id \in Rows(PriorRows) :
       /\ PriorRows[id].archived = PriorRows[id].deleted
       /\ \A k \in 1..id : k \in Rows(PriorRows)
       /\ \A k \in Rows(PriorRows) \ {id} :
            Slot(PriorRows[k]) # Slot(PriorRows[id])
  /\ \A i \in Institutions : Cardinality(Active(PriorRows, i)) <= Cap

VARIABLES
  rows,      \* students, committed
  seq,       \* last id the sequence handed out
  pc,        \* the next statement of each request
  txn,       \* what its session holds
  restored   \* history: how many students of an institution were restored

vars == <<rows, seq, pc, txn, restored>>

(* row: what a registration inserts, or what the session has loaded; ids:  *)
(* the students still to be changed, id: the one being changed; pend: rows *)
(* written and not committed, which the session keeps locked.              *)
Txn == [kind: Kinds, row: Row \cup {Absent}, to: Categories \cup Reasons \cup {NoReason},
        ids: SUBSET Ids, id: 0..MaxIds, pend: [Ids -> Row \cup {Absent, Gone}]]
Blank == [kind |-> "create", row |-> Absent, to |-> NoReason, ids |-> {},
          id |-> 0, pend |-> [id \in Ids |-> Absent]]
Steps == {"idle", "cap", "slot", "insert", "read", "target", "write", "commit",
          "done"}
InFlight == {r \in Requests : pc[r] \notin {"idle", "done"}}
Begin(r, step) ==
  /\ pc[r] = "idle" /\ Cardinality(InFlight) < Concurrency
  /\ pc' = [pc EXCEPT ![r] = step]
Goto(r, step) == pc' = [pc EXCEPT ![r] = step]
Finish(r) == Goto(r, "done") /\ txn' = [txn EXCEPT ![r] = Blank]
(* get_session rolls back whatever the session has written.                *)
Rollback(r) == Finish(r) /\ UNCHANGED <<rows, seq, restored>>

Init ==
  /\ rows = PriorRows /\ seq = Cardinality(Rows(PriorRows))
  /\ pc = [r \in Requests |-> "idle"]
  /\ txn = [r \in Requests |-> Blank]
  /\ restored = [i \in Institutions |-> 0]

-----------------------------------------------------------------------------
(* Who makes session r wait: the sessions that have written the row it     *)
(* updates, or a row that holds or is about to hold the slot it takes.     *)
Wrote(q, k) == txn[q].pend[k] # Absent
Takes(slot, q, k) ==
  \/ rows[k] # Absent /\ Slot(rows[k]) = slot
  \/ txn[q].pend[k] # Gone /\ Slot(txn[q].pend[k]) = slot
Moves(r) == txn[r].kind = "reassign" /\ txn[r].to # txn[r].row.cat
WantedSlot(r) == IF Moves(r) THEN <<txn[r].row.inst, txn[r].to>> ELSE Slot(txn[r].row)
TakesSlot(r) == pc[r] = "insert" \/ (pc[r] = "write" /\ Moves(r))
Blockers(r) ==
  {q \in Requests \ {r} : \E k \in Ids :
     /\ Wrote(q, k)
     /\ \/ pc[r] = "write" /\ k = txn[r].id
        \/ TakesSlot(r) /\ Takes(WantedSlot(r), q, k)}
(* uq_student_institution_category counts deleted rows too.                *)
SlotTaken(r) ==
  \E k \in Rows(rows) \ {txn[r].id} : Slot(rows[k]) = WantedSlot(r)

\* Mutant: the fifth student is let in.
CheckCapLate(r) ==
  /\ pc[r] = "cap"
  /\ IF Cardinality(Active(rows, txn[r].row.inst)) > Cap
     THEN Rollback(r)
     ELSE Goto(r, "slot") /\ UNCHANGED <<rows, seq, txn, restored>>
(* create_student: the count, the look at the slot, and the INSERT with    *)
(* its commit are three statements.                                        *)
CreateBegin(r) ==
  /\ "create" \in May[r] /\ Begin(r, "cap")
  /\ \E i \in Institutions, c \in Categories :
       txn' = [txn EXCEPT ![r].row = NewRow(i, c)]
  /\ UNCHANGED <<rows, seq, restored>>

CheckCap(r) ==
  /\ pc[r] = "cap"
  /\ IF Cardinality(Active(rows, txn[r].row.inst)) >= Cap
     THEN Rollback(r)
     ELSE Goto(r, "slot") /\ UNCHANGED <<rows, seq, txn, restored>>

CheckSlot(r) ==
  /\ pc[r] = "slot"
  /\ IF \E k \in Active(rows, txn[r].row.inst) : rows[k].cat = txn[r].row.cat
     THEN Rollback(r)
     ELSE Goto(r, "insert") /\ UNCHANGED <<rows, seq, txn, restored>>

Insert(r) ==
  /\ pc[r] = "insert" /\ Blockers(r) = {} /\ seq < MaxIds
  /\ rows' = IF SlotTaken(r) THEN rows ELSE [rows EXCEPT ![seq + 1] = txn[r].row]
  /\ seq' = seq + 1
  /\ Finish(r)
  /\ UNCHANGED restored

-----------------------------------------------------------------------------
(* The other requests name students; the bulk ones any number of them, in  *)
(* any order, and skip those that are missing or in the wrong state.  For  *)
(* a single student the same early return refuses the request.             *)
ChangeBegin(r) ==
  /\ Begin(r, "read")
  /\ \E kind \in May[r] \ {"create"}, ids \in SUBSET Rows(rows) \ {{}} :
       /\ Cardinality(ids) <= IF kind \in BulkKinds THEN MaxBulk ELSE 1
       /\ \E to \in IF kind = "reassign" THEN Categories
                    ELSE IF kind \in {"soft_delete", "reason", "reject"} THEN Reasons
                    ELSE {NoReason} :
            txn' = [txn EXCEPT ![r].kind = kind, ![r].ids = ids, ![r].to = to]
  /\ UNCHANGED <<rows, seq, restored>>

Refused(kind, row) ==
  \/ row = Absent
  \/ kind = "soft_delete" /\ row.deleted
  \/ kind \in {"restore", "reason"} /\ ~row.deleted

(* get_student for the next of them, in the order of the request.          *)
Load(r) ==
  /\ pc[r] = "read"
  /\ \E id \in txn[r].ids :
       LET left == txn[r].ids \ {id}
       IN  IF Refused(txn[r].kind, rows[id])
           THEN /\ txn' = [txn EXCEPT ![r].ids = left]
                /\ Goto(r, IF left = {} THEN "commit" ELSE "read")
           ELSE /\ txn' = [txn EXCEPT ![r].ids = left, ![r].id = id,
                                      ![r].row = rows[id]]
                /\ Goto(r, IF txn[r].kind = "reassign" THEN "target" ELSE "write")
  /\ UNCHANGED <<rows, seq, restored>>

(* reassign_category: is the slot free of another active student?          *)
CheckTarget(r) ==
  /\ pc[r] = "target"
  /\ IF \E k \in Active(rows, txn[r].row.inst) \ {txn[r].id} : rows[k].cat = txn[r].to
     THEN Rollback(r)
     ELSE Goto(r, "write") /\ UNCHANGED <<rows, seq, txn, restored>>

\* Mutant: restore_student leaves archived_at alone.
AfterKept(kind, row, to) ==
  CASE kind = "soft_delete" ->
         [row EXCEPT !.deleted = TRUE, !.reason = to, !.archived = TRUE]
    [] kind = "restore" -> [row EXCEPT !.deleted = FALSE, !.reason = NoReason]
    [] OTHER -> row
(* The object after the assignments of each handler.                       *)
After(kind, row, to) ==
  CASE kind = "soft_delete" ->
         [row EXCEPT !.deleted = TRUE, !.reason = to, !.archived = TRUE]
    [] kind = "restore" ->
         [row EXCEPT !.deleted = FALSE, !.reason = NoReason, !.archived = FALSE]
    [] kind = "reason" -> [row EXCEPT !.reason = to]
    [] kind = "approve" -> [row EXCEPT !.review = "APPROVED", !.why = NoReason]
    [] kind = "reject" -> [row EXCEPT !.review = "REJECTED", !.why = to]
    [] kind = "reassign" -> [row EXCEPT !.cat = to]

(* The UPDATE sets the columns that differ from the ones loaded.           *)
Updated(row, old, new) ==
  [col \in DOMAIN row |-> IF new[col] # old[col] THEN new[col] ELSE row[col]]

\* Mutant: an object whose row is gone is saved again.
FlushedAnew(r) ==
  LET new == After(txn[r].kind, txn[r].row, txn[r].to)
      id == txn[r].id
  IN  IF txn[r].kind = "permanent"
      THEN IF rows[id] = Absent THEN {Absent} ELSE {Gone : x \in {id} \ Judged}
      ELSE IF new = txn[r].row THEN {Absent}
      ELSE IF Moves(r) /\ SlotTaken(r) THEN {}
      ELSE IF rows[id] = Absent THEN {new}
      ELSE {Updated(rows[id], txn[r].row, new)}
(* What the flush leaves in the row, or nothing if it raises: the row is   *)
(* gone (StaleDataError), the slot is taken (IntegrityError), or a student *)
(* to be deleted has been judged.  A DELETE of no row raises nothing.      *)
Flushed(r) ==
  LET new == After(txn[r].kind, txn[r].row, txn[r].to)
      id == txn[r].id
  IN  IF txn[r].kind = "permanent"
      THEN IF rows[id] = Absent THEN {Absent} ELSE {Gone : x \in {id} \ Judged}
      ELSE IF new = txn[r].row THEN {Absent}            \* nothing to flush
      ELSE IF rows[id] = Absent \/ (Moves(r) /\ SlotTaken(r)) THEN {}
      ELSE {Updated(rows[id], txn[r].row, new)}

Flush(r) ==
  \/ Flushed(r) = {} /\ Rollback(r)
  \/ \E written \in Flushed(r) :
       /\ txn' = [txn EXCEPT ![r].pend[txn[r].id] = written,
                             ![r].id = 0, ![r].row = Absent]
       /\ Goto(r, IF txn[r].ids = {} THEN "commit" ELSE "read")
       /\ UNCHANGED <<rows, seq, restored>>
Write(r) == pc[r] = "write" /\ Blockers(r) = {} /\ Flush(r)

Commit(r) ==
  LET pend == txn[r].pend
      Back(i) == {id \in Ids : /\ rows[id] # Absent /\ pend[id] \notin {Absent, Gone}
                               /\ rows[id].inst = i
                               /\ rows[id].deleted /\ ~pend[id].deleted}
  IN  /\ pc[r] = "commit"
      /\ rows' = [id \in Ids |-> IF pend[id] = Absent THEN rows[id]
                                 ELSE IF pend[id] = Gone THEN Absent ELSE pend[id]]
      /\ restored' = [i \in Institutions |-> restored[i] + Cardinality(Back(i))]
      /\ Finish(r)
      /\ UNCHANGED seq

-----------------------------------------------------------------------------
(* A request may fail between two statements, and PostgreSQL fails one of  *)
(* the sessions that wait for each other.                                  *)
Fail(r) == r \in InFlight /\ Rollback(r)

Next ==
  \E r \in Requests :
    \/ CreateBegin(r) \/ CheckCap(r) \/ CheckSlot(r) \/ Insert(r)
    \/ ChangeBegin(r) \/ Load(r) \/ CheckTarget(r) \/ Write(r) \/ Commit(r)
    \/ Fail(r)

Spec == Init /\ [][Next]_vars

-----------------------------------------------------------------------------
TypeOK ==
  /\ rows \in [Ids -> Row \cup {Absent}]
  /\ seq \in 0..MaxIds
  /\ pc \in [Requests -> Steps]
  /\ txn \in [Requests -> Txn]
  /\ restored \in [Institutions -> Nat]

(* A deleted student has an archive date, any other has none: each request *)
(* updates the columns it changed, yet no interleaving of deletions and    *)
(* restores, alone or in bulk, mixes the columns of two of them.           *)
ArchivedWhileDeleted ==
  \A id \in Rows(rows) : rows[id].archived = rows[id].deleted

(* The count before the insert lets concurrent registrations exceed the    *)
(* four by one less than the requests in flight, not more, and every       *)
(* restore, which does not count, by one (_check_institution_cap).         *)
CapSlack == Concurrency - 1
CapExceededByRacesOnly ==
  \A i \in Institutions :
    Cardinality(Active(rows, i)) <= Cap + CapSlack + restored[i]

(* A student deleted permanently stays deleted, also when another request  *)
(* had loaded the record before ("Irreversible", permanent_delete_student).*)
PermanentDeleteIsIrreversible ==
  [][\A id \in 1..seq : rows[id] = Absent => rows'[id] = Absent]_vars

(* "Max 4 active (non-deleted) students per institution."                  *)
MaxFourActive == \A i \in Institutions : Cardinality(Active(rows, i)) <= Cap
=============================================================================
