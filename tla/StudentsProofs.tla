--------------------------- MODULE StudentsProofs ----------------------------
(***************************************************************************)
(* The register of students under any number of concurrent requests: types *)
(* are kept, deleted students and no others are archived, what is deleted  *)
(* permanently stays deleted, and the cap is exceeded by races only.       *)
(***************************************************************************)
EXTENDS Students, FiniteSetTheorems, TLAPS

(* A request with next statement p and session t.                          *)
Creating == {"cap", "slot", "insert"}
Changing == {"read", "target", "write", "commit"}
Consistent(row) == row.archived = row.deleted
Fits(kind, to) ==
  /\ kind # "create"
  /\ kind \in {"soft_delete", "reason", "reject"} => to \in Reasons
  /\ kind = "reassign" => to \in Categories
HoldsRow(p, t) ==
  /\ p \in {"idle", "done"} => t = Blank
  /\ p \in Creating => t = [Blank EXCEPT !.row = t.row]
  /\ p \in Changing => Fits(t.kind, t.to)
  /\ p \in {"target", "write"} => t.id # 0
  /\ p \in Creating \cup {"target", "write"} => t.row \in Row /\ Consistent(t.row)
(* The rows it has written are on record, in the same institution.         *)
WritesOnRecord(t) ==
  \A k \in Ids : t.pend[k] \notin {Absent, Gone} =>
    /\ rows[k] # Absent
    /\ t.pend[k].inst = rows[k].inst /\ Consistent(t.pend[k])
Session(p, t) == HoldsRow(p, t) /\ WritesOnRecord(t)
(* Row locks: no two sessions have written the same row.                   *)
Exclusive ==
  \A q, r \in Requests : q # r => \A k \in Ids : ~(Wrote(q, k) /\ Wrote(r, k))

(* Whoever has passed the count of active students is counted with them:   *)
(* there are at most as many as requests in flight.                        *)
Admitted(i) == {r \in Requests : pc[r] \in {"slot", "insert"} /\ txn[r].row.inst = i}
CapInv ==
  \A i \in Institutions :
    Cardinality(Active(rows, i)) + Cardinality(Admitted(i))
      <= Cap + CapSlack + restored[i]

(* The inductive invariant.                                                *)
IInv ==
  /\ TypeOK
  /\ \A id \in Rows(rows) : id <= seq
  /\ ArchivedWhileDeleted
  /\ \A r \in Requests : Session(pc[r], txn[r])
  /\ Exclusive
  /\ Cardinality(InFlight) <= Concurrency /\ CapInv

-----------------------------------------------------------------------------
(* The rows and what the handlers make of them.                            *)
LEMMA UpdatedRow ==
  ASSUME NEW row \in Row, NEW old \in Row, NEW new \in Row
  PROVE  /\ Updated(row, old, new) \in Row
         /\ Updated(row, old, new).inst = IF new.inst # old.inst THEN new.inst ELSE row.inst
         /\ Updated(row, old, new).deleted
              = IF new.deleted # old.deleted THEN new.deleted ELSE row.deleted
         /\ Updated(row, old, new).archived
              = IF new.archived # old.archived THEN new.archived ELSE row.archived
PROOF
<1>1. DOMAIN row = {"inst", "cat", "deleted", "archived", "reason", "review", "why"}
  BY DEF Row
<1> QED BY <1>1 DEF Row, Updated

LEMMA RowAfter ==
  ASSUME NEW kind \in Kinds \ {"permanent"}, NEW row \in Row, NEW to, Consistent(row),
         Fits(kind, to)
  PROVE  /\ After(kind, row, to) \in Row
         /\ After(kind, row, to).inst = row.inst
         /\ Consistent(After(kind, row, to))
PROOF
<1>1. CASE kind = "soft_delete"  BY <1>1 DEF After, Row, Fits, Consistent
<1>2. CASE kind = "restore"      BY <1>2 DEF After, Row, Fits, Consistent
<1>3. CASE kind = "reason"       BY <1>3 DEF After, Row, Fits, Consistent
<1>4. CASE kind = "approve"      BY <1>4 DEF After, Row, Fits, Consistent
<1>5. CASE kind = "reject"       BY <1>5 DEF After, Row, Fits, Consistent
<1>6. CASE kind = "reassign"     BY <1>6 DEF After, Row, Fits, Consistent
<1> QED BY <1>1, <1>2, <1>3, <1>4, <1>5, <1>6 DEF Kinds, BulkKinds, Fits

-----------------------------------------------------------------------------
(* Counts.                                                                 *)
LEMMA ActiveFinite ==
  ASSUME NEW R, NEW i
  PROVE  /\ IsFiniteSet(Rows(R)) /\ Cardinality(Rows(R)) \in 0..MaxIds
         /\ IsFiniteSet(Active(R, i)) /\ Cardinality(Active(R, i)) \in Nat
PROOF
<1>1. IsFiniteSet(Ids) /\ Cardinality(Ids) = MaxIds
  BY FS_Interval, StudentsAssumption DEF Ids
<1>2. Rows(R) \subseteq Ids /\ Active(R, i) \subseteq Rows(R)  BY DEF Rows, Active
<1>3. IsFiniteSet(Rows(R)) /\ Cardinality(Rows(R)) <= MaxIds  BY <1>1, <1>2, FS_Subset
<1>4. Cardinality(Rows(R)) \in Nat  BY <1>3, FS_CardinalityType
<1>5. IsFiniteSet(Active(R, i))  BY <1>2, <1>3, FS_Subset
<1> QED BY <1>3, <1>4, <1>5, FS_CardinalityType, StudentsAssumption

LEMMA RequestsFinite ==
  ASSUME NEW S \in SUBSET Requests
  PROVE  IsFiniteSet(S) /\ Cardinality(S) \in Nat
BY FS_Subset, FS_CardinalityType, StudentsAssumption

(* The first statement of a request keeps to the bound on those in flight, *)
(* and so does any later one.                                              *)
LEMMA InFlightStep ==
  ASSUME TypeOK, Cardinality(InFlight) <= Concurrency, NEW r \in Requests, NEW p \in Steps,
         pc' = [pc EXCEPT ![r] = p],
         \/ r \in InFlight
         \/ Cardinality(InFlight) < Concurrency
  PROVE  Cardinality(InFlight') <= Concurrency
PROOF
<1>1. InFlight \subseteq Requests /\ InFlight' \subseteq InFlight \cup {r}
  BY DEF InFlight, TypeOK
<1>2. IsFiniteSet(InFlight) /\ Cardinality(InFlight) \in Nat  BY <1>1, RequestsFinite
<1>3. CASE r \in InFlight
  <2>1. InFlight' \subseteq InFlight  BY <1>1, <1>3
  <2>2. Cardinality(InFlight') <= Cardinality(InFlight)  BY <1>2, <2>1, FS_Subset
  <2>3. Cardinality(InFlight') \in Nat  BY <1>1, <2>1, RequestsFinite
  <2> QED BY <1>2, <2>2, <2>3, StudentsAssumption
<1>4. CASE r \notin InFlight
  <2>1. /\ IsFiniteSet(InFlight \cup {r})
        /\ Cardinality(InFlight \cup {r}) = Cardinality(InFlight) + 1
    BY <1>2, <1>4, FS_AddElement
  <2>2. Cardinality(InFlight') <= Cardinality(InFlight) + 1  BY <1>1, <2>1, FS_Subset
  <2>3. Cardinality(InFlight') \in Nat  BY <1>1, RequestsFinite, InFlight' \subseteq Requests
  <2> QED BY <1>2, <1>4, <2>2, <2>3, StudentsAssumption
<1> QED BY <1>3, <1>4

(* A step of request r that changes nothing but its session: r was counted *)
(* already, or has passed the count just now.                              *)
LEMMA AdmittedStep ==
  ASSUME IInv, NEW r \in Requests, NEW p \in Steps, NEW t \in Txn,
         pc' = [pc EXCEPT ![r] = p], txn' = [txn EXCEPT ![r] = t],
         Cardinality(InFlight') <= Concurrency,
         p \in {"slot", "insert"} =>
           \/ pc[r] \in {"slot", "insert"} /\ t.row = txn[r].row
           \/ Cardinality(Active(rows, t.row.inst)) < Cap,
         UNCHANGED <<rows, restored>>
  PROVE  CapInv'
PROOF
<1> SUFFICES ASSUME NEW i \in Institutions
             PROVE  Cardinality(Active(rows, i)) + Cardinality(Admitted(i)')
                      <= Cap + CapSlack + restored[i]
  BY DEF CapInv, CapSlack, Active, Rows
<1>0. /\ Admitted(i) \subseteq Requests /\ Admitted(i)' \subseteq Requests
      /\ Admitted(i)' \subseteq InFlight' /\ InFlight' \subseteq Requests
  BY DEF Admitted, InFlight
<1>1. /\ IsFiniteSet(Admitted(i)) /\ IsFiniteSet(Admitted(i)') /\ IsFiniteSet(InFlight')
      /\ Cardinality(Admitted(i)) \in Nat /\ Cardinality(Admitted(i)') \in Nat
      /\ Cardinality(InFlight') \in Nat
  BY <1>0, RequestsFinite
<1>2. Cardinality(Active(rows, i)) \in Nat  BY ActiveFinite
<1>3. restored[i] \in Nat  BY DEF IInv, TypeOK
<1>4. CASE Admitted(i)' \subseteq Admitted(i)
  <2>1. Cardinality(Admitted(i)') <= Cardinality(Admitted(i))  BY <1>1, <1>4, FS_Subset
  <2> QED BY <1>1, <1>2, <1>3, <2>1, StudentsAssumption DEF IInv, CapInv, CapSlack, Cap
<1>5. CASE ~(Admitted(i)' \subseteq Admitted(i))
  <2>1. p \in {"slot", "insert"} /\ t.row.inst = i /\ r \notin Admitted(i)
    BY <1>5 DEF Admitted, IInv, TypeOK
  <2>2. ~(pc[r] \in {"slot", "insert"} /\ t.row = txn[r].row)  BY <2>1 DEF Admitted
  <2>3. Cardinality(Active(rows, i)) < Cap  BY <2>1, <2>2
  <2>4. Cardinality(Admitted(i)') <= Cardinality(InFlight')  BY <1>0, <1>1, FS_Subset
  <2> QED BY <1>1, <1>2, <1>3, <2>3, <2>4, StudentsAssumption DEF CapSlack, Cap
<1> QED BY <1>4, <1>5

LEMMA SessionStep ==
  ASSUME IInv, NEW r \in Requests, NEW p \in Steps, NEW t \in Txn,
         pc' = [pc EXCEPT ![r] = p], txn' = [txn EXCEPT ![r] = t],
         r \in InFlight \/ Cardinality(InFlight) < Concurrency,
         Session(p, t),
         \A k \in Ids : t.pend[k] # Absent => \A q \in Requests \ {r} : ~Wrote(q, k),
         p \in {"slot", "insert"} =>
           \/ pc[r] \in {"slot", "insert"} /\ t.row = txn[r].row
           \/ Cardinality(Active(rows, t.row.inst)) < Cap,
         UNCHANGED <<rows, seq, restored>>
  PROVE  IInv'
PROOF
<1>1. TypeOK'  BY DEF IInv, TypeOK
<1>2. (\A id \in Rows(rows) : id <= seq)' /\ ArchivedWhileDeleted'
  BY DEF IInv, ArchivedWhileDeleted, Rows
<1>3. (\A q \in Requests : Session(pc[q], txn[q]))'
  <2> SUFFICES ASSUME NEW q \in Requests PROVE Session(pc[q], txn[q])'
    OBVIOUS
  <2>1. CASE q = r
    <3>1. pc'[q] = p /\ txn'[q] = t  BY <2>1 DEF IInv, TypeOK
    <3> QED BY <3>1 DEF Session, HoldsRow, WritesOnRecord
  <2>2. CASE q # r
    <3>1. pc'[q] = pc[q] /\ txn'[q] = txn[q]  BY <2>2 DEF IInv, TypeOK
    <3>2. Session(pc[q], txn[q])  BY DEF IInv
    <3> QED BY <3>1, <3>2 DEF Session, HoldsRow, WritesOnRecord
  <2> QED BY <2>1, <2>2
<1>4. Exclusive'  BY DEF IInv, TypeOK, Exclusive, Wrote
<1>5. Cardinality(InFlight') <= Concurrency  BY InFlightStep DEF IInv
<1>6. CapInv'  BY <1>5, AdmittedStep
<1> QED BY <1>1, <1>2, <1>3, <1>4, <1>5, <1>6 DEF IInv

-----------------------------------------------------------------------------
(* The requests' steps.                                                    *)
LEMMA BlankSession ==
  /\ Blank \in Txn
  /\ \A k \in Ids : Blank.pend[k] = Absent
  /\ Session("done", Blank)
PROOF
<1>1. \A k \in Ids : Blank.pend[k] = Absent  BY DEF Blank
<1>2. [id \in Ids |-> Absent] \in [Ids -> Row \cup {Absent, Gone}]  OBVIOUS
<1>3. Blank \in Txn  BY <1>2, StudentsAssumption DEF Blank, Txn, Kinds
<1> QED BY <1>1, <1>3 DEF Session, HoldsRow, WritesOnRecord, Creating, Changing

(* What a session in flight holds.                                         *)
LEMMA Held ==
  ASSUME IInv, NEW r \in Requests
  PROVE  /\ pc[r] \in Steps /\ txn[r] \in Txn /\ Session(pc[r], txn[r])
         /\ pc[r] \notin {"idle", "done"} => r \in InFlight
         /\ \A k \in Ids : txn[r].pend[k] # Absent => \A q \in Requests \ {r} : ~Wrote(q, k)
BY DEF IInv, TypeOK, InFlight, Exclusive, Wrote

LEMMA RollbackStep ==
  ASSUME IInv, NEW r \in Requests, r \in InFlight, Rollback(r)
  PROVE  IInv'
PROOF
<1>1. pc' = [pc EXCEPT ![r] = "done"] /\ txn' = [txn EXCEPT ![r] = Blank]
  BY DEF Rollback, Finish, Goto
<1>2. UNCHANGED <<rows, seq, restored>>  BY DEF Rollback
<1>3. "done" \in Steps  BY DEF Steps
<1> QED BY <1>1, <1>2, <1>3, BlankSession, SessionStep

LEMMA CreateBeginStep ==
  ASSUME IInv, NEW r \in Requests, CreateBegin(r)
  PROVE  IInv'
PROOF
<1>1. PICK i \in Institutions, c \in Categories :
        txn' = [txn EXCEPT ![r].row = NewRow(i, c)]
  BY DEF CreateBegin
<1>2. PICK t : t = [Blank EXCEPT !.row = NewRow(i, c)]  OBVIOUS
<1>3. txn[r] = Blank  BY Held DEF CreateBegin, Begin, Session, HoldsRow
<1>4. txn' = [txn EXCEPT ![r] = t]  BY <1>1, <1>2, <1>3 DEF IInv, TypeOK
<1>5. NewRow(i, c) \in Row /\ Consistent(NewRow(i, c))  BY DEF NewRow, Row, Consistent
<1>6. /\ t \in Txn /\ t.row = NewRow(i, c) /\ t = [Blank EXCEPT !.row = t.row]
      /\ \A k \in Ids : t.pend[k] = Absent
  BY <1>2, <1>5, BlankSession DEF Txn
<1>7. Session("cap", t)
  BY <1>5, <1>6 DEF Session, HoldsRow, WritesOnRecord, Creating, Changing
<1>8. "cap" \in Steps  BY DEF Steps
<1> QED BY <1>4, <1>6, <1>7, <1>8, SessionStep DEF CreateBegin, Begin

(* The statements that only look.                                          *)
LEMMA LookStep ==
  ASSUME IInv, NEW r \in Requests, NEW p \in Steps,
         \/ pc[r] = "cap" /\ p = "slot" /\ Cardinality(Active(rows, txn[r].row.inst)) < Cap
         \/ pc[r] = "slot" /\ p = "insert"
         \/ pc[r] = "target" /\ p = "write",
         Goto(r, p), UNCHANGED <<rows, seq, txn, restored>>
  PROVE  IInv'
PROOF
<1>1. PICK t : t = txn[r]  OBVIOUS
<1>2. txn' = [txn EXCEPT ![r] = t]  BY <1>1 DEF IInv, TypeOK
<1>3. /\ r \in InFlight /\ t \in Txn
      /\ \A k \in Ids : t.pend[k] # Absent => \A q \in Requests \ {r} : ~Wrote(q, k)
  BY <1>1, Held
<1>4. Session(pc[r], t)  BY <1>1, Held
<1>5. Session(p, t)  BY <1>4 DEF Session, HoldsRow, Creating, Changing
<1> QED BY <1>1, <1>2, <1>3, <1>5, SessionStep DEF Goto

LEMMA CheckStep ==
  ASSUME IInv, NEW r \in Requests, CheckCap(r) \/ CheckSlot(r) \/ CheckTarget(r)
  PROVE  IInv'
PROOF
<1>1. r \in InFlight  BY Held DEF CheckCap, CheckSlot, CheckTarget
<1>2. Cardinality(Active(rows, txn[r].row.inst)) \in Nat  BY ActiveFinite
<1>3. CASE CheckCap(r)
  BY <1>1, <1>2, <1>3, RollbackStep, LookStep DEF CheckCap, Steps, Cap
<1>4. CASE CheckSlot(r)    BY <1>1, <1>4, RollbackStep, LookStep DEF CheckSlot, Steps
<1>5. CASE CheckTarget(r)  BY <1>1, <1>5, RollbackStep, LookStep DEF CheckTarget, Steps
<1> QED BY <1>3, <1>4, <1>5

LEMMA ChangeBeginStep ==
  ASSUME IInv, NEW r \in Requests, ChangeBegin(r)
  PROVE  IInv'
PROOF
<1>1. PICK kind \in Kinds \ {"create"}, ids \in SUBSET Ids,
           to \in Categories \cup Reasons \cup {NoReason} :
        /\ Fits(kind, to)
        /\ txn' = [txn EXCEPT ![r].kind = kind, ![r].ids = ids, ![r].to = to]
  <2>1. PICK kind \in May[r] \ {"create"}, ids \in SUBSET Rows(rows) \ {{}} :
          \E to \in IF kind = "reassign" THEN Categories
                    ELSE IF kind \in {"soft_delete", "reason", "reject"} THEN Reasons
                    ELSE {NoReason} :
            txn' = [txn EXCEPT ![r].kind = kind, ![r].ids = ids, ![r].to = to]
    BY DEF ChangeBegin
  <2>2. kind \in Kinds \ {"create"}  BY StudentsAssumption
  <2>3. ids \in SUBSET Ids  BY DEF Rows
  <2> QED BY <2>1, <2>2, <2>3 DEF Fits
<1>2. PICK t : t = [Blank EXCEPT !.kind = kind, !.ids = ids, !.to = to]  OBVIOUS
<1>3. txn[r] = Blank  BY Held DEF ChangeBegin, Begin, Session, HoldsRow
<1>4. txn' = [txn EXCEPT ![r] = t]  BY <1>1, <1>2, <1>3 DEF IInv, TypeOK
<1>5. /\ t \in Txn /\ Fits(t.kind, t.to)
      /\ \A k \in Ids : t.pend[k] = Absent
  BY <1>1, <1>2, BlankSession DEF Txn
<1>6. Session("read", t)  BY <1>5 DEF Session, HoldsRow, WritesOnRecord, Creating, Changing
<1>7. "read" \in Steps  BY DEF Steps
<1> QED BY <1>4, <1>5, <1>6, <1>7, SessionStep DEF ChangeBegin, Begin

LEMMA LoadStep ==
  ASSUME IInv, NEW r \in Requests, Load(r)
  PROVE  IInv'
PROOF
<1>1. /\ r \in InFlight /\ txn[r] \in Txn /\ Session("read", txn[r])
      /\ UNCHANGED <<rows, seq, restored>>
  BY Held DEF Load
<1>2. PICK id \in txn[r].ids, left \in SUBSET txn[r].ids :
        /\ left = txn[r].ids \ {id}
        /\ \/ /\ txn' = [txn EXCEPT ![r].ids = left]
              /\ Goto(r, IF left = {} THEN "commit" ELSE "read")
           \/ /\ ~Refused(txn[r].kind, rows[id])
              /\ txn' = [txn EXCEPT ![r].ids = left, ![r].id = id, ![r].row = rows[id]]
              /\ Goto(r, IF txn[r].kind = "reassign" THEN "target" ELSE "write")
  BY DEF Load
<1>3. id \in Ids /\ id \in 0..MaxIds /\ id # 0 /\ left \subseteq Ids
  BY <1>1, <1>2, StudentsAssumption DEF Txn, Ids
<1>4. \A k \in Ids : txn[r].pend[k] # Absent => \A q \in Requests \ {r} : ~Wrote(q, k)
  BY Held
<1>5. CASE /\ txn' = [txn EXCEPT ![r].ids = left]
           /\ Goto(r, IF left = {} THEN "commit" ELSE "read")
  <2>1. PICK t : t = [txn[r] EXCEPT !.ids = left]  OBVIOUS
  <2>2. PICK p \in {"commit", "read"} : Goto(r, p)  BY <1>5
  <2>6. p \in Steps  BY <2>2 DEF Steps
  <2>3. /\ t \in Txn /\ t.pend = txn[r].pend /\ t.kind = txn[r].kind /\ t.to = txn[r].to
    BY <1>1, <1>3, <2>1 DEF Txn
  <2>4. Session(p, t)
    BY <1>1, <2>3 DEF Session, HoldsRow, WritesOnRecord, Creating, Changing
  <2>5. txn' = [txn EXCEPT ![r] = t]  BY <1>5, <2>1 DEF IInv, TypeOK
  <2> QED BY <1>1, <1>4, <2>2, <2>3, <2>4, <2>5, <2>6, SessionStep DEF Goto
<1>6. CASE /\ ~Refused(txn[r].kind, rows[id])
           /\ txn' = [txn EXCEPT ![r].ids = left, ![r].id = id, ![r].row = rows[id]]
           /\ Goto(r, IF txn[r].kind = "reassign" THEN "target" ELSE "write")
  <2>1. PICK t : t = [txn[r] EXCEPT !.ids = left, !.id = id, !.row = rows[id]]  OBVIOUS
  <2>2. PICK p \in {"target", "write"} : Goto(r, p)  BY <1>6
  <2>7. p \in Steps  BY <2>2 DEF Steps
  <2>3. rows[id] \in Row /\ Consistent(rows[id])
    BY <1>3, <1>6 DEF IInv, TypeOK, ArchivedWhileDeleted, Rows, Refused, Consistent
  <2>4. /\ t \in Txn /\ t.pend = txn[r].pend /\ t.kind = txn[r].kind /\ t.to = txn[r].to
        /\ t.id = id /\ t.row = rows[id]
    BY <1>1, <1>3, <2>1, <2>3 DEF Txn
  <2>5. Session(p, t)
    BY <1>1, <1>3, <2>3, <2>4 DEF Session, HoldsRow, WritesOnRecord, Creating, Changing
  <2>6. txn' = [txn EXCEPT ![r] = t]  BY <1>6, <2>1 DEF IInv, TypeOK
  <2> QED BY <1>1, <1>4, <2>2, <2>4, <2>5, <2>6, <2>7, SessionStep DEF Goto
<1> QED BY <1>2, <1>5, <1>6

(* A flush writes a row only where there is one, in the same institution.  *)
LEMMA FlushedRow ==
  ASSUME IInv, NEW r \in Requests, pc[r] = "write", NEW written \in Flushed(r)
  PROVE  \/ written \in {Absent, Gone}
         \/ /\ written \in Row /\ rows[txn[r].id] \in Row
            /\ written.inst = rows[txn[r].id].inst /\ Consistent(written)
PROOF
<1> SUFFICES ASSUME written \notin {Absent, Gone}
             PROVE  /\ written \in Row /\ rows[txn[r].id] \in Row
                    /\ written.inst = rows[txn[r].id].inst /\ Consistent(written)
  OBVIOUS
<1>1. /\ txn[r] \in Txn /\ txn[r].row \in Row /\ Consistent(txn[r].row)
      /\ Fits(txn[r].kind, txn[r].to) /\ txn[r].id # 0
  BY Held DEF Session, HoldsRow, Changing
<1>2. PICK new : new = After(txn[r].kind, txn[r].row, txn[r].to)  OBVIOUS
<1>3. /\ txn[r].kind # "permanent" /\ rows[txn[r].id] # Absent
      /\ written = Updated(rows[txn[r].id], txn[r].row, new)
  BY <1>2 DEF Flushed
<1>4. new \in Row /\ new.inst = txn[r].row.inst /\ Consistent(new)
  BY <1>1, <1>2, <1>3, RowAfter DEF Txn
<1>5. txn[r].id \in Ids  BY <1>1, StudentsAssumption DEF Txn, Ids
<1>6. rows[txn[r].id] \in Row /\ Consistent(rows[txn[r].id])
  BY <1>3, <1>5 DEF IInv, TypeOK, ArchivedWhileDeleted, Rows, Consistent
<1>7. /\ written \in Row /\ written.inst = rows[txn[r].id].inst
      /\ written.deleted = IF new.deleted # txn[r].row.deleted
                           THEN new.deleted ELSE rows[txn[r].id].deleted
      /\ written.archived = IF new.archived # txn[r].row.archived
                            THEN new.archived ELSE rows[txn[r].id].archived
  BY <1>1, <1>3, <1>4, <1>6, UpdatedRow
<1> QED BY <1>1, <1>4, <1>6, <1>7 DEF Consistent

LEMMA WriteStep ==
  ASSUME IInv, NEW r \in Requests, Write(r)
  PROVE  IInv'
PROOF
<1>1. /\ r \in InFlight /\ pc[r] = "write" /\ txn[r] \in Txn /\ Session("write", txn[r])
      /\ txn[r].id \in Ids
  BY Held, StudentsAssumption DEF Write, Session, HoldsRow, Txn, Ids
<1>2. \A q \in Requests \ {r} : ~Wrote(q, txn[r].id)  BY <1>1 DEF Write, Blockers
<1>3. CASE Rollback(r)  BY <1>1, <1>3, RollbackStep
<1>4. CASE \E written \in Flushed(r) :
             /\ txn' = [txn EXCEPT ![r].pend[txn[r].id] = written,
                                   ![r].id = 0, ![r].row = Absent]
             /\ Goto(r, IF txn[r].ids = {} THEN "commit" ELSE "read")
             /\ UNCHANGED <<rows, seq, restored>>
  <2>1. PICK written \in Flushed(r) :
             /\ txn' = [txn EXCEPT ![r].pend[txn[r].id] = written,
                                   ![r].id = 0, ![r].row = Absent]
             /\ Goto(r, IF txn[r].ids = {} THEN "commit" ELSE "read")
             /\ UNCHANGED <<rows, seq, restored>>
    BY <1>4
  <2>2. PICK t : t = [txn[r] EXCEPT !.pend[txn[r].id] = written, !.id = 0, !.row = Absent]
    OBVIOUS
  <2>3. PICK p \in {"commit", "read"} : Goto(r, p)  BY <2>1
  <2>4. p \in Steps  BY <2>3 DEF Steps
  <2>5. txn' = [txn EXCEPT ![r] = t]  BY <1>1, <2>1, <2>2 DEF IInv, TypeOK
  <2>6. \/ written \in {Absent, Gone}
        \/ /\ written \in Row /\ rows[txn[r].id] \in Row
           /\ written.inst = rows[txn[r].id].inst /\ Consistent(written)
    BY <1>1, FlushedRow
  <2>7. /\ t \in Txn /\ t.kind = txn[r].kind /\ t.to = txn[r].to
        /\ t.pend = [txn[r].pend EXCEPT ![txn[r].id] = written]
    <3>1. PICK pend : pend = [txn[r].pend EXCEPT ![txn[r].id] = written]  OBVIOUS
    <3>2. pend \in [Ids -> Row \cup {Absent, Gone}]  BY <1>1, <2>6, <3>1 DEF Txn
    <3>3. t = [txn[r] EXCEPT !.pend = pend, !.id = 0, !.row = Absent]
      BY <1>1, <2>2, <3>1 DEF Txn
    <3>4. 0 \in 0..MaxIds /\ Absent \in Row \cup {Absent}  BY StudentsAssumption
    <3>5. t \in Txn  BY <1>1, <3>2, <3>3, <3>4 DEF Txn
    <3>6. t.kind = txn[r].kind /\ t.to = txn[r].to /\ t.pend = pend
      BY <1>1, <3>3 DEF Txn
    <3> QED BY <3>1, <3>5, <3>6
  <2>8. \A k \in Ids : t.pend[k] = IF k = txn[r].id THEN written ELSE txn[r].pend[k]
    BY <1>1, <2>7 DEF Txn
  <2>9. WritesOnRecord(t)
    BY <1>1, <2>6, <2>8, StudentsAssumption DEF Session, WritesOnRecord
  <2>10. Session(p, t)
    BY <1>1, <2>3, <2>7, <2>9 DEF Session, HoldsRow, Creating, Changing
  <2>11. \A k \in Ids : t.pend[k] # Absent => \A q \in Requests \ {r} : ~Wrote(q, k)
    BY <1>2, <2>8, Held
  <2> QED BY <1>1, <2>1, <2>3, <2>4, <2>5, <2>7, <2>10, <2>11, SessionStep DEF Goto
<1> QED BY <1>3, <1>4 DEF Write, Flush

(* The other sessions after a commit that leaves what they wrote in place. *)
LEMMA FinishStep ==
  ASSUME IInv, NEW r \in Requests, r \in InFlight, Finish(r),
         \A q \in Requests \ {r} : \A k \in Ids :
           txn[q].pend[k] \notin {Absent, Gone} => rows'[k] = rows[k]
  PROVE  /\ pc' \in [Requests -> Steps] /\ txn' \in [Requests -> Txn]
         /\ (\A q \in Requests : Session(pc[q], txn[q]))'
         /\ Exclusive' /\ Cardinality(InFlight') <= Concurrency
         /\ \A i : Admitted(i)' = Admitted(i) \ {r}
PROOF
<1>1. "done" \in Steps  BY DEF Steps
<1>2. pc' = [pc EXCEPT ![r] = "done"] /\ txn' = [txn EXCEPT ![r] = Blank]
  BY DEF Finish, Goto
<1>3. pc' \in [Requests -> Steps] /\ txn' \in [Requests -> Txn]
  BY <1>1, <1>2, BlankSession DEF IInv, TypeOK
<1>4. (\A q \in Requests : Session(pc[q], txn[q]))'
  <2> SUFFICES ASSUME NEW q \in Requests PROVE Session(pc[q], txn[q])'
    OBVIOUS
  <2>1. CASE q = r
    <3>1. pc'[q] = "done" /\ txn'[q] = Blank  BY <1>2, <2>1 DEF IInv, TypeOK
    <3> QED BY <3>1, BlankSession DEF Session, HoldsRow, WritesOnRecord, Creating, Changing
  <2>2. CASE q # r
    <3>1. pc'[q] = pc[q] /\ txn'[q] = txn[q]  BY <1>2, <2>2 DEF IInv, TypeOK
    <3>2. Session(pc[q], txn[q])  BY DEF IInv
    <3> QED BY <2>2, <3>1, <3>2 DEF Session, HoldsRow, WritesOnRecord
  <2> QED BY <2>1, <2>2
<1>5. Exclusive'  BY <1>2, BlankSession DEF IInv, TypeOK, Exclusive, Wrote
<1>6. Cardinality(InFlight') <= Concurrency  BY <1>1, <1>2, InFlightStep DEF IInv
<1>7. \A i : Admitted(i)' = Admitted(i) \ {r}  BY <1>2 DEF Admitted, IInv, TypeOK
<1> QED BY <1>3, <1>4, <1>5, <1>6, <1>7

LEMMA InsertStep ==
  ASSUME IInv, NEW r \in Requests, Insert(r)
  PROVE  /\ IInv'
         /\ \A id \in 1..seq : rows'[id] = rows[id]
PROOF
<1>1. /\ r \in InFlight /\ Finish(r) /\ restored' = restored /\ seq' = seq + 1
      /\ seq \in Nat /\ seq + 1 \in Ids
  BY Held, StudentsAssumption DEF Insert, IInv, TypeOK, Ids
<1>2. txn[r].row \in Row /\ Consistent(txn[r].row)
  BY Held DEF Insert, Session, HoldsRow, Creating
<1>3. rows' = rows \/ rows' = [rows EXCEPT ![seq + 1] = txn[r].row]  BY DEF Insert
<1>4. \A k \in Ids : rows'[k] = rows[k] \/ (k = seq + 1 /\ rows'[k] = txn[r].row)
  BY <1>3 DEF IInv, TypeOK
<1>5. \A k \in Ids : rows[k] # Absent => k <= seq /\ rows'[k] = rows[k]
  BY <1>1, <1>4 DEF IInv, Rows
<1>6. \A q \in Requests \ {r} : \A k \in Ids :
        txn[q].pend[k] \notin {Absent, Gone} => rows'[k] = rows[k]
  BY <1>5, Held DEF Session, WritesOnRecord
<1>7. /\ pc' \in [Requests -> Steps] /\ txn' \in [Requests -> Txn]
      /\ (\A q \in Requests : Session(pc[q], txn[q]))'
      /\ Exclusive' /\ Cardinality(InFlight') <= Concurrency
      /\ \A i : Admitted(i)' = Admitted(i) \ {r}
  BY <1>1, <1>6, FinishStep
<1>8. TypeOK'
  BY <1>1, <1>2, <1>3, <1>7, StudentsAssumption DEF IInv, TypeOK, Ids
<1>9. (\A id \in Rows(rows) : id <= seq)'
  BY <1>1, <1>4, <1>5 DEF Rows, Ids
<1>10. ArchivedWhileDeleted'
  BY <1>2, <1>4 DEF IInv, ArchivedWhileDeleted, Rows, Consistent
<1>11. CapInv'
  <2> SUFFICES ASSUME NEW i \in Institutions
               PROVE  Cardinality(Active(rows', i)) + Cardinality(Admitted(i)')
                        <= Cap + CapSlack + restored[i]
    BY <1>1 DEF CapInv, CapSlack, Active, Rows
  <2>1. /\ IsFiniteSet(Active(rows, i)) /\ Cardinality(Active(rows, i)) \in Nat
        /\ IsFiniteSet(Active(rows', i)) /\ Cardinality(Active(rows', i)) \in Nat
    BY ActiveFinite
  <2>2. IsFiniteSet(Admitted(i)) /\ Cardinality(Admitted(i)) \in Nat
    BY RequestsFinite DEF Admitted
  <2>3. Cardinality(Active(rows, i)) + Cardinality(Admitted(i))
          <= Cap + CapSlack + restored[i]
    BY DEF IInv, CapInv
  <2>4. restored[i] \in Nat /\ Cap + CapSlack + restored[i] \in Int
    BY StudentsAssumption DEF IInv, TypeOK, Cap, CapSlack
  <2>5. CASE txn[r].row.inst = i
    <3>1. r \in Admitted(i)  BY <2>5 DEF Insert, Admitted
    <3>2. Cardinality(Admitted(i)') = Cardinality(Admitted(i)) - 1
      BY <1>7, <2>2, <3>1, FS_RemoveElement
    <3>3. PICK new : new = seq + 1  OBVIOUS
    <3>4. Active(rows', i) \subseteq Active(rows, i) \cup {new}
      BY <1>4, <3>3 DEF Active, Rows
    <3>5. /\ IsFiniteSet(Active(rows, i) \cup {new})
          /\ \/ Cardinality(Active(rows, i) \cup {new}) = Cardinality(Active(rows, i)) + 1
             \/ Cardinality(Active(rows, i) \cup {new}) = Cardinality(Active(rows, i))
      BY <2>1, FS_AddElement
    <3>6. Cardinality(Active(rows', i)) <= Cardinality(Active(rows, i) \cup {new})
      BY <3>4, <3>5, FS_Subset
    <3> QED BY <2>1, <2>2, <2>3, <2>4, <3>2, <3>5, <3>6
  <2>6. CASE txn[r].row.inst # i
    <3>1. Admitted(i)' = Admitted(i)  BY <1>7, <2>6 DEF Admitted
    <3>2. Active(rows', i) \subseteq Active(rows, i)  BY <1>4, <2>6 DEF Active, Rows
    <3>3. Cardinality(Active(rows', i)) <= Cardinality(Active(rows, i))
      BY <2>1, <3>2, FS_Subset
    <3> QED BY <2>1, <2>2, <2>3, <2>4, <3>1, <3>3
  <2> QED BY <2>5, <2>6
<1>12. IInv'  BY <1>7, <1>8, <1>9, <1>10, <1>11 DEF IInv
<1>13. \A id \in 1..seq : rows'[id] = rows[id]
  BY <1>1, <1>4, StudentsAssumption DEF Ids
<1> QED BY <1>12, <1>13

LEMMA CommitStep ==
  ASSUME IInv, NEW r \in Requests, Commit(r)
  PROVE  /\ IInv'
         /\ \A id \in Ids : rows[id] = Absent => rows'[id] = Absent
PROOF
<1>1. PICK pend : pend = txn[r].pend  OBVIOUS
<1>2. PICK Back :
        /\ Back = [i \in Institutions |->
                    {id \in Ids : /\ rows[id] # Absent /\ pend[id] \notin {Absent, Gone}
                                  /\ rows[id].inst = i
                                  /\ rows[id].deleted /\ ~pend[id].deleted}]
  OBVIOUS
<1>3. /\ r \in InFlight /\ Finish(r) /\ seq' = seq
      /\ rows' = [id \in Ids |-> IF pend[id] = Absent THEN rows[id]
                                 ELSE IF pend[id] = Gone THEN Absent ELSE pend[id]]
      /\ restored' = [i \in Institutions |-> restored[i] + Cardinality(Back[i])]
  BY <1>1, <1>2, Held DEF Commit
<1>4. /\ pend \in [Ids -> Row \cup {Absent, Gone}]
      /\ \A k \in Ids : pend[k] \notin {Absent, Gone} =>
           /\ rows[k] \in Row /\ pend[k] \in Row
           /\ pend[k].inst = rows[k].inst /\ Consistent(pend[k])
      /\ \A k \in Ids : pend[k] # Absent => \A q \in Requests \ {r} : txn[q].pend[k] = Absent
  <2>1. txn[r] \in Txn /\ WritesOnRecord(txn[r])  BY Held DEF Session
  <2>2. \A k \in Ids : rows[k] \in Row \cup {Absent}  BY DEF IInv, TypeOK
  <2>3. \A k \in Ids : pend[k] # Absent => \A q \in Requests \ {r} : txn[q].pend[k] = Absent
    BY <1>1, Held DEF Wrote
  <2> QED BY <1>1, <2>1, <2>2, <2>3 DEF Txn, WritesOnRecord
<1>5. \A k \in Ids :
        /\ rows'[k] \in Row \cup {Absent}
        /\ rows[k] = Absent => rows'[k] = Absent
        /\ rows'[k] # Absent => \/ rows'[k] = rows[k]
                               \/ /\ rows'[k] = pend[k]
                                  /\ pend[k] \notin {Absent, Gone}
  <2> SUFFICES ASSUME NEW k \in Ids
               PROVE  /\ rows'[k] \in Row \cup {Absent}
                      /\ rows[k] = Absent => rows'[k] = Absent
                      /\ rows'[k] # Absent => \/ rows'[k] = rows[k]
                                             \/ /\ rows'[k] = pend[k]
                                                /\ pend[k] \notin {Absent, Gone}
    OBVIOUS
  <2>1. rows'[k] = IF pend[k] = Absent THEN rows[k]
                   ELSE IF pend[k] = Gone THEN Absent ELSE pend[k]
    BY <1>3
  <2>2. rows[k] \in Row \cup {Absent}  BY DEF IInv, TypeOK
  <2> QED BY <1>4, <2>1, <2>2, StudentsAssumption
<1>6. \A q \in Requests \ {r} : \A k \in Ids :
        txn[q].pend[k] \notin {Absent, Gone} => rows'[k] = rows[k]
  BY <1>3, <1>4
<1>7. /\ pc' \in [Requests -> Steps] /\ txn' \in [Requests -> Txn]
      /\ (\A q \in Requests : Session(pc[q], txn[q]))'
      /\ Exclusive' /\ Cardinality(InFlight') <= Concurrency
      /\ \A i : Admitted(i)' = Admitted(i) \ {r}
  BY <1>3, <1>6, FinishStep
<1>8. \A i \in Institutions : IsFiniteSet(Back[i]) /\ Cardinality(Back[i]) \in Nat
  <2>1. IsFiniteSet(Ids)  BY FS_Interval, StudentsAssumption DEF Ids
  <2>2. \A i \in Institutions : Back[i] \subseteq Ids  BY <1>2
  <2> QED BY <2>1, <2>2, FS_Subset, FS_CardinalityType
<1>9. TypeOK'
  <2>1. rows' \in [Ids -> Row \cup {Absent}]  BY <1>3, <1>5
  <2>2. restored' \in [Institutions -> Nat]  BY <1>3, <1>8 DEF IInv, TypeOK
  <2> QED BY <1>3, <1>7, <2>1, <2>2 DEF IInv, TypeOK
<1>10. (\A id \in Rows(rows) : id <= seq)'  BY <1>3, <1>5 DEF IInv, Rows
<1>11. ArchivedWhileDeleted'
  BY <1>4, <1>5 DEF IInv, ArchivedWhileDeleted, Rows, Consistent
<1>12. CapInv'
  <2> SUFFICES ASSUME NEW i \in Institutions
               PROVE  Cardinality(Active(rows', i)) + Cardinality(Admitted(i)')
                        <= Cap + CapSlack + restored'[i]
    BY DEF CapInv, CapSlack, Active, Rows
  <2>1. /\ IsFiniteSet(Active(rows, i)) /\ Cardinality(Active(rows, i)) \in Nat
        /\ IsFiniteSet(Active(rows', i)) /\ Cardinality(Active(rows', i)) \in Nat
    BY ActiveFinite
  <2>2. IsFiniteSet(Admitted(i)) /\ Cardinality(Admitted(i)) \in Nat
    BY RequestsFinite DEF Admitted
  <2>3. Cardinality(Active(rows, i)) + Cardinality(Admitted(i))
          <= Cap + CapSlack + restored[i]
    BY DEF IInv, CapInv
  <2>4. restored[i] \in Nat /\ Cap + CapSlack \in Int
    BY StudentsAssumption DEF IInv, TypeOK, Cap, CapSlack
  <2>5. restored'[i] = restored[i] + Cardinality(Back[i])  BY <1>3
  <2>6. Cardinality(Admitted(i)') <= Cardinality(Admitted(i))
        /\ Cardinality(Admitted(i)') \in Nat
    BY <1>7, <2>2, FS_Subset, FS_CardinalityType, Admitted(i)' \subseteq Admitted(i)
  <2>7. Active(rows', i) \subseteq Active(rows, i) \cup Back[i]
    BY <1>2, <1>4, <1>5 DEF Active, Rows
  <2>8. /\ IsFiniteSet(Active(rows, i) \cup Back[i])
        /\ Cardinality(Active(rows, i) \cup Back[i])
             <= Cardinality(Active(rows, i)) + Cardinality(Back[i])
    <3>1. IsFiniteSet(Active(rows, i) \cap Back[i])  BY <2>1, FS_Intersection
    <3>2. Cardinality(Active(rows, i) \cap Back[i]) \in Nat  BY <3>1, FS_CardinalityType
    <3>3. /\ IsFiniteSet(Active(rows, i) \cup Back[i])
          /\ Cardinality(Active(rows, i) \cup Back[i])
               = Cardinality(Active(rows, i)) + Cardinality(Back[i])
                   - Cardinality(Active(rows, i) \cap Back[i])
      BY <1>8, <2>1, FS_Union
    <3> QED BY <1>8, <2>1, <3>2, <3>3
  <2>9. /\ Cardinality(Active(rows', i)) <= Cardinality(Active(rows, i) \cup Back[i])
        /\ Cardinality(Active(rows, i) \cup Back[i]) \in Nat
    BY <2>7, <2>8, FS_Subset, FS_CardinalityType
  <2> QED BY <1>8, <2>1, <2>2, <2>3, <2>4, <2>5, <2>6, <2>8, <2>9
<1>13. IInv'  BY <1>7, <1>9, <1>10, <1>11, <1>12 DEF IInv
<1> QED BY <1>5, <1>13

-----------------------------------------------------------------------------
LEMMA InitInv ==
  ASSUME Init
  PROVE  IInv
PROOF
<1>1. \A r \in Requests : pc[r] = "idle" /\ txn[r] = Blank  BY DEF Init
<1>2. rows \in [Ids -> Row \cup {Absent}]  BY PriorStudentsAssumption DEF Init
<1>3. seq = Cardinality(Rows(rows)) /\ seq \in 0..MaxIds /\ IsFiniteSet(Rows(rows))
  BY ActiveFinite DEF Init
<1>4. TypeOK
  <2>1. pc \in [Requests -> Steps]  BY DEF Init, Steps
  <2>2. txn \in [Requests -> Txn]  BY BlankSession DEF Init
  <2> QED BY <1>2, <1>3, <2>1, <2>2 DEF Init, TypeOK
<1>5. \A id \in Rows(rows) : id <= seq
  <2> SUFFICES ASSUME NEW id \in Rows(rows) PROVE id <= seq
    OBVIOUS
  <2>1. 1..id \subseteq Rows(rows)  BY PriorStudentsAssumption DEF Init
  <2>2. id \in Nat /\ id \in 1..id  BY StudentsAssumption DEF Rows, Ids
  <2>3. Cardinality(1..id) = id  BY <2>2, FS_Interval
  <2> QED BY <1>3, <2>1, <2>3, FS_Subset
<1>6. ArchivedWhileDeleted  BY PriorStudentsAssumption DEF Init, ArchivedWhileDeleted
<1>7. \A r \in Requests : Session(pc[r], txn[r])
  BY <1>1, BlankSession DEF Session, HoldsRow, WritesOnRecord, Creating, Changing
<1>8. Exclusive  BY <1>1, BlankSession DEF Exclusive, Wrote
<1>9. InFlight = {} /\ \A i : Admitted(i) = {}  BY <1>1 DEF InFlight, Admitted
<1>10. Cardinality({}) = 0  BY FS_EmptySet
<1>11. Cardinality(InFlight) <= Concurrency  BY <1>9, <1>10, StudentsAssumption
<1>12. CapInv
  <2> SUFFICES ASSUME NEW i \in Institutions
               PROVE  Cardinality(Active(rows, i)) + Cardinality(Admitted(i))
                        <= Cap + CapSlack + restored[i]
    BY DEF CapInv
  <2>1. Cardinality(Active(rows, i)) \in Nat /\ Cardinality(Active(rows, i)) <= Cap
    BY ActiveFinite, PriorStudentsAssumption DEF Init
  <2>2. Cardinality(Admitted(i)) = 0 /\ restored[i] = 0  BY <1>9, <1>10 DEF Init
  <2> QED BY <2>1, <2>2, StudentsAssumption DEF Cap, CapSlack
<1> QED BY <1>4, <1>5, <1>6, <1>7, <1>8, <1>11, <1>12 DEF IInv

LEMMA StepInv ==
  ASSUME IInv, [Next]_vars
  PROVE  IInv'
PROOF
<1>1. CASE UNCHANGED vars
  BY <1>1 DEF vars, IInv, TypeOK, Rows, ArchivedWhileDeleted, Session, HoldsRow,
              WritesOnRecord, Exclusive, Wrote, InFlight, CapInv, CapSlack, Active, Admitted
<1>2. ASSUME NEW r \in Requests,
             \/ CreateBegin(r) \/ CheckCap(r) \/ CheckSlot(r) \/ Insert(r)
             \/ ChangeBegin(r) \/ Load(r) \/ CheckTarget(r) \/ Write(r) \/ Commit(r)
             \/ Fail(r)
      PROVE  IInv'
  BY <1>2, CreateBeginStep, CheckStep, InsertStep, ChangeBeginStep, LoadStep, WriteStep,
     CommitStep, RollbackStep DEF Fail
<1> QED BY <1>1, <1>2 DEF Next

THEOREM Invariance == Spec => []IInv
PROOF
<1>1. Init => IInv  BY InitInv
<1>2. IInv /\ [Next]_vars => IInv'  BY StepInv
<1> QED BY <1>1, <1>2, PTL DEF Spec

(* Every variable keeps its type.                                          *)
THEOREM TypeCorrect == Spec => []TypeOK
PROOF
<1>1. IInv => TypeOK  BY DEF IInv
<1> QED BY <1>1, Invariance, PTL

(* Whatever deletions, restores and edits interleave, on one student or in *)
(* bulk, a student has an archive date exactly while deleted               *)
(* (soft_delete_student, restore_student and their bulk versions).         *)
THEOREM DeletedAreArchived == Spec => []ArchivedWhileDeleted
PROOF
<1>1. IInv => ArchivedWhileDeleted  BY DEF IInv
<1> QED BY <1>1, Invariance, PTL

(* An institution has at most four active students, one more for each      *)
(* other registration in flight and one for each student restored          *)
(* (_check_institution_cap).                                               *)
THEOREM CapHolds == Spec => []CapExceededByRacesOnly
PROOF
<1>1. IInv => CapExceededByRacesOnly
  <2> SUFFICES ASSUME IInv, NEW i \in Institutions
               PROVE  Cardinality(Active(rows, i)) <= Cap + CapSlack + restored[i]
    BY DEF CapExceededByRacesOnly
  <2>1. Cardinality(Admitted(i)) \in Nat  BY RequestsFinite DEF Admitted
  <2>2. Cardinality(Active(rows, i)) + Cardinality(Admitted(i))
          <= Cap + CapSlack + restored[i]
    BY DEF IInv, CapInv
  <2>3. restored[i] \in Nat  BY DEF IInv, TypeOK
  <2> QED BY <2>1, <2>2, <2>3, ActiveFinite, StudentsAssumption DEF Cap, CapSlack
<1> QED BY <1>1, Invariance, PTL

(* No step gives a number that was handed out a row again: a student       *)
(* deleted permanently never comes back, also when another session had     *)
(* loaded the record before (permanent_delete_student).                    *)
THEOREM GoneForGood == Spec => PermanentDeleteIsIrreversible
PROOF
<1>1. ASSUME IInv, Next, NEW id \in 1..seq, rows[id] = Absent
      PROVE  rows'[id] = Absent
  <2>1. id \in Ids  BY <1>1, StudentsAssumption DEF IInv, TypeOK, Ids
  <2>2. PICK r \in Requests :
             \/ CreateBegin(r) \/ CheckCap(r) \/ CheckSlot(r) \/ Insert(r)
             \/ ChangeBegin(r) \/ Load(r) \/ CheckTarget(r) \/ Write(r) \/ Commit(r)
             \/ Fail(r)
    BY <1>1 DEF Next
  <2>3. CASE Insert(r)  BY <1>1, <2>3, InsertStep
  <2>4. CASE Commit(r)  BY <1>1, <2>1, <2>4, CommitStep
  <2>5. CASE ~Insert(r) /\ ~Commit(r)
    <3>1. rows' = rows
      BY <2>2, <2>5 DEF CreateBegin, CheckCap, CheckSlot, ChangeBegin, Load, CheckTarget,
                        Write, Flush, Fail, Rollback
    <3> QED BY <1>1, <3>1
  <2> QED BY <2>3, <2>4, <2>5
<1>2. IInv /\ [Next]_vars =>
        [\A id \in 1..seq : rows[id] = Absent => rows'[id] = Absent]_vars
  BY <1>1
<1> QED BY <1>2, Invariance, PTL DEF Spec, PermanentDeleteIsIrreversible
=============================================================================
