---------------------------- MODULE AccessProofs -----------------------------
(***************************************************************************)
(* Institutions and their logins under any number of concurrent requests   *)
(* and callers: a batch intake is all or nothing, undisturbed institutions *)
(* are told their status, a code opens one session and takes a bounded     *)
(* number of wrong answers, and the rejected are locked out.               *)
(***************************************************************************)
EXTENDS Otp, FiniteSetTheorems, TLAPS

-----------------------------------------------------------------------------
(* Institutions: request r with next statement p, argument a and flushed   *)
(* rows n.                                                                 *)
Intake == {"check", "insert", "commit"}

(* What a batch still owes its list: each address is on record, among its  *)
(* rows, or among those to do.                                             *)
Owed(p, a, n) ==
  a.kind = "batch" /\ p \in Intake \cup {"done"} =>
    \A k \in DOMAIN a.list :
      \/ Registered(Lower[a.list[k]])
      \/ \E i \in Ids : n[i] # Absent /\ n[i].email = Lower[a.list[k]]
      \/ p \in {"check", "insert"} /\ \E j \in DOMAIN a.todo : a.todo[j] = a.list[k]
Flushes(r, p, n) ==
  \A i \in Ids : n[i] # Absent => p \in Intake /\ rows[i] = Absent /\ n[i].by = r
Committed(r, p, a) ==
  \A i \in OnRecord : rows[i].by = r =>
    p \in {"mail", "done", "failed"} /\ (a.kind = "batch" => p = "done")
Holds(p, a) ==
  /\ p = "idle" => a = NoArg
  /\ p \in Intake => a.kind # "review"
  /\ p = "insert" => a.todo # <<>>
  /\ p = "review" => a.kind = "review"
  /\ p = "mail" => a.kind \in {"register", "review"}
  /\ p \in {"review", "mail"} /\ a.kind = "review" =>
       a.id \in OnRecord /\ a.decision \in Decisions
Local(r, p, a, n) ==
  Holds(p, a) /\ Owed(p, a, n) /\ Flushes(r, p, n) /\ Committed(r, p, a)

(* What a request knows that nothing disturbs.                             *)
Alone(p, a) ==
  /\ p = "review" => a.loaded = rows[a.id]
  /\ p = "mail" /\ a.kind = "review" => rows[a.id].status = a.decision
Telling(i) == \E r \in Requests : pc[r] = "mail" /\ arg[r].kind = "review" /\ arg[r].id = i
Undisturbed ==
  /\ \A q, r \in InFlight : q = r
  /\ \A r \in Requests : Alone(pc[r], arg[r])
  /\ \A i \in OnRecord : inbox[i] \in Decisions => inbox[i] = rows[i].status \/ Telling(i)

InstInv ==
  /\ TypeOK
  /\ \A r \in Requests : Local(r, pc[r], arg[r], pend[r])
  /\ \A q, r \in Requests : q # r => \A i \in Ids : i \notin Flushed(q) \/ i \notin Flushed(r)
  /\ \A i \in Ids : inbox[i] \in Decisions => i \in OnRecord
  /\ ~disturbed => Undisturbed

-----------------------------------------------------------------------------
(* Logins: a call, and what it knows while nothing overlaps it.            *)
Entering(k) == {c \in Clients : client[c].pc \in {"answer", "session"} /\ client[c].code = k}
CallInv(call) ==
  /\ call.pc # "idle" => call.inst \in OnRecord
  /\ call.pc = "insert" =>
       call.code \in CodeIds /\ codes[call.code] = Absent /\ call.stale \subseteq Issued
  /\ call.pc \in {"answer", "session"} =>
       call.code \in Issued /\ codes[call.code].inst = call.inst
  /\ call.pc = "answer" /\ call.outcome = "count" => call.attempts < MaxAttempts
  /\ call.pc = "session" => codes[call.code].used
QuietCall(call) ==
  /\ call.pc # "idle" => rows[call.inst].status # "REJECTED"
  /\ call.pc = "insert" => call.stale = Live(call.inst)
  /\ call.pc = "answer" => ~codes[call.code].used /\ call.attempts = codes[call.code].attempts
  /\ call.pc = "session" => sessions[call.code] = 0
Quiet ==
  /\ \A c \in Calling : InFlight = {} /\ \A d \in Calling : d = c
  /\ \A c \in Clients : QuietCall(client[c])
  /\ \A k \in CodeIds : sessions[k] <= 1
  /\ \A k \in Issued : guesses[k] = codes[k].attempts
  /\ \A k, l \in Issued :
       codes[k].inst = codes[l].inst /\ ~codes[k].used /\ ~codes[l].used => k = l

OtpInv ==
  /\ OtpTypeOK
  /\ Cardinality(InFlight) + Cardinality(Calling) <= Concurrency
  /\ \A c \in Clients : CallInv(client[c])
  /\ \A c, d \in Clients :
       client[c].pc = "insert" /\ client[d].pc = "insert" /\ c # d =>
         client[c].code # client[d].code
  /\ \A k \in CodeIds : codes[k] = Absent => guesses[k] = 0
  /\ \A k \in CodeIds : codes[k] = Absent \/ ~codes[k].used => sessions[k] = 0
  /\ \A k \in CodeIds : sessions[k] + Cardinality(Entering(k)) <= Cardinality(Clients)
  /\ ~overlapped => Quiet

-----------------------------------------------------------------------------
(* Wrong answers: twice the number of those that a code whose counter is a *)
(* can still take from callers that come in pairs, and the same with a     *)
(* caller that has read v and not answered.                                *)
Left(a) == (MaxAttempts - a) * (MaxAttempts - a + 3)
LeftWith(v, a) ==
  IF v >= a THEN Left(a) ELSE 2 * (MaxAttempts - a + 1) + Left(v + 1)
Counting(k) ==
  {c \in Clients : client[c].pc = "answer" /\ client[c].outcome = "count" /\ client[c].code = k}
Budget(k) ==
  /\ 2 * guesses[k] + Left(codes[k].attempts) <= Left(0)
  /\ \A c \in Counting(k) :
       2 * guesses[k] + LeftWith(client[c].attempts, codes[k].attempts) <= Left(0)
  /\ \A c, d \in Counting(k) : c # d =>
       2 * guesses[k] + 2 + LeftWith(client[d].attempts, client[c].attempts + 1) <= Left(0)
BudgetInv == \A k \in Issued : Budget(k)

-----------------------------------------------------------------------------
(* The steps of the institutions' requests.                                *)
LEMMA LocalStep ==
  ASSUME InstInv, NEW r \in Requests, NEW p \in Steps, NEW a \in Arg,
         NEW n \in [Ids -> Row \cup {Absent}],
         pc' = [pc EXCEPT ![r] = p], arg' = [arg EXCEPT ![r] = a],
         pend' = [pend EXCEPT ![r] = n], UNCHANGED <<rows, inbox>>,
         disturbed' \in BOOLEAN,
         Local(r, p, a, n),
         \A q \in Requests \ {r} : \A i \in Ids : n[i] # Absent => i \notin Flushed(q),
         ~disturbed' =>
           /\ ~disturbed /\ Alone(p, a) /\ pc[r] # "mail"
           /\ r \in InFlight \/ InFlight = {}
  PROVE  InstInv'
PROOF
<1>1. TypeOK'  BY DEF InstInv, TypeOK
<1>2. (\A q \in Requests : Local(q, pc[q], arg[q], pend[q]))'
  <2> SUFFICES ASSUME NEW q \in Requests PROVE Local(q, pc[q], arg[q], pend[q])'
    OBVIOUS
  <2>1. CASE q = r
    <3>1. pc'[q] = p /\ arg'[q] = a /\ pend'[q] = n  BY <2>1 DEF InstInv, TypeOK
    <3> QED BY <2>1, <3>1 DEF Local, Holds, Owed, Flushes, Committed, OnRecord, Registered
  <2>2. CASE q # r
    <3>1. pc'[q] = pc[q] /\ arg'[q] = arg[q] /\ pend'[q] = pend[q]
      BY <2>2 DEF InstInv, TypeOK
    <3>2. Local(q, pc[q], arg[q], pend[q])  BY DEF InstInv
    <3> QED BY <3>1, <3>2 DEF Local, Holds, Owed, Flushes, Committed, OnRecord, Registered
  <2> QED BY <2>1, <2>2
<1>3. (\A q, s \in Requests : q # s => \A i \in Ids : i \notin Flushed(q) \/ i \notin Flushed(s))'
  BY DEF InstInv, TypeOK, Flushed
<1>4. (\A i \in Ids : inbox[i] \in Decisions => i \in OnRecord)'
  BY DEF InstInv, OnRecord
<1>5. (~disturbed => Undisturbed)'
  <2> SUFFICES ASSUME ~disturbed' PROVE Undisturbed'
    OBVIOUS
  <2>1. Undisturbed  BY DEF InstInv
  <2>2. \A q \in Requests : /\ pc'[q] = IF q = r THEN p ELSE pc[q]
                           /\ arg'[q] = IF q = r THEN a ELSE arg[q]
    BY DEF InstInv, TypeOK
  <2>3. (\A q, s \in InFlight : q = s)'  BY <2>1, <2>2 DEF Undisturbed, InFlight
  <2>4. (\A q \in Requests : Alone(pc[q], arg[q]))'
    BY <2>1, <2>2 DEF Undisturbed, Alone
  <2>5. \A i \in Ids : Telling(i) => Telling(i)'  BY <2>2 DEF Telling
  <2>6. (\A i \in OnRecord : inbox[i] \in Decisions => inbox[i] = rows[i].status \/ Telling(i))'
    BY <2>1, <2>5 DEF Undisturbed, OnRecord
  <2> QED BY <2>3, <2>4, <2>6 DEF Undisturbed
<1> QED BY <1>1, <1>2, <1>3, <1>4, <1>5 DEF InstInv

(* What the invariant says of one request.                                 *)
LEMMA RequestHeld ==
  ASSUME InstInv, NEW r \in Requests
  PROVE  /\ pc[r] \in Steps /\ arg[r] \in Arg /\ pend[r] \in [Ids -> Row \cup {Absent}]
         /\ Local(r, pc[r], arg[r], pend[r])
         /\ pc[r] \notin {"idle", "done", "failed"} => r \in InFlight
         /\ \A q \in Requests \ {r} : \A i \in Ids : pend[r][i] # Absent => i \notin Flushed(q)
         /\ disturbed \in BOOLEAN
         /\ ~disturbed => Alone(pc[r], arg[r])
BY DEF InstInv, TypeOK, InFlight, Flushed, Undisturbed

LEMMA AbortStep ==
  ASSUME InstInv, NEW r \in Requests, r \in InFlight, Abort(r), disturbed' \in BOOLEAN,
         ~disturbed' => ~disturbed /\ pc[r] # "mail",
         arg[r].kind = "batch" => pc[r] # "mail"
  PROVE  InstInv'
PROOF
<1>1. PICK a : a = arg[r]  OBVIOUS
<1>2. /\ pc' = [pc EXCEPT ![r] = "failed"] /\ arg' = [arg EXCEPT ![r] = a]
      /\ pend' = [pend EXCEPT ![r] = Unwritten] /\ UNCHANGED <<rows, inbox>>
  BY <1>1 DEF Abort, Goto, InstInv, TypeOK
<1>3. /\ Unwritten \in [Ids -> Row \cup {Absent}] /\ \A i \in Ids : Unwritten[i] = Absent
  BY DEF Unwritten
<1>4. "failed" \in Steps  BY DEF Steps
<1>5. Local(r, pc[r], arg[r], pend[r]) /\ a \in Arg  BY <1>1, RequestHeld
<1>6. pc[r] \notin {"done", "failed"}  BY DEF InFlight
<1>7. Local(r, "failed", a, Unwritten)
  BY <1>1, <1>3, <1>5, <1>6 DEF Local, Holds, Owed, Flushes, Committed, Intake
<1>8. Alone("failed", a)  BY DEF Alone
<1> QED BY <1>2, <1>3, <1>4, <1>5, <1>7, <1>8, LocalStep

LEMMA BringStep ==
  ASSUME InstInv, NEW r \in Requests, NEW kind \in {"register", "intake", "batch"},
         NEW list \in Seq(Emails), Bring(r, kind, list)
  PROVE  InstInv'
PROOF
<1>1. arg[r] = NoArg /\ pc[r] = "idle" /\ pend[r] \in [Ids -> Row \cup {Absent}]
  BY RequestHeld DEF Bring, Begin, Local, Holds
<1>2. PICK a : a = [NoArg EXCEPT !.kind = kind, !.list = list, !.todo = list]  OBVIOUS
<1>3. PICK n : n = pend[r]  OBVIOUS
<1>4. /\ pc' = [pc EXCEPT ![r] = "check"] /\ pend' = [pend EXCEPT ![r] = n]
      /\ UNCHANGED <<rows, inbox>> /\ disturbed' = (disturbed \/ InFlight # {})
  BY <1>3 DEF Bring, Begin, Goto, InstInv, TypeOK
<1>5. arg' = [arg EXCEPT ![r] = a]  BY <1>1, <1>2 DEF Bring, InstInv, TypeOK
<1>6. NoArg \in Arg  BY RequestHeld, <1>1
<1>7. a \in Arg /\ a.kind = kind /\ a.list = list /\ a.todo = list
  BY <1>2, <1>6 DEF Arg, Kinds
<1>8. "check" \in Steps  BY DEF Steps
<1>9. Local(r, "idle", NoArg, n)  BY <1>1, <1>3, RequestHeld
<1>10. Local(r, "check", a, n)
  BY <1>7, <1>9 DEF Local, Holds, Owed, Flushes, Committed, Intake
<1>11. Alone("check", a)  BY DEF Alone
<1>12. /\ \A q \in Requests \ {r} : \A i \in Ids : n[i] # Absent => i \notin Flushed(q)
       /\ disturbed \in BOOLEAN /\ n \in [Ids -> Row \cup {Absent}]
  BY <1>3, RequestHeld
<1> QED BY <1>1, <1>4, <1>5, <1>7, <1>8, <1>10, <1>11, <1>12, LocalStep

LEMMA ReviewBeginStep ==
  ASSUME InstInv, NEW r \in Requests, ReviewBegin(r)
  PROVE  InstInv'
PROOF
<1>1. arg[r] = NoArg /\ pc[r] = "idle" /\ pend[r] \in [Ids -> Row \cup {Absent}]
  BY RequestHeld DEF ReviewBegin, Begin, Local, Holds
<1>2. PICK i \in OnRecord, d \in Decisions :
        arg' = [arg EXCEPT ![r].id = i, ![r].decision = d, ![r].loaded = rows[i]]
  BY DEF ReviewBegin
<1>3. PICK a : a = [NoArg EXCEPT !.id = i, !.decision = d, !.loaded = rows[i]]  OBVIOUS
<1>4. PICK n : n = pend[r]  OBVIOUS
<1>5. /\ pc' = [pc EXCEPT ![r] = "review"] /\ pend' = [pend EXCEPT ![r] = n]
      /\ UNCHANGED <<rows, inbox>> /\ disturbed' = (disturbed \/ InFlight # {})
  BY <1>4 DEF ReviewBegin, Begin, Goto, InstInv, TypeOK
<1>6. arg' = [arg EXCEPT ![r] = a]  BY <1>1, <1>2, <1>3 DEF InstInv, TypeOK
<1>7. NoArg \in Arg /\ NoArg.kind = "review"  BY RequestHeld, <1>1 DEF NoArg
<1>8. i \in Ids /\ rows[i] \in Row \cup {Absent}  BY DEF OnRecord, InstInv, TypeOK
<1>9. a \in Arg /\ a.kind = "review" /\ a.id = i /\ a.decision = d /\ a.loaded = rows[i]
  BY <1>3, <1>7, <1>8 DEF Arg, Statuses
<1>10. "review" \in Steps  BY DEF Steps
<1>11. Local(r, "idle", NoArg, n)  BY <1>1, <1>4, RequestHeld
<1>12. Local(r, "review", a, n)
  BY <1>9, <1>11 DEF Local, Holds, Owed, Flushes, Committed, Intake
<1>13. Alone("review", a)  BY <1>9 DEF Alone
<1>14. /\ \A q \in Requests \ {r} : \A j \in Ids : n[j] # Absent => j \notin Flushed(q)
       /\ disturbed \in BOOLEAN /\ n \in [Ids -> Row \cup {Absent}]
  BY <1>4, RequestHeld
<1> QED BY <1>1, <1>5, <1>6, <1>9, <1>10, <1>12, <1>13, <1>14, LocalStep

(* Every element of a list is its head, or in its tail.                    *)
LEMMA TailHas ==
  ASSUME NEW S, NEW todo \in Seq(S), todo # <<>>, NEW j \in DOMAIN todo
  PROVE  todo[j] = Head(todo) \/ \E m \in DOMAIN Tail(todo) : Tail(todo)[m] = todo[j]
PROOF
<1>1. /\ Len(todo) \in Nat /\ Len(todo) # 0 /\ DOMAIN todo = 1..Len(todo)
      /\ Head(todo) = todo[1]
  OBVIOUS
<1>2. /\ Tail(todo) \in Seq(S) /\ Len(Tail(todo)) = Len(todo) - 1
      /\ \A m \in 1..(Len(todo) - 1) : Tail(todo)[m] = todo[m + 1]
  OBVIOUS
<1>3. DOMAIN Tail(todo) = 1..(Len(todo) - 1)  BY <1>2
<1>4. CASE j = 1  BY <1>1, <1>4
<1>5. CASE j # 1
  <2>1. PICK m \in 1..(Len(todo) - 1) : m + 1 = j
    <3>1. j - 1 \in 1..(Len(todo) - 1) /\ (j - 1) + 1 = j  BY <1>1, <1>5
    <3> QED BY <3>1
  <2>2. m \in DOMAIN Tail(todo) /\ Tail(todo)[m] = todo[j]  BY <1>2, <1>3, <2>1
  <2> QED BY <2>2
<1> QED BY <1>4, <1>5

LEMMA CheckStep ==
  ASSUME InstInv, NEW r \in Requests, Check(r)
  PROVE  InstInv'
PROOF
<1>1. /\ pc[r] = "check" /\ r \in InFlight /\ arg[r] \in Arg /\ disturbed' = disturbed
      /\ disturbed \in BOOLEAN
  BY RequestHeld DEF Check
<1>2. PICK n : n = pend[r]  OBVIOUS
<1>3. /\ Local(r, "check", arg[r], n) /\ n \in [Ids -> Row \cup {Absent}]
      /\ \A q \in Requests \ {r} : \A i \in Ids : n[i] # Absent => i \notin Flushed(q)
  BY <1>1, <1>2, RequestHeld
<1>4. ASSUME NEW p \in {"check", "insert", "commit"}, NEW a \in Arg, pc' = [pc EXCEPT ![r] = p],
             arg' = [arg EXCEPT ![r] = a], a.kind = arg[r].kind, Local(r, p, a, n),
             UNCHANGED <<rows, pend, inbox>>
      PROVE  InstInv'
  <2>1. p \in Steps  BY DEF Steps
  <2>2. pend' = [pend EXCEPT ![r] = n]  BY <1>2, <1>4 DEF InstInv, TypeOK
  <2>3. Alone(p, a)  BY DEF Alone
  <2> QED BY <1>1, <1>3, <1>4, <2>1, <2>2, <2>3, LocalStep
<1>5. CASE /\ arg[r].todo = <<>> /\ Goto(r, "commit")
           /\ UNCHANGED <<rows, pend, arg, inbox>>
  <2>1. PICK a : a = arg[r]  OBVIOUS
  <2>2. arg' = [arg EXCEPT ![r] = a] /\ a \in Arg  BY <1>1, <1>5, <2>1 DEF InstInv, TypeOK
  <2>3. Local(r, "commit", a, n)
    BY <1>3, <1>5, <2>1 DEF Local, Holds, Owed, Flushes, Committed, Intake
  <2> QED BY <1>4, <1>5, <2>1, <2>2, <2>3 DEF Goto
<1>6. CASE /\ arg[r].todo # <<>> /\ ~Known(r) /\ Goto(r, "insert")
           /\ UNCHANGED <<rows, pend, arg, inbox>>
  <2>1. PICK a : a = arg[r]  OBVIOUS
  <2>2. arg' = [arg EXCEPT ![r] = a] /\ a \in Arg  BY <1>1, <1>6, <2>1 DEF InstInv, TypeOK
  <2>3. Local(r, "insert", a, n)
    BY <1>3, <1>6, <2>1 DEF Local, Holds, Owed, Flushes, Committed, Intake
  <2> QED BY <1>4, <1>6, <2>1, <2>2, <2>3 DEF Goto
<1>7. CASE /\ arg[r].todo # <<>> /\ Known(r) /\ arg[r].kind = "batch"
           /\ arg' = [arg EXCEPT ![r].todo = Tail(@)]
           /\ UNCHANGED <<rows, pend, pc, inbox>>
  <2>1. PICK a : a = [arg[r] EXCEPT !.todo = Tail(arg[r].todo)]  OBVIOUS
  <2>2. arg' = [arg EXCEPT ![r] = a]  BY <1>7, <2>1 DEF InstInv, TypeOK
  <2>3. pc' = [pc EXCEPT ![r] = "check"]  BY <1>1, <1>7 DEF InstInv, TypeOK
  <2>4. PICK todo \in Seq(Emails) : todo = arg[r].todo  BY <1>1 DEF Arg
  <2>5. Tail(todo) \in Seq(Emails)  BY <1>7, <2>4
  <2>6. /\ a \in Arg /\ a.kind = "batch" /\ a.list = arg[r].list /\ a.todo = Tail(todo)
    BY <1>1, <1>7, <2>1, <2>4, <2>5 DEF Arg
  <2>7. \A j \in DOMAIN todo :
          todo[j] = Head(todo) \/ \E m \in DOMAIN Tail(todo) : Tail(todo)[m] = todo[j]
    BY <1>7, <2>4, TailHas
  <2>8. \/ Registered(Lower[Head(todo)])
        \/ \E i \in Ids : n[i] # Absent /\ n[i].email = Lower[Head(todo)]
    BY <1>2, <1>7, <2>4 DEF Known, Sought, Inserted, Flushed
  <2>9. Owed("check", a, n)
    <3> SUFFICES ASSUME NEW k \in DOMAIN a.list
                 PROVE  \/ Registered(Lower[a.list[k]])
                        \/ \E i \in Ids : n[i] # Absent /\ n[i].email = Lower[a.list[k]]
                        \/ \E j \in DOMAIN a.todo : a.todo[j] = a.list[k]
      BY DEF Owed
    <3>1. \/ Registered(Lower[a.list[k]])
          \/ \E i \in Ids : n[i] # Absent /\ n[i].email = Lower[a.list[k]]
          \/ \E j \in DOMAIN todo : todo[j] = a.list[k]
      BY <1>3, <1>7, <2>4, <2>6 DEF Local, Owed, Intake
    <3> QED BY <2>6, <2>7, <2>8, <3>1
  <2>10. Local(r, "check", a, n)
    BY <1>3, <1>7, <2>6, <2>9 DEF Local, Holds, Flushes, Committed, Intake
  <2> QED BY <1>4, <1>7, <2>2, <2>3, <2>6, <2>10
<1>8. CASE Abort(r)  BY <1>1, <1>8, AbortStep
<1> QED BY <1>5, <1>6, <1>7, <1>8 DEF Check

LEMMA InsertStep ==
  ASSUME InstInv, NEW r \in Requests, Insert(r)
  PROVE  InstInv'
PROOF
<1>1. /\ pc[r] = "insert" /\ r \in InFlight /\ arg[r] \in Arg /\ disturbed' = disturbed
      /\ disturbed \in BOOLEAN /\ Local(r, "insert", arg[r], pend[r])
      /\ pend[r] \in [Ids -> Row \cup {Absent}]
  BY RequestHeld DEF Insert
<1>2. CASE Abort(r)  BY <1>1, <1>2, AbortStep
<1>3. CASE ~Abort(r)
  <2>0. PICK row : row = [email |-> Written(arg[r]), reason |-> "none", by |-> r,
                          status |-> IF arg[r].kind = "register" THEN "PENDING"
                                     ELSE "APPROVED"]
    OBVIOUS
  <2>1. PICK i \in NextIds :
          /\ pend' = [pend EXCEPT ![r][i] = row]
          /\ arg' = [arg EXCEPT ![r].todo = Tail(@), ![r].id = i]
          /\ pc' = [pc EXCEPT ![r] = "check"] /\ UNCHANGED <<rows, inbox>>
    BY <1>3, <2>0 DEF Insert, Goto
  <2>2. PICK todo \in Seq(Emails) : todo = arg[r].todo  BY <1>1 DEF Arg
  <2>3. todo # <<>> /\ arg[r].kind # "review"
    BY <1>1, <2>2 DEF Local, Holds, Intake
  <2>4. Tail(todo) \in Seq(Emails) /\ Head(todo) \in Emails  BY <2>3
  <2>5. Written(arg[r]) \in Emails  BY <2>2, <2>4, InstitutionsAssumption DEF Written
  <2>6. row \in Row /\ row.email = Written(arg[r]) /\ row.by = r
    BY <2>0, <2>5 DEF Row, Statuses, Decisions, Reasons
  <2>7. row # Absent  BY <2>6, PriorInstitutionsAssumption
  <2>8. i \in Ids /\ rows[i] = Absent /\ \A q \in Requests : i \notin Flushed(q)
    BY DEF NextIds, Free, OnRecord
  <2>9. PICK a : a = [arg[r] EXCEPT !.todo = Tail(todo), !.id = i]  OBVIOUS
  <2>10. arg' = [arg EXCEPT ![r] = a]  BY <2>1, <2>2, <2>9 DEF InstInv, TypeOK
  <2>11. /\ a \in Arg /\ a.kind = arg[r].kind /\ a.list = arg[r].list /\ a.todo = Tail(todo)
    BY <1>1, <2>4, <2>8, <2>9 DEF Arg
  <2>12. PICK n : n = [pend[r] EXCEPT ![i] = row]  OBVIOUS
  <2>13. /\ pend' = [pend EXCEPT ![r] = n] /\ n \in [Ids -> Row \cup {Absent}]
         /\ \A j \in Ids : n[j] = IF j = i THEN row ELSE pend[r][j]
    BY <1>1, <2>1, <2>6, <2>12 DEF InstInv, TypeOK
  <2>14. \A q \in Requests \ {r} : \A j \in Ids : n[j] # Absent => j \notin Flushed(q)
    BY <2>8, <2>13, RequestHeld
  <2>15. \A j \in DOMAIN todo :
           todo[j] = Head(todo) \/ \E m \in DOMAIN Tail(todo) : Tail(todo)[m] = todo[j]
    BY <2>3, TailHas
  <2>16. Owed("check", a, n)
    <3> SUFFICES ASSUME a.kind = "batch", NEW k \in DOMAIN a.list
                 PROVE  \/ Registered(Lower[a.list[k]])
                        \/ \E j \in Ids : n[j] # Absent /\ n[j].email = Lower[a.list[k]]
                        \/ \E j \in DOMAIN a.todo : a.todo[j] = a.list[k]
      BY DEF Owed
    <3>1. \/ Registered(Lower[a.list[k]])
          \/ \E j \in Ids : pend[r][j] # Absent /\ pend[r][j].email = Lower[a.list[k]]
          \/ \E j \in DOMAIN todo : todo[j] = a.list[k]
      BY <1>1, <2>2, <2>11 DEF Local, Owed, Intake
    <3>2. \A j \in Ids : pend[r][j] # Absent => n[j] = pend[r][j]
      BY <2>8, <2>13 DEF Flushed
    <3>3. n[i] # Absent /\ n[i].email = Lower[Head(todo)]
      BY <2>2, <2>6, <2>7, <2>8, <2>11, <2>13 DEF Written
    <3> QED BY <2>8, <2>11, <2>15, <3>1, <3>2, <3>3
  <2>17. Holds("check", a)  BY <2>3, <2>11 DEF Holds, Intake
  <2>18. Flushes(r, "check", n) /\ Committed(r, "check", a)
    BY <1>1, <2>6, <2>8, <2>11, <2>13 DEF Local, Flushes, Committed, Intake
  <2>19. Local(r, "check", a, n)  BY <2>16, <2>17, <2>18 DEF Local
  <2>20. Alone("check", a) /\ "check" \in Steps  BY DEF Alone, Steps
  <2> QED BY <1>1, <2>1, <2>10, <2>11, <2>13, <2>14, <2>19, <2>20, LocalStep
<1> QED BY <1>2, <1>3

(* Rows come on record and keep their address and who brought them: what   *)
(* the other requests have to show for it stays.                           *)
LEMMA OthersStay ==
  ASSUME InstInv, NEW r \in Requests, NEW q \in Requests \ {r},
         UNCHANGED <<pc[q], arg[q], pend[q]>>,
         \A i \in Ids : rows[i] # Absent =>
           rows'[i] # Absent /\ rows'[i].email = rows[i].email /\ rows'[i].by = rows[i].by,
         \A i \in Ids : rows[i] = Absent /\ rows'[i] # Absent =>
           rows'[i].by = r /\ i \in Flushed(r)
  PROVE  Local(q, pc[q], arg[q], pend[q])'
PROOF
<1>1. Local(q, pc[q], arg[q], pend[q])  BY RequestHeld
<1>2. \A e : Registered(e) => Registered(e)'  BY DEF Registered, OnRecord
<1>3. Owed(pc[q], arg[q], pend[q])'  BY <1>1, <1>2 DEF Local, Owed
<1>4. Flushes(q, pc[q], pend[q])'
  BY <1>1 DEF Local, Flushes, InstInv, Flushed
<1>5. Committed(q, pc[q], arg[q])'  BY <1>1 DEF Local, Committed, OnRecord
<1>6. Holds(pc[q], arg[q])'  BY <1>1 DEF Local, Holds, OnRecord
<1> QED BY <1>3, <1>4, <1>5, <1>6 DEF Local

LEMMA CommitStep ==
  ASSUME InstInv, NEW r \in Requests, Commit(r)
  PROVE  InstInv'
PROOF
<1>1. /\ pc[r] = "commit" /\ r \in InFlight /\ arg[r] \in Arg
      /\ Local(r, "commit", arg[r], pend[r])
      /\ pend[r] \in [Ids -> Row \cup {Absent}]
  BY RequestHeld DEF Commit
<1>2. PICK p \in {"mail", "done"} :
        /\ p = IF arg[r].kind = "register" THEN "mail" ELSE "done"
        /\ pc' = [pc EXCEPT ![r] = p]
  BY DEF Commit, Goto
<1>3. p \in Steps  BY DEF Steps
<1>4. /\ \A i \in Ids : rows'[i] = IF pend[r][i] # Absent THEN pend[r][i] ELSE rows[i]
      /\ rows' \in [Ids -> Row \cup {Absent}]
      /\ pend' = [pend EXCEPT ![r] = Unwritten]
      /\ UNCHANGED <<arg, inbox, disturbed>>
  BY <1>1 DEF Commit, Flushed, InstInv, TypeOK
<1>5. Unwritten \in [Ids -> Row \cup {Absent}] /\ \A i \in Ids : Unwritten[i] = Absent
  BY DEF Unwritten
<1>6. \A i \in Ids : pend[r][i] # Absent => rows[i] = Absent /\ pend[r][i].by = r
  BY <1>1 DEF Local, Flushes
<1>7. /\ \A i \in Ids : rows[i] # Absent => rows'[i] = rows[i]
      /\ \A i \in Ids : rows[i] = Absent /\ rows'[i] # Absent =>
           rows'[i].by = r /\ i \in Flushed(r)
  BY <1>4, <1>6 DEF Flushed
<1>8. \A q \in Requests : /\ pc'[q] = IF q = r THEN p ELSE pc[q]
                         /\ arg'[q] = arg[q]
                         /\ pend'[q] = IF q = r THEN Unwritten ELSE pend[q]
  BY <1>2, <1>4 DEF InstInv, TypeOK
<1>9. TypeOK'  BY <1>2, <1>3, <1>4, <1>5 DEF InstInv, TypeOK
<1>10. (\A q \in Requests : Local(q, pc[q], arg[q], pend[q]))'
  <2> SUFFICES ASSUME NEW q \in Requests PROVE Local(q, pc[q], arg[q], pend[q])'
    OBVIOUS
  <2>1. CASE q = r
    <3>1. pc'[q] = p /\ arg'[q] = arg[r] /\ pend'[q] = Unwritten  BY <1>8, <2>1
    <3>2. \A e : Registered(e) \/ (\E i \in Ids : pend[r][i] # Absent /\ pend[r][i].email = e)
                => Registered(e)'
      BY <1>4, <1>7 DEF Registered, OnRecord
    <3>3. Owed(pc[q], arg[q], pend[q])'
      BY <1>1, <1>2, <3>1, <3>2 DEF Local, Owed, Intake
    <3>4. Flushes(q, pc[q], pend[q])'  BY <1>5, <3>1 DEF Flushes
    <3>5. Committed(q, pc[q], arg[q])'  BY <1>2, <3>1 DEF Committed
    <3>6. Holds(pc[q], arg[q])'  BY <1>1, <1>2, <3>1 DEF Local, Holds, Intake
    <3> QED BY <3>3, <3>4, <3>5, <3>6 DEF Local
  <2>2. CASE q # r
    <3>1. UNCHANGED <<pc[q], arg[q], pend[q]>>  BY <1>8, <2>2
    <3> QED BY <1>7, <2>2, <3>1, OthersStay
  <2> QED BY <2>1, <2>2
<1>11. (\A q, s \in Requests : q # s => \A i \in Ids : i \notin Flushed(q) \/ i \notin Flushed(s))'
  BY <1>5, <1>8 DEF InstInv, Flushed
<1>12. (\A i \in Ids : inbox[i] \in Decisions => i \in OnRecord)'
  BY <1>4, <1>7 DEF InstInv, OnRecord
<1>13. (~disturbed => Undisturbed)'
  <2> SUFFICES ASSUME ~disturbed' PROVE Undisturbed'
    OBVIOUS
  <2>1. Undisturbed  BY <1>4 DEF InstInv
  <2>2. (\A q, s \in InFlight : q = s)'  BY <1>1, <1>8, <2>1 DEF Undisturbed, InFlight
  <2>3. (\A q \in Requests : Alone(pc[q], arg[q]))'
    <3> SUFFICES ASSUME NEW q \in Requests PROVE Alone(pc[q], arg[q])'
      OBVIOUS
    <3>1. CASE q = r
      <4>1. arg[r].kind # "review"  BY <1>1 DEF Local, Holds, Intake
      <4> QED BY <1>2, <1>8, <3>1, <4>1 DEF Alone
    <3>2. CASE q # r
      <4>1. Alone(pc[q], arg[q]) /\ Holds(pc[q], arg[q])  BY <2>1, RequestHeld DEF Undisturbed, Local
      <4>2. pc[q] \in {"review", "mail"} /\ arg[q].kind = "review" => rows'[arg[q].id] = rows[arg[q].id]
        BY <1>7, <4>1 DEF Holds, OnRecord
      <4> QED BY <1>8, <3>2, <4>1, <4>2 DEF Alone, Holds
    <3> QED BY <3>1, <3>2
  <2>4. \A i \in Ids : Telling(i) => Telling(i)'  BY <1>1, <1>8 DEF Telling
  <2>5. (\A i \in OnRecord : inbox[i] \in Decisions => inbox[i] = rows[i].status \/ Telling(i))'
    <3> SUFFICES ASSUME NEW i \in Ids, inbox'[i] \in Decisions
                 PROVE  inbox'[i] = rows'[i].status \/ Telling(i)'
      BY DEF OnRecord
    <3>1. i \in OnRecord /\ rows'[i] = rows[i] /\ inbox'[i] = inbox[i]
      BY <1>4, <1>7 DEF InstInv, OnRecord
    <3> QED BY <2>1, <2>4, <3>1 DEF Undisturbed
  <2> QED BY <2>2, <2>3, <2>5 DEF Undisturbed
<1> QED BY <1>9, <1>10, <1>11, <1>12, <1>13 DEF InstInv

LEMMA ReviewCommitStep ==
  ASSUME InstInv, NEW r \in Requests, ReviewCommit(r)
  PROVE  InstInv'
PROOF
<1>1. /\ pc[r] = "review" /\ r \in InFlight /\ arg[r] \in Arg
      /\ Local(r, "review", arg[r], pend[r])
      /\ pend[r] \in [Ids -> Row \cup {Absent}]
  BY RequestHeld DEF ReviewCommit
<1>2. PICK i \in OnRecord : i = arg[r].id
  BY <1>1 DEF Local, Holds
<1>3. arg[r].kind = "review" /\ arg[r].decision \in Decisions
  BY <1>1 DEF Local, Holds
<1>4. i \in Ids /\ rows[i] \in Row  BY DEF OnRecord, InstInv, TypeOK
<1>5. PICK new :
        new = [rows[i] EXCEPT
                !.status = IF arg[r].loaded.status = arg[r].decision THEN @ ELSE arg[r].decision,
                !.reason = IF arg[r].loaded.reason = ReasonFor(arg[r].decision) THEN @
                           ELSE ReasonFor(arg[r].decision)]
  OBVIOUS
<1>6. rows' = [rows EXCEPT ![i] = new] /\ pc' = [pc EXCEPT ![r] = "mail"]
      /\ UNCHANGED <<pend, arg, inbox, disturbed>>
  BY <1>2, <1>4, <1>5 DEF ReviewCommit, Goto, InstInv, TypeOK
<1>7. /\ new \in Row /\ new.email = rows[i].email /\ new.by = rows[i].by
      /\ arg[r].loaded = rows[i] => new.status = arg[r].decision
  BY <1>3, <1>4, <1>5 DEF Row, Statuses, Decisions, Reasons, ReasonFor
<1>8. new # Absent /\ "mail" \in Steps  BY <1>7, PriorInstitutionsAssumption DEF Steps
<1>9. /\ \A j \in Ids : rows[j] # Absent =>
           rows'[j] # Absent /\ rows'[j].email = rows[j].email /\ rows'[j].by = rows[j].by
      /\ \A j \in Ids : rows[j] = Absent => rows'[j] = Absent
      /\ \A j \in Ids : rows'[j] = IF j = i THEN new ELSE rows[j]
  BY <1>4, <1>6, <1>7, <1>8 DEF InstInv, TypeOK, OnRecord
<1>10. \A q \in Requests : /\ pc'[q] = IF q = r THEN "mail" ELSE pc[q]
                          /\ arg'[q] = arg[q] /\ pend'[q] = pend[q]
  BY <1>6 DEF InstInv, TypeOK
<1>11. TypeOK'  BY <1>4, <1>6, <1>7, <1>8 DEF InstInv, TypeOK
<1>12. (\A q \in Requests : Local(q, pc[q], arg[q], pend[q]))'
  <2> SUFFICES ASSUME NEW q \in Requests PROVE Local(q, pc[q], arg[q], pend[q])'
    OBVIOUS
  <2>1. CASE q = r
    <3>1. pc'[q] = "mail" /\ arg'[q] = arg[r] /\ pend'[q] = pend[r]  BY <1>10, <2>1
    <3>2. Owed(pc[q], arg[q], pend[q])'  BY <1>3, <3>1 DEF Owed
    <3>3. Flushes(q, pc[q], pend[q])'  BY <1>1, <1>9, <3>1 DEF Local, Flushes, Intake
    <3>4. Committed(q, pc[q], arg[q])'  BY <1>3, <3>1 DEF Committed
    <3>5. Holds(pc[q], arg[q])'  BY <1>1, <1>3, <1>9, <3>1 DEF Local, Holds, Intake, OnRecord
    <3> QED BY <3>2, <3>3, <3>4, <3>5 DEF Local
  <2>2. CASE q # r
    <3>1. UNCHANGED <<pc[q], arg[q], pend[q]>>  BY <1>10, <2>2
    <3> QED BY <1>9, <2>2, <3>1, OthersStay
  <2> QED BY <2>1, <2>2
<1>13. (\A q, s \in Requests : q # s => \A j \in Ids : j \notin Flushed(q) \/ j \notin Flushed(s))'
  BY <1>6 DEF InstInv, Flushed
<1>14. (\A j \in Ids : inbox[j] \in Decisions => j \in OnRecord)'
  BY <1>6, <1>9 DEF InstInv, OnRecord
<1>15. (~disturbed => Undisturbed)'
  <2> SUFFICES ASSUME ~disturbed' PROVE Undisturbed'
    OBVIOUS
  <2>1. Undisturbed  BY <1>6 DEF InstInv
  <2>2. (\A q, s \in InFlight : q = s)'  BY <1>1, <1>10, <2>1 DEF Undisturbed, InFlight
  <2>3. new.status = arg[r].decision  BY <1>1, <1>2, <1>7, <2>1 DEF Undisturbed, Alone
  <2>4. \A q \in Requests \ {r} : pc[q] \in {"idle", "done", "failed"}
    BY <1>1, <2>1 DEF Undisturbed, InFlight
  <2>5. (\A q \in Requests : Alone(pc[q], arg[q]))'
    BY <1>2, <1>4, <1>9, <1>10, <2>3, <2>4 DEF Alone
  <2>6. \A j \in Ids : ~Telling(j)  BY <1>1, <2>4 DEF Telling
  <2>7. Telling(i)'  BY <1>2, <1>3, <1>10 DEF Telling
  <2>8. (\A j \in OnRecord : inbox[j] \in Decisions => inbox[j] = rows[j].status \/ Telling(j))'
    <3> SUFFICES ASSUME NEW j \in Ids, inbox'[j] \in Decisions, j # i
                 PROVE  inbox'[j] = rows'[j].status
      BY <2>7 DEF OnRecord
    <3>1. j \in OnRecord /\ rows'[j] = rows[j] /\ inbox'[j] = inbox[j]
      BY <1>6, <1>9 DEF InstInv
    <3> QED BY <2>1, <2>6, <3>1 DEF Undisturbed
  <2> QED BY <2>2, <2>5, <2>8 DEF Undisturbed
<1> QED BY <1>11, <1>12, <1>13, <1>14, <1>15 DEF InstInv

LEMMA MailStep ==
  ASSUME InstInv, NEW r \in Requests, Mail(r)
  PROVE  InstInv'
PROOF
<1>1. /\ pc[r] = "mail" /\ r \in InFlight /\ arg[r] \in Arg
      /\ Local(r, "mail", arg[r], pend[r]) /\ arg[r].kind \in {"register", "review"}
  BY RequestHeld DEF Mail, Local, Holds
<1>2. pc' = [pc EXCEPT ![r] = "done"] /\ UNCHANGED <<rows, pend, arg>> /\ "done" \in Steps
  BY DEF Mail, Goto, Steps
<1>3. \/ inbox' = [inbox EXCEPT ![arg[r].id] = Notice(arg[r])] /\ UNCHANGED disturbed
      \/ disturbed' = TRUE /\ UNCHANGED inbox
  BY DEF Mail
<1>4. Notice(arg[r]) \in {"none", "UNDER REVIEW"} \cup Decisions
  BY DEF Notice, RegistrationReceipt, ApprovalNotice, RejectionNotice, Decisions
<1>5. /\ inbox' \in [Ids -> {"none", "UNDER REVIEW"} \cup Decisions]
      /\ \A i \in Ids : inbox'[i] = inbox[i] \/ (i = arg[r].id /\ inbox'[i] = Notice(arg[r]))
  BY <1>3, <1>4 DEF InstInv, TypeOK
<1>6. Notice(arg[r]) \in Decisions =>
        /\ arg[r].kind = "review" /\ arg[r].id \in OnRecord
        /\ Notice(arg[r]) = arg[r].decision
  BY <1>1 DEF Notice, RegistrationReceipt, ApprovalNotice, RejectionNotice, Decisions,
              Local, Holds
<1>7. \A q \in Requests : /\ pc'[q] = IF q = r THEN "done" ELSE pc[q]
                         /\ arg'[q] = arg[q] /\ pend'[q] = pend[q]
  BY <1>2 DEF InstInv, TypeOK
<1>8. TypeOK'  BY <1>2, <1>3, <1>5 DEF InstInv, TypeOK
<1>9. (\A q \in Requests : Local(q, pc[q], arg[q], pend[q]))'
  <2> SUFFICES ASSUME NEW q \in Requests PROVE Local(q, pc[q], arg[q], pend[q])'
    OBVIOUS
  <2>1. Local(q, pc[q], arg[q], pend[q])  BY RequestHeld
  <2>2. CASE q = r
    BY <1>1, <1>2, <1>7, <2>2
       DEF Local, Holds, Owed, Flushes, Committed, Intake, OnRecord, Registered
  <2>3. CASE q # r
    BY <1>2, <1>7, <2>1, <2>3 DEF Local, Holds, Owed, Flushes, Committed, OnRecord, Registered
  <2> QED BY <2>2, <2>3
<1>10. (\A q, s \in Requests : q # s => \A i \in Ids : i \notin Flushed(q) \/ i \notin Flushed(s))'
  BY <1>2 DEF InstInv, Flushed
<1>11. (\A i \in Ids : inbox[i] \in Decisions => i \in OnRecord)'
  BY <1>2, <1>5, <1>6 DEF InstInv, OnRecord
<1>12. (~disturbed => Undisturbed)'
  <2> SUFFICES ASSUME ~disturbed' PROVE Undisturbed'
    OBVIOUS
  <2>1. Undisturbed  BY <1>3 DEF InstInv, TypeOK
  <2>2. (\A q, s \in InFlight : q = s)'  BY <1>1, <1>7, <2>1 DEF Undisturbed, InFlight
  <2>3. (\A q \in Requests : Alone(pc[q], arg[q]))'
    BY <1>2, <1>7, <2>1 DEF Undisturbed, Alone
  <2>4. inbox' = [inbox EXCEPT ![arg[r].id] = Notice(arg[r])]  BY <1>3
  <2>5. (\A i \in OnRecord : inbox[i] \in Decisions => inbox[i] = rows[i].status \/ Telling(i))'
    <3> SUFFICES ASSUME NEW i \in OnRecord, inbox'[i] \in Decisions
                 PROVE  inbox'[i] = rows[i].status
      BY <1>2 DEF OnRecord
    <3>1. \A q \in Requests \ {r} : pc[q] # "mail"
      BY <1>1, <2>1 DEF Undisturbed, InFlight
    <3>2. CASE i = arg[r].id
      <4>1. inbox'[i] = Notice(arg[r])  BY <2>4, <3>2 DEF OnRecord, InstInv, TypeOK
      <4> QED BY <1>1, <1>6, <2>1, <3>2, <4>1 DEF Undisturbed, Alone
    <3>3. CASE i # arg[r].id
      <4>1. ~Telling(i)  BY <3>1, <3>3 DEF Telling
      <4>2. inbox'[i] = inbox[i]  BY <1>5, <3>3 DEF OnRecord
      <4> QED BY <2>1, <4>1, <4>2 DEF Undisturbed
    <3> QED BY <3>2, <3>3
  <2> QED BY <2>2, <2>3, <2>5 DEF Undisturbed
<1> QED BY <1>8, <1>9, <1>10, <1>11, <1>12 DEF InstInv

LEMMA InstStep ==
  ASSUME InstInv, Next
  PROVE  InstInv'
PROOF
<1>1. PICK r \in Requests :
        \/ RegisterBegin(r) \/ IntakeBegin(r) \/ BatchBegin(r) \/ ReviewBegin(r)
        \/ Statement(r) \/ Fail(r) \/ DeadlockVictim(r)
  BY DEF Next
<1>2. \A e \in Emails : <<e>> \in Seq(Emails)  OBVIOUS
<1>3. CASE RegisterBegin(r)  BY <1>2, <1>3, BringStep DEF RegisterBegin
<1>4. CASE IntakeBegin(r)    BY <1>2, <1>4, BringStep DEF IntakeBegin
<1>5. CASE BatchBegin(r)     BY <1>5, BringStep, InstitutionsAssumption DEF BatchBegin
<1>6. CASE ReviewBegin(r)    BY <1>6, ReviewBeginStep
<1>7. CASE Statement(r)
  BY <1>7, CheckStep, InsertStep, CommitStep, ReviewCommitStep, MailStep DEF Statement
<1>8. CASE Fail(r)
  <2>1. arg[r].kind = "batch" => pc[r] # "mail"  BY RequestHeld DEF Local, Holds
  <2> QED BY <1>8, <2>1, AbortStep DEF Fail
<1>9. CASE DeadlockVictim(r)
  <2>1. pc[r] = "insert" /\ r \in InFlight /\ disturbed \in BOOLEAN
    BY <1>9, RequestHeld DEF DeadlockVictim, Deadlocked
  <2> QED BY <1>9, <2>1, AbortStep DEF DeadlockVictim
<1> QED BY <1>1, <1>3, <1>4, <1>5, <1>6, <1>7, <1>8, <1>9

LEMMA InstInit ==
  ASSUME Init
  PROVE  InstInv
PROOF
<1>1. \A r \in Requests : pc[r] = "idle" /\ arg[r] = NoArg /\ pend[r] = Unwritten
  BY DEF Init
<1>2. Unwritten \in [Ids -> Row \cup {Absent}] /\ \A i \in Ids : Unwritten[i] = Absent
  BY DEF Unwritten
<1>3. NoArg \in Arg /\ NoArg.kind = "review"
  <2>1. <<>> \in Seq(Emails)  OBVIOUS
  <2> QED BY <2>1 DEF NoArg, Arg, Kinds, Statuses
<1>4. TypeOK
  <2>1. pc \in [Requests -> Steps]  BY DEF Init, Steps
  <2>2. arg \in [Requests -> Arg] /\ pend \in [Requests -> [Ids -> Row \cup {Absent}]]
    BY <1>2, <1>3 DEF Init
  <2> QED BY <2>1, <2>2, PriorInstitutionsAssumption DEF Init, TypeOK
<1>5. \A r \in Requests : Local(r, pc[r], arg[r], pend[r])
  <2> SUFFICES ASSUME NEW r \in Requests PROVE Local(r, "idle", NoArg, Unwritten)
    BY <1>1
  <2>1. \A i \in OnRecord : rows[i].by # r
    BY PriorInstitutionsAssumption, InstitutionsAssumption DEF Init, OnRecord
  <2> QED BY <1>2, <1>3, <2>1 DEF Local, Holds, Owed, Flushes, Committed, Intake
<1>6. \A r \in Requests : Flushed(r) = {}  BY <1>1, <1>2 DEF Flushed
<1>7. \A i \in Ids : inbox[i] \notin Decisions  BY DEF Init, Decisions
<1>8. Undisturbed
  <2>1. InFlight = {}  BY <1>1 DEF InFlight
  <2>2. \A r \in Requests : Alone(pc[r], arg[r])  BY <1>1 DEF Alone
  <2> QED BY <1>7, <2>1, <2>2 DEF Undisturbed, OnRecord
<1> QED BY <1>4, <1>5, <1>6, <1>7, <1>8 DEF InstInv

-----------------------------------------------------------------------------
(* The steps of the calls.                                                 *)
LEMMA InstStays ==
  ASSUME InstInv, UNCHANGED instVars
  PROVE  InstInv'
PROOF
<1>1. UNCHANGED <<rows, pend, pc, arg, inbox, disturbed>>  BY DEF instVars
<1>2. TypeOK'  BY <1>1 DEF InstInv, TypeOK
<1>3. (\A r \in Requests : Local(r, pc[r], arg[r], pend[r]))'
  BY <1>1 DEF InstInv, Local, Holds, Owed, Flushes, Committed, OnRecord, Registered
<1>4. (\A q, r \in Requests : q # r => \A i \in Ids : i \notin Flushed(q) \/ i \notin Flushed(r))'
  BY <1>1 DEF InstInv, Flushed
<1>5. (\A i \in Ids : inbox[i] \in Decisions => i \in OnRecord)'  BY <1>1 DEF InstInv, OnRecord
<1>6. (~disturbed => Undisturbed)'
  BY <1>1 DEF InstInv, Undisturbed, InFlight, Alone, Telling, OnRecord
<1> QED BY <1>2, <1>3, <1>4, <1>5, <1>6 DEF InstInv

LEMMA RecordGrows ==
  ASSUME InstInv, Next
  PROVE  OnRecord \subseteq OnRecord'
PROOF
<1>1. PICK r \in Requests :
        \/ RegisterBegin(r) \/ IntakeBegin(r) \/ BatchBegin(r) \/ ReviewBegin(r)
        \/ Statement(r) \/ Fail(r) \/ DeadlockVictim(r)
  BY DEF Next
<1>2. CASE Commit(r)  BY <1>2 DEF Commit, OnRecord, Flushed, InstInv, TypeOK
<1>3. CASE ReviewCommit(r)
  <2>1. ASSUME NEW i \in OnRecord PROVE rows'[i] # Absent
    <3>1. /\ arg[r].id \in OnRecord /\ arg[r].decision \in Decisions /\ i \in Ids
          /\ rows[arg[r].id] \in Row
      BY <1>3, RequestHeld DEF ReviewCommit, Local, Holds, OnRecord, InstInv, TypeOK
    <3>2. PICK new :
            new = [rows[arg[r].id] EXCEPT
                    !.status = IF arg[r].loaded.status = arg[r].decision THEN @
                               ELSE arg[r].decision,
                    !.reason = IF arg[r].loaded.reason = ReasonFor(arg[r].decision) THEN @
                               ELSE ReasonFor(arg[r].decision)]
      OBVIOUS
    <3>3. new \in Row  BY <3>1, <3>2 DEF Row, Statuses, Decisions, Reasons, ReasonFor
    <3>4. rows' = [rows EXCEPT ![arg[r].id] = new]
      BY <1>3, <3>1, <3>2 DEF ReviewCommit, InstInv, TypeOK
    <3> QED BY <3>1, <3>3, <3>4, PriorInstitutionsAssumption DEF OnRecord, InstInv, TypeOK
  <2> QED BY <2>1 DEF OnRecord
<1>4. CASE ~Commit(r) /\ ~ReviewCommit(r)
  <2>1. rows' = rows
    BY <1>1, <1>4 DEF RegisterBegin, IntakeBegin, BatchBegin, Bring, ReviewBegin, Begin,
                      Statement, Check, Insert, Mail, Fail, DeadlockVictim, Abort
  <2> QED BY <2>1 DEF OnRecord
<1> QED BY <1>2, <1>3, <1>4

LEMMA ClientsFinite ==
  ASSUME NEW S \in SUBSET Clients
  PROVE  IsFiniteSet(S) /\ Cardinality(S) \in Nat /\ Cardinality(S) <= Cardinality(Clients)
BY FS_Subset, FS_CardinalityType, OtpAssumption

LEMMA InFlightCount == Cardinality(InFlight) \in Nat
PROOF
<1>1. InFlight \subseteq Requests  BY DEF InFlight
<1> QED BY <1>1, FS_Subset, FS_CardinalityType, InstitutionsAssumption

(* A call that goes on, begins or ends keeps to the bound.                 *)
LEMMA CallingStep ==
  ASSUME OtpInv, NEW c \in Clients, NEW call \in Call, client' = [client EXCEPT ![c] = call],
         UNCHANGED pc,
         c \in Calling \/ Cardinality(Calling) + Cardinality(InFlight) < Concurrency
  PROVE  Cardinality(InFlight') + Cardinality(Calling') <= Concurrency
PROOF
<1>1. InFlight' = InFlight /\ Cardinality(InFlight) \in Nat  BY InFlightCount DEF InFlight
<1>2. /\ Calling \subseteq Clients /\ Calling' \subseteq Clients
      /\ Calling' \subseteq Calling \cup {c}
  BY DEF Calling, OtpInv, OtpTypeOK
<1>3. /\ IsFiniteSet(Calling) /\ Cardinality(Calling) \in Nat /\ Cardinality(Calling') \in Nat
  BY <1>2, ClientsFinite
<1>4. CASE c \in Calling
  <2>1. Calling' \subseteq Calling  BY <1>2, <1>4
  <2>2. Cardinality(Calling') <= Cardinality(Calling)  BY <1>3, <2>1, FS_Subset
  <2> QED BY <1>1, <1>3, <2>2, InstitutionsAssumption DEF OtpInv
<1>5. CASE c \notin Calling
  <2>1. /\ IsFiniteSet(Calling \cup {c})
        /\ Cardinality(Calling \cup {c}) = Cardinality(Calling) + 1
    BY <1>3, <1>5, FS_AddElement
  <2>2. Cardinality(Calling') <= Cardinality(Calling) + 1  BY <1>2, <2>1, FS_Subset
  <2> QED BY <1>1, <1>3, <1>5, <2>2, InstitutionsAssumption
<1> QED BY <1>4, <1>5

(* A step of a call that changes nothing but the call.                     *)
LEMMA CallStep ==
  ASSUME InstInv, OtpInv, NEW c \in Clients, NEW call \in Call,
         client' = [client EXCEPT ![c] = call],
         UNCHANGED <<codes, guesses, sessions, instVars>>,
         calls' \in 0..MaxCalls, overlapped' \in BOOLEAN,
         CallInv(call),
         call.pc = "insert" =>
           \A d \in Clients \ {c} : client[d].pc = "insert" => client[d].code # call.code,
         call.pc \in {"answer", "session"} => c \in Entering(call.code) \/ sessions[call.code] = 0,
         c \in Calling \/ Cardinality(Calling) + Cardinality(InFlight) < Concurrency,
         ~overlapped' =>
           /\ ~overlapped /\ QuietCall(call)
           /\ c \in Calling \/ (Calling = {} /\ InFlight = {})
  PROVE  OtpInv'
PROOF
<1>1. OtpTypeOK'
  <2>1. TypeOK'  BY InstStays DEF InstInv
  <2> QED BY <2>1 DEF OtpInv, OtpTypeOK
<1>2. Cardinality(InFlight') + Cardinality(Calling') <= Concurrency
  BY CallingStep DEF instVars
<1>3. \A d \in Clients : client'[d] = IF d = c THEN call ELSE client[d]
  BY DEF OtpInv, OtpTypeOK
<1>4. rows' = rows /\ pc' = pc  BY DEF instVars
<1>5. (\A d \in Clients : CallInv(client[d]))'
  <2> SUFFICES ASSUME NEW d \in Clients PROVE CallInv(client[d])'
    OBVIOUS
  <2>1. CallInv(client[d])  BY DEF OtpInv
  <2>2. CASE d = c  BY <1>3, <1>4, <2>2 DEF CallInv, OnRecord, Issued
  <2>3. CASE d # c  BY <1>3, <1>4, <2>1, <2>3 DEF CallInv, OnRecord, Issued
  <2> QED BY <2>2, <2>3
<1>6. (\A d, e \in Clients :
         client[d].pc = "insert" /\ client[e].pc = "insert" /\ d # e =>
           client[d].code # client[e].code)'
  BY <1>3 DEF OtpInv
<1>7. (\A k \in CodeIds : sessions[k] + Cardinality(Entering(k)) <= Cardinality(Clients))'
  <2> SUFFICES ASSUME NEW k \in CodeIds
               PROVE  sessions[k] + Cardinality(Entering(k)') <= Cardinality(Clients)
    OBVIOUS
  <2>1. Entering(k) \subseteq Clients /\ Entering(k)' \subseteq Clients  BY DEF Entering
  <2>2. /\ IsFiniteSet(Entering(k)) /\ Cardinality(Entering(k)) \in Nat
        /\ IsFiniteSet(Entering(k)') /\ Cardinality(Entering(k)') \in Nat
        /\ Cardinality(Entering(k)') <= Cardinality(Clients)
    BY <2>1, ClientsFinite
  <2>3. sessions[k] \in Nat /\ Cardinality(Clients) \in Nat
    BY ClientsFinite DEF OtpInv, OtpTypeOK
  <2>4. CASE Entering(k)' \subseteq Entering(k)
    <3>1. Cardinality(Entering(k)') <= Cardinality(Entering(k))  BY <2>2, <2>4, FS_Subset
    <3> QED BY <2>2, <2>3, <3>1 DEF OtpInv
  <2>5. CASE ~(Entering(k)' \subseteq Entering(k))
    <3>1. sessions[k] = 0  BY <1>3, <2>5 DEF Entering
    <3> QED BY <2>2, <2>3, <3>1
  <2> QED BY <2>4, <2>5
<1>8. (~overlapped => Quiet)'
  <2> SUFFICES ASSUME ~overlapped' PROVE Quiet'
    OBVIOUS
  <2>1. Quiet  BY DEF OtpInv
  <2>2. (\A d \in Calling : InFlight = {} /\ \A e \in Calling : e = d)'
    BY <1>3, <1>4, <2>1 DEF Quiet, Calling, InFlight
  <2>3. (\A d \in Clients : QuietCall(client[d]))'
    BY <1>3, <1>4, <2>1 DEF Quiet, QuietCall, Live, Issued
  <2> QED BY <2>1, <2>2, <2>3 DEF Quiet, Issued
<1> QED BY <1>1, <1>2, <1>5, <1>6, <1>7, <1>8 DEF OtpInv

(* What the invariant says of one call.                                    *)
LEMMA CallHeld ==
  ASSUME OtpInv, NEW c \in Clients
  PROVE  /\ client[c] \in Call /\ CallInv(client[c])
         /\ client[c].pc # "idle" => c \in Calling
         /\ client[c].pc \in {"answer", "session"} => c \in Entering(client[c].code)
         /\ calls \in 0..MaxCalls /\ overlapped \in BOOLEAN
         /\ ~overlapped => QuietCall(client[c])
BY DEF OtpInv, OtpTypeOK, Calling, Entering, Quiet

LEMMA IdleCall == Idle \in Call /\ CallInv(Idle) /\ QuietCall(Idle) /\ Idle.pc = "idle"
BY OtpAssumption DEF Idle, Call, CallInv, QuietCall, Wrong, Outcomes

LEMMA HangupStep ==
  ASSUME InstInv, OtpInv, NEW c \in Clients, c \in Calling, Hangup(c),
         UNCHANGED <<codes, calls, guesses, sessions, overlapped, instVars>>
  PROVE  OtpInv'
PROOF
<1>1. calls' \in 0..MaxCalls /\ overlapped' \in BOOLEAN /\ (~overlapped' => ~overlapped)
  BY CallHeld
<1>2. client' = [client EXCEPT ![c] = Idle]  BY DEF Hangup
<1>3. UNCHANGED <<codes, guesses, sessions, instVars>>  OBVIOUS
<1>4. Idle \in Call /\ CallInv(Idle) /\ QuietCall(Idle)  BY IdleCall
<1>5. Idle.pc \notin {"insert", "answer", "session"}  BY IdleCall
<1> QED BY <1>1, <1>2, <1>3, <1>4, <1>5, CallStep

(* The first step of a call about an institution in good standing.         *)
LEMMA BeginsStep ==
  ASSUME InstInv, OtpInv, NEW c \in Clients, NEW i \in Ids, InGoodStanding(i),
         NEW p \in {"request", "verify"}, NEW a \in CodeIds \cup {Wrong},
         CallBegins(c, [Idle EXCEPT !.pc = p, !.inst = i, !.answer = a]),
         UNCHANGED <<codes, guesses, sessions, instVars>>, calls' \in 0..MaxCalls
  PROVE  OtpInv'
PROOF
<1>1. PICK call : call = [Idle EXCEPT !.pc = p, !.inst = i, !.answer = a]  OBVIOUS
<1>2. call \in Call /\ call.pc = p /\ call.inst = i  BY <1>1, IdleCall DEF Call
<1>3. CallInv(call) /\ QuietCall(call)
  BY <1>2 DEF CallInv, QuietCall, InGoodStanding
<1>4. overlapped' = (overlapped \/ Calling # {} \/ InFlight # {}) /\ overlapped \in BOOLEAN
  BY DEF CallBegins, OtpInv, OtpTypeOK
<1>5. Cardinality(Calling) + Cardinality(InFlight) < Concurrency  BY DEF CallBegins
<1>6. client' = [client EXCEPT ![c] = call]  BY <1>1 DEF CallBegins
<1> QED BY <1>2, <1>3, <1>4, <1>5, <1>6, CallStep

LEMMA RequestReadStep ==
  ASSUME InstInv, OtpInv, NEW c \in Clients, RequestRead(c)
  PROVE  OtpInv'
PROOF
<1>1. PICK last \in Latest(Issued \cup Reserved \cup {0}) :
        /\ last + 1 \in CodeIds
        /\ client' = [client EXCEPT ![c].pc = "insert", ![c].code = last + 1,
                                    ![c].stale = Live(client[c].inst)]
  BY DEF RequestRead
<1>2. PICK k \in CodeIds : k = last + 1  BY <1>1
<1>3. PICK call : call = [client[c] EXCEPT !.pc = "insert", !.code = k,
                                          !.stale = Live(client[c].inst)]
  OBVIOUS
<1>4. client' = [client EXCEPT ![c] = call]
  BY <1>1, <1>2, <1>3 DEF OtpInv, OtpTypeOK
<1>5. Live(client[c].inst) \subseteq Issued /\ Issued \subseteq CodeIds  BY DEF Live, Issued
<1>6. /\ client[c] \in Call /\ CallInv(client[c]) /\ client[c].pc = "request" /\ c \in Calling
      /\ UNCHANGED <<codes, calls, guesses, sessions, overlapped, instVars>>
  BY CallHeld DEF RequestRead
<1>7. /\ call \in Call /\ call.pc = "insert" /\ call.code = k
      /\ call.stale = Live(client[c].inst) /\ call.inst = client[c].inst
  BY <1>3, <1>5, <1>6 DEF Call
<1>8. \A x \in Issued \cup Reserved : x <= last  BY <1>1 DEF Latest
<1>9. last \in Int /\ k \notin Issued /\ k \notin Reserved
  <2>1. k \in Int /\ last \in CodeIds \cup Reserved \cup {0}
    BY <1>1, <1>5, OtpAssumption DEF Latest, CodeIds
  <2>2. Reserved \subseteq CodeIds
    BY CallHeld DEF Reserved, CallInv
  <2>3. last \in Int  BY <2>1, <2>2, OtpAssumption DEF CodeIds
  <2> QED BY <1>2, <1>8, <2>1, <2>3
<1>10. CallInv(call)
  BY <1>5, <1>6, <1>7, <1>9 DEF CallInv, Issued
<1>11. \A d \in Clients \ {c} : client[d].pc = "insert" => client[d].code # call.code
  BY <1>7, <1>9 DEF Reserved
<1>12. ~overlapped => QuietCall(call)
  BY <1>6, <1>7, CallHeld DEF QuietCall
<1>13. calls' \in 0..MaxCalls /\ overlapped' \in BOOLEAN /\ (~overlapped' => ~overlapped)
  BY <1>6, CallHeld
<1> QED BY <1>4, <1>6, <1>7, <1>10, <1>11, <1>12, <1>13, CallStep

LEMMA VerifyReadStep ==
  ASSUME InstInv, OtpInv, NEW c \in Clients, VerifyRead(c)
  PROVE  OtpInv'
PROOF
<1>1. /\ client[c] \in Call /\ CallInv(client[c]) /\ client[c].pc = "verify" /\ c \in Calling
      /\ UNCHANGED <<codes, calls, guesses, sessions, overlapped, instVars>>
  BY CallHeld DEF VerifyRead
<1>2. CASE Hangup(c)  BY <1>1, <1>2, HangupStep
<1>3. CASE ~Hangup(c)
  <2>1. PICK k \in Latest(Live(client[c].inst)) :
          client' = [client EXCEPT ![c] =
            [client[c] EXCEPT !.pc = "answer", !.code = k, !.answer = Wrong,
                      !.attempts = codes[k].attempts,
                      !.outcome = Verdict(k, client[c].answer)]]
    BY <1>3 DEF VerifyRead, OtpInv, OtpTypeOK
  <2>2. PICK call : call = [client[c] EXCEPT !.pc = "answer", !.code = k, !.answer = Wrong,
                             !.attempts = codes[k].attempts,
                             !.outcome = Verdict(k, client[c].answer)]
    OBVIOUS
  <2>3. /\ k \in CodeIds /\ k \in Issued /\ codes[k] \in Code /\ ~codes[k].used
        /\ codes[k].inst = client[c].inst
    BY DEF Latest, Live, Issued, OtpInv, OtpTypeOK
  <2>4. /\ Verdict(k, client[c].answer) \in Outcomes
        /\ Verdict(k, client[c].answer) = "count" => codes[k].attempts < MaxAttempts
    BY <2>3, OtpAssumption DEF Verdict, Outcomes, Code
  <2>5. codes[k].attempts \in 0..MaxAttempts  BY <2>3 DEF Code
  <2>6. /\ call \in Call /\ call.pc = "answer" /\ call.code = k /\ call.inst = client[c].inst
        /\ call.attempts = codes[k].attempts /\ call.outcome = Verdict(k, client[c].answer)
    BY <1>1, <2>2, <2>3, <2>4, <2>5 DEF Call
  <2>7. CallInv(call)  BY <1>1, <2>3, <2>4, <2>6 DEF CallInv
  <2>8. sessions[k] = 0  BY <2>3 DEF OtpInv
  <2>9. ~overlapped => QuietCall(call)
    BY <1>1, <2>3, <2>6, CallHeld DEF QuietCall
  <2>10. client' = [client EXCEPT ![c] = call]  BY <2>1, <2>2
  <2>11. calls' \in 0..MaxCalls /\ overlapped' \in BOOLEAN /\ (~overlapped' => ~overlapped)
    BY <1>1, CallHeld
  <2> QED BY <1>1, <2>6, <2>7, <2>8, <2>9, <2>10, <2>11, CallStep
<1> QED BY <1>2, <1>3

(* A step of a call that changes the codes: none of them goes, or is       *)
(* unspent again, and the call comes to its end or opens its session.      *)
Spends(c, call) ==
  /\ client' = [client EXCEPT ![c] = call]
  /\ UNCHANGED <<calls, overlapped, instVars>>
  /\ codes' \in [CodeIds -> Code \cup {Absent}]
  /\ guesses' \in [CodeIds -> Nat] /\ sessions' \in [CodeIds -> Nat]
  /\ \A k \in CodeIds : codes[k] # Absent =>
       /\ codes'[k] # Absent /\ codes'[k].inst = codes[k].inst
       /\ codes[k].used => codes'[k].used
  /\ \A k \in CodeIds : codes[k] = Absent /\ codes'[k] # Absent =>
       client[c].pc = "insert" /\ k = client[c].code
  /\ \A k \in CodeIds : codes[k] = Absent => guesses'[k] = guesses[k]
  /\ \/ call = Idle
     \/ /\ client[c].pc = "answer" /\ call.pc = "session" /\ call.code = client[c].code
        /\ call.inst = client[c].inst /\ codes'[call.code].used

LEMMA SpendsStep ==
  ASSUME InstInv, OtpInv, NEW c \in Clients, NEW call \in Call, c \in Calling, Spends(c, call),
         \A k \in CodeIds :
           \/ sessions'[k] = sessions[k]
           \/ /\ sessions'[k] = sessions[k] + 1 /\ codes' = codes
              /\ call = Idle /\ client[c].pc = "session" /\ client[c].code = k,
         ~overlapped => Quiet'
  PROVE  OtpInv'
PROOF
<1>1. OtpTypeOK'
  <2>1. TypeOK'  BY InstStays DEF Spends, InstInv
  <2> QED BY <2>1 DEF Spends, OtpInv, OtpTypeOK
<1>2. Cardinality(InFlight') + Cardinality(Calling') <= Concurrency
  <2>1. UNCHANGED pc  BY DEF Spends, instVars
  <2> QED BY <2>1, CallingStep DEF Spends
<1>3. \A d \in Clients : client'[d] = IF d = c THEN call ELSE client[d]
  BY DEF Spends, OtpInv, OtpTypeOK
<1>4. rows' = rows  BY DEF Spends, instVars
<1>5. /\ Idle.pc = "idle" /\ CallInv(client[c]) /\ c \in Calling
      /\ client[c].pc \in {"answer", "session"} => c \in Entering(client[c].code)
  BY CallHeld, IdleCall
<1>6. (\A d \in Clients : CallInv(client[d]))'
  <2> SUFFICES ASSUME NEW d \in Clients PROVE CallInv(client[d])'
    OBVIOUS
  <2>1. CASE d = c /\ call = Idle  BY <1>3, <1>5, <2>1 DEF CallInv
  <2>2. CASE d = c /\ call # Idle
    <3>1. /\ client[c].pc = "answer" /\ call.pc = "session" /\ call.code = client[c].code
          /\ call.inst = client[c].inst /\ codes'[call.code].used
      BY <2>2 DEF Spends
    <3>2. /\ call.inst \in OnRecord' /\ call.code \in Issued'
          /\ codes'[call.code].inst = call.inst
      BY <1>4, <1>5, <3>1 DEF CallInv, Spends, Issued, OnRecord
    <3> QED BY <1>3, <2>2, <3>1, <3>2 DEF CallInv
  <2>3. CASE d # c
    <3>1. CallInv(client[d]) /\ client'[d] = client[d]  BY <1>3, <2>3, CallHeld
    <3>2. client[d].pc = "insert" => codes'[client[d].code] = Absent
      BY <2>3, <3>1 DEF Spends, CallInv, OtpInv
    <3>3. Issued \subseteq Issued' /\ OnRecord' = OnRecord
      BY <1>4 DEF Spends, Issued, OnRecord
    <3>4. \A k \in Issued : /\ codes'[k].inst = codes[k].inst
                            /\ codes[k].used => codes'[k].used
      BY DEF Spends, Issued
    <3> QED BY <3>1, <3>2, <3>3, <3>4 DEF CallInv
  <2> QED BY <2>1, <2>2, <2>3
<1>7. (\A d, e \in Clients :
         client[d].pc = "insert" /\ client[e].pc = "insert" /\ d # e =>
           client[d].code # client[e].code)'
  BY <1>3, <1>5 DEF OtpInv, Spends
<1>8. (\A k \in CodeIds : codes[k] = Absent => guesses[k] = 0)'
  BY DEF OtpInv, Spends
<1>9. (\A k \in CodeIds : codes[k] = Absent \/ ~codes[k].used => sessions[k] = 0)'
  <2> SUFFICES ASSUME NEW k \in CodeIds, codes'[k] = Absent \/ ~codes'[k].used
               PROVE  sessions'[k] = 0
    OBVIOUS
  <2>1. codes[k] = Absent \/ ~codes[k].used  BY DEF Spends
  <2>2. sessions[k] = 0  BY <2>1 DEF OtpInv
  <2>3. sessions'[k] = sessions[k]
    <3> SUFFICES ASSUME sessions'[k] # sessions[k] PROVE FALSE
      OBVIOUS
    <3>1. client[c].pc = "session" /\ client[c].code = k  OBVIOUS
    <3>2. k \in Issued /\ codes[k].used  BY <1>5, <3>1 DEF CallInv
    <3> QED BY <2>1, <3>2 DEF Issued
  <2> QED BY <2>2, <2>3
<1>10. (\A k \in CodeIds : sessions[k] + Cardinality(Entering(k)) <= Cardinality(Clients))'
  <2> SUFFICES ASSUME NEW k \in CodeIds
               PROVE  sessions'[k] + Cardinality(Entering(k)') <= Cardinality(Clients)
    OBVIOUS
  <2>1. /\ Entering(k) \subseteq Clients /\ Entering(k)' \subseteq Entering(k)
    BY <1>3, <1>5 DEF Entering, Spends
  <2>2. /\ IsFiniteSet(Entering(k)) /\ Cardinality(Entering(k)) \in Nat
        /\ Cardinality(Entering(k)') \in Nat
        /\ Cardinality(Entering(k)') <= Cardinality(Entering(k))
        /\ Cardinality(Clients) \in Nat
    BY <2>1, ClientsFinite, FS_Subset, Entering(k)' \subseteq Clients
  <2>3. sessions[k] \in Nat /\ sessions[k] + Cardinality(Entering(k)) <= Cardinality(Clients)
    BY DEF OtpInv, OtpTypeOK
  <2>4. CASE sessions'[k] = sessions[k]  BY <2>2, <2>3, <2>4
  <2>5. CASE sessions'[k] # sessions[k]
    <3>1. /\ sessions'[k] = sessions[k] + 1 /\ call = Idle
          /\ client[c].pc = "session" /\ client[c].code = k
      BY <2>5
    <3>2. c \in Entering(k) /\ Entering(k)' \subseteq Entering(k) \ {c}
      BY <1>3, <1>5, <2>1, <3>1 DEF Entering
    <3>3. /\ IsFiniteSet(Entering(k) \ {c})
          /\ Cardinality(Entering(k) \ {c}) = Cardinality(Entering(k)) - 1
      BY <2>2, <3>2, FS_RemoveElement
    <3>4. Cardinality(Entering(k)') <= Cardinality(Entering(k)) - 1
      BY <3>2, <3>3, FS_Subset
    <3> QED BY <2>2, <2>3, <3>1, <3>4
  <2> QED BY <2>4, <2>5
<1>11. (~overlapped => Quiet)'  BY DEF Spends
<1> QED BY <1>1, <1>2, <1>6, <1>7, <1>8, <1>9, <1>10, <1>11 DEF OtpInv

(* While nothing overlaps, the only call that is about to end or to open   *)
(* its session is c.                                                       *)
LEMMA QuietSpends ==
  ASSUME OtpInv, ~overlapped, NEW c \in Clients, NEW call \in Call, c \in Calling,
         Spends(c, call),
         call # Idle => sessions'[call.code] = 0,
         \A k \in CodeIds : sessions'[k] <= 1,
         \A k \in Issued' : guesses'[k] = codes'[k].attempts,
         \A k, l \in Issued' :
           codes'[k].inst = codes'[l].inst /\ ~codes'[k].used /\ ~codes'[l].used => k = l
  PROVE  Quiet'
PROOF
<1>1. Quiet  BY DEF OtpInv
<1>2. \A d \in Clients : client'[d] = IF d = c THEN call ELSE client[d]
  BY DEF Spends, OtpInv, OtpTypeOK
<1>3. rows' = rows /\ pc' = pc  BY DEF Spends, instVars
<1>4. \A d \in Clients \ {c} : client[d].pc = "idle"  BY <1>1 DEF Quiet, Calling
<1>5. (\A d \in Calling : InFlight = {} /\ \A e \in Calling : e = d)'
  BY <1>1, <1>2, <1>3, <1>4 DEF Quiet, Calling, InFlight
<1>6. (\A d \in Clients : QuietCall(client[d]))'
  <2> SUFFICES ASSUME NEW d \in Clients PROVE QuietCall(client[d])'
    OBVIOUS
  <2>1. CASE client'[d].pc = "idle"  BY <2>1 DEF QuietCall
  <2>2. CASE client'[d].pc # "idle"
    <3>1. d = c /\ call # Idle  BY <1>2, <1>4, <2>2, IdleCall
    <3>2. client'[d] = call /\ call.pc = "session" /\ call.inst = client[c].inst
      BY <1>2, <3>1 DEF Spends
    <3>3. rows[client[c].inst].status # "REJECTED"
      BY <1>1 DEF Quiet, QuietCall, Calling
    <3> QED BY <1>3, <3>1, <3>2, <3>3 DEF QuietCall
  <2> QED BY <2>1, <2>2
<1> QED BY <1>5, <1>6 DEF Quiet

LEMMA RequestCommitStep ==
  ASSUME InstInv, OtpInv, NEW c \in Clients, RequestCommit(c)
  PROVE  OtpInv'
PROOF
<1>1. /\ client[c].pc = "insert" /\ c \in Calling /\ client[c] \in Call /\ CallInv(client[c])
      /\ UNCHANGED <<calls, guesses, sessions, overlapped, instVars>>
      /\ client' = [client EXCEPT ![c] = Idle]
  BY CallHeld DEF RequestCommit, Hangup
<1>2. PICK new : new = [inst |-> client[c].inst, used |-> FALSE, attempts |-> 0, expired |-> FALSE]
  OBVIOUS
<1>3. client[c].inst \in Ids  BY <1>1 DEF CallInv, OnRecord
<1>4. /\ new \in Code /\ new.inst = client[c].inst /\ ~new.used /\ new.attempts = 0
  BY <1>2, <1>3, OtpAssumption DEF Code
<1>5. new # Absent  BY <1>4, CodeAssumption
<1>6. PICK k \in CodeIds : k = client[c].code /\ codes[k] = Absent  BY <1>1 DEF CallInv
<1>7. \A l \in CodeIds :
        codes'[l] = IF l = k THEN new
                    ELSE IF l \in client[c].stale THEN [codes[l] EXCEPT !.used = TRUE]
                    ELSE codes[l]
  BY <1>2, <1>6 DEF RequestCommit
<1>8. \A l \in Issued :
        /\ codes[l] \in Code /\ codes'[l] \in Code /\ l # k /\ l \in CodeIds
        /\ codes'[l].inst = codes[l].inst /\ codes'[l].attempts = codes[l].attempts
        /\ codes'[l].used <=> codes[l].used \/ l \in client[c].stale
  <2> SUFFICES ASSUME NEW l \in Issued
               PROVE  /\ codes[l] \in Code /\ codes'[l] \in Code /\ l # k /\ l \in CodeIds
                      /\ codes'[l].inst = codes[l].inst
                      /\ codes'[l].attempts = codes[l].attempts
                      /\ codes'[l].used <=> codes[l].used \/ l \in client[c].stale
    OBVIOUS
  <2>1. codes[l] \in Code /\ l # k /\ l \in CodeIds  BY <1>6 DEF Issued, OtpInv, OtpTypeOK
  <2>2. codes'[l] = IF l \in client[c].stale THEN [codes[l] EXCEPT !.used = TRUE] ELSE codes[l]
    BY <1>7, <2>1
  <2> QED BY <2>1, <2>2 DEF Code
<1>9. client[c].stale \subseteq Issued /\ k \notin client[c].stale
  BY <1>1, <1>6 DEF CallInv, Issued
<1>10. \A l \in CodeIds \ {k} : codes[l] = Absent => codes'[l] = Absent
  BY <1>7, <1>9 DEF Issued
<1>11. Issued' = Issued \cup {k}
  BY <1>5, <1>7, <1>8, <1>10, CodeAssumption DEF Issued
<1>12. codes' \in [CodeIds -> Code \cup {Absent}]
  <2>1. DOMAIN codes' = CodeIds /\ codes' = [l \in CodeIds |-> codes'[l]]  BY DEF RequestCommit
  <2>2. \A l \in CodeIds : codes'[l] \in Code \cup {Absent}
    BY <1>4, <1>7, <1>8, <1>10 DEF Issued
  <2> QED BY <2>1, <2>2
<1>13. Spends(c, Idle)
  <2>1. \A l \in CodeIds : codes[l] # Absent =>
          /\ codes'[l] # Absent /\ codes'[l].inst = codes[l].inst
          /\ codes[l].used => codes'[l].used
    BY <1>8, CodeAssumption DEF Issued
  <2> QED BY <1>1, <1>6, <1>10, <1>12, <2>1 DEF Spends, OtpInv, OtpTypeOK
<1>14. ~overlapped => Quiet'
  <2> SUFFICES ASSUME ~overlapped PROVE Quiet'
    OBVIOUS
  <2>1. Quiet  BY DEF OtpInv
  <2>2. client[c].stale = Live(client[c].inst)  BY <1>1, <2>1 DEF Quiet, QuietCall
  <2>3. \A l \in CodeIds : sessions'[l] <= 1  BY <1>1, <2>1 DEF Quiet
  <2>4. \A l \in Issued' : guesses'[l] = codes'[l].attempts
    <3>1. guesses'[k] = 0 /\ codes'[k].attempts = 0  BY <1>1, <1>4, <1>6, <1>7 DEF OtpInv
    <3>2. \A l \in Issued : guesses'[l] = codes'[l].attempts  BY <1>1, <1>8, <2>1 DEF Quiet
    <3> QED BY <1>11, <3>1, <3>2
  <2>5. \A l \in Issued : codes'[l].inst = client[c].inst => codes'[l].used
    BY <1>8, <2>2 DEF Live
  <2>6. ASSUME NEW l \in Issued', NEW m \in Issued', codes'[l].inst = codes'[m].inst,
               ~codes'[l].used, ~codes'[m].used
        PROVE  l = m
    <3>1. CASE l = k \/ m = k  BY <1>4, <1>6, <1>7, <1>11, <2>5, <2>6, <3>1
    <3>2. CASE l # k /\ m # k  BY <1>8, <1>11, <2>1, <2>6, <3>2 DEF Quiet
    <3> QED BY <3>1, <3>2
  <2> QED BY <1>1, <1>13, <2>3, <2>4, <2>6, IdleCall, QuietSpends
<1>15. sessions' = sessions /\ Idle \in Call  BY <1>1, IdleCall
<1> QED BY <1>1, <1>13, <1>14, <1>15, SpendsStep

LEMMA VerifyCommitStep ==
  ASSUME InstInv, OtpInv, NEW c \in Clients, VerifyCommit(c)
  PROVE  OtpInv'
PROOF
<1>1. /\ client[c].pc = "answer" /\ c \in Calling /\ client[c] \in Call /\ CallInv(client[c])
      /\ UNCHANGED <<calls, sessions, overlapped, instVars>>
  BY CallHeld DEF VerifyCommit
<1>2. PICK k \in Issued : k = client[c].code /\ codes[k].inst = client[c].inst
  BY <1>1 DEF CallInv
<1>3. k \in CodeIds /\ codes[k] \in Code  BY DEF Issued, OtpInv, OtpTypeOK
<1>4. ~overlapped => ~codes[k].used /\ client[c].attempts = codes[k].attempts
  BY <1>1, <1>2, CallHeld DEF QuietCall
<1>5. CASE client[c].outcome = "count"
  <2>1. PICK n \in 0..MaxAttempts : n = client[c].attempts + 1
    BY <1>1, <1>5, OtpAssumption DEF CallInv, Call
  <2>2. PICK code : code = [codes[k] EXCEPT !.attempts = n]  OBVIOUS
  <2>3. code \in Code /\ code.inst = codes[k].inst /\ (code.used <=> codes[k].used)
        /\ code.attempts = n
    BY <1>3, <2>1, <2>2 DEF Code
  <2>4. /\ codes' = [codes EXCEPT ![k] = code] /\ guesses' = [guesses EXCEPT ![k] = @ + 1]
        /\ client' = [client EXCEPT ![c] = Idle]
    BY <1>2, <1>3, <1>5, <2>1, <2>2 DEF VerifyCommit, Hangup, OtpInv, OtpTypeOK
  <2>5. /\ codes' \in [CodeIds -> Code \cup {Absent}] /\ guesses' \in [CodeIds -> Nat]
        /\ \A l \in CodeIds : codes'[l] = IF l = k THEN code ELSE codes[l]
        /\ \A l \in CodeIds : guesses'[l] = IF l = k THEN guesses[k] + 1 ELSE guesses[l]
    BY <1>3, <2>3, <2>4 DEF OtpInv, OtpTypeOK
  <2>6. code # Absent /\ codes[k] # Absent  BY <2>3, CodeAssumption DEF Issued
  <2>7. Issued' = Issued  BY <2>5, <2>6 DEF Issued
  <2>8. Spends(c, Idle)  BY <1>1, <2>3, <2>4, <2>5, <2>6 DEF Spends, OtpInv, OtpTypeOK
  <2>9. ~overlapped => Quiet'
    <3> SUFFICES ASSUME ~overlapped PROVE Quiet'
      OBVIOUS
    <3>1. Quiet  BY DEF OtpInv
    <3>2. \A l \in CodeIds : sessions'[l] <= 1  BY <1>1, <3>1 DEF Quiet
    <3>3. \A l \in Issued' : guesses'[l] = codes'[l].attempts
      BY <1>4, <2>1, <2>3, <2>5, <2>7, <3>1 DEF Quiet, Issued
    <3>4. \A l, m \in Issued' :
            codes'[l].inst = codes'[m].inst /\ ~codes'[l].used /\ ~codes'[m].used => l = m
      BY <2>3, <2>5, <2>7, <3>1 DEF Quiet, Issued
    <3> QED BY <1>1, <2>8, <3>2, <3>3, <3>4, IdleCall, QuietSpends
  <2>10. sessions' = sessions /\ Idle \in Call  BY <1>1, IdleCall
  <2> QED BY <1>1, <2>8, <2>9, <2>10, SpendsStep
<1>6. CASE client[c].outcome # "count"
  <2>1. PICK code : code = [codes[k] EXCEPT !.used = TRUE]  OBVIOUS
  <2>2. code \in Code /\ code.inst = codes[k].inst /\ code.used
        /\ code.attempts = codes[k].attempts
    BY <1>3, <2>1 DEF Code
  <2>3. /\ codes' = [codes EXCEPT ![k] = code] /\ guesses' = guesses
        /\ IF client[c].outcome = "open"
           THEN client' = [client EXCEPT ![c].pc = "session"]
           ELSE client' = [client EXCEPT ![c] = Idle]
    BY <1>2, <1>3, <1>6, <2>1 DEF VerifyCommit, Hangup, OtpInv, OtpTypeOK
  <2>4. PICK call : call = IF client[c].outcome = "open" THEN [client[c] EXCEPT !.pc = "session"]
                           ELSE Idle
    OBVIOUS
  <2>5. client' = [client EXCEPT ![c] = call]  BY <2>3, <2>4 DEF OtpInv, OtpTypeOK
  <2>6. call \in Call /\ (call # Idle => /\ call.pc = "session" /\ call.code = k
                                        /\ call.inst = client[c].inst)
    BY <1>1, <1>2, <2>4, IdleCall DEF Call
  <2>7. /\ codes' \in [CodeIds -> Code \cup {Absent}]
        /\ \A l \in CodeIds : codes'[l] = IF l = k THEN code ELSE codes[l]
    BY <1>3, <2>2, <2>3 DEF OtpInv, OtpTypeOK
  <2>8. code # Absent /\ codes[k] # Absent  BY <2>2, CodeAssumption DEF Issued
  <2>9. Issued' = Issued  BY <2>7, <2>8 DEF Issued
  <2>10. Spends(c, call)
    BY <1>1, <1>2, <1>3, <2>2, <2>3, <2>5, <2>6, <2>7, <2>8 DEF Spends, OtpInv, OtpTypeOK
  <2>11. ~overlapped => Quiet'
    <3> SUFFICES ASSUME ~overlapped PROVE Quiet'
      OBVIOUS
    <3>1. Quiet  BY DEF OtpInv
    <3>2. \A l \in CodeIds : sessions'[l] <= 1  BY <1>1, <3>1 DEF Quiet
    <3>3. \A l \in Issued' : guesses'[l] = codes'[l].attempts
      BY <2>2, <2>3, <2>7, <2>9, <3>1 DEF Quiet, Issued
    <3>4. \A l, m \in Issued' :
            codes'[l].inst = codes'[m].inst /\ ~codes'[l].used /\ ~codes'[m].used => l = m
      BY <2>2, <2>7, <2>9, <3>1 DEF Quiet, Issued
    <3>5. sessions[k] = 0  BY <1>3, <1>4 DEF OtpInv
    <3> QED BY <1>1, <2>6, <2>10, <3>2, <3>3, <3>4, <3>5, QuietSpends
  <2>12. sessions' = sessions  BY <1>1
  <2> QED BY <1>1, <2>6, <2>10, <2>11, <2>12, SpendsStep
<1> QED BY <1>5, <1>6

LEMMA OpenSessionStep ==
  ASSUME InstInv, OtpInv, NEW c \in Clients, OpenSession(c)
  PROVE  OtpInv'
PROOF
<1>1. /\ client[c].pc = "session" /\ c \in Calling /\ client[c] \in Call /\ CallInv(client[c])
      /\ UNCHANGED <<codes, calls, guesses, overlapped, instVars>>
      /\ client' = [client EXCEPT ![c] = Idle]
  BY CallHeld DEF OpenSession, Hangup
<1>2. PICK k \in CodeIds : k = client[c].code  BY <1>1 DEF CallInv, Issued
<1>3. /\ sessions' \in [CodeIds -> Nat]
      /\ \A l \in CodeIds : sessions'[l] = IF l = k THEN sessions[k] + 1 ELSE sessions[l]
  BY <1>2 DEF OpenSession, OtpInv, OtpTypeOK
<1>4. Spends(c, Idle)  BY <1>1, <1>3 DEF Spends, OtpInv, OtpTypeOK
<1>5. ~overlapped => Quiet'
  <2> SUFFICES ASSUME ~overlapped PROVE Quiet'
    OBVIOUS
  <2>1. Quiet  BY DEF OtpInv
  <2>2. sessions[k] = 0  BY <1>1, <1>2, <2>1 DEF Quiet, QuietCall
  <2>3. \A l \in CodeIds : sessions'[l] <= 1  BY <1>3, <2>1, <2>2 DEF Quiet
  <2>4. Issued' = Issued  BY <1>1 DEF Issued
  <2> QED BY <1>1, <1>4, <2>1, <2>3, <2>4, IdleCall, QuietSpends DEF Quiet
<1> QED BY <1>1, <1>2, <1>3, <1>4, <1>5, IdleCall, SpendsStep

LEMMA ExpireStep ==
  ASSUME InstInv, OtpInv, NEW k \in CodeIds, Expire(k)
  PROVE  OtpInv'
PROOF
<1>1. UNCHANGED <<client, calls, guesses, sessions, overlapped, instVars>> /\ k \in Issued
  BY DEF Expire
<1>2. UNCHANGED <<rows, pc>>  BY <1>1 DEF instVars
<1>3. PICK code : code = [codes[k] EXCEPT !.expired = TRUE]  OBVIOUS
<1>4. codes[k] \in Code  BY <1>1 DEF Issued, OtpInv, OtpTypeOK
<1>5. /\ code \in Code /\ code.inst = codes[k].inst /\ (code.used <=> codes[k].used)
      /\ code.attempts = codes[k].attempts /\ code # Absent
  BY <1>3, <1>4, CodeAssumption DEF Code
<1>6. codes' = [codes EXCEPT ![k] = code]  BY <1>3 DEF Expire, OtpInv, OtpTypeOK
<1>7. /\ codes' \in [CodeIds -> Code \cup {Absent}]
      /\ \A l \in CodeIds : codes'[l] = IF l = k THEN code ELSE codes[l]
  BY <1>5, <1>6 DEF OtpInv, OtpTypeOK
<1>8. Issued' = Issued  BY <1>1, <1>5, <1>7 DEF Issued
<1>9. \A l \in CodeIds : codes'[l] = Absent <=> codes[l] = Absent
  BY <1>1, <1>5, <1>7 DEF Issued
<1>10. \A l \in Issued : /\ codes'[l].inst = codes[l].inst
                         /\ codes'[l].used <=> codes[l].used
                         /\ codes'[l].attempts = codes[l].attempts
  BY <1>5, <1>7 DEF Issued
<1>11. OtpTypeOK'
  <2>1. TypeOK'  BY <1>1, InstStays DEF InstInv
  <2> QED BY <1>1, <1>7, <2>1 DEF OtpInv, OtpTypeOK
<1>12. (Cardinality(InFlight) + Cardinality(Calling) <= Concurrency)'
  <2>1. InFlight' = InFlight /\ Calling' = Calling  BY <1>1, <1>2 DEF InFlight, Calling
  <2> QED BY <2>1 DEF OtpInv
<1>13. (\A c \in Clients : CallInv(client[c]))'
  <2> SUFFICES ASSUME NEW c \in Clients PROVE CallInv(client[c])'
    OBVIOUS
  <2>1. CallInv(client[c]) /\ client'[c] = client[c]  BY <1>1, CallHeld
  <2>2. OnRecord' = OnRecord  BY <1>2 DEF OnRecord
  <2> QED BY <1>8, <1>9, <1>10, <2>1, <2>2 DEF CallInv
<1>14. (\A c, d \in Clients :
         client[c].pc = "insert" /\ client[d].pc = "insert" /\ c # d =>
           client[c].code # client[d].code)'
  BY <1>1 DEF OtpInv
<1>15. (/\ \A l \in CodeIds : codes[l] = Absent => guesses[l] = 0
        /\ \A l \in CodeIds : codes[l] = Absent \/ ~codes[l].used => sessions[l] = 0)'
  BY <1>1, <1>9, <1>10 DEF OtpInv, Issued
<1>16. (\A l \in CodeIds : sessions[l] + Cardinality(Entering(l)) <= Cardinality(Clients))'
  <2>1. \A l : Entering(l)' = Entering(l)  BY <1>1 DEF Entering
  <2> QED BY <1>1, <2>1 DEF OtpInv
<1>17. (~overlapped => Quiet)'
  <2> SUFFICES ASSUME ~overlapped' PROVE Quiet'
    OBVIOUS
  <2>1. Quiet  BY <1>1 DEF OtpInv
  <2>2. \A i : Live(i)' = Live(i)  BY <1>8, <1>10 DEF Live
  <2>3. (\A c \in Clients : QuietCall(client[c]))'
    <3> SUFFICES ASSUME NEW c \in Clients PROVE QuietCall(client[c])'
      OBVIOUS
    <3>1. QuietCall(client[c]) /\ CallInv(client[c]) /\ client'[c] = client[c]
      BY <1>1, <2>1, CallHeld DEF Quiet
    <3> QED BY <1>1, <1>2, <1>10, <2>2, <3>1 DEF QuietCall, CallInv
  <2>4. (\A c \in Calling : InFlight = {} /\ \A d \in Calling : d = c)'
    BY <1>1, <1>2, <2>1 DEF Quiet, Calling, InFlight
  <2> QED BY <1>1, <1>8, <1>10, <2>1, <2>3, <2>4 DEF Quiet
<1> QED BY <1>11, <1>12, <1>13, <1>14, <1>15, <1>16, <1>17 DEF OtpInv

(* A step of Institutions beside the calls.                                *)
LEMMA BesideStep ==
  ASSUME InstInv, InstInv', OtpInv, Next, Beside
  PROVE  OtpInv'
PROOF
<1>1. /\ UNCHANGED <<codes, client, calls, guesses, sessions>>
      /\ overlapped' = (overlapped \/ Calling # {}) /\ overlapped \in BOOLEAN
  BY DEF Beside, OtpInv, OtpTypeOK
<1>2. OtpTypeOK'
  <2>1. TypeOK'  BY DEF InstInv
  <2> QED BY <1>1, <2>1 DEF OtpInv, OtpTypeOK
<1>3. (Cardinality(InFlight) + Cardinality(Calling) <= Concurrency)'
  <2>1. Calling' = Calling  BY <1>1 DEF Calling
  <2> QED BY <2>1 DEF Beside
<1>4. (\A c \in Clients : CallInv(client[c]))'
  <2> SUFFICES ASSUME NEW c \in Clients PROVE CallInv(client[c])'
    OBVIOUS
  <2>1. CallInv(client[c]) /\ client'[c] = client[c]  BY <1>1, CallHeld
  <2>2. OnRecord \subseteq OnRecord'  BY RecordGrows
  <2> QED BY <1>1, <2>1, <2>2 DEF CallInv, Issued
<1>5. (\A c, d \in Clients :
         client[c].pc = "insert" /\ client[d].pc = "insert" /\ c # d =>
           client[c].code # client[d].code)'
  BY <1>1 DEF OtpInv
<1>6. (/\ \A l \in CodeIds : codes[l] = Absent => guesses[l] = 0
       /\ \A l \in CodeIds : codes[l] = Absent \/ ~codes[l].used => sessions[l] = 0)'
  BY <1>1 DEF OtpInv
<1>7. (\A l \in CodeIds : sessions[l] + Cardinality(Entering(l)) <= Cardinality(Clients))'
  <2>1. \A l : Entering(l)' = Entering(l)  BY <1>1 DEF Entering
  <2> QED BY <1>1, <2>1 DEF OtpInv
<1>8. (~overlapped => Quiet)'
  <2> SUFFICES ASSUME ~overlapped' PROVE Quiet'
    OBVIOUS
  <2>1. Quiet /\ Calling = {}  BY <1>1 DEF OtpInv
  <2>2. \A c \in Clients : client'[c].pc = "idle"  BY <1>1, <2>1 DEF Calling
  <2>3. (\A c \in Clients : QuietCall(client[c]))'  BY <2>2 DEF QuietCall
  <2>4. Calling' = {} /\ Issued' = Issued  BY <1>1, <2>2 DEF Calling, Issued
  <2> QED BY <1>1, <2>1, <2>3, <2>4 DEF Quiet
<1> QED BY <1>2, <1>3, <1>4, <1>5, <1>6, <1>7, <1>8 DEF OtpInv

LEMMA OtpStep ==
  ASSUME InstInv, OtpInv, OtpNext
  PROVE  OtpInv'
PROOF
<1>1. CASE \E k \in CodeIds : Expire(k)  BY <1>1, ExpireStep
<1>2. ASSUME NEW c \in Clients,
             \/ RequestBegin(c) \/ RequestRead(c) \/ RequestCommit(c)
             \/ VerifyBegin(c) \/ VerifyRead(c) \/ VerifyCommit(c)
             \/ OpenSession(c) \/ CallFails(c)
      PROVE  OtpInv'
  <2>1. CASE RequestBegin(c)
    <3>1. PICK i \in Ids : /\ InGoodStanding(i)
                          /\ CallBegins(c, [Idle EXCEPT !.pc = "request", !.inst = i])
      BY <2>1 DEF RequestBegin
    <3>2. [Idle EXCEPT !.pc = "request", !.inst = i, !.answer = Wrong]
            = [Idle EXCEPT !.pc = "request", !.inst = i]
      <4>1. Idle \in Call /\ Idle.answer = Wrong  BY IdleCall DEF Idle
      <4> QED BY <4>1 DEF Call
    <3>3. calls' \in 0..MaxCalls  BY <2>1, CallHeld DEF RequestBegin
    <3>4. UNCHANGED <<codes, guesses, sessions, instVars>>  BY <2>1 DEF RequestBegin
    <3> QED BY <3>1, <3>2, <3>3, <3>4, BeginsStep
  <2>2. CASE VerifyBegin(c)
    <3>1. PICK i \in Ids, a \in Issued \cup {Wrong} :
            /\ InGoodStanding(i)
            /\ CallBegins(c, [Idle EXCEPT !.pc = "verify", !.inst = i, !.answer = a])
      BY <2>2 DEF VerifyBegin
    <3>2. a \in CodeIds \cup {Wrong}  BY DEF Issued
    <3>3. calls' \in 0..MaxCalls  BY <2>2, CallHeld, OtpAssumption DEF VerifyBegin
    <3>4. UNCHANGED <<codes, guesses, sessions, instVars>>  BY <2>2 DEF VerifyBegin
    <3> QED BY <3>1, <3>2, <3>3, <3>4, BeginsStep
  <2>3. CASE CallFails(c)  BY <2>3, HangupStep DEF CallFails
  <2> QED BY <1>2, <2>1, <2>2, <2>3, RequestReadStep, RequestCommitStep, VerifyReadStep,
             VerifyCommitStep, OpenSessionStep
<1> QED BY <1>1, <1>2 DEF OtpNext

LEMMA OtpInitInv ==
  ASSUME AccessInit
  PROVE  InstInv /\ OtpInv
PROOF
<1>1. InstInv  BY InstInit DEF AccessInit
<1>2. \A c \in Clients : client[c] = Idle  BY DEF AccessInit, OtpInit
<1>3. \A k \in CodeIds : codes[k] = Absent /\ guesses[k] = 0 /\ sessions[k] = 0
  BY DEF AccessInit, OtpInit
<1>4. OtpTypeOK
  <2>1. TypeOK  BY <1>1 DEF InstInv
  <2>2. client \in [Clients -> Call]  BY IdleCall DEF AccessInit, OtpInit
  <2>3. codes \in [CodeIds -> Code \cup {Absent}]  BY DEF AccessInit, OtpInit
  <2>4. guesses \in [CodeIds -> Nat] /\ sessions \in [CodeIds -> Nat]
    BY DEF AccessInit, OtpInit
  <2>5. calls \in 0..MaxCalls  BY OtpAssumption DEF AccessInit, OtpInit
  <2>6. overlapped \in BOOLEAN  BY DEF AccessInit, OtpInit
  <2> QED BY <2>1, <2>2, <2>3, <2>4, <2>5, <2>6 DEF OtpTypeOK
<1>5. Issued = {} /\ Calling = {} /\ \A k : Entering(k) = {}
  BY <1>2, <1>3, IdleCall DEF Issued, Calling, Entering
<1>6. InFlight = {}  BY DEF AccessInit, Init, InFlight
<1>7. Cardinality({}) = 0  BY FS_EmptySet
<1>8. Cardinality(InFlight) + Cardinality(Calling) <= Concurrency
  BY <1>5, <1>6, <1>7, InstitutionsAssumption
<1>9. \A c \in Clients : CallInv(client[c]) /\ client[c].pc = "idle"  BY <1>2, IdleCall
<1>10. \A k \in CodeIds : sessions[k] + Cardinality(Entering(k)) <= Cardinality(Clients)
  <2>1. Cardinality(Clients) \in Nat  BY ClientsFinite
  <2> QED BY <1>3, <1>5, <1>7, <2>1
<1>11. Quiet
  BY <1>2, <1>3, <1>5, IdleCall DEF Quiet
<1> QED BY <1>1, <1>3, <1>4, <1>8, <1>9, <1>10, <1>11 DEF OtpInv

LEMMA AccessStep ==
  ASSUME InstInv, OtpInv, [AccessNext]_accessVars
  PROVE  InstInv' /\ OtpInv'
PROOF
<1>1. CASE Next /\ Beside
  <2>1. InstInv'  BY <1>1, InstStep
  <2> QED BY <1>1, <2>1, BesideStep
<1>2. CASE OtpNext
  <2>1. UNCHANGED instVars
    BY <1>2 DEF OtpNext, RequestBegin, RequestRead, RequestCommit, VerifyBegin, VerifyRead,
                VerifyCommit, OpenSession, CallFails, Expire
  <2> QED BY <1>2, <2>1, InstStays, OtpStep
<1>3. CASE UNCHANGED accessVars
  <2>1. UNCHANGED <<codes, client, calls, guesses, sessions, overlapped>> /\ UNCHANGED instVars
    BY <1>3 DEF accessVars, otpVars
  <2>2. UNCHANGED <<rows, pc>>  BY <2>1 DEF instVars
  <2>3. InstInv'  BY <2>1, InstStays
  <2>4. /\ Issued' = Issued /\ Calling' = Calling /\ InFlight' = InFlight /\ OnRecord' = OnRecord
        /\ \A k : Entering(k)' = Entering(k) /\ \A i : Live(i)' = Live(i)
    BY <2>1, <2>2 DEF Issued, Calling, InFlight, OnRecord, Entering, Live
  <2>5. OtpTypeOK'  BY <2>1, <2>3 DEF OtpInv, OtpTypeOK, InstInv
  <2>6. (\A c \in Clients : CallInv(client[c]))'  BY <2>1, <2>4 DEF OtpInv, CallInv
  <2>7. (~overlapped => Quiet)'  BY <2>1, <2>2, <2>4 DEF OtpInv, Quiet, QuietCall
  <2> QED BY <2>1, <2>3, <2>4, <2>5, <2>6, <2>7 DEF OtpInv
<1> QED BY <1>1, <1>2, <1>3 DEF AccessNext

THEOREM AccessInvariance == AccessSpec => [](InstInv /\ OtpInv)
PROOF
<1>1. AccessInit => InstInv /\ OtpInv  BY OtpInitInv
<1>2. (InstInv /\ OtpInv) /\ [AccessNext]_accessVars => (InstInv /\ OtpInv)'  BY AccessStep
<1> QED BY <1>1, <1>2, PTL DEF AccessSpec

-----------------------------------------------------------------------------
(* The wrong answers a code can still take.                                *)
LEMMA LeftNat ==
  ASSUME NEW a \in 0..MaxAttempts
  PROVE  Left(a) \in Nat
PROOF
<1>1. PICK d \in Nat : d = MaxAttempts - a  BY OtpAssumption
<1>2. d * (d + 3) \in Nat  OBVIOUS
<1> QED BY <1>1, <1>2 DEF Left

LEMMA LeftNext ==
  ASSUME NEW a \in 0..MaxAttempts, a < MaxAttempts
  PROVE  Left(a) = Left(a + 1) + 2 * (MaxAttempts - a + 1)
PROOF
<1>1. PICK d \in Nat : d = MaxAttempts - a  BY OtpAssumption
<1>2. MaxAttempts - (a + 1) = d - 1 /\ MaxAttempts - (a + 1) + 3 = d + 2
  BY <1>1, OtpAssumption
<1>3. d * (d + 3) = (d - 1) * (d + 2) + 2 * (d + 1)  BY <1>1
<1> QED BY <1>1, <1>2, <1>3 DEF Left

LEMMA LeftFalls ==
  ASSUME NEW a \in 0..MaxAttempts, NEW b \in 0..MaxAttempts, a <= b
  PROVE  Left(b) <= Left(a)
PROOF
<1>1. PICK d \in Nat, e \in Nat : d = MaxAttempts - a /\ e = MaxAttempts - b /\ e <= d
  BY OtpAssumption
<1>2. e * (e + 3) <= d * (e + 3)  BY <1>1
<1>3. d * (e + 3) <= d * (d + 3)  BY <1>1
<1> QED BY <1>1, <1>2, <1>3 DEF Left

(* What a reader and a writer of the counter do to the sum.                *)
LEMMA LeftWithReads ==
  ASSUME NEW a \in 0..MaxAttempts, a < MaxAttempts, NEW v \in 0..MaxAttempts, v < MaxAttempts
  PROVE  /\ LeftWith(a, a) = Left(a)
         /\ LeftWith(v, a + 1) + 2 <= LeftWith(v, a)
         /\ LeftWith(a, v + 1) + 2 <= LeftWith(v, a)
PROOF
<1>1. a + 1 \in 0..MaxAttempts /\ v + 1 \in 0..MaxAttempts /\ MaxAttempts \in Nat
  BY OtpAssumption
<1>2. /\ Left(a) \in Nat /\ Left(a + 1) \in Nat /\ Left(v) \in Nat /\ Left(v + 1) \in Nat
  BY <1>1, LeftNat
<1>3. /\ Left(a) = Left(a + 1) + 2 * (MaxAttempts - a + 1)
      /\ Left(v) = Left(v + 1) + 2 * (MaxAttempts - v + 1)
  BY LeftNext
<1>4. CASE v = a  BY <1>1, <1>2, <1>3, <1>4 DEF LeftWith
<1>5. CASE v > a  BY <1>1, <1>2, <1>3, <1>5 DEF LeftWith
<1>6. CASE v < a  BY <1>1, <1>2, <1>3, <1>6 DEF LeftWith
<1> QED BY <1>4, <1>5, <1>6, OtpAssumption

LEMMA LeftWithWrites ==
  ASSUME NEW a \in 0..MaxAttempts, NEW v \in 0..MaxAttempts, v < MaxAttempts
  PROVE  LeftWith(v, a) \in Nat /\ Left(v + 1) + 2 <= LeftWith(v, a)
PROOF
<1>1. v + 1 \in 0..MaxAttempts /\ MaxAttempts \in Nat  BY OtpAssumption
<1>2. Left(a) \in Nat /\ Left(v) \in Nat /\ Left(v + 1) \in Nat  BY <1>1, LeftNat
<1>3. Left(v) = Left(v + 1) + 2 * (MaxAttempts - v + 1)  BY LeftNext
<1>4. v >= a => Left(v) <= Left(a)  BY LeftFalls
<1> QED BY <1>1, <1>2, <1>3, <1>4 DEF LeftWith

(* Two calls at a time leave no room for a third.                          *)
LEMMA TwoCallers ==
  ASSUME OtpInv, Concurrency <= 2, NEW c \in Calling, NEW d \in Calling, NEW e \in Calling,
         c # d, d # e, c # e
  PROVE  FALSE
PROOF
<1>1. Calling \subseteq Clients  BY DEF Calling
<1>2. IsFiniteSet(Calling) /\ Cardinality(Calling) \in Nat  BY <1>1, ClientsFinite
<1>3. Cardinality(Calling) <= 2
  BY <1>2, InFlightCount, InstitutionsAssumption DEF OtpInv
<1>4. IsFiniteSet({c}) /\ Cardinality({c}) = 1  BY FS_Singleton
<1>5. IsFiniteSet({c} \cup {d}) /\ Cardinality({c} \cup {d}) = 2  BY <1>4, FS_AddElement
<1>6. IsFiniteSet({c} \cup {d} \cup {e}) /\ Cardinality({c} \cup {d} \cup {e}) = 3
  BY <1>5, FS_AddElement
<1>7. {c} \cup {d} \cup {e} \subseteq Calling  OBVIOUS
<1>8. Cardinality({c} \cup {d} \cup {e}) <= Cardinality(Calling)  BY <1>2, <1>7, FS_Subset
<1> QED BY <1>2, <1>3, <1>6, <1>8

(* A step that leaves the counter of k alone, and no new reader of it.     *)
LEMMA BudgetStays ==
  ASSUME NEW k \in Issued, Budget(k), codes'[k].attempts = codes[k].attempts,
         guesses'[k] = guesses[k],
         \A c \in Counting(k)' : c \in Counting(k) /\ client'[c].attempts = client[c].attempts
  PROVE  Budget(k)'
BY DEF Budget

(* A call that moves on, and does not come to answer a guess.              *)
LEMMA BudgetMoves ==
  ASSUME OtpInv, BudgetInv, NEW c \in Clients, NEW call, client' = [client EXCEPT ![c] = call],
         call.pc # "answer", Issued \subseteq Issued',
         \A k \in Issued : codes'[k].attempts = codes[k].attempts /\ guesses'[k] = guesses[k],
         \A k \in Issued' \ Issued : codes'[k].attempts = 0 /\ guesses'[k] = 0
  PROVE  BudgetInv'
PROOF
<1> SUFFICES ASSUME NEW k \in Issued' PROVE Budget(k)'
  BY DEF BudgetInv
<1>1. \A d \in Clients : client'[d] = IF d = c THEN call ELSE client[d]
  BY DEF OtpInv, OtpTypeOK
<1>2. \A d \in Counting(k)' : d \in Counting(k) /\ client'[d] = client[d]
  BY <1>1 DEF Counting
<1>3. CASE k \in Issued
  BY <1>2, <1>3, BudgetStays DEF BudgetInv
<1>4. CASE k \notin Issued
  <2>1. Counting(k)' = {}  BY <1>2, <1>4, CallHeld DEF Counting, CallInv
  <2>2. 0 \in 0..MaxAttempts  BY OtpAssumption
  <2>3. Left(0) \in Nat  BY <2>2, LeftNat
  <2>4. guesses'[k] = 0 /\ Left(codes'[k].attempts) = Left(0)  BY <1>4
  <2>5. (2 * guesses[k] + Left(codes[k].attempts) <= Left(0))'  BY <2>3, <2>4 DEF Left
  <2> QED BY <2>1, <2>5 DEF Budget
<1> QED BY <1>3, <1>4

LEMMA BudgetRead ==
  ASSUME OtpInv, BudgetInv, NEW c \in Clients, VerifyRead(c)
  PROVE  BudgetInv'
PROOF
<1>1. Issued' = Issued /\ UNCHANGED <<codes, guesses>>  BY DEF VerifyRead, Issued
<1>2. client[c].pc = "verify" /\ client[c] \in Call  BY CallHeld DEF VerifyRead
<1>3. CASE Hangup(c)  BY <1>1, <1>3, BudgetMoves, IdleCall DEF Hangup
<1>4. CASE ~Hangup(c)
  <2>1. PICK l \in Latest(Live(client[c].inst)) :
          client' = [client EXCEPT ![c] =
            [client[c] EXCEPT !.pc = "answer", !.code = l, !.answer = Wrong,
                      !.attempts = codes[l].attempts,
                      !.outcome = Verdict(l, client[c].answer)]]
    BY <1>4 DEF VerifyRead, OtpInv, OtpTypeOK
  <2>2. PICK call : call = [client[c] EXCEPT !.pc = "answer", !.code = l, !.answer = Wrong,
                             !.attempts = codes[l].attempts,
                             !.outcome = Verdict(l, client[c].answer)]
    OBVIOUS
  <2>3. /\ l \in Issued /\ codes[l] \in Code
        /\ call.code = l /\ call.attempts = codes[l].attempts
        /\ call.outcome = Verdict(l, client[c].answer)
    BY <1>2, <2>2 DEF Latest, Live, Issued, OtpInv, OtpTypeOK, Call
  <2>4. \A d \in Clients : client'[d] = IF d = c THEN call ELSE client[d]
    BY <2>1, <2>2 DEF OtpInv, OtpTypeOK
  <2> SUFFICES ASSUME NEW k \in Issued PROVE Budget(k)'
    BY <1>1 DEF BudgetInv
  <2>5. Budget(k)  BY DEF BudgetInv
  <2>6. \A d \in Counting(k)' \ {c} : d \in Counting(k) /\ client'[d] = client[d]
    BY <2>4 DEF Counting
  <2>7. CASE c \notin Counting(k)'
    BY <1>1, <2>5, <2>6, <2>7, BudgetStays
  <2>8. CASE c \in Counting(k)'
    <3>1. k = l /\ call.outcome = "count"  BY <2>3, <2>4, <2>8 DEF Counting
    <3>2. PICK a \in 0..MaxAttempts : a = codes[k].attempts /\ a < MaxAttempts
      BY <2>3, <3>1, OtpAssumption DEF Verdict, Code
    <3>3. client'[c].attempts = a  BY <2>3, <2>4, <3>1, <3>2
    <3>4. \A d \in Counting(k)' \ {c} :
            /\ client[d].attempts \in 0..MaxAttempts /\ client[d].attempts < MaxAttempts
            /\ client'[d].attempts = client[d].attempts
            /\ 2 * guesses[k] + LeftWith(client[d].attempts, a) <= Left(0)
      BY <2>5, <2>6, <3>2, CallHeld DEF Counting, CallInv, Call, Budget
    <3>5. guesses[k] \in Nat  BY DEF Issued, OtpInv, OtpTypeOK
    <3>6. Left(0) \in Nat /\ LeftWith(a, a) = Left(a)
      <4>1. 0 \in 0..MaxAttempts  BY OtpAssumption
      <4> QED BY <3>2, <4>1, LeftNat, LeftWithReads
    <3>7. 2 * guesses[k] + Left(a) <= Left(0)  BY <2>5, <3>2 DEF Budget
    <3>8. \A d \in Counting(k)' :
            2 * guesses[k] + LeftWith(client'[d].attempts, a) <= Left(0)
      BY <3>3, <3>4, <3>6, <3>7
    <3>9. ASSUME NEW d \in Counting(k)' \ {c}
          PROVE  /\ 2 * guesses[k] + 2 + LeftWith(client[d].attempts, a + 1) <= Left(0)
                 /\ 2 * guesses[k] + 2 + LeftWith(a, client[d].attempts + 1) <= Left(0)
      <4>1. PICK v \in 0..MaxAttempts : v = client[d].attempts /\ v < MaxAttempts
        BY <3>4
      <4>2. 2 * guesses[k] + LeftWith(v, a) <= Left(0)  BY <3>4, <4>1
      <4>3. /\ LeftWith(v, a + 1) + 2 <= LeftWith(v, a)
            /\ LeftWith(a, v + 1) + 2 <= LeftWith(v, a)
        BY <3>2, <4>1, LeftWithReads
      <4>4. LeftWith(v, a) \in Nat /\ LeftWith(v, a + 1) \in Nat /\ LeftWith(a, v + 1) \in Nat
        <5>1. a + 1 \in 0..MaxAttempts /\ v + 1 \in 0..MaxAttempts
          BY <3>2, <4>1, OtpAssumption
        <5> QED BY <3>2, <4>1, <5>1, LeftWithWrites
      <4> QED BY <3>5, <3>6, <4>1, <4>2, <4>3, <4>4
    <3>10. \A d, e \in Counting(k)' : d # e =>
             2 * guesses[k] + 2 + LeftWith(client'[e].attempts, client'[d].attempts + 1) <= Left(0)
      <4> SUFFICES ASSUME NEW d \in Counting(k)', NEW e \in Counting(k)', d # e
                   PROVE  2 * guesses[k] + 2 + LeftWith(client'[e].attempts, client'[d].attempts + 1)
                            <= Left(0)
        OBVIOUS
      <4>1. CASE d = c  BY <3>3, <3>4, <3>9, <4>1
      <4>2. CASE e = c  BY <3>3, <3>4, <3>9, <4>2
      <4>3. CASE d # c /\ e # c  BY <2>5, <2>6, <4>3 DEF Budget
      <4> QED BY <4>1, <4>2, <4>3
    <3> QED BY <1>1, <3>2, <3>7, <3>8, <3>10 DEF Budget
  <2> QED BY <2>7, <2>8
<1> QED BY <1>3, <1>4

LEMMA BudgetCommit ==
  ASSUME OtpInv, BudgetInv, Concurrency <= 2, NEW c \in Clients, VerifyCommit(c)
  PROVE  BudgetInv'
PROOF
<1>1. /\ client[c].pc = "answer" /\ c \in Calling /\ client[c] \in Call /\ CallInv(client[c])
      /\ client[c].code \in Issued
  BY CallHeld DEF VerifyCommit, CallInv
<1>2. \A k \in Issued : codes[k] \in Code /\ k \in CodeIds
  BY DEF Issued, OtpInv, OtpTypeOK
<1>3. CASE client[c].outcome # "count"
  <2>1. /\ codes' = [codes EXCEPT ![client[c].code].used = TRUE] /\ guesses' = guesses
        /\ IF client[c].outcome = "open"
           THEN client' = [client EXCEPT ![c].pc = "session"]
           ELSE client' = [client EXCEPT ![c] = Idle]
    BY <1>3 DEF VerifyCommit, Hangup
  <2>2. \A k \in CodeIds : codes'[k] = IF k = client[c].code THEN [codes[k] EXCEPT !.used = TRUE]
                                       ELSE codes[k]
    BY <1>1, <1>2, <2>1 DEF OtpInv, OtpTypeOK
  <2>3. PICK code : code = [codes[client[c].code] EXCEPT !.used = TRUE]  OBVIOUS
  <2>4. code \in Code /\ code.attempts = codes[client[c].code].attempts
    BY <1>1, <1>2, <2>3 DEF Code
  <2>5. Issued' = Issued
    BY <1>1, <2>2, <2>3, <2>4, CodeAssumption DEF Issued
  <2>6. \A k \in Issued : codes'[k].attempts = codes[k].attempts /\ guesses'[k] = guesses[k]
    BY <1>2, <2>1, <2>2, <2>3, <2>4
  <2>7. PICK call : call = IF client[c].outcome = "open" THEN [client[c] EXCEPT !.pc = "session"]
                           ELSE Idle
    OBVIOUS
  <2>8. client' = [client EXCEPT ![c] = call]  BY <2>1, <2>7 DEF OtpInv, OtpTypeOK
  <2>9. call.pc # "answer"  BY <1>1, <2>7, IdleCall DEF Call
  <2> QED BY <2>5, <2>6, <2>8, <2>9, BudgetMoves
<1>4. CASE client[c].outcome = "count"
  <2>1. PICK l \in Issued : l = client[c].code  BY <1>1
  <2>2. PICK v \in 0..MaxAttempts : v = client[c].attempts /\ v < MaxAttempts
    BY <1>1, <1>4 DEF CallInv, Call
  <2>3. /\ codes' = [codes EXCEPT ![l].attempts = v + 1] /\ guesses' = [guesses EXCEPT ![l] = @ + 1]
        /\ client' = [client EXCEPT ![c] = Idle]
    BY <1>4, <2>1, <2>2 DEF VerifyCommit, Hangup
  <2>4. PICK code : code = [codes[l] EXCEPT !.attempts = v + 1]  OBVIOUS
  <2>5. code.attempts = v + 1 /\ code # Absent
    <3>1. v + 1 \in 0..MaxAttempts  BY <2>2, OtpAssumption
    <3>2. code \in Code /\ code.attempts = v + 1  BY <1>2, <2>4, <3>1 DEF Code
    <3> QED BY <3>2, CodeAssumption
  <2>6. /\ \A k \in CodeIds : codes'[k] = IF k = l THEN code ELSE codes[k]
        /\ \A k \in CodeIds : guesses'[k] = IF k = l THEN guesses[l] + 1 ELSE guesses[k]
        /\ \A d \in Clients : client'[d] = IF d = c THEN Idle ELSE client[d]
    BY <1>2, <2>3, <2>4 DEF OtpInv, OtpTypeOK
  <2>7. Issued' = Issued  BY <2>5, <2>6 DEF Issued
  <2> SUFFICES ASSUME NEW k \in Issued PROVE Budget(k)'
    BY <2>7 DEF BudgetInv
  <2>8. Budget(k)  BY DEF BudgetInv
  <2>9. \A d \in Counting(k)' : d \in Counting(k) /\ d # c /\ client'[d] = client[d] /\ d \in Calling
    BY <2>6, IdleCall DEF Counting, Calling
  <2>10. CASE k # l
    <3>1. codes'[k] = codes[k] /\ guesses'[k] = guesses[k]  BY <1>2, <2>6, <2>10
    <3> QED BY <2>8, <2>9, <3>1, BudgetStays
  <2>11. CASE k = l
    <3>1. c \in Counting(k)  BY <1>1, <1>4, <2>1, <2>11 DEF Counting
    <3>2. codes'[k].attempts = v + 1 /\ guesses'[k] = guesses[k] + 1 /\ guesses[k] \in Nat
      BY <1>2, <2>5, <2>6, <2>11 DEF OtpInv, OtpTypeOK
    <3>3. PICK a \in 0..MaxAttempts : a = codes[k].attempts  BY <1>2 DEF Code
    <3>4. 2 * guesses[k] + LeftWith(v, a) <= Left(0)  BY <2>2, <2>8, <3>1, <3>3 DEF Budget
    <3>5. LeftWith(v, a) \in Nat /\ Left(v + 1) + 2 <= LeftWith(v, a)
      BY <2>2, <3>3, LeftWithWrites
    <3>6. Left(0) \in Nat /\ Left(v + 1) \in Nat
      <4>1. 0 \in 0..MaxAttempts /\ v + 1 \in 0..MaxAttempts  BY <2>2, OtpAssumption
      <4> QED BY <4>1, LeftNat
    <3>7. 2 * (guesses[k] + 1) + Left(v + 1) <= Left(0)
      BY <3>2, <3>4, <3>5, <3>6
    <3>8. ASSUME NEW d \in Counting(k)'
          PROVE  2 * (guesses[k] + 1) + LeftWith(client'[d].attempts, v + 1) <= Left(0)
      <4>1. d \in Counting(k) /\ d # c /\ client'[d] = client[d]  BY <2>9
      <4>2. 2 * guesses[k] + 2 + LeftWith(client[d].attempts, v + 1) <= Left(0)
        BY <2>2, <2>8, <3>1, <4>1 DEF Budget
      <4>3. 2 * guesses[k] + 2 = 2 * (guesses[k] + 1)  BY <3>2
      <4> QED BY <4>1, <4>2, <4>3
    <3>9. \A d, e \in Counting(k)' : d = e  BY <1>1, <2>9, TwoCallers
    <3> QED BY <3>2, <3>7, <3>8, <3>9 DEF Budget
  <2> QED BY <2>10, <2>11
<1> QED BY <1>3, <1>4

LEMMA BudgetStep ==
  ASSUME OtpInv, BudgetInv, Concurrency <= 2, [AccessNext]_accessVars
  PROVE  BudgetInv'
PROOF
<1>1. CASE UNCHANGED <<codes, client, guesses>>
  <2>1. Issued' = Issued  BY <1>1 DEF Issued
  <2>2. \A k : Counting(k)' = Counting(k)  BY <1>1 DEF Counting
  <2> QED BY <1>1, <2>1, <2>2, BudgetStays DEF BudgetInv
<1>2. ASSUME NEW c \in Clients, NEW call, client' = [client EXCEPT ![c] = call],
             call.pc # "answer", UNCHANGED <<codes, guesses>>
      PROVE  BudgetInv'
  <2>1. Issued' = Issued  BY <1>2 DEF Issued
  <2> QED BY <1>2, <2>1, BudgetMoves
<1>3. ASSUME NEW c \in Clients, RequestBegin(c) \/ VerifyBegin(c) PROVE BudgetInv'
  <2>1. PICK call : call.pc # "answer" /\ client' = [client EXCEPT ![c] = call]
    <3>1. CASE RequestBegin(c)
      <4>1. PICK i \in Ids : client' = [client EXCEPT ![c] = [Idle EXCEPT !.pc = "request", !.inst = i]]
        BY <3>1 DEF RequestBegin, CallBegins
      <4>2. [Idle EXCEPT !.pc = "request", !.inst = i].pc # "answer"  BY DEF Idle
      <4> QED BY <4>1, <4>2
    <3>2. CASE VerifyBegin(c)
      <4>1. PICK i \in Ids, a \in Issued \cup {Wrong} :
              client' = [client EXCEPT ![c] =
                [Idle EXCEPT !.pc = "verify", !.inst = i, !.answer = a]]
        BY <3>2 DEF VerifyBegin, CallBegins
      <4>2. [Idle EXCEPT !.pc = "verify", !.inst = i, !.answer = a].pc # "answer"  BY DEF Idle
      <4> QED BY <4>1, <4>2
    <3> QED BY <1>3, <3>1, <3>2
  <2> QED BY <1>2, <1>3, <2>1 DEF RequestBegin, VerifyBegin
<1>4. ASSUME NEW c \in Clients, RequestRead(c) PROVE BudgetInv'
  <2>1. PICK last : client' = [client EXCEPT ![c].pc = "insert", ![c].code = last + 1,
                                             ![c].stale = Live(client[c].inst)]
    BY <1>4 DEF RequestRead
  <2>2. PICK call : call = [client[c] EXCEPT !.pc = "insert", !.code = last + 1,
                                             !.stale = Live(client[c].inst)]
    OBVIOUS
  <2>3. client' = [client EXCEPT ![c] = call]  BY <2>1, <2>2 DEF OtpInv, OtpTypeOK
  <2>4. call.pc # "answer"  BY <2>2, CallHeld DEF Call
  <2> QED BY <1>2, <1>4, <2>3, <2>4 DEF RequestRead
<1>5. ASSUME NEW c \in Clients, OpenSession(c) \/ CallFails(c) PROVE BudgetInv'
  BY <1>2, <1>5, IdleCall DEF OpenSession, CallFails, Hangup
<1>6. ASSUME NEW c \in Clients, RequestCommit(c) PROVE BudgetInv'
  <2>1. PICK k \in CodeIds : k = client[c].code /\ codes[k] = Absent
    BY <1>6, CallHeld DEF RequestCommit, CallInv
  <2>2. /\ client' = [client EXCEPT ![c] = Idle] /\ guesses' = guesses
        /\ \A l \in CodeIds :
             codes'[l] = IF l = k
                         THEN [inst |-> client[c].inst, used |-> FALSE, attempts |-> 0,
                               expired |-> FALSE]
                         ELSE IF l \in client[c].stale THEN [codes[l] EXCEPT !.used = TRUE]
                         ELSE codes[l]
    BY <1>6, <2>1 DEF RequestCommit, Hangup
  <2>3. client[c].stale \subseteq Issued  BY <1>6, CallHeld DEF RequestCommit, CallInv
  <2>4. \A l \in Issued : /\ codes[l] \in Code /\ l \in CodeIds /\ l # k
    BY <2>1 DEF Issued, OtpInv, OtpTypeOK
  <2>5. \A l \in Issued : codes'[l] \in Code /\ codes'[l].attempts = codes[l].attempts
    <3> SUFFICES ASSUME NEW l \in Issued
                 PROVE  codes'[l] \in Code /\ codes'[l].attempts = codes[l].attempts
      OBVIOUS
    <3>1. codes'[l] = IF l \in client[c].stale THEN [codes[l] EXCEPT !.used = TRUE]
                      ELSE codes[l]
      BY <2>2, <2>4
    <3> QED BY <2>4, <3>1 DEF Code
  <2>6. Issued \subseteq Issued'  BY <2>4, <2>5, CodeAssumption DEF Issued
  <2>7. Issued' \ Issued \subseteq {k}  BY <2>2, <2>3 DEF Issued
  <2>8. codes'[k].attempts = 0
    <3>1. PICK new : new = [inst |-> client[c].inst, used |-> FALSE, attempts |-> 0,
                            expired |-> FALSE]
      OBVIOUS
    <3>2. codes'[k] = new  BY <2>1, <2>2, <3>1
    <3> QED BY <3>1, <3>2
  <2>9. guesses'[k] = 0  BY <2>1, <2>2 DEF OtpInv
  <2> QED BY <2>2, <2>5, <2>6, <2>7, <2>8, <2>9, BudgetMoves, IdleCall
<1>7. ASSUME NEW k \in CodeIds, Expire(k) PROVE BudgetInv'
  <2>1. k \in Issued /\ codes[k] \in Code /\ UNCHANGED <<client, guesses>>
    BY <1>7 DEF Expire, Issued, OtpInv, OtpTypeOK
  <2>2. \A l \in CodeIds : codes'[l] = IF l = k THEN [codes[k] EXCEPT !.expired = TRUE]
                                       ELSE codes[l]
    BY <1>7 DEF Expire, OtpInv, OtpTypeOK
  <2>3. Issued' \subseteq Issued /\ \A l \in Issued : codes'[l].attempts = codes[l].attempts
    BY <2>1, <2>2 DEF Issued, Code
  <2>4. \A l : Counting(l)' = Counting(l)  BY <2>1 DEF Counting
  <2> QED BY <2>1, <2>3, <2>4, BudgetStays DEF BudgetInv
<1> QED
  BY <1>1, <1>3, <1>4, <1>5, <1>6, <1>7, BudgetRead, BudgetCommit
     DEF AccessNext, Beside, OtpNext, accessVars, otpVars

-----------------------------------------------------------------------------
(* Every value of the state is of its type.                                *)
THEOREM OtpTypeCorrect == AccessSpec => []OtpTypeOK
PROOF
<1>1. InstInv /\ OtpInv => OtpTypeOK  BY DEF OtpInv
<1> QED BY <1>1, AccessInvariance, PTL

(* However requests, failures and deadlocks interleave, a batch intake     *)
(* (admin_batch_intake_institutions, one commit) leaves nothing of itself  *)
(* on record until it has answered, and then all of its list.              *)
THEOREM WholeBatches == AccessSpec => []BatchesAreWhole
PROOF
<1>1. InstInv => BatchesAreWhole
  <2> SUFFICES ASSUME InstInv, NEW r \in Requests, arg[r].kind = "batch"
               PROVE  /\ pc[r] # "done" => \A i \in OnRecord : rows[i].by # r
                      /\ pc[r] = "done" =>
                           \A k \in DOMAIN arg[r].list : Registered(Lower[arg[r].list[k]])
    BY DEF BatchesAreWhole
  <2>1. Local(r, pc[r], arg[r], pend[r])  BY DEF InstInv
  <2>2. pc[r] # "done" => \A i \in OnRecord : rows[i].by # r
    BY <2>1 DEF Local, Committed
  <2>3. pc[r] = "done" => \A k \in DOMAIN arg[r].list : Registered(Lower[arg[r].list[k]])
    BY <2>1 DEF Local, Owed, Flushes, Intake
  <2> QED BY <2>2, <2>3
<1> QED BY <1>1, AccessInvariance, PTL

(* Requests that never overlapped, died or lost a mail have told every     *)
(* institution its status: approve_institution and reject_institution mail *)
(* the decision they have just committed.                                  *)
THEOREM StatusIsTold == AccessSpec => []ToldItsStatus
PROOF
<1>1. InstInv => ToldItsStatus
  BY DEF InstInv, ToldItsStatus, Undisturbed, Telling, InFlight
<1> QED BY <1>1, AccessInvariance, PTL

(* A code of request_institution_otp opens one session while calls do not  *)
(* overlap, and never more than there are callers.                         *)
THEOREM OneSession == AccessSpec => []OneCodeOneSession
PROOF
<1>1. OtpInv => OneCodeOneSession
  <2> SUFFICES ASSUME OtpInv PROVE OneCodeOneSession
    OBVIOUS
  <2>1. ~overlapped => \A k \in CodeIds : sessions[k] <= 1  BY DEF OtpInv, Quiet
  <2>2. ~overlapped => \A i \in Ids : Cardinality(Live(i)) <= 1
    <3> SUFFICES ASSUME ~overlapped, NEW i \in Ids PROVE Cardinality(Live(i)) <= 1
      OBVIOUS
    <3>1. \A k, l \in Live(i) : k = l  BY DEF OtpInv, Quiet, Live
    <3>2. CASE Live(i) = {}  BY <3>2, FS_EmptySet
    <3>3. CASE Live(i) # {}
      <4>1. PICK k : Live(i) = {k}  BY <3>1, <3>3
      <4>2. Cardinality({k}) = 1  BY FS_Singleton
      <4> QED BY <4>1, <4>2
    <3> QED BY <3>2, <3>3
  <2>3. ASSUME NEW k \in CodeIds PROVE sessions[k] <= Cardinality(Clients)
    <3>1. Entering(k) \subseteq Clients  BY DEF Entering
    <3>2. Cardinality(Entering(k)) \in Nat /\ Cardinality(Clients) \in Nat
      BY <3>1, ClientsFinite
    <3>3. sessions[k] \in Nat /\ sessions[k] + Cardinality(Entering(k)) <= Cardinality(Clients)
      BY DEF OtpInv, OtpTypeOK
    <3> QED BY <3>2, <3>3
  <2> QED BY <2>1, <2>2, <2>3 DEF OneCodeOneSession
<1> QED BY <1>1, AccessInvariance, PTL

(* No session is opened for an institution that was rejected before the    *)
(* call began: both endpoints look at its status first.                    *)
THEOREM LockedOut == AccessSpec => RejectedIsLockedOut
PROOF
<1>1. OtpInv /\ [AccessNext]_accessVars =>
        [~overlapped' => \A k \in CodeIds :
           sessions'[k] > sessions[k] => rows[codes[k].inst].status # "REJECTED"]_accessVars
  <2> SUFFICES ASSUME OtpInv, [AccessNext]_accessVars, ~overlapped', NEW k \in CodeIds,
                      sessions'[k] > sessions[k]
               PROVE  rows[codes[k].inst].status # "REJECTED"
    OBVIOUS
  <2>1. sessions[k] \in Nat  BY DEF OtpInv, OtpTypeOK
  <2>2. sessions' # sessions  BY <2>1
  <2>3. PICK c \in Clients : OpenSession(c)
    BY <2>2 DEF AccessNext, Beside, OtpNext, accessVars, otpVars, RequestBegin, RequestRead,
                RequestCommit, VerifyBegin, VerifyRead, VerifyCommit, CallFails, Expire
  <2>4. client[c].pc = "session" /\ ~overlapped /\ k = client[c].code
    BY <2>1, <2>3 DEF OpenSession, OtpInv, OtpTypeOK
  <2>5. codes[k].inst = client[c].inst  BY <2>4, CallHeld DEF CallInv
  <2>6. rows[client[c].inst].status # "REJECTED"  BY <2>4, CallHeld DEF QuietCall
  <2> QED BY <2>5, <2>6
<1> QED BY <1>1, AccessInvariance, PTL DEF AccessSpec, RejectedIsLockedOut

(* Two callers at a time get no more wrong answers out of one code than    *)
(* each value of its counter being written back once allows; callers that  *)
(* do not overlap get the MaxAttempts of verify_institution_otp.           *)
THEOREM GuessesAreFew ==
  ASSUME Concurrency <= 2
  PROVE  AccessSpec => []FewGuesses
PROOF
<1>1. AccessInit => BudgetInv
  BY DEF AccessInit, OtpInit, BudgetInv, Issued
<1>2. OtpInv /\ BudgetInv /\ [AccessNext]_accessVars => BudgetInv'  BY BudgetStep
<1>3. OtpInv /\ BudgetInv => FewGuesses
  <2> SUFFICES ASSUME OtpInv, BudgetInv, NEW k \in CodeIds
               PROVE  guesses[k] <= IF overlapped
                        THEN MaxAttempts + ((MaxAttempts * (MaxAttempts + 1)) \div 2)
                        ELSE MaxAttempts
    BY DEF FewGuesses
  <2>1. guesses[k] \in Nat /\ MaxAttempts \in Nat  BY OtpAssumption DEF OtpInv, OtpTypeOK
  <2>2. PICK s \in Nat : s = MaxAttempts * (MaxAttempts + 1)  BY <2>1
  <2>3. CASE codes[k] = Absent
    <3>1. guesses[k] = 0  BY <2>3 DEF OtpInv
    <3>2. s \div 2 \in Nat  BY <2>2
    <3> QED BY <2>1, <2>2, <3>1, <3>2
  <2>4. CASE codes[k] # Absent
    <3>1. k \in Issued /\ codes[k] \in Code  BY <2>4 DEF Issued, OtpInv, OtpTypeOK
    <3>2. PICK a \in 0..MaxAttempts : a = codes[k].attempts  BY <3>1 DEF Code
    <3>3. 2 * guesses[k] + Left(a) <= Left(0)  BY <3>1, <3>2 DEF BudgetInv, Budget
    <3>4. Left(a) \in Nat  BY LeftNat
    <3>5. Left(0) = 2 * MaxAttempts + s  BY <2>1, <2>2 DEF Left
    <3>6. 2 * guesses[k] <= 2 * MaxAttempts + s  BY <2>1, <2>2, <3>3, <3>4, <3>5
    <3>7. guesses[k] <= MaxAttempts + (s \div 2)  BY <2>1, <2>2, <3>6
    <3>8. ~overlapped => guesses[k] <= MaxAttempts
      BY <2>1, <3>1, <3>2 DEF OtpInv, Quiet
    <3> QED BY <2>2, <3>7, <3>8
  <2> QED BY <2>3, <2>4
<1> QED BY <1>1, <1>2, <1>3, AccessInvariance, PTL DEF AccessSpec
=============================================================================
