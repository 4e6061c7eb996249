------------------------------ MODULE Questions ------------------------------
(***************************************************************************)
(* The questions a contestant draws in a round: a row of round_questions   *)
(* for each number, with the envelope, the sura and the verses             *)
(* (app/crud/scoring.py).                                                  *)
(*                                                                         *)
(*   POST /scoring/rounds/{r}/students/{s}/questions      Find, Save       *)
(*   GET  the same                                        Listed           *)
(*                                                                         *)
(* Each request names some of the columns.  The row is looked up and then  *)
(* inserted or updated; no constraint keeps two requests from inserting.   *)
(***************************************************************************)
EXTENDS Integers, FiniteSets, SequencesExt

CONSTANTS
  Numbers,      \* the question numbers of the student
  Columns,      \* envelope_number, surah_name, ayah_from, ayah_to
  Values,       \* what a column may hold
  Requests,     \* one id for each request
  AtOnce,       \* bound on the requests in flight
  Unset         \* NULL in a row, a column not given in a request

QuestionsAssumption ==
  IsFiniteSet(Requests) /\ AtOnce \in Nat /\ Unset \notin Values

VARIABLES
  rows,      \* number |-> the committed rows, in that order
  pc,        \* the next statement of each request
  req,       \* what each request was given, and the row it has loaded
  last,      \* history: number |-> column |-> the value that was saved last
  crossed    \* history: <<number, column>> that two requests in flight gave,
             \* <<number, Unset>> where two were in flight without a row

vars == <<rows, pc, req, last, crossed>>

Contents == [Columns -> Values \cup {Unset}]
Empty == [c \in Columns |-> Unset]
NoReq == [number |-> Unset, given |-> Empty, loaded |-> Empty]
InFlight == {r \in Requests : pc[r] \in {"insert", "update"}}

Init ==
  /\ rows = [n \in Numbers |-> <<>>]
  /\ pc = [r \in Requests |-> "idle"] /\ req = [r \in Requests |-> NoReq]
  /\ last = [n \in Numbers |-> Empty] /\ crossed = {}

-----------------------------------------------------------------------------
Given(r) == {c \in Columns : req[r].given[c] # Unset}

(* The SELECT.  scalar_one_or_none raises if there are two rows.           *)
Find(r) ==
  /\ pc[r] = "idle" /\ Cardinality(InFlight) < AtOnce
  /\ \E n \in Numbers, given \in Contents :
       LET others == {q \in InFlight : req[q].number = n}
           stored == rows[n]
       IN /\ CASE stored = <<>>      -> /\ pc' = [pc EXCEPT ![r] = "insert"]
                                        /\ req' = [req EXCEPT ![r] =
                                             [number |-> n, given |-> given, loaded |-> Empty]]
               [] Len(stored) = 1    -> /\ pc' = [pc EXCEPT ![r] = "update"]
                                        /\ req' = [req EXCEPT ![r] =
                                             [number |-> n, given |-> given, loaded |-> stored[1]]]
               [] Len(stored) > 1    -> pc' = [pc EXCEPT ![r] = "failed"] /\ UNCHANGED req
          /\ crossed' = crossed
               \cup {<<n, c>> : c \in {d \in UNION {Given(q) : q \in others} : given[d] # Unset}}
               \cup {<<n, Unset>> : q \in {o \in others : stored = <<>>}}
  /\ UNCHANGED <<rows, last>>

\* Mutant: the whole row is written.
SavedWhole(q, row) == [c \in Columns |-> IF q.given[c] = Unset THEN q.loaded[c] ELSE q.given[c]]
(* An UPDATE of the columns that are given and differ from what was loaded.*)
Saved(q, row) == [c \in Columns |-> IF q.given[c] \in {Unset, q.loaded[c]} THEN row[c]
                                    ELSE q.given[c]]

(* The flush, the refresh and the commit.                                  *)
Save(r) ==
  /\ r \in InFlight
  /\ LET q == req[r]  n == q.number  stored == rows[n] IN
     /\ rows' = [rows EXCEPT ![n] = IF pc[r] = "insert" THEN Append(stored, q.given)
                                    ELSE [stored EXCEPT ![1] = Saved(q, stored[1])]]
     /\ last' = [last EXCEPT ![n] = [c \in Columns |-> IF c \in Given(r) THEN q.given[c] ELSE @[c]]]
  /\ pc' = [pc EXCEPT ![r] = "done"] /\ req' = [req EXCEPT ![r] = NoReq]
  /\ UNCHANGED crossed

Fail(r) ==
  /\ r \in InFlight
  /\ pc' = [pc EXCEPT ![r] = "failed"] /\ req' = [req EXCEPT ![r] = NoReq]
  /\ UNCHANGED <<rows, last, crossed>>

Next == \E r \in Requests : Find(r) \/ Save(r) \/ Fail(r)

Spec == Init /\ [][Next]_vars
-----------------------------------------------------------------------------
(* get_round_questions: the rows of all numbers, in their order.           *)
Listed(n) == ToSet(rows[n])

TypeOK ==
  /\ rows \in [Numbers -> UNION {[1..k -> Contents] : k \in 0..AtOnce}]
  /\ pc \in [Requests -> {"idle", "insert", "update", "done", "failed"}]
  /\ crossed \subseteq Numbers \X (Columns \cup {Unset})

(* A question is listed once, and each of its columns holds what was saved *)
(* last, whatever other columns were saved at the same time; but for a     *)
(* question that two requests saved first, and a column that two gave at   *)
(* the same time.                                                          *)
SavedColumnsAreKept ==
  \A n \in Numbers :
    <<n, Unset>> \in crossed
    \/ /\ Len(rows[n]) <= 1
       /\ \A row \in Listed(n), c \in Columns : <<n, c>> \in crossed \/ row[c] = last[n][c]
==============================================================================
