-------------------------------- MODULE Rubric --------------------------------
(***************************************************************************)
(* The scoring rubric: how it is seeded when the servers boot (app/main.py,*)
(* app/core/seed.py) and switched while judges submit deductions           *)
(* (app/services/rubric_manager.py, POST /scoring/rubric-mode).            *)
(*                                                                         *)
(*   lifespan, seed              SeedCheck, SeedFlush, SeedCommit          *)
(*   set_rubric_mode             Begin, Season, ReadGroup, Upsert,         *)
(*                               CheckReferences, Drop, Commit             *)
(*   POST, DELETE /scoring/deductions   SubmitBegin, SubmitInsert,         *)
(*                                      SubmitCommit, Undo                 *)
(*                                                                         *)
(* A row of criteria stands for the criterion and its deduction types: they*)
(* come and go together, and a criterion of one name has the same types in *)
(* both modes.  The upserts of one group are one step, because the switches*)
(* that write the same rows go through them in the same order.             *)
(***************************************************************************)
EXTENDS Integers, Sequences, FiniteSets

CONSTANTS
  Servers,    \* processes that boot on one database
  Switches,   \* requests to switch the rubric
  Judges,     \* each has at most one deduction on record
  Marked,     \* bound: the criteria that judges deduct from
  AtOnce,     \* bound on the switches in flight
  Failing,    \* servers and switches that may die half way
  Absent      \* no season, no criterion

ASSUME RubricAssumption ==
  /\ IsFiniteSet(Servers) /\ IsFiniteSet(Switches) /\ IsFiniteSet(Judges)
  /\ AtOnce \in Nat
  /\ Failing \subseteq Servers \cup Switches
  /\ Absent \notin Nat \cup {"OFFICIAL_70_30", "TRADITIONAL_TIERED"}

VARIABLES
  season,    \* rubric_mode of the active season, or Absent
  criteria,  \* the committed rows of scoring_criteria
  nextId,    \* the next primary key
  boot,      \* the seeding of each server
  switch,    \* the transaction of each switch
  judge,     \* the submission each judge is in
  event,     \* the criterion of the judge's committed deduction, or Absent
  mixed,     \* history: a switch that repeats the mode ran beside another
  crossed    \* history: a switch overlapped a submission or another switch
vars == <<season, criteria, nextId, boot, switch, judge, event, mixed, crossed>>

Modes == {"OFFICIAL_70_30", "TRADITIONAL_TIERED"}
Groups == <<"JUZ_10_15_20", "JUZ_30">>
Criteria == <<"Memorization", "Tajweed", "Tafsir", "Saut">>

(* RUBRIC_CONFIGS: the full marks of each criterion, 0 for none.           *)
FullMarks(mode, group) ==
  CASE mode = "OFFICIAL_70_30" -> <<70, 30, 0, 0>>
    [] mode # "OFFICIAL_70_30" /\ group = "JUZ_10_15_20" -> <<50, 30, 0, 20>>
    [] mode # "OFFICIAL_70_30" /\ group = "JUZ_30" -> <<45, 25, 10, 20>>
Place(name) == CHOOSE k \in DOMAIN Criteria : Criteria[k] = name
MarksOf(mode, group, name) == FullMarks(mode, group)[Place(name)]
Desired(mode, group) ==
  {n \in {Criteria[k] : k \in DOMAIN Criteria} : MarksOf(mode, group, n) > 0}

(* New rows in the order of the configuration, with the primary keys from  *)
(* `from' on.                                                              *)
NewRows(mode, group, names, from) ==
  {[id |-> from + Cardinality({m \in names : Place(m) < Place(n)}),
    group |-> group, name |-> n, max |-> MarksOf(mode, group, n)] : n \in names}

NoSwitch == [pc |-> "idle", mode |-> Absent, loaded |-> Absent, locks |-> FALSE,
             group |-> 1, read |-> {}, obsolete |-> <<>>, keep |-> FALSE,
             inserted |-> {}, updated |-> {}, deleted |-> {}]
NoSubmission == [pc |-> "idle", on |-> Absent]

Init ==
  /\ season = Absent /\ criteria = {} /\ nextId = 1
  /\ boot = [v \in Servers |-> "check"]
  /\ switch = [s \in Switches |-> NoSwitch]
  /\ judge = [j \in Judges |-> NoSubmission]
  /\ event = [j \in Judges |-> Absent]
  /\ mixed = FALSE /\ crossed = FALSE

-----------------------------------------------------------------------------
(* seed: nothing is done when a county is on record ...                    *)
SeedCheck(v) ==
  /\ boot[v] = "check"
  /\ boot' = [boot EXCEPT ![v] = IF season = Absent THEN "flush" ELSE "up"]
  /\ UNCHANGED <<season, criteria, nextId, switch, judge, event, mixed, crossed>>

(* ... and the first flush inserts the counties, whose names are UNIQUE: it*)
(* waits for another seed that has inserted them, and fails if that one    *)
(* commits.  lifespan logs the exception and the server comes up.          *)
SeedFlush(v) ==
  /\ boot[v] = "flush"
  /\ \A w \in Servers : boot[w] # "commit"
  /\ boot' = [boot EXCEPT ![v] = IF season = Absent THEN "commit" ELSE "up"]
  /\ UNCHANGED <<season, criteria, nextId, switch, judge, event, mixed, crossed>>

SeededMode == "OFFICIAL_70_30"
SeededCriteria ==
  NewRows(SeededMode, Groups[1], Desired(SeededMode, Groups[1]), 1)
    \cup NewRows(SeededMode, Groups[2], Desired(SeededMode, Groups[2]), 3)
SeedCommit(v) ==
  /\ boot[v] = "commit"
  /\ season' = SeededMode /\ criteria' = SeededCriteria /\ nextId' = 5
  /\ boot' = [boot EXCEPT ![v] = "up"]
  /\ UNCHANGED <<switch, judge, event, mixed, crossed>>
SeedFails(v) ==
  /\ v \in Failing /\ boot[v] # "up"
  /\ boot' = [boot EXCEPT ![v] = "up"]
  /\ UNCHANGED <<season, criteria, nextId, switch, judge, event, mixed, crossed>>

(* Bound: requests come when every server has booted.                      *)
Serving == \A v \in Servers : boot[v] = "up"

-----------------------------------------------------------------------------
Switching == {s \in Switches : switch[s].pc \notin {"idle", "done", "failed"}}
Submitting == {j \in Judges : judge[j].pc # "idle"}
UnderWay(s) == switch[s].pc \notin {"idle", "season", "done", "failed"}

Step(s, changes) == switch' = [switch EXCEPT ![s] = changes]
(* Rollback: what was written is gone, and so are the locks.               *)
Abort(s) == Step(s, [NoSwitch EXCEPT !.pc = "failed"])

(* The season is loaded.                                                   *)
Begin(s) ==
  /\ Serving /\ switch[s].pc = "idle" /\ Cardinality(Switching) < AtOnce
  /\ \E mode \in Modes : Step(s, [NoSwitch EXCEPT !.pc = "season",
                                 !.mode = mode, !.loaded = season])
  /\ crossed' = (crossed \/ Switching # {} \/ Submitting # {})
  /\ UNCHANGED <<season, criteria, nextId, boot, judge, event, mixed>>

\* Mutant: the season is not flushed before the criteria are read.
SeasonUnlocked(s) ==
  LET t == switch[s] IN
  /\ t.pc = "season"
  /\ Step(s, [t EXCEPT !.pc = "read", !.locks = t.loaded # t.mode])
  /\ mixed' = (mixed \/ t.loaded = t.mode)
  /\ UNCHANGED <<season, criteria, nextId, boot, judge, event, crossed>>
(* A mode that differs from the loaded one is an UPDATE, and its row lock  *)
(* is held to the end.  A missing season is an INSERT; its name is UNIQUE. *)
Season(s) ==
  LET t == switch[s]
      writes == t.loaded # t.mode
      others == {q \in Switches \ {s} : UnderWay(q)} IN
  /\ t.pc = "season"
  /\ writes => \A q \in others : ~switch[q].locks
  /\ IF t.loaded = Absent /\ season # Absent THEN Abort(s)
     ELSE Step(s, [t EXCEPT !.pc = "read", !.locks = writes])
  /\ mixed' = \/ mixed
              \/ ~writes /\ (others # {} \/ season # t.mode)
              \/ \E q \in others : ~switch[q].locks
  /\ UNCHANGED <<season, criteria, nextId, boot, judge, event, crossed>>

-----------------------------------------------------------------------------
(* The criteria of one group after the other, as committed: a switch       *)
(* writes each group after it has read it.                                 *)
ReadGroup(s) ==
  LET t == switch[s] IN
  /\ t.pc = "read"
  /\ Step(s, IF t.group > Len(Groups) THEN [t EXCEPT !.pc = "commit"]
             ELSE [t EXCEPT !.pc = "upsert",
                     !.read = {r \in criteria : r.group = Groups[t.group]}])
  /\ UNCHANGED <<season, criteria, nextId, boot, judge, event, mixed, crossed>>

Touched(s) == {r.id : r \in switch[s].updated} \cup switch[s].deleted
LockedByOther(s, ids) ==
  \E q \in Switching \ {s} : Touched(q) \cap ids # {}
IdsOf(rows) == {r.id : r \in rows}

(* The configured criteria are inserted or brought to their full marks.    *)
(* A loaded row that is gone matches no UPDATE: StaleDataError.            *)
Upsert(s) ==
  LET t == switch[s]
      g == Groups[t.group]
      wanted == Desired(t.mode, g)
      named(n) == {r \in t.read : r.name = n}
      last(n) == CHOOSE r \in named(n) : \A q \in named(n) : q.id <= r.id
      missing == {n \in wanted : named(n) = {}}
      changed == {r \in t.read : /\ r.name \in wanted /\ r = last(r.name)
                                /\ r.max # MarksOf(t.mode, g, r.name)}
      old == {r \in t.read : r.name \notin wanted} IN
  /\ t.pc = "upsert" /\ ~LockedByOther(s, IdsOf(changed))
  /\ IF ~(IdsOf(changed) \subseteq IdsOf(criteria))
     THEN Abort(s) /\ UNCHANGED nextId
     ELSE /\ \E order \in [1..Cardinality(old) -> old] :
               /\ \A i, k \in DOMAIN order : i < k => order[i].id < order[k].id
               /\ Step(s, [t EXCEPT !.pc = "references", !.obsolete = order,
                    !.updated = @ \cup {[r EXCEPT !.max = MarksOf(t.mode, g, r.name)] :
                                        r \in changed},
                    !.inserted = @ \cup NewRows(t.mode, g, missing, nextId)])
          /\ nextId' = nextId + Cardinality(missing)
  /\ UNCHANGED <<season, criteria, boot, judge, event, mixed, crossed>>

\* Mutant: the references are not looked for.
CheckReferencesNever(s) ==
  LET t == switch[s] IN
  /\ t.pc = "references"
  /\ Step(s, IF t.obsolete = <<>>
             THEN [t EXCEPT !.pc = "read", !.group = @ + 1, !.read = {}]
             ELSE [t EXCEPT !.pc = "drop"])
  /\ UNCHANGED <<season, criteria, nextId, boot, judge, event, mixed, crossed>>
(* A criterion of the other mode: is one of its types referenced?          *)
CheckReferences(s) ==
  LET t == switch[s] IN
  /\ t.pc = "references"
  /\ Step(s, IF t.obsolete = <<>>
             THEN [t EXCEPT !.pc = "read", !.group = @ + 1, !.read = {}]
             ELSE [t EXCEPT !.pc = "drop",
                     !.keep = \E j \in Judges : event[j] = Head(t.obsolete).id])
  /\ UNCHANGED <<season, criteria, nextId, boot, judge, event, mixed, crossed>>

(* Then it keeps no marks, or else it is deleted: the DELETE waits for a   *)
(* submission that has inserted a reference, and fails on a committed one. *)
Drop(s) ==
  LET t == switch[s]
      r == Head(t.obsolete)
      next == [t EXCEPT !.pc = "references", !.obsolete = Tail(@), !.keep = FALSE] IN
  /\ t.pc = "drop" /\ ~LockedByOther(s, {r.id})
  /\ IF t.keep
     THEN IF r.max # 0 /\ r.id \notin IdsOf(criteria) THEN Abort(s)
          ELSE Step(s, IF r.max = 0 THEN next
                       ELSE [next EXCEPT !.updated = @ \cup {[r EXCEPT !.max = 0]}])
     ELSE /\ \A j \in Judges : ~(judge[j].pc = "commit" /\ judge[j].on = r.id)
          /\ IF \E j \in Judges : event[j] = r.id THEN Abort(s)
             ELSE Step(s, [next EXCEPT !.deleted = @ \cup {r.id}])
  /\ UNCHANGED <<season, criteria, nextId, boot, judge, event, mixed, crossed>>

(* COMMIT; the broadcast and the audit entry that follow change no row.    *)
Commit(s) ==
  LET t == switch[s] IN
  /\ t.pc = "commit"
  /\ season' = IF t.locks THEN t.mode ELSE season
  /\ criteria' = {r \in criteria : r.id \notin Touched(s)}
                   \cup t.updated \cup t.inserted
  /\ Step(s, [NoSwitch EXCEPT !.pc = "done"])
  /\ UNCHANGED <<nextId, boot, judge, event, mixed, crossed>>

SwitchFails(s) ==
  /\ s \in Failing \cap Switching /\ Abort(s)
  /\ crossed' = TRUE
  /\ UNCHANGED <<season, criteria, nextId, boot, judge, event, mixed>>

-----------------------------------------------------------------------------
(* submit_deduction: the deduction type is loaded (404 if it is gone) ...  *)
SubmitBegin(j) ==
  /\ Serving /\ judge[j].pc = "idle" /\ event[j] = Absent
  /\ \E r \in {q \in criteria : q.name \in Marked} :
       judge' = [judge EXCEPT ![j] = [pc |-> "insert", on |-> r.id]]
  /\ crossed' = (crossed \/ Switching # {})
  /\ UNCHANGED <<season, criteria, nextId, boot, switch, event, mixed>>

(* ... and the INSERT refers to it: it waits for a switch that has deleted *)
(* it, and fails when it is gone.                                          *)
SubmitInsert(j) ==
  /\ judge[j].pc = "insert"
  /\ \A s \in Switching : judge[j].on \notin switch[s].deleted
  /\ judge' = [judge EXCEPT ![j] = IF @.on \in IdsOf(criteria)
                                  THEN [@ EXCEPT !.pc = "commit"] ELSE NoSubmission]
  /\ UNCHANGED <<season, criteria, nextId, boot, switch, event, mixed, crossed>>

(* The request commits, or fails in what follows the insert.               *)
SubmitCommit(j) ==
  /\ judge[j].pc = "commit"
  /\ event' = [event EXCEPT ![j] = judge[j].on] \/ UNCHANGED event
  /\ judge' = [judge EXCEPT ![j] = NoSubmission]
  /\ UNCHANGED <<season, criteria, nextId, boot, switch, mixed, crossed>>

Undo(j) ==
  /\ event[j] # Absent /\ event' = [event EXCEPT ![j] = Absent]
  /\ crossed' = (crossed \/ Switching # {})
  /\ UNCHANGED <<season, criteria, nextId, boot, switch, judge, mixed>>

Next ==
  \/ \E v \in Servers : SeedCheck(v) \/ SeedFlush(v) \/ SeedCommit(v) \/ SeedFails(v)
  \/ \E s \in Switches :
       \/ Begin(s) \/ Season(s) \/ ReadGroup(s) \/ Upsert(s)
       \/ CheckReferences(s) \/ Drop(s) \/ Commit(s) \/ SwitchFails(s)
  \/ \E j \in Judges : SubmitBegin(j) \/ SubmitInsert(j) \/ SubmitCommit(j) \/ Undo(j)
Spec == Init /\ [][Next]_vars
-----------------------------------------------------------------------------
TypeOK ==
  /\ season \in Modes \cup {Absent}
  /\ criteria \subseteq [id: Nat, group: {"JUZ_10_15_20", "JUZ_30"},
                         name: {Criteria[k] : k \in DOMAIN Criteria}, max: Nat]
  /\ nextId \in Nat /\ boot \in [Servers -> {"check", "flush", "commit", "up"}]
  /\ \A j \in Judges : event[j] \in IdsOf(criteria) \cup {Absent}

(* The rubric on record is whole: each group has one row for each criterion*)
(* of the season's mode, with its full marks, and what is left of the other*)
(* mode has none.  Booting servers and switches that change the mode never *)
(* break that, nor do submissions.  A switch to the mode already on record *)
(* takes no lock: beside another switch it may leave the other rubric.     *)
WholeRubric ==
  season # Absent /\ ~mixed =>
    \A g \in DOMAIN Groups, k \in DOMAIN Criteria :
      LET marks == MarksOf(season, Groups[g], Criteria[k])
          here == {r \in criteria : r.group = Groups[g] /\ r.name = Criteria[k]} IN
      /\ Cardinality(here) <= 1 /\ \A r \in here : r.max = marks
      /\ marks > 0 => here # {}

(* set_rubric_mode keeps what deductions refer to, so that a switch never  *)
(* runs into the foreign key: it fails only when it meets a request.       *)
SwitchFailsOnlyByRace ==
  \A s \in Switches : switch[s].pc = "failed" => crossed
===============================================================================
