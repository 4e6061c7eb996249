----------------------------- MODULE RubricProofs -----------------------------
(***************************************************************************)
(* The rubric on record is whole and a switch fails only when it meets     *)
(* another request, for any number of servers, switches and judges.        *)
(***************************************************************************)
EXTENDS Rubric, FiniteSetTheorems, TLAPS

GroupNames == {"JUZ_10_15_20", "JUZ_30"}
Names == {"Memorization", "Tajweed", "Tafsir", "Saut"}
Row == [id: Nat, group: GroupNames, name: Names, max: Nat]
FinRows == {S \in SUBSET Row : IsFiniteSet(S)}
SwitchState ==
  [pc: {"idle", "season", "read", "upsert", "references", "drop", "commit", "done", "failed"},
   mode: Modes \cup {Absent}, loaded: Modes \cup {Absent}, locks: BOOLEAN, group: 1..3,
   read: FinRows, obsolete: Seq(Row), keep: BOOLEAN,
   inserted: FinRows, updated: FinRows, deleted: SUBSET Nat]

(* What a switch holds, and the tables, whatever has met.                  *)
Held(t) ==
  /\ t.pc \notin {"idle", "done", "failed"} => t.mode \in Modes
  /\ t.pc = "season" => t.group = 1 /\ t.inserted = {} /\ t.updated = {} /\ t.deleted = {}
  /\ t.pc \in {"upsert", "references", "drop"} => t.group \in {1, 2}
  /\ t.pc = "drop" => t.obsolete # <<>>
RubricTypes ==
  /\ season \in Modes \cup {Absent} /\ criteria \in FinRows /\ nextId \in Nat
  /\ switch \in [Switches -> SwitchState]
  /\ Serving \/ \A s \in Switches : switch[s].pc = "idle"
  /\ \A s \in Switches : Held(switch[s])

(* Rows with keys of their own, one for a criterion of a group, with the   *)
(* marks of the mode.                                                      *)
Clean(S, next) ==
  \A r, q \in S : /\ r.id < next /\ (r.id = q.id => r = q)
                  /\ r.group = q.group /\ r.name = q.name => r = q
Filled(S, mode, g) ==
  \A n \in Names : MarksOf(mode, g, n) > 0 => \E r \in S : r.group = g /\ r.name = n
Synced(S, mode, g) ==
  Filled(S, mode, g) /\ \A r \in S : r.group = g => r.max = MarksOf(mode, g, r.name)
Whole(rows, mode, next) ==
  /\ Clean(rows, next) /\ (mode = Absent => rows = {})
  /\ mode # Absent => \A g \in GroupNames : Synced(rows, mode, g)

(* What a switch sees: the groups behind it are in its mode, those ahead of*)
(* it as on record, and the one it is at but for the obsolete criteria.    *)
Written(t) == {r.id : r \in t.updated} \cup t.deleted
View(t, rows) == {r \in rows : r.id \notin Written(t)} \cup t.updated \cup t.inserted
Ahead(t, rows, g) ==
  /\ \A r \in rows : r.group = g => r.id \notin Written(t)
  /\ \A r \in t.updated \cup t.inserted : r.group # g
Dropping(t, rows, g) ==
  /\ Filled(View(t, rows), t.mode, g)
  /\ \A r \in View(t, rows) : r.group = g => \/ r.max = MarksOf(t.mode, g, r.name)
                                            \/ \E i \in DOMAIN t.obsolete : t.obsolete[i] = r
  /\ \A i \in DOMAIN t.obsolete :
       LET r == t.obsolete[i] IN
       /\ r \in rows /\ r.group = g /\ r.id \notin Written(t) /\ MarksOf(t.mode, g, r.name) = 0
       /\ \A k \in DOMAIN t.obsolete : t.obsolete[k].id = r.id => k = i
Progress(t, rows, mode, next) ==
  /\ Clean(View(t, rows), next) /\ \A r \in t.inserted, q \in rows : r.id # q.id
  /\ \A h \in {1, 2} :
       /\ h < t.group => Synced(View(t, rows), t.mode, Groups[h])
       /\ h > t.group \/ (h = t.group /\ t.pc \in {"read", "upsert"}) => Ahead(t, rows, Groups[h])
       /\ h = t.group /\ t.pc = "upsert" => t.read = {r \in rows : r.group = Groups[h]}
       /\ h = t.group /\ t.pc \in {"references", "drop"} => Dropping(t, rows, Groups[h])
  /\ t.pc = "commit" => t.group = 3
  /\ t.locks \/ mode = t.mode

(* A switch that repeats no mode beside another is alone.                  *)
RecordInv ==
  ~mixed => /\ Whole(criteria, season, nextId)
            /\ \A s \in Switches : UnderWay(s) => Progress(switch[s], criteria, season, nextId)
            /\ \A s, q \in Switches : UnderWay(s) /\ UnderWay(q) => s = q

(* A switch that has met no request works on the committed rows.           *)
Unmet(t, rows, mode, marked) ==
  /\ t.pc # "failed" /\ (t.pc = "season" => t.loaded = mode)
  /\ t.pc = "upsert" => t.read \subseteq rows
  /\ t.pc \in {"references", "drop"} => \A i \in DOMAIN t.obsolete : t.obsolete[i] \in rows
  /\ t.pc = "drop" => (t.keep <=> \E j \in Judges : marked[j] = Head(t.obsolete).id)
RaceInv ==
  ~crossed => /\ \A s \in Switches : Unmet(switch[s], criteria, season, event)
              /\ \A s, q \in Switching : s = q
              /\ Switching = {} \/ Submitting = {}

RubricInv == RubricTypes /\ RecordInv /\ RaceInv

-----------------------------------------------------------------------------
(* The configuration, and the rows that are made from it.                  *)
LEMMA Places ==
  /\ {Criteria[k] : k \in DOMAIN Criteria} = Names
  /\ \A n \in Names : Place(n) \in 1..4 /\ Criteria[Place(n)] = n
<1>1. DOMAIN Criteria = 1..4 /\ Criteria[1] = "Memorization" /\ Criteria[2] = "Tajweed"
      /\ Criteria[3] = "Tafsir" /\ Criteria[4] = "Saut"
  BY DEF Criteria
<1>2. \A k \in 1..4 : k = 1 \/ k = 2 \/ k = 3 \/ k = 4
  OBVIOUS
<1>3. \A n \in Names : \E k \in DOMAIN Criteria : Criteria[k] = n
  BY <1>1, <1>2 DEF Names
<1>4. \A k \in DOMAIN Criteria : Criteria[k] \in Names
  BY <1>1, <1>2 DEF Names
<1>5. \A n \in Names : Place(n) \in DOMAIN Criteria /\ Criteria[Place(n)] = n
  BY <1>3 DEF Place
<1> QED BY <1>1, <1>3, <1>4, <1>5

LEMMA Marks ==
  ASSUME NEW mode, NEW g \in GroupNames, NEW n \in Names PROVE MarksOf(mode, g, n) \in Nat
<1>1. \A k \in 1..4 : k = 1 \/ k = 2 \/ k = 3 \/ k = 4
  OBVIOUS
<1>2. \A k \in 1..4 : FullMarks(mode, g)[k] \in Nat
  BY <1>1 DEF FullMarks, GroupNames
<1> QED BY <1>2, Places DEF MarksOf

LEMMA NamesFinite ==
  ASSUME NEW S \in SUBSET Names PROVE IsFiniteSet(S) /\ Cardinality(S) \in Nat
<1>1. IsFiniteSet({"Memorization", "Tajweed", "Tafsir", "Saut"})
  <2>1. IsFiniteSet({"Memorization"})
    BY FS_Singleton
  <2>2. IsFiniteSet({"Memorization"} \cup {"Tajweed"})
    BY <2>1, FS_AddElement
  <2>3. IsFiniteSet({"Memorization"} \cup {"Tajweed"} \cup {"Tafsir"})
    BY <2>2, FS_AddElement
  <2>4. IsFiniteSet({"Memorization"} \cup {"Tajweed"} \cup {"Tafsir"} \cup {"Saut"})
    BY <2>3, FS_AddElement
  <2>5. {"Memorization"} \cup {"Tajweed"} \cup {"Tafsir"} \cup {"Saut"}
          = {"Memorization", "Tajweed", "Tafsir", "Saut"}
    OBVIOUS
  <2> QED BY <2>4, <2>5
<1>2. IsFiniteSet(S)
  BY <1>1, FS_Subset DEF Names
<1> QED BY <1>2, FS_CardinalityType

(* Finite sets of rows.                                                    *)
LEMMA RowSets ==
  /\ {} \in FinRows
  /\ \A S \in FinRows : S \subseteq Row /\ \A U \in SUBSET S : U \in FinRows
  /\ \A S, U \in FinRows : S \cup U \in FinRows
<1>1. {} \in FinRows
  BY FS_EmptySet DEF FinRows
<1>2. \A S \in FinRows : S \subseteq Row /\ \A U \in SUBSET S : U \in FinRows
  BY FS_Subset DEF FinRows
<1>3. \A S, U \in FinRows : S \cup U \in FinRows
  BY FS_Union DEF FinRows
<1> QED BY <1>1, <1>2, <1>3

LEMMA RowImage ==
  ASSUME NEW S, IsFiniteSet(S), NEW f \in [S -> Row]
  PROVE  {f[x] : x \in S} \in FinRows
<1>1. f \in Surjection(S, {f[x] : x \in S})
  BY DEF Surjection
<1> QED BY <1>1, FS_Surjection DEF FinRows

(* The new rows have keys of their own from the next one on.               *)
LEMMA NewRowsAre ==
  ASSUME NEW mode, NEW g \in GroupNames, NEW names \in SUBSET Names, NEW from \in Nat
  PROVE  /\ NewRows(mode, g, names, from) \in FinRows
         /\ \A r \in NewRows(mode, g, names, from) :
              /\ from <= r.id /\ r.id < from + Cardinality(names)
              /\ r.group = g /\ r.name \in names /\ r.max = MarksOf(mode, g, r.name)
         /\ \A n \in names : \E r \in NewRows(mode, g, names, from) : r.name = n
         /\ \A r, q \in NewRows(mode, g, names, from) :
              r.id = q.id \/ r.name = q.name => r = q
<1> DEFINE B(n) == {m \in names : Place(m) < Place(n)}
           R(n) == [id |-> from + Cardinality(B(n)), group |-> g, name |-> n,
                    max |-> MarksOf(mode, g, n)]
<1>1. NewRows(mode, g, names, from) = {R(n) : n \in names}
  BY DEF NewRows
<1>2. \A n \in Names : Place(n) \in 1..4
  BY Places
<1>3. ASSUME NEW n \in names
      PROVE  /\ Cardinality(B(n)) \in Nat /\ Cardinality(B(n)) < Cardinality(names)
             /\ Cardinality(names) \in Nat
  <2>1. /\ IsFiniteSet(B(n)) /\ Cardinality(B(n)) \in Nat
        /\ IsFiniteSet(names) /\ Cardinality(names) \in Nat
    BY NamesFinite
  <2>2. n \notin B(n) /\ B(n) \subseteq names
    BY <1>2
  <2>3. Cardinality(B(n)) <= Cardinality(names)
        /\ (Cardinality(B(n)) = Cardinality(names) => B(n) = names)
    BY <2>1, <2>2, FS_Subset
  <2> HIDE DEF B
  <2> QED BY <2>1, <2>2, <2>3
<1>4. ASSUME NEW m \in names, NEW n \in names, Place(m) < Place(n)
      PROVE  Cardinality(B(m)) < Cardinality(B(n))
  <2>1. IsFiniteSet(B(n)) /\ Cardinality(B(n)) \in Nat /\ Cardinality(B(m)) \in Nat
    BY NamesFinite
  <2>2. B(m) \subseteq B(n) /\ m \in B(n) /\ m \notin B(m)
    BY <1>2, <1>4
  <2>3. Cardinality(B(m)) <= Cardinality(B(n))
        /\ (Cardinality(B(m)) = Cardinality(B(n)) => B(m) = B(n))
    BY <2>1, <2>2, FS_Subset
  <2> HIDE DEF B
  <2> QED BY <2>1, <2>2, <2>3
<1>5. ASSUME NEW m \in names, NEW n \in names, Cardinality(B(m)) = Cardinality(B(n))
      PROVE  m = n
  <2>1. Place(m) \in 1..4 /\ Place(n) \in 1..4
        /\ Criteria[Place(m)] = m /\ Criteria[Place(n)] = n
    BY Places
  <2>2. ~(Place(m) < Place(n)) /\ ~(Place(n) < Place(m))
    <3> HIDE DEF B
    <3>1. Cardinality(B(m)) \in Nat /\ Cardinality(B(m)) = Cardinality(B(n))
      BY <1>3, <1>5
    <3>2. Place(m) < Place(n) => Cardinality(B(m)) < Cardinality(B(n))
      BY <1>4
    <3>3. Place(n) < Place(m) => Cardinality(B(n)) < Cardinality(B(m))
      BY <1>4
    <3> QED BY <3>1, <3>2, <3>3
  <2>3. Place(m) = Place(n)
    BY <2>1, <2>2
  <2> QED BY <2>1, <2>3
<1>6. \A n \in names : MarksOf(mode, g, n) \in Nat
  BY Marks
<1> HIDE DEF B
<1>7. \A n \in names : R(n) \in Row /\ from <= R(n).id /\ R(n).id < from + Cardinality(names)
  BY <1>3, <1>6 DEF Row
<1>8. \A n \in names : R(n).name = n /\ R(n).group = g /\ R(n).max = MarksOf(mode, g, n)
                       /\ R(n).id = from + Cardinality(B(n))
  OBVIOUS
<1>9. ASSUME NEW m \in names, NEW n \in names, R(m).id = R(n).id PROVE m = n
  <2>1. Cardinality(B(m)) = Cardinality(B(n))
    BY <1>3, <1>8, <1>9
  <2> QED BY <1>5, <2>1
<1> HIDE DEF R
<1>10. NewRows(mode, g, names, from) \in FinRows
  <2> DEFINE F == [n \in names |-> R(n)]
  <2>1. F \in [names -> Row] /\ NewRows(mode, g, names, from) = {F[n] : n \in names}
    BY <1>1, <1>7
  <2>2. IsFiniteSet(names)
    BY NamesFinite
  <2> HIDE DEF F
  <2> QED BY <2>1, <2>2, RowImage
<1> QED BY <1>1, <1>7, <1>8, <1>9, <1>10

LEMMA GroupsAre == Groups[1] \in GroupNames /\ Groups[2] \in GroupNames /\ Groups[1] # Groups[2]
                   /\ GroupNames = {Groups[1], Groups[2]} /\ Len(Groups) = 2
BY DEF Groups, GroupNames

(* The obsolete criteria of a group, in the order of their keys.           *)
LEMMA OneByOne ==
  ASSUME NEW S \in FinRows, NEW order \in [1..Cardinality(S) -> S],
         \A i, k \in DOMAIN order : i < k => order[i].id < order[k].id
  PROVE  /\ order \in Seq(S) /\ \A r \in S : \E i \in DOMAIN order : order[i] = r
         /\ \A i, k \in DOMAIN order : order[i].id = order[k].id => k = i
<1>1. IsFiniteSet(S) /\ Cardinality(S) \in Nat
  BY FS_CardinalityType DEF FinRows
<1>2. IsFiniteSet(1..Cardinality(S)) /\ Cardinality(1..Cardinality(S)) = Cardinality(S)
  BY <1>1, FS_Interval
<1>3. \A i, k \in 1..Cardinality(S) : order[i].id = order[k].id => k = i
  <2>1. \A i \in 1..Cardinality(S) : order[i].id \in Nat
    BY DEF FinRows, Row
  <2> QED BY <1>1, <2>1
<1>4. order \in Injection(1..Cardinality(S), S)
  BY <1>3 DEF Injection, IsInjective
<1>5. order \in Surjection(1..Cardinality(S), S)
  BY <1>1, <1>2, <1>4, FS_Injection
<1> QED BY <1>1, <1>3, <1>5 DEF Surjection

-----------------------------------------------------------------------------
(* A step of one switch, and what it leaves to the others.                 *)
LEMMA SwitchMoves ==
  ASSUME RubricTypes, NEW s \in Switches, NEW t, switch' = [switch EXCEPT ![s] = t]
  PROVE  /\ switch'[s] = t /\ \A q \in Switches \ {s} : switch'[q] = switch[q]
         /\ t \in SwitchState => switch' \in [Switches -> SwitchState]
         /\ \A q \in Switches \ {s} : /\ UnderWay(q)' <=> UnderWay(q)
                                      /\ q \in Switching' <=> q \in Switching
<1>1. /\ switch'[s] = t /\ \A q \in Switches \ {s} : switch'[q] = switch[q]
      /\ t \in SwitchState => switch' \in [Switches -> SwitchState]
  BY DEF RubricTypes
<1> QED BY <1>1 DEF UnderWay, Switching

LEMMA SwitchFacts ==
  ASSUME RubricInv, NEW s \in Switching
  PROVE  /\ s \in Switches /\ switch[s] \in SwitchState /\ switch[s].mode \in Modes
         /\ RubricTypes /\ Serving /\ Held(switch[s])
         /\ ~crossed => /\ Unmet(switch[s], criteria, season, event)
                        /\ Submitting = {} /\ Switching = {s}
         /\ ~mixed => Whole(criteria, season, nextId)
         /\ ~mixed /\ UnderWay(s) => /\ Progress(switch[s], criteria, season, nextId)
                                     /\ \A q \in Switches : UnderWay(q) => q = s
<1>1. s \in Switches /\ RubricTypes /\ switch[s].pc \notin {"idle", "done", "failed"}
  BY DEF RubricInv, Switching
<1>2. switch[s] \in SwitchState /\ Serving /\ Held(switch[s]) /\ switch[s].mode \in Modes
  BY <1>1 DEF RubricTypes, Held
<1>3. ~crossed => /\ Unmet(switch[s], criteria, season, event)
                  /\ Submitting = {} /\ Switching = {s}
  BY <1>1 DEF RubricInv, RaceInv
<1>4. ~mixed => /\ Whole(criteria, season, nextId)
                /\ UnderWay(s) => /\ Progress(switch[s], criteria, season, nextId)
                                  /\ \A q \in Switches : UnderWay(q) => q = s
  BY <1>1 DEF RubricInv, RecordInv
<1> QED BY <1>1, <1>2, <1>3, <1>4

LEMMA SwitchSteps ==
  ASSUME RubricInv, NEW s \in Switching, NEW t \in SwitchState, switch' = [switch EXCEPT ![s] = t],
         UNCHANGED <<season, criteria, boot, judge, event>>, Held(t),
         nextId' = nextId \/ (nextId' \in Nat /\ nextId <= nextId' /\ UnderWay(s)'),
         mixed => mixed', crossed => crossed',
         ~mixed' /\ UnderWay(s)' => /\ Progress(t, criteria, season, nextId')
                                    /\ \A q \in Switches : UnderWay(q) => q = s,
         ~crossed' => Unmet(t, criteria, season, event)
  PROVE  RubricInv'
<1>1. s \in Switches /\ RubricTypes /\ Serving
  BY SwitchFacts
<1>2. /\ switch'[s] = t /\ \A q \in Switches \ {s} : switch'[q] = switch[q]
      /\ switch' \in [Switches -> SwitchState]
      /\ \A q \in Switches \ {s} : /\ UnderWay(q)' <=> UnderWay(q)
                                   /\ q \in Switching' <=> q \in Switching
  BY <1>1, SwitchMoves
<1>3. Switching' \subseteq Switching
  <2>1. Switching' \subseteq Switches
    BY DEF Switching
  <2> QED BY <1>2, <2>1
<1>4. RubricTypes'
  <2>1. Serving'
    BY <1>1 DEF Serving
  <2> QED BY <1>1, <1>2, <2>1 DEF RubricTypes
<1>5. RaceInv'
  <2>1. Submitting' = Submitting
    BY DEF Submitting
  <2> QED BY <1>2, <1>3, <2>1 DEF RubricInv, RaceInv
<1>6. RecordInv'
  <2> SUFFICES ASSUME ~mixed'
               PROVE  /\ Whole(criteria, season, nextId')
                      /\ \A q \in Switches :
                           UnderWay(q)' => Progress(switch'[q], criteria, season, nextId')
                      /\ \A p, q \in Switches : UnderWay(p)' /\ UnderWay(q)' => p = q
    BY DEF RecordInv
  <2>1. /\ Whole(criteria, season, nextId)
        /\ \A q \in Switches : UnderWay(q) => Progress(switch[q], criteria, season, nextId)
        /\ \A p, q \in Switches : UnderWay(p) /\ UnderWay(q) => p = q
    BY DEF RubricInv, RecordInv
  <2>2. Whole(criteria, season, nextId')
    <3>1. \A r \in criteria : r.id \in Nat
      BY <1>1 DEF RubricTypes, FinRows, Row
    <3>2. nextId \in Nat /\ nextId' \in Nat /\ nextId <= nextId'
      BY <1>1 DEF RubricTypes
    <3>3. Clean(criteria, nextId')
      BY <2>1, <3>1, <3>2 DEF Whole, Clean
    <3> QED BY <2>1, <3>3 DEF Whole
  <2>3. CASE UnderWay(s)'
    BY <1>2, <2>2, <2>3
  <2>4. CASE ~UnderWay(s)'
    BY <1>1, <1>2, <2>1, <2>2, <2>4
  <2> QED BY <2>3, <2>4
<1> QED BY <1>4, <1>5, <1>6 DEF RubricInv

LEMMA NoSwitchType == NoSwitch \in SwitchState
BY RowSets DEF NoSwitch, SwitchState, Modes

LEMMA RubricInitially == Init => RubricInv
<1> SUFFICES ASSUME Init PROVE RubricInv
  OBVIOUS
<1>1. \A s \in Switches : switch[s] = NoSwitch /\ switch[s].pc = "idle"
  BY DEF Init, NoSwitch
<1>2. Switching = {} /\ \A s \in Switches : ~UnderWay(s)
  BY <1>1 DEF Switching, UnderWay
<1>3. RubricTypes
  BY <1>1, NoSwitchType, RowSets DEF Init, RubricTypes, Held
<1>4. RecordInv
  BY <1>2 DEF Init, RecordInv, Whole, Clean
<1>5. RaceInv
  BY <1>1, <1>2 DEF Init, RaceInv, Unmet
<1> QED BY <1>3, <1>4, <1>5 DEF RubricInv

(* Servers that boot: the switches are idle, and the rows of the seed are  *)
(* whole.                                                                  *)
LEMMA SeedIsWhole ==
  /\ SeededCriteria \in FinRows
  /\ \A r, q \in SeededCriteria : /\ r.id < 5 /\ (r.id = q.id => r = q)
                                  /\ r.group = q.group /\ r.name = q.name => r = q
  /\ \A g \in GroupNames : Synced(SeededCriteria, SeededMode, g)
<1> DEFINE D(g) == Desired(SeededMode, g)
<1>1. \A g \in GroupNames : D(g) = {"Memorization", "Tajweed"}
  <2>1. /\ Criteria[1] = "Memorization" /\ Criteria[2] = "Tajweed"
        /\ Criteria[3] = "Tafsir" /\ Criteria[4] = "Saut"
    BY DEF Criteria
  <2>2. /\ Place("Memorization") = 1 /\ Place("Tajweed") = 2
        /\ Place("Tafsir") = 3 /\ Place("Saut") = 4
    <3>1. \A n \in Names : Place(n) = 1 \/ Place(n) = 2 \/ Place(n) = 3 \/ Place(n) = 4
      BY Places
    <3>2. \A n \in Names : Criteria[Place(n)] = n
      BY Places
    <3> QED BY <2>1, <3>1, <3>2 DEF Names
  <2>3. ASSUME NEW g \in GroupNames
        PROVE  /\ MarksOf(SeededMode, g, "Memorization") = 70
               /\ MarksOf(SeededMode, g, "Tajweed") = 30
               /\ MarksOf(SeededMode, g, "Tafsir") = 0 /\ MarksOf(SeededMode, g, "Saut") = 0
    BY <2>2 DEF MarksOf, FullMarks, SeededMode
  <2> QED BY <2>3, Places DEF Desired, Names
<1>2. \A g \in GroupNames : D(g) \in SUBSET Names /\ Cardinality(D(g)) = 2
  <2>1. Cardinality({"Memorization", "Tajweed"}) = 2
    <3>1. /\ IsFiniteSet({"Memorization"}) /\ Cardinality({"Memorization"}) = 1
          /\ {"Memorization"} \cup {"Tajweed"} = {"Memorization", "Tajweed"}
      BY FS_Singleton
    <3>2. Cardinality({"Memorization"} \cup {"Tajweed"}) = Cardinality({"Memorization"}) + 1
      BY <3>1, FS_AddElement
    <3> QED BY <3>1, <3>2
  <2> QED BY <1>1, <2>1 DEF Names
<1> DEFINE N(h, from) == NewRows(SeededMode, Groups[h], D(Groups[h]), from)
<1>3. ASSUME NEW h \in {1, 2}, NEW from \in Nat
      PROVE  /\ N(h, from) \in FinRows
             /\ \A r \in N(h, from) :
                  /\ from <= r.id /\ r.id < from + 2
                  /\ r.group = Groups[h] /\ r.name \in D(Groups[h])
                  /\ r.max = MarksOf(SeededMode, Groups[h], r.name)
             /\ \A n \in D(Groups[h]) : \E r \in N(h, from) : r.name = n
             /\ \A r, q \in N(h, from) : r.id = q.id \/ r.name = q.name => r = q
  <2>1. Groups[h] \in GroupNames
    BY GroupsAre
  <2>2. D(Groups[h]) \in SUBSET Names /\ Cardinality(D(Groups[h])) = 2
    BY <1>2, <2>1
  <2> HIDE DEF D
  <2> QED BY <2>1, <2>2, NewRowsAre
<1>4. SeededCriteria = N(1, 1) \cup N(2, 3)
  BY DEF SeededCriteria
<1>5. \A g \in GroupNames, n \in Names : MarksOf(SeededMode, g, n) > 0 => n \in D(g)
  BY Places DEF Desired
<1> HIDE DEF D, N
<1>6. \A r \in SeededCriteria : r \in N(1, 1) \/ r \in N(2, 3)
  BY <1>4
<1>7. /\ SeededCriteria \subseteq Row
      /\ \A r \in N(1, 1) : r.id \in Nat /\ r.id < 3 /\ r.group = Groups[1]
      /\ \A r \in N(2, 3) : r.id \in Nat /\ 3 <= r.id /\ r.id < 5 /\ r.group = Groups[2]
  <2>1. \A r \in N(1, 1) : r.id < 1 + 2 /\ r.group = Groups[1] /\ r \in Row
    BY <1>3, RowSets
  <2>2. \A r \in N(2, 3) : 3 <= r.id /\ r.id < 3 + 2 /\ r.group = Groups[2] /\ r \in Row
    <3>1. 2 \in {1, 2} /\ 3 \in Nat
      OBVIOUS
    <3>2. N(2, 3) \subseteq Row
      BY <1>3, <3>1, RowSets
    <3>3. \A r \in N(2, 3) : 3 <= r.id /\ r.id < 3 + 2
      BY <1>3, <3>1
    <3>4. \A r \in N(2, 3) : r.group = Groups[2]
      BY <1>3, <3>1
    <3> QED BY <3>2, <3>3, <3>4
  <2> QED BY <1>6, <2>1, <2>2 DEF Row
<1>8. /\ \A r, q \in N(1, 1) : r.id = q.id \/ r.name = q.name => r = q
      /\ \A r, q \in N(2, 3) : r.id = q.id \/ r.name = q.name => r = q
  BY <1>3
<1>9. ASSUME NEW r \in SeededCriteria, NEW q \in SeededCriteria
      PROVE  /\ r.id < 5 /\ (r.id = q.id => r = q)
             /\ r.group = q.group /\ r.name = q.name => r = q
  BY <1>6, <1>7, <1>8, GroupsAre
<1>10. ASSUME NEW g \in GroupNames PROVE Synced(SeededCriteria, SeededMode, g)
  <2>1. PICK h \in {1, 2}, from \in Nat : g = Groups[h] /\ N(h, from) \subseteq SeededCriteria
    BY <1>4, GroupsAre
  <2>2. \A r \in SeededCriteria : r.max = MarksOf(SeededMode, r.group, r.name)
    <3>1. \A r \in N(1, 1) : r.max = MarksOf(SeededMode, Groups[1], r.name)
      BY <1>3
    <3>2. \A r \in N(2, 3) : r.max = MarksOf(SeededMode, Groups[2], r.name)
      BY <1>3
    <3> QED BY <1>6, <1>7, <3>1, <3>2
  <2>3. ASSUME NEW n \in D(g) PROVE \E r \in SeededCriteria : r.group = g /\ r.name = n
    <3>1. n \in D(Groups[h])
      BY <2>1
    <3>2. PICK r \in N(h, from) : r.name = n
      BY <1>3, <3>1
    <3>3. r.group = Groups[h]
      BY <1>3
    <3> QED BY <2>1, <3>2, <3>3
  <2> QED BY <1>5, <2>2, <2>3 DEF Synced, Filled
<1> QED BY <1>3, <1>4, <1>7, <1>9, <1>10, RowSets

LEMMA RubricSeeds ==
  ASSUME RubricAssumption, RubricInv, NEW v \in Servers,
         SeedCheck(v) \/ SeedFlush(v) \/ SeedCommit(v) \/ SeedFails(v)
  PROVE  RubricInv'
<1>1. ~Serving /\ UNCHANGED <<switch, judge, event, mixed, crossed>>
  BY DEF SeedCheck, SeedFlush, SeedCommit, SeedFails, Serving
<1>2. \A s \in Switches : /\ switch[s].pc = "idle" /\ ~UnderWay(s) /\ s \notin Switching
                          /\ ~UnderWay(s)' /\ s \notin Switching'
  BY <1>1 DEF RubricInv, RubricTypes, UnderWay, Switching
<1>3. RaceInv'
  <2>1. \A s \in Switches : Unmet(switch'[s], criteria', season', event')
    BY <1>1, <1>2 DEF Unmet
  <2> QED BY <1>2, <2>1 DEF RaceInv, Switching
<1>4. CASE SeedCommit(v)
  <2>1. season' = SeededMode /\ criteria' = SeededCriteria /\ nextId' = 5
    BY <1>4 DEF SeedCommit
  <2>2. RubricTypes'
    BY <1>1, <1>2, <2>1, SeedIsWhole DEF RubricInv, RubricTypes, Modes, SeededMode
  <2>3. Whole(SeededCriteria, SeededMode, 5)
    BY SeedIsWhole DEF Whole, Clean, SeededMode, RubricAssumption
  <2> QED BY <1>2, <1>3, <2>1, <2>2, <2>3 DEF RubricInv, RecordInv
<1>5. CASE ~SeedCommit(v)
  <2>1. UNCHANGED <<season, criteria, nextId>>
    BY <1>5 DEF SeedCheck, SeedFlush, SeedFails
  <2>2. RubricTypes'
    BY <1>1, <1>2, <2>1 DEF RubricInv, RubricTypes
  <2> QED BY <1>1, <1>2, <1>3, <2>1, <2>2 DEF RubricInv, RecordInv
<1> QED BY <1>4, <1>5

(* Submissions change neither the rubric nor the switches.                 *)
LEMMA RubricStutters ==
  ASSUME RubricInv, UNCHANGED <<season, criteria, nextId, switch, boot, mixed>>, RaceInv'
  PROVE  RubricInv'
<1>1. RubricTypes'
  BY DEF RubricInv, RubricTypes, Serving
<1>2. \A s \in Switches : UnderWay(s)' <=> UnderWay(s)
  BY DEF UnderWay
<1> QED BY <1>1, <1>2 DEF RubricInv, RecordInv

LEMMA RubricJudges ==
  ASSUME RubricInv, NEW j \in Judges,
         SubmitBegin(j) \/ SubmitInsert(j) \/ SubmitCommit(j) \/ Undo(j)
  PROVE  RubricInv'
<1>1. UNCHANGED <<season, criteria, nextId, boot, switch, mixed>> /\ (crossed => crossed')
  <2>1. CASE SubmitInsert(j)
    BY <2>1, Zenon DEF SubmitInsert
  <2>2. CASE SubmitBegin(j) \/ SubmitCommit(j) \/ Undo(j)
    <3>1. UNCHANGED <<season, criteria, nextId, boot, switch, mixed>>
      BY <2>2 DEF SubmitBegin, SubmitCommit, Undo
    <3>2. crossed => crossed'
      BY <2>2, Zenon DEF SubmitBegin, SubmitCommit, Undo
    <3> QED BY <3>1, <3>2
  <2> QED BY <2>1, <2>2
<1>2. Switching' = Switching
  BY <1>1 DEF Switching
<1>3. ~crossed' => Switching = {}
  <2>1. CASE SubmitBegin(j) \/ Undo(j)
    BY <2>1 DEF SubmitBegin, Undo
  <2>2. CASE SubmitInsert(j) \/ SubmitCommit(j)
    <3>1. j \in Submitting
      BY <2>2 DEF SubmitInsert, SubmitCommit, Submitting
    <3>2. UNCHANGED crossed
      BY <2>2 DEF SubmitInsert, SubmitCommit
    <3> QED BY <3>1, <3>2 DEF RubricInv, RaceInv
  <2> QED BY <2>1, <2>2
<1>4. RaceInv'
  <2> SUFFICES ASSUME ~crossed'
               PROVE  \A s \in Switches : Unmet(switch'[s], criteria', season', event')
    BY <1>2, <1>3 DEF RaceInv
  <2>1. ASSUME NEW s \in Switches PROVE Unmet(switch'[s], criteria', season', event')
    <3>1. switch[s].pc \in {"idle", "done", "failed"}
          /\ Unmet(switch[s], criteria, season, event)
      BY <1>1, <1>3, <2>1 DEF Switching, RubricInv, RaceInv
    <3> QED BY <1>1, <3>1 DEF Unmet
  <2> QED BY <2>1
<1> QED BY <1>1, <1>4, RubricStutters

LEMMA RubricBegin ==
  ASSUME RubricInv, NEW s \in Switches, Begin(s)
  PROVE  RubricInv'
<1>1. PICK mode \in Modes : switch' = [switch EXCEPT ![s] =
          [NoSwitch EXCEPT !.pc = "season", !.mode = mode, !.loaded = season]]
  BY DEF Begin, Step
<1>2. /\ Serving /\ switch[s].pc = "idle"
      /\ UNCHANGED <<season, criteria, nextId, boot, judge, event, mixed>>
      /\ crossed' = (crossed \/ Switching # {} \/ Submitting # {}) /\ RubricTypes
  BY DEF Begin, RubricInv
<1>3. PICK t : t = [NoSwitch EXCEPT !.pc = "season", !.mode = mode, !.loaded = season]
  OBVIOUS
<1>4. /\ t \in SwitchState /\ t.pc = "season" /\ t.loaded = season /\ t.mode = mode
      /\ t.group = 1 /\ t.inserted = {} /\ t.updated = {} /\ t.deleted = {}
  <2>1. mode \in Modes \cup {Absent} /\ season \in Modes \cup {Absent}
    BY <1>2 DEF RubricTypes
  <2>2. t \in SwitchState /\ t.pc = "season" /\ t.loaded = season /\ t.mode = mode
    BY <1>3, <2>1, NoSwitchType DEF SwitchState
  <2> QED BY <1>3, <2>2 DEF NoSwitch
<1>5. /\ switch'[s] = t /\ \A q \in Switches \ {s} : switch'[q] = switch[q]
      /\ switch' \in [Switches -> SwitchState]
      /\ \A q \in Switches \ {s} : /\ UnderWay(q)' <=> UnderWay(q)
                                   /\ q \in Switching' <=> q \in Switching
  BY <1>1, <1>2, <1>3, <1>4, SwitchMoves
<1>6. ~UnderWay(s)'
  BY <1>4, <1>5 DEF UnderWay
<1>7. RubricTypes'
  <2>1. Held(t) /\ Serving'
    BY <1>2, <1>4 DEF Held, Serving
  <2> QED BY <1>2, <1>5, <2>1 DEF RubricTypes
<1>8. RecordInv'
  BY <1>2, <1>5, <1>6 DEF RubricInv, RecordInv
<1>9. RaceInv'
  <2> SUFFICES ASSUME ~crossed' PROVE RaceInv'
    BY DEF RaceInv
  <2>1. Switching = {} /\ Submitting = {} /\ ~crossed
    BY <1>2
  <2>2. Switching' \subseteq {s}
    <3>1. Switching' \subseteq Switches
      BY DEF Switching
    <3> QED BY <1>5, <2>1, <3>1
  <2>3. Submitting' = {}
    BY <1>2, <2>1 DEF Submitting
  <2>4. Unmet(t, criteria, season, event)
    BY <1>4 DEF Unmet
  <2> QED BY <1>2, <1>5, <2>1, <2>2, <2>3, <2>4 DEF RubricInv, RaceInv
<1> QED BY <1>7, <1>8, <1>9 DEF RubricInv

-----------------------------------------------------------------------------
(* The statements of a switch.                                             *)
LEMMA RubricAborts ==
  ASSUME RubricInv, NEW s \in Switching, Abort(s),
         UNCHANGED <<season, criteria, nextId, boot, judge, event>>, mixed => mixed', crossed'
  PROVE  RubricInv'
<1>1. PICK t : t = [NoSwitch EXCEPT !.pc = "failed"]
  OBVIOUS
<1>2. t \in SwitchState /\ t.pc = "failed" /\ switch' = [switch EXCEPT ![s] = t]
  BY <1>1, NoSwitchType DEF SwitchState, Abort, Step
<1>3. switch'[s] = t
  BY <1>2, SwitchMoves, SwitchFacts
<1>4. Held(t) /\ ~UnderWay(s)'
  BY <1>2, <1>3 DEF Held, UnderWay
<1> QED BY <1>2, <1>3, <1>4, SwitchSteps

LEMMA RubricFails ==
  ASSUME RubricInv, NEW s \in Switches, SwitchFails(s) PROVE RubricInv'
BY RubricAborts DEF SwitchFails

LEMMA RubricSeason ==
  ASSUME RubricAssumption, RubricInv, NEW s \in Switches, Season(s)
  PROVE  RubricInv'
<1> DEFINE t == switch[s]
<1>1. /\ t.pc = "season" /\ s \in Switching /\ ~UnderWay(s)
      /\ UNCHANGED <<season, criteria, nextId, boot, judge, event, crossed>>
  BY DEF Season, Switching, UnderWay
<1>2. mixed => mixed'
  BY Zenon DEF Season
<1>3. /\ t \in SwitchState /\ t.mode \in Modes /\ Held(t) /\ RubricTypes
      /\ ~crossed => Unmet(t, criteria, season, event)
  BY <1>1, SwitchFacts
<1>4. CASE t.loaded = Absent /\ season # Absent
  <2>1. Abort(s)
    BY <1>4 DEF Season
  <2>2. crossed
    BY <1>1, <1>3, <1>4 DEF Unmet
  <2> QED BY <1>1, <1>2, <2>1, <2>2, RubricAborts
<1>5. CASE ~(t.loaded = Absent /\ season # Absent)
  <2> DEFINE others == {q \in Switches \ {s} : UnderWay(q)}
  <2>1. /\ t.loaded # t.mode => \A q \in others : ~switch[q].locks
        /\ ~mixed' => /\ ~mixed /\ \A q \in others : switch[q].locks
                      /\ t.loaded # t.mode \/ (others = {} /\ season = t.mode)
    BY Zenon DEF Season
  <2>2. ~mixed' => others = {} /\ ~mixed
    BY <2>1
  <2>3. PICK u : u = [t EXCEPT !.pc = "read", !.locks = t.loaded # t.mode]
    OBVIOUS
  <2>4. switch' = [switch EXCEPT ![s] = u]
    BY <1>5, <2>3, Zenon DEF Season, Step
  <2>5. /\ u \in SwitchState /\ u.pc = "read" /\ u.mode = t.mode /\ u.group = t.group
        /\ u.inserted = t.inserted /\ u.updated = t.updated /\ u.deleted = t.deleted
        /\ (u.locks <=> t.loaded # t.mode)
    BY <1>3, <2>3 DEF SwitchState
  <2>6. u.group = 1 /\ u.inserted = {} /\ u.updated = {} /\ u.deleted = {}
    BY <1>1, <1>3, <2>5 DEF Held
  <2>7. Held(u) /\ Unmet(u, criteria, season, event)
    BY <1>3, <2>5 DEF Held, Unmet
  <2>8. ASSUME ~mixed' PROVE Progress(u, criteria, season, nextId)
    <3>1. Whole(criteria, season, nextId)
      BY <1>1, <2>2, <2>8, SwitchFacts
    <3>2. Written(u) = {} /\ View(u, criteria) = criteria
      BY <2>6 DEF Written, View
    <3>3. Clean(View(u, criteria), nextId)
      BY <3>1, <3>2 DEF Whole
    <3>4. \A h \in {1, 2} : Ahead(u, criteria, Groups[h])
      BY <2>6, <3>2 DEF Ahead
    <3>5. u.locks \/ season = u.mode
      BY <2>1, <2>5, <2>8
    <3> QED BY <2>5, <2>6, <3>3, <3>4, <3>5 DEF Progress
  <2> QED BY <1>1, <1>2, <2>2, <2>4, <2>5, <2>7, <2>8, SwitchSteps
<1> QED BY <1>4, <1>5

LEMMA RubricReadGroup ==
  ASSUME RubricInv, NEW s \in Switches, ReadGroup(s)
  PROVE  RubricInv'
<1> DEFINE t == switch[s]
<1>1. /\ t.pc = "read" /\ s \in Switching /\ UnderWay(s)
      /\ UNCHANGED <<season, criteria, nextId, boot, judge, event, mixed, crossed>>
  BY DEF ReadGroup, Switching, UnderWay
<1>2. t \in SwitchState /\ t.mode \in Modes /\ RubricTypes
  BY <1>1, SwitchFacts
<1>3. PICK u : u = IF t.group > Len(Groups) THEN [t EXCEPT !.pc = "commit"]
                   ELSE [t EXCEPT !.pc = "upsert",
                           !.read = {r \in criteria : r.group = Groups[t.group]}]
  OBVIOUS
<1>4. switch' = [switch EXCEPT ![s] = u]
  BY <1>3 DEF ReadGroup, Step
<1>5. t.group \in {1, 2, 3} /\ (t.group > Len(Groups) <=> t.group = 3)
  BY <1>2, GroupsAre DEF SwitchState
<1>6. /\ u \in SwitchState /\ u.mode = t.mode /\ u.group = t.group /\ u.locks = t.locks
      /\ u.inserted = t.inserted /\ u.updated = t.updated /\ u.deleted = t.deleted
      /\ IF t.group = 3 THEN u.pc = "commit"
         ELSE u.pc = "upsert" /\ u.read = {r \in criteria : r.group = Groups[t.group]}
  <2>1. CASE t.group = 3
    BY <1>2, <1>3, <1>5, <2>1 DEF SwitchState
  <2>2. CASE t.group # 3
    <3>1. u = [t EXCEPT !.pc = "upsert", !.read = {r \in criteria : r.group = Groups[t.group]}]
      BY <1>3, <1>5, <2>2
    <3>2. {r \in criteria : r.group = Groups[t.group]} \in FinRows
      BY <1>2, RowSets DEF RubricTypes
    <3> QED BY <1>2, <2>2, <3>1, <3>2 DEF SwitchState
  <2> QED BY <2>1, <2>2
<1>7. Held(u) /\ Unmet(u, criteria, season, event)
  BY <1>2, <1>5, <1>6 DEF Held, Unmet
<1>8. ASSUME ~mixed' PROVE Progress(u, criteria, season, nextId)
  <2>1. Progress(t, criteria, season, nextId)
    BY <1>1, <1>8, SwitchFacts
  <2>2. Written(u) = Written(t) /\ View(u, criteria) = View(t, criteria)
    BY <1>6 DEF Written, View
  <2>3. \A g : Ahead(t, criteria, g) <=> Ahead(u, criteria, g)
    BY <1>6, <2>2 DEF Ahead
  <2> QED BY <1>1, <1>5, <1>6, <2>1, <2>2, <2>3 DEF Progress
<1> QED BY <1>1, <1>4, <1>6, <1>7, <1>8, SwitchFacts, SwitchSteps

-----------------------------------------------------------------------------
(* The upserts of a group: the rows that are changed, missing and obsolete.*)
Changed(t, g) ==
  {r \in t.read : r.name \in Desired(t.mode, g) /\ r.max # MarksOf(t.mode, g, r.name)}
Missing(t, g) == {n \in Desired(t.mode, g) : \A r \in t.read : r.name # n}
Obsolete(t, g) == {r \in t.read : r.name \notin Desired(t.mode, g)}
Brought(r, mode, g) == [r EXCEPT !.max = MarksOf(mode, g, r.name)]
Upserted(t, u, g, changed, next) ==
  /\ u.pc = "references" /\ u.mode = t.mode /\ u.group = t.group /\ u.locks = t.locks
  /\ u.deleted = t.deleted
  /\ u.updated = t.updated \cup {Brought(r, t.mode, g) : r \in changed}
  /\ u.inserted = t.inserted \cup NewRows(t.mode, g, Missing(t, g), next)
  /\ u.obsolete \in Seq(Obsolete(t, g))
  /\ \A r \in Obsolete(t, g) : \E i \in DOMAIN u.obsolete : u.obsolete[i] = r
  /\ \A i, k \in DOMAIN u.obsolete : u.obsolete[i].id = u.obsolete[k].id => k = i

LEMMA DesiredAre ==
  ASSUME NEW mode, NEW g \in GroupNames
  PROVE  /\ Desired(mode, g) \subseteq Names
         /\ \A n \in Names : n \in Desired(mode, g) <=> MarksOf(mode, g, n) > 0
         /\ \A n \in Names : n \notin Desired(mode, g) <=> MarksOf(mode, g, n) = 0
<1>1. \A n \in Names : MarksOf(mode, g, n) \in Nat
  BY Marks
<1>2. \A n : n \in Desired(mode, g) <=> n \in Names /\ MarksOf(mode, g, n) > 0
  BY Places DEF Desired
<1> QED BY <1>1, <1>2

LEMMA BroughtRow ==
  ASSUME NEW r \in Row, NEW mode, NEW g \in GroupNames
  PROVE  /\ Brought(r, mode, g) \in Row /\ Brought(r, mode, g).id = r.id
         /\ Brought(r, mode, g).group = r.group /\ Brought(r, mode, g).name = r.name
         /\ Brought(r, mode, g).max = MarksOf(mode, g, r.name)
<1>1. r.name \in Names
  BY DEF Row
<1>2. MarksOf(mode, g, r.name) \in Nat
  BY <1>1, Marks
<1> QED BY <1>2 DEF Row, Brought

LEMMA UpsertProgress ==
  ASSUME NEW rows \in FinRows, NEW next \in Nat, NEW mode, NEW t \in SwitchState,
         NEW u \in SwitchState, Progress(t, rows, mode, next), Clean(rows, next),
         t.pc = "upsert", t.group \in {1, 2}, NEW g, g = Groups[t.group],
         Upserted(t, u, g, Changed(t, g), next)
  PROVE  Progress(u, rows, mode, next + Cardinality(Missing(t, g)))
<1> DEFINE V == View(t, rows)
           C == Changed(t, g)
           F == {Brought(r, t.mode, g) : r \in C}
           M == Missing(t, g)
           N == NewRows(t.mode, g, M, next)
           D == Desired(t.mode, g)
           upto == next + Cardinality(M)
<1>1. g \in GroupNames /\ \A h \in {1, 2} : Groups[h] \in GroupNames /\ (h # t.group => Groups[h] # g)
  BY GroupsAre
<1>2. /\ t.read = {r \in rows : r.group = g} /\ Ahead(t, rows, g)
      /\ Clean(V, next) /\ \A r \in t.inserted, q \in rows : r.id # q.id
      /\ \A h \in {1, 2} : h < t.group => Synced(V, t.mode, Groups[h])
      /\ \A h \in {1, 2} : h > t.group => Ahead(t, rows, Groups[h])
      /\ t.locks \/ mode = t.mode
  BY DEF Progress
<1>3. rows \subseteq Row /\ V \subseteq Row /\ t.updated \subseteq V /\ t.inserted \subseteq V
  BY RowSets DEF View, SwitchState
<1>4. /\ M \subseteq D /\ D \subseteq Names /\ Cardinality(M) \in Nat
      /\ \A n \in Names : n \in D <=> MarksOf(t.mode, g, n) > 0
      /\ \A n \in Names : n \notin D <=> MarksOf(t.mode, g, n) = 0
  <2>1. M \subseteq D /\ D \subseteq Names
    BY <1>1, DesiredAre DEF Missing
  <2>2. Cardinality(M) \in Nat
    BY <2>1, NamesFinite
  <2> QED BY <1>1, <2>1, <2>2, DesiredAre
<1>5. /\ N \subseteq Row
      /\ \A n \in N : /\ next <= n.id /\ n.id < upto
                      /\ n.group = g /\ n.name \in M /\ n.max = MarksOf(t.mode, g, n.name)
      /\ \A n \in M : \E r \in N : r.name = n
      /\ \A r, q \in N : r.id = q.id \/ r.name = q.name => r = q
  <2>1. M \in SUBSET Names
    BY <1>4
  <2> HIDE DEF M
  <2> QED BY <1>1, <2>1, NewRowsAre, RowSets
<1>6. \A r \in C : r \in rows /\ r \in V /\ r.group = g /\ r.name \in D
  BY <1>2 DEF Changed, Ahead, View
<1>7. \A r \in C : LET b == Brought(r, t.mode, g) IN
        b \in F /\ b \in Row /\ b.id = r.id /\ b.group = g /\ b.name = r.name
        /\ b.max = MarksOf(t.mode, g, r.name)
  BY <1>1, <1>3, <1>6, BroughtRow
<1>8. \A b \in F : \E r \in C : /\ b \in Row /\ b.id = r.id /\ b.group = g /\ b.name = r.name
                                /\ b.max = MarksOf(t.mode, g, b.name)
  BY <1>7
<1>9. \A b, d \in F : b.id = d.id \/ b.name = d.name => b = d
  <2>1. ASSUME NEW r \in C, NEW q \in C, r.id = q.id \/ r.name = q.name PROVE r = q
    BY <1>2, <1>6, <2>1 DEF Clean
  <2> QED BY <1>7, <2>1
<1>10. Written(u) = Written(t) \cup {r.id : r \in C}
  <2>1. u.deleted = t.deleted /\ u.updated = t.updated \cup F
    BY DEF Upserted
  <2>2. {b.id : b \in F} = {r.id : r \in C}
    BY <1>7
  <2> HIDE DEF C, F
  <2> QED BY <2>1, <2>2 DEF Written
<1>11. \A x \in V, r \in C : x.id = r.id => x = r
  BY <1>2, <1>6 DEF Clean
<1>12. View(u, rows) = (V \ C) \cup F \cup N
  <2>1. u.updated = t.updated \cup F /\ u.inserted = t.inserted \cup N
    BY DEF Upserted
  <2>2. \A x \in t.updated \cup t.inserted : x \notin C
    BY <1>2, <1>6 DEF Ahead
  <2>3. {x \in rows : x.id \notin Written(u)} = {x \in rows : x.id \notin Written(t)} \ C
    <3>1. ASSUME NEW x \in rows, x.id \notin Written(t), x \notin C PROVE x.id \notin Written(u)
      <4>1. x \in V
        BY <3>1 DEF View
      <4> QED BY <1>10, <1>11, <3>1, <4>1
    <3>2. \A x \in rows : x.id \notin Written(u) => x.id \notin Written(t) /\ x \notin C
      BY <1>10
    <3> QED BY <3>1, <3>2
  <2> HIDE DEF C, F, N
  <2> QED BY <2>1, <2>2, <2>3 DEF View
<1> HIDE DEF V, C, F, M, N, D
<1>13. upto \in Nat /\ next <= upto
  BY <1>4
<1>14. ASSUME NEW n \in N, NEW x \in V
       PROVE  n.id # x.id /\ ~(n.group = x.group /\ n.name = x.name)
  <2>1. x.id < next /\ x.id \in Nat /\ next <= n.id /\ n.id \in Nat
    BY <1>2, <1>3, <1>5 DEF Clean, Row
  <2>2. ASSUME x.group = g PROVE x.name # n.name
    <3>1. x \in t.read
      BY <1>2, <2>2 DEF V, View, Ahead
    <3> QED BY <1>5, <3>1 DEF M, Missing
  <2> QED BY <1>5, <2>1, <2>2
<1>15. Clean(View(u, rows), upto)
  <2>1. ASSUME NEW r \in V \ C, NEW q \in V \ C
        PROVE  r.id < upto /\ (r.id = q.id => r = q) /\ (r.group = q.group /\ r.name = q.name => r = q)
    <3>1. r.id < next /\ r.id \in Nat
      BY <1>2, <1>3 DEF Clean, Row
    <3> QED BY <1>2, <1>13, <3>1 DEF Clean
  <2>2. ASSUME NEW b \in F, NEW q \in V \ C
        PROVE  b.id < upto /\ b.id # q.id /\ ~(b.group = q.group /\ b.name = q.name)
    <3>1. PICK r \in C : b.id = r.id /\ b.group = g /\ b.name = r.name
      BY <1>8
    <3>2. r \in V /\ r.group = g /\ r.id < next /\ r.id \in Nat
      BY <1>2, <1>3, <1>6 DEF Clean, Row
    <3> QED BY <1>2, <1>13, <3>1, <3>2 DEF Clean
  <2>3. ASSUME NEW n \in N, NEW b \in F
        PROVE  b.id < upto /\ b.id # n.id /\ ~(b.group = n.group /\ b.name = n.name)
    <3>1. PICK r \in C : b.id = r.id /\ b.group = g /\ b.name = r.name
      BY <1>8
    <3>2. r \in V /\ r.group = g /\ r.id < next /\ r.id \in Nat
      BY <1>2, <1>3, <1>6 DEF Clean, Row
    <3> QED BY <1>13, <1>14, <3>1, <3>2
  <2>4. \A b \in F : b.id < upto
    <3>1. ASSUME NEW b \in F PROVE b.id < upto
      <4>1. PICK r \in C : b.id = r.id
        BY <1>8
      <4>2. r.id < next /\ r.id \in Nat
        BY <1>2, <1>3, <1>6 DEF Clean, Row
      <4> QED BY <1>13, <4>1, <4>2
    <3> QED BY <3>1
  <2>5. \A b, d \in F : (b.id = d.id => b = d) /\ (b.group = d.group /\ b.name = d.name => b = d)
    BY <1>9
  <2>6. \A n, o \in N : n.id < upto /\ (n.id = o.id => n = o)
                        /\ (n.group = o.group /\ n.name = o.name => n = o)
    BY <1>5
  <2> QED BY <1>12, <1>14, <2>1, <2>2, <2>3, <2>4, <2>5, <2>6 DEF Clean
<1>16. \A r \in u.inserted, q \in rows : r.id # q.id
  <2>1. ASSUME NEW r \in N, NEW q \in rows PROVE r.id # q.id
    <3>1. q.id < next /\ q.id \in Nat /\ next <= r.id /\ r.id \in Nat
      BY <1>3, <1>5 DEF Clean, Row
    <3> QED BY <3>1
  <2>2. u.inserted = t.inserted \cup N
    BY DEF Upserted, N, M
  <2> QED BY <1>2, <2>1, <2>2
<1>17. \A k \in GroupNames \ {g} : Synced(V, t.mode, k) => Synced(View(u, rows), t.mode, k)
  <2>1. \A x : x \in View(u, rows) /\ x.group # g <=> x \in V /\ x.group # g
    BY <1>5, <1>6, <1>8, <1>12
  <2> QED BY <2>1 DEF Synced, Filled
<1>18. \A k \in GroupNames \ {g} : Ahead(t, rows, k) => Ahead(u, rows, k)
  <2>1. ASSUME NEW k \in GroupNames \ {g}, Ahead(t, rows, k), NEW r \in rows, r.group = k
        PROVE  r.id \notin Written(u)
    <3>1. r.id \notin Written(t)
      BY <2>1 DEF Ahead
    <3>2. r \in V /\ r \notin C
      BY <1>6, <2>1, <3>1 DEF V, View
    <3> QED BY <1>10, <1>11, <3>1, <3>2 DEF C
  <2>2. u.updated = t.updated \cup F /\ u.inserted = t.inserted \cup N
    BY DEF Upserted, N, M, F, C
  <2> QED BY <1>5, <1>8, <2>1, <2>2 DEF Ahead
<1>19. Dropping(u, rows, g)
  <2>1. u.mode = t.mode
    BY DEF Upserted
  <2>2. \A x \in t.read : x \in V /\ x \in rows /\ x.group = g /\ x.name \in Names
    BY <1>2, <1>3 DEF V, View, Ahead, Row
  <2>3. Filled(View(u, rows), t.mode, g)
    <3> SUFFICES ASSUME NEW n \in D PROVE \E r \in View(u, rows) : r.group = g /\ r.name = n
      BY <1>4 DEF Filled
    <3>1. CASE n \in M
      BY <1>5, <1>12, <3>1
    <3>2. CASE n \notin M
      <4>1. PICK r \in t.read : r.name = n
        BY <3>2 DEF M, D, Missing
      <4>2. CASE r \in C
        BY <1>7, <1>12, <4>1, <4>2 DEF C, F
      <4>3. CASE r \notin C
        BY <1>12, <2>2, <4>1, <4>3
      <4> QED BY <4>2, <4>3
    <3> QED BY <3>1, <3>2
  <2>4. ASSUME NEW x \in View(u, rows), x.group = g
        PROVE  x.max = MarksOf(t.mode, g, x.name) \/ \E i \in DOMAIN u.obsolete : u.obsolete[i] = x
    <3>1. CASE x \in F \cup N
      BY <1>5, <1>8, <3>1
    <3>2. CASE x \in V \ C
      <4>1. x \in t.read
        BY <1>2, <2>4, <3>2 DEF V, View, Ahead
      <4>2. x.max = MarksOf(t.mode, g, x.name) \/ x \in Obsolete(t, g)
        BY <3>2, <4>1 DEF C, Changed, Obsolete
      <4> QED BY <4>2 DEF Upserted
    <3> QED BY <1>12, <2>4, <3>1, <3>2
  <2>5. ASSUME NEW i \in DOMAIN u.obsolete
        PROVE  LET r == u.obsolete[i] IN
               /\ r \in rows /\ r.group = g /\ r.id \notin Written(u) /\ MarksOf(t.mode, g, r.name) = 0
               /\ \A k \in DOMAIN u.obsolete : u.obsolete[k].id = r.id => k = i
    <3>1. u.obsolete[i] \in Obsolete(t, g)
      <4>1. u.obsolete \in Seq(Obsolete(t, g))
        BY DEF Upserted
      <4> QED BY <2>5, <4>1
    <3>2. PICK r : r = u.obsolete[i]
      OBVIOUS
    <3>3. r \in t.read /\ r.name \notin D
      BY <3>1, <3>2 DEF Obsolete, D
    <3>4. r \in rows /\ r.group = g /\ MarksOf(t.mode, g, r.name) = 0
      BY <1>4, <2>2, <3>3
    <3>5. r.id \notin Written(t) /\ r \notin C /\ r \in V
      BY <1>2, <1>6, <2>2, <3>3 DEF Ahead
    <3>6. r.id \notin Written(u)
      BY <1>10, <1>11, <3>5 DEF C
    <3>7. \A k \in DOMAIN u.obsolete : u.obsolete[k].id = u.obsolete[i].id => k = i
      BY <2>5 DEF Upserted
    <3> QED BY <3>2, <3>4, <3>6, <3>7
  <2> QED BY <2>1, <2>3, <2>4, <2>5 DEF Dropping
<1>20. u.pc = "references" /\ u.group = t.group /\ u.mode = t.mode /\ u.locks = t.locks
  BY DEF Upserted
<1>21. \A h \in {1, 2} : /\ h < u.group => Synced(View(u, rows), u.mode, Groups[h])
                         /\ h > u.group => Ahead(u, rows, Groups[h])
  BY <1>1, <1>2, <1>17, <1>18, <1>20
<1> QED BY <1>2, <1>15, <1>16, <1>19, <1>20, <1>21 DEF Progress, M, V

LEMMA RubricUpsert ==
  ASSUME RubricInv, NEW s \in Switches, Upsert(s)
  PROVE  RubricInv'
<1> DEFINE t == switch[s]
           g == Groups[t.group]
           last(n) == CHOOSE r \in {q \in t.read : q.name = n} :
                        \A q \in {p \in t.read : p.name = n} : q.id <= r.id
           changed == {r \in t.read : /\ r.name \in Desired(t.mode, g) /\ r = last(r.name)
                                      /\ r.max # MarksOf(t.mode, g, r.name)}
           missing == {n \in Desired(t.mode, g) : {r \in t.read : r.name = n} = {}}
<1>1. /\ t.pc = "upsert" /\ s \in Switching /\ UnderWay(s)
      /\ UNCHANGED <<season, criteria, boot, judge, event, mixed, crossed>>
  BY DEF Upsert, Switching, UnderWay
<1>2. /\ t \in SwitchState /\ t.mode \in Modes /\ RubricTypes /\ t.group \in {1, 2}
      /\ ~crossed => Unmet(t, criteria, season, event)
  BY <1>1, SwitchFacts DEF Held
<1>3. g \in GroupNames /\ t.read \in FinRows /\ t.read \subseteq Row
      /\ criteria \in FinRows /\ nextId \in Nat
  BY <1>2, GroupsAre, RowSets DEF SwitchState, RubricTypes
<1>4. IF ~(IdsOf(changed) \subseteq IdsOf(criteria))
      THEN Abort(s) /\ UNCHANGED nextId
      ELSE /\ \E order \in [1..Cardinality(Obsolete(t, g)) -> Obsolete(t, g)] :
                /\ \A i, k \in DOMAIN order : i < k => order[i].id < order[k].id
                /\ switch' = [switch EXCEPT ![s] = [t EXCEPT !.pc = "references", !.obsolete = order,
                     !.updated = t.updated \cup {[r EXCEPT !.max = MarksOf(t.mode, g, r.name)] :
                                                 r \in changed},
                     !.inserted = t.inserted \cup NewRows(t.mode, g, missing, nextId)]]
           /\ nextId' = nextId + Cardinality(missing)
  BY DEF Upsert, Step, Obsolete
<1>5. missing = Missing(t, g) /\ changed \subseteq t.read
  BY DEF Missing
<1>6. ~mixed => changed = Changed(t, g)
  <2> SUFFICES ASSUME ~mixed, NEW r \in t.read PROVE last(r.name) = r
    BY DEF Changed
  <2>1. Progress(t, criteria, season, nextId)
    BY <1>1, SwitchFacts
  <2>2. /\ Ahead(t, criteria, g) /\ t.read = {q \in criteria : q.group = g}
        /\ Clean(View(t, criteria), nextId)
    BY <1>1, <1>2, <2>1 DEF Progress
  <2>3. \A q \in t.read : q \in View(t, criteria) /\ q.group = g
    BY <2>2 DEF View, Ahead
  <2>4. {q \in t.read : q.name = r.name} = {r}
    BY <2>2, <2>3 DEF Clean
  <2>5. r.id <= r.id
    BY <1>3 DEF Row
  <2> QED BY <2>4, <2>5
<1> HIDE DEF changed, missing
<1>7. CASE ~(IdsOf(changed) \subseteq IdsOf(criteria))
  <2>1. Abort(s) /\ UNCHANGED nextId
    BY <1>4, <1>7
  <2>2. crossed
    <3>1. ~crossed => changed \subseteq criteria
      BY <1>1, <1>2, <1>5 DEF Unmet
    <3> QED BY <1>7, <3>1 DEF IdsOf
  <2> QED BY <1>1, <2>1, <2>2, RubricAborts
<1>8. CASE IdsOf(changed) \subseteq IdsOf(criteria)
  <2>1. PICK order \in [1..Cardinality(Obsolete(t, g)) -> Obsolete(t, g)] :
          /\ \A i, k \in DOMAIN order : i < k => order[i].id < order[k].id
          /\ switch' = [switch EXCEPT ![s] = [t EXCEPT !.pc = "references", !.obsolete = order,
               !.updated = t.updated \cup {[r EXCEPT !.max = MarksOf(t.mode, g, r.name)] :
                                           r \in changed},
               !.inserted = t.inserted \cup NewRows(t.mode, g, missing, nextId)]]
    BY <1>4, <1>8
  <2>2. nextId' = nextId + Cardinality(missing)
    BY <1>4, <1>8
  <2>3. PICK F : F = {[r EXCEPT !.max = MarksOf(t.mode, g, r.name)] : r \in changed}
    OBVIOUS
  <2>4. PICK N : N = NewRows(t.mode, g, missing, nextId)
    OBVIOUS
  <2>5. PICK u : u = [t EXCEPT !.pc = "references", !.obsolete = order,
                               !.updated = t.updated \cup F, !.inserted = t.inserted \cup N]
    OBVIOUS
  <2>6. switch' = [switch EXCEPT ![s] = u]
    BY <2>1, <2>3, <2>4, <2>5
  <2>7. /\ order \in Seq(Obsolete(t, g)) /\ \A r \in Obsolete(t, g) : \E i \in DOMAIN order : order[i] = r
        /\ \A i, k \in DOMAIN order : order[i].id = order[k].id => k = i
    <3>1. Obsolete(t, g) \in FinRows
      BY <1>3, RowSets DEF Obsolete
    <3> QED BY <2>1, <3>1, OneByOne
  <2>8. order \in Seq(Row)
    BY <1>3, <2>7 DEF Obsolete
  <2>9. missing \in SUBSET Names /\ Cardinality(missing) \in Nat
    <3>1. missing \in SUBSET Names
      BY <1>3, <1>5, DesiredAre DEF Missing
    <3> QED BY <3>1, NamesFinite
  <2>10. N \in FinRows
    <3>1. NewRows(t.mode, g, missing, nextId) \in FinRows
      <4> HIDE DEF g
      <4> QED BY <1>3, <2>9, NewRowsAre
    <3> QED BY <2>4, <3>1
  <2>11. F = {Brought(r, t.mode, g) : r \in changed}
    BY <2>3 DEF Brought
  <2>12. F \in FinRows
    <3> DEFINE B == [r \in changed |-> Brought(r, t.mode, g)]
    <3>1. IsFiniteSet(changed)
      BY <1>3, <1>5, RowSets DEF FinRows
    <3>2. B \in [changed -> Row]
      BY <1>3, <1>5, BroughtRow
    <3>3. F = {B[r] : r \in changed}
      BY <2>11
    <3> HIDE DEF B
    <3> QED BY <3>1, <3>2, <3>3, RowImage
  <2>13. t.updated \cup F \in FinRows /\ t.inserted \cup N \in FinRows
    BY <1>2, <2>10, <2>12, RowSets DEF SwitchState
  <2>14. /\ u \in SwitchState /\ u.pc = "references" /\ u.obsolete = order /\ u.mode = t.mode
         /\ u.group = t.group /\ u.locks = t.locks /\ u.deleted = t.deleted
         /\ u.updated = t.updated \cup F /\ u.inserted = t.inserted \cup N
    BY <1>2, <2>5, <2>8, <2>13 DEF SwitchState
  <2>15. switch'[s] = u
    BY <1>2, <2>6, SwitchMoves
  <2>16. Held(u) /\ UnderWay(s)'
    BY <1>2, <2>14, <2>15 DEF Held, UnderWay
  <2>17. ASSUME ~mixed' PROVE Progress(u, criteria, season, nextId')
    <3>1. Progress(t, criteria, season, nextId) /\ Clean(criteria, nextId)
      BY <1>1, <2>17, SwitchFacts DEF Whole
    <3>2. changed = Changed(t, g)
      BY <1>1, <1>6, <2>17
    <3>3. Upserted(t, u, g, Changed(t, g), nextId)
      BY <1>5, <2>4, <2>7, <2>11, <2>14, <3>2 DEF Upserted
    <3> QED BY <1>1, <1>2, <1>3, <1>5, <2>2, <2>14, <3>1, <3>3, UpsertProgress
  <2>18. ~crossed' => Unmet(u, criteria, season, event)
    <3>1. ~crossed' => t.read \subseteq criteria
      BY <1>1, <1>2 DEF Unmet
    <3>2. \A i \in DOMAIN order : order[i] \in t.read
      BY <2>1 DEF Obsolete
    <3> QED BY <2>14, <3>1, <3>2 DEF Unmet
  <2>19. nextId' \in Nat /\ nextId <= nextId'
    BY <1>3, <2>2, <2>9
  <2> QED BY <1>1, <2>6, <2>14, <2>16, <2>17, <2>18, <2>19, SwitchFacts, SwitchSteps
<1> QED BY <1>7, <1>8

LEMMA RubricCheck ==
  ASSUME RubricInv, NEW s \in Switches, CheckReferences(s)
  PROVE  RubricInv'
<1> DEFINE t == switch[s]
<1>1. /\ t.pc = "references" /\ s \in Switching /\ UnderWay(s)
      /\ UNCHANGED <<season, criteria, nextId, boot, judge, event, mixed, crossed>>
  BY DEF CheckReferences, Switching, UnderWay
<1>2. /\ t \in SwitchState /\ t.mode \in Modes /\ RubricTypes /\ t.group \in {1, 2}
      /\ ~crossed => Unmet(t, criteria, season, event)
  BY <1>1, SwitchFacts DEF Held
<1>3. CASE t.obsolete = <<>>
  <2>1. PICK u : u = [t EXCEPT !.pc = "read", !.group = t.group + 1, !.read = {}]
    OBVIOUS
  <2>2. switch' = [switch EXCEPT ![s] = u]
    BY <1>3, <2>1 DEF CheckReferences, Step
  <2>3. /\ u \in SwitchState /\ u.pc = "read" /\ u.mode = t.mode /\ u.group = t.group + 1
        /\ u.locks = t.locks /\ u.inserted = t.inserted /\ u.updated = t.updated
        /\ u.deleted = t.deleted
    <3>1. t.group + 1 \in 1..3 /\ {} \in FinRows
      BY <1>2, RowSets
    <3> QED BY <1>2, <2>1, <3>1 DEF SwitchState
  <2>4. Held(u) /\ Unmet(u, criteria, season, event)
    BY <1>2, <2>3 DEF Held, Unmet
  <2>5. ASSUME ~mixed' PROVE Progress(u, criteria, season, nextId)
    <3>1. Progress(t, criteria, season, nextId)
      BY <1>1, <2>5, SwitchFacts
    <3>2. Written(u) = Written(t) /\ View(u, criteria) = View(t, criteria)
      BY <2>3 DEF Written, View
    <3>3. \A h : Ahead(t, criteria, h) <=> Ahead(u, criteria, h)
      BY <2>3, <3>2 DEF Ahead
    <3>4. Synced(View(t, criteria), t.mode, Groups[t.group])
      <4>1. Dropping(t, criteria, Groups[t.group])
        BY <1>1, <1>2, <3>1 DEF Progress
      <4> QED BY <1>3, <4>1 DEF Dropping, Synced
    <3>5. \A h \in {1, 2} : /\ h < t.group + 1 => h < t.group \/ h = t.group
                            /\ h > t.group + 1 \/ h = t.group + 1 => h > t.group
      BY <1>2
    <3> QED BY <1>1, <1>2, <2>3, <3>1, <3>2, <3>3, <3>4, <3>5 DEF Progress
  <2> QED BY <1>1, <2>2, <2>3, <2>4, <2>5, SwitchFacts, SwitchSteps
<1>4. CASE t.obsolete # <<>>
  <2>1. PICK k \in BOOLEAN : k <=> \E j \in Judges : event[j] = Head(t.obsolete).id
    BY Zenon
  <2>2. PICK u : u = [t EXCEPT !.pc = "drop", !.keep = \E j \in Judges : event[j] = Head(t.obsolete).id]
    OBVIOUS
  <2>3. switch' = [switch EXCEPT ![s] = u]
    BY <1>4, <2>2 DEF CheckReferences, Step
  <2>4. /\ u \in SwitchState /\ u.pc = "drop" /\ u.mode = t.mode /\ u.group = t.group
        /\ u.locks = t.locks /\ u.inserted = t.inserted /\ u.updated = t.updated
        /\ u.deleted = t.deleted /\ u.obsolete = t.obsolete
        /\ (u.keep <=> \E j \in Judges : event[j] = Head(t.obsolete).id)
    BY <1>2, <2>2 DEF SwitchState
  <2>5. Held(u)
    BY <1>2, <1>4, <2>4 DEF Held
  <2>6. ~crossed' => Unmet(u, criteria, season, event)
    BY <1>1, <1>2, <2>4 DEF Unmet
  <2>7. ASSUME ~mixed' PROVE Progress(u, criteria, season, nextId)
    <3>1. Progress(t, criteria, season, nextId)
      BY <1>1, <2>7, SwitchFacts
    <3>2. Written(u) = Written(t) /\ View(u, criteria) = View(t, criteria)
      BY <2>4 DEF Written, View
    <3>3. \A h : /\ Ahead(t, criteria, h) <=> Ahead(u, criteria, h)
                 /\ Dropping(t, criteria, h) <=> Dropping(u, criteria, h)
      BY <2>4, <3>2 DEF Ahead, Dropping
    <3> QED BY <1>1, <2>4, <3>1, <3>2, <3>3 DEF Progress
  <2> QED BY <1>1, <2>3, <2>4, <2>5, <2>6, <2>7, SwitchFacts, SwitchSteps
<1> QED BY <1>3, <1>4

-----------------------------------------------------------------------------
(* The obsolete criteria of a group, one after the other.                  *)
LEMMA Rest ==
  ASSUME NEW o \in Seq(Row), o # <<>>
  PROVE  /\ Head(o) = o[1] /\ 1 \in DOMAIN o /\ o[1] \in Row /\ Tail(o) \in Seq(Row)
         /\ \A i \in DOMAIN Tail(o) : /\ i \in Nat /\ i + 1 \in DOMAIN o /\ i + 1 # 1
                                     /\ Tail(o)[i] = o[i + 1]
         /\ \A i \in DOMAIN o : i = 1 \/ \E k \in DOMAIN Tail(o) : Tail(o)[k] = o[i]
<1>1. PICK n \in Nat : n = Len(o)
  OBVIOUS
<1>2. n # 0 /\ DOMAIN o = 1..n /\ Head(o) = o[1] /\ Tail(o) \in Seq(Row) /\ o[1] \in Row
  BY <1>1
<1>3. Len(Tail(o)) = n - 1 /\ DOMAIN Tail(o) = 1..(n - 1)
  BY <1>1, <1>2
<1>4. \A i \in 1..(n - 1) : Tail(o)[i] = o[i + 1]
  BY <1>1, <1>2
<1>5. ASSUME NEW i \in DOMAIN o, i # 1 PROVE \E k \in DOMAIN Tail(o) : Tail(o)[k] = o[i]
  <2>1. i - 1 \in 1..(n - 1) /\ (i - 1) + 1 = i
    BY <1>2, <1>5
  <2> QED BY <1>3, <1>4, <2>1
<1>6. \A i \in DOMAIN Tail(o) : i \in Nat /\ i + 1 \in DOMAIN o /\ i + 1 # 1
  BY <1>2, <1>3
<1> QED BY <1>2, <1>3, <1>4, <1>5, <1>6

Passed(t, u) ==
  /\ u.pc = "references" /\ u.mode = t.mode /\ u.group = t.group /\ u.locks = t.locks
  /\ u.inserted = t.inserted /\ u.obsolete = Tail(t.obsolete)

LEMMA DropProgress ==
  ASSUME NEW rows \in FinRows, NEW next, NEW mode, NEW t \in SwitchState, NEW u \in SwitchState,
         Progress(t, rows, mode, next), Clean(rows, next), t.pc = "drop", t.group \in {1, 2},
         t.obsolete # <<>>, Passed(t, u), NEW r, r = Head(t.obsolete), NEW F,
         u.updated = t.updated \cup F,
         \/ F = {} /\ u.deleted = t.deleted /\ r.max = 0
         \/ /\ F = {[r EXCEPT !.max = 0]} /\ u.deleted = t.deleted
         \/ F = {} /\ u.deleted = t.deleted \cup {r.id}
  PROVE  Progress(u, rows, mode, next)
<1> DEFINE V == View(t, rows)
           W == View(u, rows)
           g == Groups[t.group]
           o == t.obsolete
<1>1. g \in GroupNames /\ \A h \in {1, 2} : Groups[h] \in GroupNames /\ (h # t.group => Groups[h] # g)
  BY GroupsAre
<1>2. /\ Dropping(t, rows, g) /\ Clean(V, next)
      /\ \A x \in t.inserted, q \in rows : x.id # q.id
      /\ \A h \in {1, 2} : h < t.group => Synced(V, t.mode, Groups[h])
      /\ \A h \in {1, 2} : h > t.group => Ahead(t, rows, Groups[h])
      /\ t.locks \/ mode = t.mode
  BY DEF Progress
<1>3. /\ o \in Seq(Row) /\ r = o[1] /\ 1 \in DOMAIN o /\ r \in Row
      /\ \A i \in DOMAIN Tail(o) : /\ i \in Nat /\ i + 1 \in DOMAIN o /\ i + 1 # 1
                                  /\ Tail(o)[i] = o[i + 1]
      /\ \A i \in DOMAIN o : i = 1 \/ \E k \in DOMAIN Tail(o) : Tail(o)[k] = o[i]
  <2>1. o \in Seq(Row)
    BY DEF SwitchState
  <2> QED BY <2>1, Rest
<1>4. /\ Filled(V, t.mode, g)
      /\ \A x \in V : x.group = g => x.max = MarksOf(t.mode, g, x.name) \/ \E i \in DOMAIN o : o[i] = x
      /\ \A i \in DOMAIN o :
           /\ o[i] \in rows /\ o[i].group = g /\ o[i].id \notin Written(t)
           /\ MarksOf(t.mode, g, o[i].name) = 0
           /\ \A k \in DOMAIN o : o[k].id = o[i].id => k = i
  BY <1>2 DEF Dropping
<1>5. r \in rows /\ r \in V /\ r.group = g /\ r.id \notin Written(t) /\ MarksOf(t.mode, g, r.name) = 0
  BY <1>3, <1>4 DEF View
<1>6. PICK z : z = [r EXCEPT !.max = 0]
  OBVIOUS
<1>7. z.id = r.id /\ z.group = g /\ z.name = r.name /\ z.max = 0
  BY <1>3, <1>5, <1>6 DEF Row
<1>8. \/ F = {} /\ Written(u) = Written(t) /\ W = V /\ r.max = 0
      \/ F \subseteq {z} /\ Written(u) = Written(t) \cup {r.id} /\ W = (V \ {r}) \cup F
  <2>1. u.inserted = t.inserted
    BY DEF Passed
  <2>2. CASE F = {} /\ u.deleted = t.deleted /\ r.max = 0
    BY <2>1, <2>2 DEF Written, View
  <2>3. CASE (F = {z} /\ u.deleted = t.deleted) \/ (F = {} /\ u.deleted = t.deleted \cup {r.id})
    <3>1. Written(u) = Written(t) \cup {r.id}
      BY <1>7, <2>3 DEF Written
    <3>2. r \notin t.updated /\ r \notin t.inserted
      BY <1>2, <1>5 DEF Written
    <3>3. \A x \in rows : x.id \notin Written(t) /\ x.id = r.id => x = r
      BY <1>5 DEF Clean
    <3>4. {x \in rows : x.id \notin Written(u)} = {x \in rows : x.id \notin Written(t)} \ {r}
      BY <3>1, <3>3
    <3> QED BY <2>1, <2>3, <3>1, <3>2, <3>4 DEF View
  <2> QED BY <1>6, <2>2, <2>3
<1> HIDE DEF V, W, g
<1>9. Clean(W, next)
  <2>1. CASE W = V
    BY <1>2, <2>1
  <2>2. CASE F \subseteq {z} /\ W = (V \ {r}) \cup F
    BY <1>2, <1>5, <1>7, <2>2 DEF Clean
  <2> QED BY <1>8, <2>1, <2>2
<1>10. \A x : x \in W /\ x.group # g <=> x \in V /\ x.group # g
  BY <1>5, <1>7, <1>8
<1>11. \A k \in GroupNames \ {g} : Synced(V, t.mode, k) => Synced(W, t.mode, k)
  BY <1>10 DEF Synced, Filled
<1>12. \A k \in GroupNames \ {g} : Ahead(t, rows, k) => Ahead(u, rows, k)
  <2>1. \A x \in rows : x.id = r.id => x.group = g
    BY <1>5 DEF Clean
  <2>2. \A x \in F : x.group = g
    BY <1>7, <1>8
  <2>3. u.inserted = t.inserted /\ u.updated = t.updated \cup F
    BY DEF Passed
  <2>4. \A k \in GroupNames \ {g}, x \in rows : x.group = k /\ x.id \notin Written(t) => x.id \notin Written(u)
    BY <1>8, <2>1
  <2> QED BY <2>2, <2>3, <2>4 DEF Ahead
<1>13. Dropping(u, rows, g)
  <2>1. u.mode = t.mode /\ u.obsolete = Tail(o)
    BY DEF Passed
  <2>2. Filled(W, t.mode, g)
    <3> SUFFICES ASSUME NEW n \in Names, MarksOf(t.mode, g, n) > 0
                 PROVE  \E x \in W : x.group = g /\ x.name = n
      BY DEF Filled
    <3>1. PICK x \in V : x.group = g /\ x.name = n
      BY <1>4 DEF Filled
    <3>2. x # r
      BY <1>5, <3>1
    <3> QED BY <1>8, <3>1, <3>2
  <2>3. ASSUME NEW x \in W, x.group = g
        PROVE  x.max = MarksOf(t.mode, g, x.name) \/ \E i \in DOMAIN Tail(o) : Tail(o)[i] = x
    <3>1. CASE x = z \/ (x = r /\ r.max = 0)
      BY <1>5, <1>7, <3>1
    <3>2. CASE x \in V /\ x # r
      BY <1>3, <1>4, <2>3, <3>2
    <3> QED BY <1>8, <3>1, <3>2
  <2>4. ASSUME NEW i \in DOMAIN Tail(o)
        PROVE  LET x == Tail(o)[i] IN
               /\ x \in rows /\ x.group = g /\ x.id \notin Written(u) /\ MarksOf(t.mode, g, x.name) = 0
               /\ \A k \in DOMAIN Tail(o) : Tail(o)[k].id = x.id => k = i
    <3>1. i + 1 \in DOMAIN o /\ i + 1 # 1 /\ Tail(o)[i] = o[i + 1]
      BY <1>3
    <3>2. o[i + 1].id # r.id
      BY <1>3, <1>4, <3>1
    <3>3. o[i + 1].id \notin Written(u)
      BY <1>4, <1>8, <3>1, <3>2
    <3>4. ASSUME NEW k \in DOMAIN Tail(o), Tail(o)[k].id = Tail(o)[i].id PROVE k = i
      <4>1. k + 1 \in DOMAIN o /\ Tail(o)[k] = o[k + 1]
        BY <1>3
      <4>2. k + 1 = i + 1
        BY <1>4, <3>1, <3>4, <4>1
      <4>3. k \in Nat /\ i \in Nat
        BY <1>3, <2>4, <3>4
      <4> QED BY <4>2, <4>3
    <3> QED BY <1>4, <3>1, <3>3, <3>4
  <2> QED BY <2>1, <2>2, <2>3, <2>4 DEF Dropping, W
<1>14. u.pc = "references" /\ u.group = t.group /\ u.mode = t.mode /\ u.locks = t.locks
       /\ u.inserted = t.inserted
  BY DEF Passed
<1>15. \A h \in {1, 2} : /\ h < u.group => Synced(W, u.mode, Groups[h])
                         /\ h > u.group => Ahead(u, rows, Groups[h])
  BY <1>1, <1>2, <1>11, <1>12, <1>14
<1> QED BY <1>2, <1>9, <1>13, <1>14, <1>15 DEF Progress, W, g

LEMMA RubricDrop ==
  ASSUME RubricInv, NEW s \in Switches, Drop(s)
  PROVE  RubricInv'
<1> DEFINE t == switch[s]
<1>1. /\ t.pc = "drop" /\ s \in Switching /\ UnderWay(s)
      /\ UNCHANGED <<season, criteria, nextId, boot, judge, event, mixed, crossed>>
  BY DEF Drop, Switching, UnderWay
<1>2. /\ t \in SwitchState /\ t.mode \in Modes /\ RubricTypes /\ t.group \in {1, 2}
      /\ t.obsolete # <<>> /\ (~crossed => Unmet(t, criteria, season, event))
  BY <1>1, SwitchFacts DEF Held
<1>3. PICK r : r = Head(t.obsolete)
  OBVIOUS
<1>4. /\ r = t.obsolete[1] /\ 1 \in DOMAIN t.obsolete /\ r \in Row /\ Tail(t.obsolete) \in Seq(Row)
      /\ \A i \in DOMAIN Tail(t.obsolete) :
           i + 1 \in DOMAIN t.obsolete /\ Tail(t.obsolete)[i] = t.obsolete[i + 1]
  <2>1. t.obsolete \in Seq(Row)
    BY <1>2 DEF SwitchState
  <2> QED BY <1>2, <1>3, <2>1, Rest
<1>5. PICK n : n = [t EXCEPT !.pc = "references", !.obsolete = Tail(t.obsolete), !.keep = FALSE]
  OBVIOUS
<1>6. /\ n \in SwitchState /\ n.pc = "references" /\ n.obsolete = Tail(t.obsolete)
      /\ n.mode = t.mode /\ n.group = t.group /\ n.locks = t.locks /\ n.inserted = t.inserted
      /\ n.updated = t.updated /\ n.deleted = t.deleted
  BY <1>2, <1>4, <1>5 DEF SwitchState
<1>7. IF t.keep
      THEN IF r.max # 0 /\ r.id \notin IdsOf(criteria) THEN Abort(s)
           ELSE switch' = [switch EXCEPT ![s] = IF r.max = 0 THEN n
                            ELSE [n EXCEPT !.updated = n.updated \cup {[r EXCEPT !.max = 0]}]]
      ELSE IF \E j \in Judges : event[j] = r.id THEN Abort(s)
           ELSE switch' = [switch EXCEPT ![s] = [n EXCEPT !.deleted = n.deleted \cup {r.id}]]
  BY <1>3, <1>5 DEF Drop, Step
<1>8. CASE /\ t.keep /\ r.max # 0 /\ r.id \notin IdsOf(criteria)
  <2>1. ASSUME ~crossed PROVE FALSE
    <3>1. r \in criteria
      BY <1>1, <1>2, <1>4, <2>1 DEF Unmet
    <3> QED BY <1>8, <3>1 DEF IdsOf
  <2>2. Abort(s)
    BY <1>7, <1>8
  <2> QED BY <1>1, <2>1, <2>2, RubricAborts
<1>9. CASE ~t.keep /\ \E j \in Judges : event[j] = r.id
  <2>1. crossed
    BY <1>1, <1>2, <1>3, <1>9 DEF Unmet
  <2>2. Abort(s)
    BY <1>7, <1>9
  <2> QED BY <1>1, <2>1, <2>2, RubricAborts
<1>10. CASE /\ ~(t.keep /\ r.max # 0 /\ r.id \notin IdsOf(criteria))
            /\ ~(~t.keep /\ \E j \in Judges : event[j] = r.id)
  <2> DEFINE z == [r EXCEPT !.max = 0]
  <2>1. PICK u, F :
          /\ switch' = [switch EXCEPT ![s] = u] /\ u \in SwitchState /\ Passed(t, u)
          /\ u.updated = t.updated \cup F
          /\ \/ F = {} /\ u.deleted = t.deleted /\ r.max = 0
             \/ F = {z} /\ u.deleted = t.deleted
             \/ F = {} /\ u.deleted = t.deleted \cup {r.id}
    <3>1. CASE t.keep /\ r.max = 0
      <4>1. switch' = [switch EXCEPT ![s] = n]
        BY <1>7, <1>10, <3>1
      <4>2. Passed(t, n) /\ n.updated = t.updated \cup {}
        BY <1>6 DEF Passed
      <4> QED BY <1>6, <3>1, <4>1, <4>2
    <3>2. CASE t.keep /\ r.max # 0
      <4>1. PICK m : m = [n EXCEPT !.updated = n.updated \cup {z}]
        OBVIOUS
      <4>2. switch' = [switch EXCEPT ![s] = m]
        BY <1>7, <1>10, <3>2, <4>1
      <4>3. z \in Row /\ {z} \in FinRows
        <5>1. z \in Row
          BY <1>4 DEF Row
        <5> HIDE DEF z
        <5>2. IsFiniteSet({z})
          BY FS_Singleton
        <5> QED BY <5>1, <5>2 DEF FinRows
      <4>4. n.updated \cup {z} \in FinRows
        <5>1. n.updated \in FinRows
          BY <1>6 DEF SwitchState
        <5> QED BY <4>3, <5>1, RowSets
      <4>5. /\ m \in SwitchState /\ m.pc = n.pc /\ m.mode = n.mode /\ m.group = n.group
            /\ m.locks = n.locks /\ m.inserted = n.inserted /\ m.obsolete = n.obsolete
            /\ m.updated = n.updated \cup {z} /\ m.deleted = n.deleted
        BY <1>6, <4>1, <4>4 DEF SwitchState
      <4>6. Passed(t, m)
        BY <1>6, <4>5 DEF Passed
      <4> HIDE DEF z
      <4> QED BY <1>6, <4>2, <4>5, <4>6
    <3>3. CASE ~t.keep
      <4>1. PICK m : m = [n EXCEPT !.deleted = n.deleted \cup {r.id}]
        OBVIOUS
      <4>2. switch' = [switch EXCEPT ![s] = m]
        BY <1>7, <1>10, <3>3, <4>1
      <4>3. r.id \in Nat
        BY <1>4 DEF Row
      <4>4. /\ m \in SwitchState /\ m.pc = n.pc /\ m.mode = n.mode /\ m.group = n.group
            /\ m.locks = n.locks /\ m.inserted = n.inserted /\ m.obsolete = n.obsolete
            /\ m.updated = n.updated /\ m.deleted = n.deleted \cup {r.id}
        BY <1>6, <4>1, <4>3 DEF SwitchState
      <4>5. Passed(t, m) /\ m.updated = t.updated \cup {}
        BY <1>6, <4>4 DEF Passed
      <4> QED BY <1>6, <4>2, <4>4, <4>5
    <3> QED BY <3>1, <3>2, <3>3
  <2>2. Held(u)
    BY <1>2, <2>1 DEF Held, Passed
  <2>3. ~crossed' => Unmet(u, criteria, season, event)
    <3> SUFFICES ASSUME ~crossed PROVE Unmet(u, criteria, season, event)
      BY <1>1
    <3>1. \A i \in DOMAIN t.obsolete : t.obsolete[i] \in criteria
      BY <1>1, <1>2 DEF Unmet
    <3>2. \A i \in DOMAIN u.obsolete : u.obsolete[i] \in criteria
      BY <1>4, <2>1, <3>1 DEF Passed
    <3> QED BY <2>1, <3>2 DEF Unmet, Passed
  <2>4. ASSUME ~mixed' PROVE Progress(u, criteria, season, nextId)
    <3>1. Progress(t, criteria, season, nextId) /\ Clean(criteria, nextId)
      BY <1>1, <2>4, SwitchFacts DEF Whole
    <3>2. criteria \in FinRows
      BY <1>2 DEF RubricTypes
    <3> QED BY <1>1, <1>2, <1>3, <2>1, <3>1, <3>2, DropProgress
  <2>5. \A q \in Switches : ~mixed /\ UnderWay(q) => q = s
    BY <1>1, SwitchFacts
  <2> QED BY <1>1, <2>1, <2>2, <2>3, <2>4, <2>5, SwitchSteps
<1> QED BY <1>8, <1>9, <1>10

-----------------------------------------------------------------------------
(* COMMIT: what the switch sees becomes the record.                        *)
LEMMA RubricCommit ==
  ASSUME RubricAssumption, RubricInv, NEW s \in Switches, Commit(s)
  PROVE  RubricInv'
<1> DEFINE t == switch[s]
<1>1. /\ t.pc = "commit" /\ s \in Switching /\ UnderWay(s)
      /\ season' = IF t.locks THEN t.mode ELSE season
      /\ criteria' = View(t, criteria)
      /\ UNCHANGED <<nextId, boot, judge, event, mixed, crossed>>
  BY DEF Commit, Switching, UnderWay, View, Written, Touched
<1>2. /\ t \in SwitchState /\ t.mode \in Modes /\ RubricTypes /\ Serving
      /\ ~crossed => Submitting = {} /\ Switching = {s}
      /\ ~mixed => /\ Progress(t, criteria, season, nextId)
                   /\ \A q \in Switches : UnderWay(q) => q = s
  BY <1>1, SwitchFacts
<1>3. PICK u : u = [NoSwitch EXCEPT !.pc = "done"]
  OBVIOUS
<1>4. u \in SwitchState /\ u.pc = "done" /\ switch' = [switch EXCEPT ![s] = u]
  BY <1>3, NoSwitchType DEF SwitchState, Commit, Step
<1>5. /\ switch'[s] = u /\ \A q \in Switches \ {s} : switch'[q] = switch[q]
      /\ switch' \in [Switches -> SwitchState]
      /\ \A q \in Switches \ {s} : /\ UnderWay(q)' <=> UnderWay(q)
                                   /\ q \in Switching' <=> q \in Switching
  BY <1>2, <1>4, SwitchMoves
<1>6. ~UnderWay(s)' /\ s \notin Switching'
  BY <1>4, <1>5 DEF UnderWay, Switching
<1>7. RubricTypes'
  <2>1. season' \in Modes \cup {Absent}
    BY <1>1, <1>2 DEF RubricTypes
  <2>2. criteria' \in FinRows
    <3>1. criteria \in FinRows /\ t.updated \in FinRows /\ t.inserted \in FinRows
      BY <1>2 DEF RubricTypes, SwitchState
    <3>2. {r \in criteria : r.id \notin Written(t)} \in FinRows
      BY <3>1, RowSets
    <3>3. {r \in criteria : r.id \notin Written(t)} \cup t.updated \in FinRows
      BY <3>1, <3>2, RowSets
    <3> QED BY <1>1, <3>1, <3>3, RowSets DEF View
  <2>3. Serving'
    BY <1>1, <1>2 DEF Serving
  <2>4. \A q \in Switches : Held(switch'[q])
    <3>1. Held(u)
      BY <1>4 DEF Held
    <3> QED BY <1>2, <1>5, <3>1 DEF RubricTypes
  <2> QED BY <1>1, <1>2, <1>5, <2>1, <2>2, <2>3, <2>4 DEF RubricTypes
<1>8. RecordInv'
  <2> SUFFICES ASSUME ~mixed
               PROVE  /\ Whole(criteria', season', nextId)
                      /\ \A q \in Switches : ~UnderWay(q)'
    BY <1>1 DEF RecordInv
  <2>1. Progress(t, criteria, season, nextId) /\ t.group = 3
    BY <1>1, <1>2 DEF Progress
  <2>2. season' = t.mode
    BY <1>1, <2>1 DEF Progress
  <2>3. Clean(criteria', nextId)
    BY <1>1, <2>1 DEF Progress
  <2>4. \A g \in GroupNames : Synced(criteria', season', g)
    <3>1. \A h \in {1, 2} : Synced(View(t, criteria), t.mode, Groups[h])
      BY <2>1 DEF Progress
    <3> QED BY <1>1, <2>2, <3>1, GroupsAre
  <2>5. season' # Absent
    BY <1>2, <2>2 DEF RubricAssumption, Modes
  <2>6. \A q \in Switches : ~UnderWay(q)'
    BY <1>2, <1>5, <1>6
  <2> QED BY <2>3, <2>4, <2>5, <2>6 DEF Whole
<1>9. RaceInv'
  <2> SUFFICES ASSUME ~crossed
               PROVE  /\ \A q \in Switches : Unmet(switch'[q], criteria', season', event)
                      /\ Switching' = {}
    BY <1>1 DEF RaceInv
  <2>1. Switching' = {}
    <3>1. Switching' \subseteq Switches
      BY DEF Switching
    <3> QED BY <1>2, <1>5, <1>6, <3>1
  <2>2. ASSUME NEW q \in Switches PROVE Unmet(switch'[q], criteria', season', event)
    <3>1. CASE q = s
      BY <1>4, <1>5, <3>1 DEF Unmet
    <3>2. CASE q # s
      <4>1. switch'[q] = switch[q] /\ q \notin Switching
        BY <1>2, <1>5, <3>2
      <4>2. switch[q].pc \in {"idle", "done"}
        BY <4>1 DEF Switching, RubricInv, RaceInv, Unmet
      <4> QED BY <4>1, <4>2 DEF Unmet
    <3> QED BY <3>1, <3>2
  <2> QED BY <2>1, <2>2
<1> QED BY <1>7, <1>8, <1>9 DEF RubricInv

(* The whole-rubric property of a record whose rows are clean and filled.  *)
LEMMA WholeIsWhole ==
  ASSUME RubricTypes, Whole(criteria, season, nextId) PROVE WholeRubric
<1> SUFFICES ASSUME season # Absent, NEW g \in DOMAIN Groups, NEW k \in DOMAIN Criteria
             PROVE  LET marks == MarksOf(season, Groups[g], Criteria[k])
                        here == {r \in criteria : r.group = Groups[g] /\ r.name = Criteria[k]} IN
                    /\ Cardinality(here) <= 1 /\ \A r \in here : r.max = marks
                    /\ marks > 0 => here # {}
  BY DEF WholeRubric
<1> DEFINE here == {r \in criteria : r.group = Groups[g] /\ r.name = Criteria[k]}
<1>1. Groups[g] \in GroupNames
  <2>1. DOMAIN Groups = {1, 2}
    BY DEF Groups
  <2> QED BY <2>1, GroupsAre
<1>2. Criteria[k] \in Names
  BY Places
<1>3. Clean(criteria, nextId) /\ Synced(criteria, season, Groups[g])
  BY <1>1 DEF Whole
<1>4. Cardinality(here) <= 1
  <2>1. CASE here = {}
    BY <2>1, FS_EmptySet
  <2>2. CASE here # {}
    <3>1. PICK r : r \in here
      BY <2>2
    <3>2. here = {r}
      BY <1>3, <3>1 DEF Clean
    <3> HIDE DEF here
    <3>3. Cardinality({r}) = 1
      BY FS_Singleton
    <3> QED BY <3>2, <3>3
  <2> QED BY <2>1, <2>2
<1>5. \A r \in here : r.max = MarksOf(season, Groups[g], Criteria[k])
  BY <1>3 DEF Synced
<1>6. MarksOf(season, Groups[g], Criteria[k]) > 0 => here # {}
  BY <1>2, <1>3 DEF Synced, Filled
<1> QED BY <1>4, <1>5, <1>6

-----------------------------------------------------------------------------
(* The inductive invariant holds along every behaviour of set_rubric_mode, *)
(* the boot-time seed and the judges' submissions.                         *)
THEOREM RubricInductive == Spec => []RubricInv
<1>1. RubricInv /\ [Next]_vars => RubricInv'
  <2> SUFFICES ASSUME RubricInv, [Next]_vars PROVE RubricInv'
    OBVIOUS
  <2>1. CASE UNCHANGED vars
    <3>1. UNCHANGED <<season, criteria, nextId, switch, boot, judge, event, mixed, crossed>>
      BY <2>1 DEF vars
    <3>2. RaceInv'
      BY <3>1 DEF RubricInv, RaceInv, Switching, Submitting
    <3> QED BY <3>1, <3>2, RubricStutters
  <2>2. ASSUME NEW v \in Servers,
               SeedCheck(v) \/ SeedFlush(v) \/ SeedCommit(v) \/ SeedFails(v)
        PROVE  RubricInv'
    BY <2>2, RubricSeeds, RubricAssumption
  <2>3. ASSUME NEW s \in Switches,
               \/ Begin(s) \/ Season(s) \/ ReadGroup(s) \/ Upsert(s)
               \/ CheckReferences(s) \/ Drop(s) \/ Commit(s) \/ SwitchFails(s)
        PROVE  RubricInv'
    BY <2>3, RubricBegin, RubricSeason, RubricReadGroup, RubricUpsert, RubricCheck, RubricDrop,
       RubricCommit, RubricFails, RubricAssumption
  <2>4. ASSUME NEW j \in Judges,
               SubmitBegin(j) \/ SubmitInsert(j) \/ SubmitCommit(j) \/ Undo(j)
        PROVE  RubricInv'
    BY <2>4, RubricJudges
  <2>5. CASE Next
    BY <2>2, <2>3, <2>4, <2>5 DEF Next
  <2> QED BY <2>1, <2>5
<1> QED BY <1>1, RubricInitially, PTL DEF Spec

(* Whenever no switch repeated the mode beside another, each group on      *)
(* record has exactly the criteria of the season's mode, each once and with*)
(* its full marks: a switch commits both groups and the season together,   *)
(* and what a deduction keeps alive of the other mode has no marks.        *)
THEOREM WholeRubricHolds == Spec => []WholeRubric
<1>1. RubricInv => WholeRubric
  <2> SUFFICES ASSUME RubricInv PROVE WholeRubric
    OBVIOUS
  <2>1. CASE mixed
    BY <2>1 DEF WholeRubric
  <2>2. CASE ~mixed
    BY <2>2, WholeIsWhole DEF RubricInv, RecordInv
  <2> QED BY <2>1, <2>2
<1> QED BY <1>1, RubricInductive, PTL

(* A switch that overlaps no submission, no undo and no other switch never *)
(* fails: what it deletes is referred to by nobody, and what it updates is *)
(* still there.                                                            *)
THEOREM SwitchFailsOnlyByRaceHolds == Spec => []SwitchFailsOnlyByRace
<1>1. RubricInv => SwitchFailsOnlyByRace
  BY DEF RubricInv, RaceInv, Unmet, SwitchFailsOnlyByRace
<1> QED BY <1>1, RubricInductive, PTL
===============================================================================
