---------------------------- MODULE Competitions -----------------------------
(***************************************************************************)
(* The competition editions (app/api/v1/routes/competitions.py): which one *)
(* is current, and the gallery of each.                                    *)
(*                                                                         *)
(*   POST   /competitions                      CreateBegin                 *)
(*   PATCH  /competitions/{id}                 UpdateBegin                 *)
(*   POST   /competitions/{id}/set-current     SetCurrentBegin             *)
(*   POST   /competitions/{id}/gallery         AddItemBegin                *)
(*   DELETE /competitions/{id}/gallery/{item}  DropItemBegin               *)
(*   DELETE /competitions/{id}                 DeleteBegin                 *)
(*   each, as far as it does it                ReadCurrent, Commit         *)
(*                                                                         *)
(* Each request is one READ COMMITTED transaction.  Its UPDATEs are in one *)
(* flush, lock the rows in the order of their keys and are committed next, *)
(* so that flush and commit are one step; they set the columns in which an *)
(* object differs from what was loaded.  gallery is one JSON column.       *)
(***************************************************************************)
EXTENDS Integers, FiniteSets

CONSTANTS
  Comps,        \* primary keys, in the order they are given out
  Items,        \* media items
  PriorComps,   \* the competitions on record before the run
  Requests,     \* one id for each request
  AtOnce,       \* bound on the requests in flight
  Absent        \* no row

VARIABLES
  comps,    \* competitions: the committed row of each id, or Absent
  unborn,   \* ids the sequence has not given out
  pc,       \* the next statement of each request
  req,      \* what each request was given, and what it has read
  met,      \* history: requests that say which competition is current and
            \* overlapped another such request
  crossed,  \* history: competitions with overlapping edits of the gallery
  wanted    \* history: the gallery the answered requests have asked for

vars == <<comps, unborn, pc, req, met, crossed, wanted>>

Statuses == {"DRAFT", "ACTIVE", "CONCLUDED"}
CompetitionRow == [current: BOOLEAN, status: Statuses, gallery: SUBSET Items]
CompetitionsAssumption ==
  /\ Comps \subseteq Nat /\ IsFiniteSet(Comps)
  /\ IsFiniteSet(Items) /\ IsFiniteSet(Requests) /\ AtOnce \in Nat \ {0}
  /\ Absent \notin Comps \cup CompetitionRow
  /\ DOMAIN PriorComps \subseteq Comps
  /\ \A c \in DOMAIN PriorComps : PriorComps[c] \in CompetitionRow
  /\ \A c, d \in DOMAIN PriorComps :
       PriorComps[c].current /\ PriorComps[d].current => c = d
(* A PATCH body: a field is the set of its value, empty when it is unset.  *)
Patches == [current: {{}, {TRUE}, {FALSE}},
            status: {{}, {"CONCLUDED"}},
            gallery: {{}, {{}}}]
NoPatch == [current |-> {}, status |-> {}, gallery |-> {}]
NewRow(current) == [current |-> current, status |-> "DRAFT", gallery |-> {}]
NoReq == [kind |-> "none", comp |-> Absent, patch |-> NoPatch, items |-> {},
          loaded |-> Absent, others |-> {}]

InFlight == {r \in Requests : pc[r] \in {"read", "write"}}
OnRecord == {c \in Comps : comps[c] # Absent}
Currents == {c \in OnRecord : comps[c].current}

(* Requests that make a competition the current one, that say whether one  *)
(* is, and edits of a gallery.                                             *)
NamesCurrent(q) == q.kind = "set" \/ q.patch.current # {}
Promotes(q) == q.kind = "set" \/ TRUE \in q.patch.current
EditsGallery(q) == q.kind \in {"add", "drop"} \/ q.patch.gallery # {}

Init ==
  /\ comps = [c \in Comps |-> IF c \in DOMAIN PriorComps THEN PriorComps[c]
                              ELSE Absent]
  /\ unborn = Comps \ DOMAIN PriorComps
  /\ pc = [r \in Requests |-> "idle"]
  /\ req = [r \in Requests |-> NoReq]
  /\ met = {} /\ crossed = {}
  /\ wanted = [c \in Comps |-> IF comps[c] = Absent THEN {} ELSE comps[c].gallery]

-----------------------------------------------------------------------------
Begin(r, q) ==
  /\ pc[r] = "idle" /\ Cardinality(InFlight) < AtOnce
  /\ req' = [req EXCEPT ![r] = q]
  /\ pc' = [pc EXCEPT ![r] = IF Promotes(q) THEN "read" ELSE "write"]
  /\ LET rivals == {o \in InFlight : NamesCurrent(req[o])} IN
     met' = IF NamesCurrent(q) /\ rivals # {} THEN met \cup rivals \cup {r} ELSE met
  /\ crossed' = IF EditsGallery(q) /\ \E o \in InFlight :
                     EditsGallery(req[o]) /\ req[o].comp = q.comp
                THEN crossed \cup {q.comp} ELSE crossed
  /\ UNCHANGED <<comps, unborn, wanted>>

(* db.get: an unknown competition is refused (404).                        *)
Open(r, q) ==
  \E c \in OnRecord : Begin(r, [q EXCEPT !.comp = c, !.loaded = comps[c]])

CreateBegin(r) == \E current \in BOOLEAN :
  Begin(r, [NoReq EXCEPT !.kind = "create", !.patch.current = {current}])
UpdateBegin(r) == \E p \in Patches :
  Open(r, [NoReq EXCEPT !.kind = "update", !.patch = p])
SetCurrentBegin(r) == Open(r, [NoReq EXCEPT !.kind = "set"])
AddItemBegin(r) == \E i \in Items : Open(r, [NoReq EXCEPT !.kind = "add", !.items = {i}])
DropItemBegin(r) == \E i \in Items : Open(r, [NoReq EXCEPT !.kind = "drop", !.items = {i}])
DeleteBegin(r) == Open(r, [NoReq EXCEPT !.kind = "delete"])

\* Mutant: first() for all().
ReadCurrentFirst(r) ==
  /\ pc[r] = "read"
  /\ LET found == Currents \ {req[r].comp} IN
     req' = [req EXCEPT ![r].others = {c \in found : \A o \in found : c <= o}]
  /\ pc' = [pc EXCEPT ![r] = "write"]
  /\ UNCHANGED <<comps, unborn, met, crossed, wanted>>
(* The SELECT of the other competitions that are current; the one that was *)
(* loaded first stays as it was loaded.                                    *)
ReadCurrent(r) ==
  /\ pc[r] = "read"
  /\ req' = [req EXCEPT ![r].others = Currents \ {req[r].comp}]
  /\ pc' = [pc EXCEPT ![r] = "write"]
  /\ UNCHANGED <<comps, unborn, met, crossed, wanted>>

(* The object after the assignments of the handler.                        *)
Patched(value, patch) == IF patch = {} THEN value ELSE CHOOSE x \in patch : TRUE
After(q) ==
  CASE q.kind = "update" ->
         [current |-> Patched(q.loaded.current, q.patch.current),
          status  |-> Patched(q.loaded.status, q.patch.status),
          gallery |-> Patched(q.loaded.gallery, q.patch.gallery)]
    [] q.kind = "set" ->
         [q.loaded EXCEPT !.current = TRUE,
            !.status = IF @ = "DRAFT" THEN "ACTIVE" ELSE @]
    [] q.kind = "add"  -> [q.loaded EXCEPT !.gallery = @ \cup q.items]
    [] q.kind = "drop" -> [q.loaded EXCEPT !.gallery = @ \ q.items]

\* Mutant: all columns are written.
UpdatedWhole(now, loaded, after) == after
(* The UPDATE of the columns that have changed, on the row as it is now.   *)
Updated(now, loaded, after) ==
  [f \in DOMAIN now |-> IF after[f] = loaded[f] THEN now[f] ELSE after[f]]

\* Mutant: the others are cleared only by set-current.
ClearedBySet(r) ==
  [c \in Comps |-> IF c \in req[r].others \cap OnRecord /\ req[r].kind = "set"
                   THEN [comps[c] EXCEPT !.current = FALSE] ELSE comps[c]]
(* The others are not current any more.  (An UPDATE of several rows does   *)
(* not miss one that is gone; where it was the only one, the request       *)
(* fails, as it may in Fail.)                                              *)
Cleared(r) ==
  [c \in Comps |-> IF c \in req[r].others \cap OnRecord
                   THEN [comps[c] EXCEPT !.current = FALSE] ELSE comps[c]]

(* Flush and COMMIT.  A row that was deleted since it was loaded cannot be *)
(* updated or refreshed, and the request fails; deleting it again does     *)
(* nothing.                                                                *)
Commit(r) ==
  /\ pc[r] = "write"
  /\ LET q == req[r]
         new == CHOOSE c \in unborn : \A o \in unborn : c <= o
     IN
     \/ /\ q.kind = "create" /\ unborn # {}
        /\ comps' = [Cleared(r) EXCEPT ![new] = NewRow(TRUE \in q.patch.current)]
        /\ unborn' = unborn \ {new}
        /\ pc' = [pc EXCEPT ![r] = "done"]
        /\ UNCHANGED wanted
     \/ /\ q.kind = "delete"
        /\ comps' = [comps EXCEPT ![q.comp] = Absent]
        /\ pc' = [pc EXCEPT ![r] = "done"]
        /\ UNCHANGED <<unborn, wanted>>
     \/ /\ q.kind \notin {"create", "delete"} /\ q.comp \in OnRecord
        /\ comps' = [Cleared(r) EXCEPT ![q.comp] = Updated(@, q.loaded, After(q))]
        /\ wanted' = [wanted EXCEPT ![q.comp] =
             CASE q.kind = "add"  -> @ \cup q.items
               [] q.kind = "drop" -> @ \ q.items
               [] OTHER -> Patched(@, q.patch.gallery)]
        /\ pc' = [pc EXCEPT ![r] = "done"]
        /\ UNCHANGED unborn
     \/ /\ q.kind \notin {"create", "delete"} /\ q.comp \notin OnRecord
        /\ pc' = [pc EXCEPT ![r] = "failed"]
        /\ UNCHANGED <<comps, unborn, wanted>>
  /\ req' = [req EXCEPT ![r] = NoReq]
  /\ UNCHANGED <<met, crossed>>

(* Any request may die: nothing of it is on record.                        *)
Fail(r) ==
  /\ r \in InFlight
  /\ pc' = [pc EXCEPT ![r] = "failed"]
  /\ req' = [req EXCEPT ![r] = NoReq]
  /\ UNCHANGED <<comps, unborn, met, crossed, wanted>>

Next == \E r \in Requests :
  \/ CreateBegin(r) \/ UpdateBegin(r) \/ SetCurrentBegin(r)
  \/ AddItemBegin(r) \/ DropItemBegin(r) \/ DeleteBegin(r)
  \/ ReadCurrent(r) \/ Commit(r) \/ Fail(r)

Spec == Init /\ [][Next]_vars
-----------------------------------------------------------------------------
TypeOK ==
  /\ comps \in [Comps -> CompetitionRow \cup {Absent}]
  /\ unborn \subseteq Comps /\ \A c \in unborn : comps[c] = Absent
  /\ pc \in [Requests -> {"idle", "read", "write", "done", "failed"}]
  /\ met \subseteq Requests /\ crossed \subseteq Comps
  /\ wanted \in [Comps -> SUBSET Items]

(* One competition is current, as long as the requests that say which do   *)
(* not overlap; no constraint of the table says so.  AtOnce of them at a   *)
(* time leave that many.                                                   *)
CurrentIsUnique ==
  Cardinality(Currents) <= IF met = {} THEN 1 ELSE AtOnce

(* Whatever earlier races have left, a set-current that overlapped no      *)
(* other leaves its competition as the only current one.                   *)
SetCurrentSettles ==
  [][\A r \in Requests \ met :
       req[r].kind = "set" /\ pc[r] = "write" /\ pc'[r] = "done" =>
         Currents' = {req[r].comp}]_vars

(* A gallery is what was added to it and not removed, also while the rest  *)
(* of the competition is edited; only two edits of one gallery at a time   *)
(* may lose an item, since each rewrites the list it has loaded.           *)
GalleryKeepsItems ==
  \A c \in OnRecord \ crossed : comps[c].gallery = wanted[c]
==============================================================================
