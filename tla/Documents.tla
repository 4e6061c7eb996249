------------------------------ MODULE Documents ------------------------------
(***************************************************************************)
(* The files of students and institutions: an object in the bucket         *)
(* (app/services/s3.py) and its key in a column of the owner's row.        *)
(*                                                                         *)
(*   POST /students/{id}/photo, /id-document                               *)
(*   POST /institutions/{id}/document, /media                              *)
(*        each                   Upload, Put, Record                       *)
(*   POST /students, /institutions/register        (Init)                  *)
(*   PATCH /students/{id}                          Rename                  *)
(*   PATCH /institutions/{id}                      Update                  *)
(*   GET  the file, or its presigned URL           Served                  *)
(*                                                                         *)
(* The key of an object is made from the owner's name, the national id of  *)
(* a student, the column and the name of the file; it does not contain the *)
(* id of the row.  An object that is put again under its key is replaced.  *)
(* The columns also take any text that a body has for them.                *)
(*                                                                         *)
(* Words that a key joins by underscores are a sequence, and a part of a   *)
(* key that may hold underscores itself is the sequence of its words: what *)
(* is joined does not show where one part ends.                            *)
(***************************************************************************)
EXTENDS Integers, FiniteSets, Sequences

CONSTANTS
  Pupils,       \* students
  Schools,      \* institutions
  NationalId,   \* NationalId[s]: the national id of a student, ...
  Digits,       \* Digits[i]: ... of which a key keeps no punctuation but _
  Names,        \* the names an owner may have
  Stem,         \* Stem[n]: the first initial and the last name, likewise
  Clean,        \* Clean[n]: a name without punctuation
  ColumnsOf,    \* ColumnsOf[o]: the columns of o that hold a key
  Files,        \* names of uploaded files, as a key keeps them
  Texts,        \* what a body may have for a column: keys, anybody's, or not
  Requests,     \* one id for each request
  AtOnce,       \* bound on the requests in flight
  MaxPatches,   \* bound on the PATCHes
  None          \* no file, no object

Owners == Pupils \cup Schools

DocumentsAssumption ==
  /\ Pupils \cap Schools = {} /\ IsFiniteSet(Requests)
  /\ AtOnce \in Nat /\ MaxPatches \in Nat
  /\ \A s, t \in Pupils : s # t => NationalId[s] # NationalId[t]
  /\ \A n \in Names : Stem[n] \in Seq(STRING)
  /\ \A s \in Pupils : Digits[NationalId[s]] \in Seq(STRING)

VARIABLES
  name,      \* the name of each owner
  column,    \* column[o][c]: the key on record, or None
  bucket,    \* key |-> who put what is there, and by which request
  pc,        \* the next statement of each request
  req,       \* what each request was given, and what it has loaded
  patches,   \* PATCHes so far
  named,     \* history: the names each owner has had
  supplied,  \* history: columns that hold what a body had for them
  latest,    \* history: the upload to each column that was answered last
  torn       \* history: columns whose uploads overlapped, or where one was
             \* cut off between the object and its key

vars == <<name, column, bucket, pc, req, patches, named, supplied, latest, torn>>
history == <<patches, named, supplied, latest, torn>>

PerColumn(v) == [o \in Owners |-> [c \in ColumnsOf[o] |-> v]]
NoReq == [owner |-> None, column |-> None, key |-> None, loaded |-> None]
Slots == UNION {{o} \X ColumnsOf[o] : o \in Owners}
InFlight == {r \in Requests : pc[r] \in {"put", "record"}}
At(r) == <<req[r].owner, req[r].column>>

-----------------------------------------------------------------------------
\* Mutant: the folder of a student is his name.
StudentFolderByName(o) == <<"students", Stem[name[o]]>>
(* make_s3_folder_key: initial, last name and national id, all joined by   *)
(* underscores.                                                            *)
StudentFolder(o) == <<"students", Stem[name[o]] \o Digits[NationalId[o]]>>
(* institution_document_upload_key: the name of the institution; the first *)
(* part of a student's key is not the word institutions, it has a _.       *)
InstitutionFolder(o) == <<"institutions", Clean[name[o]]>>
KeyFor(o, c, file) ==
  [folder |-> IF o \in Pupils THEN StudentFolder(o) ELSE InstitutionFolder(o),
   column |-> c, file |-> file]

Init ==
  /\ name \in [Owners -> Names]
  \* The rows are as they were posted, with a text for any of the columns.
  /\ \E posted \in [Slots -> Texts \cup {None}] :
       /\ column = [o \in Owners |-> [c \in ColumnsOf[o] |-> posted[<<o, c>>]]]
       /\ supplied = {slot \in Slots : posted[slot] # None}
  /\ bucket = {}
  /\ pc = [r \in Requests |-> "idle"] /\ req = [r \in Requests |-> NoReq]
  /\ patches = 0 /\ named = [o \in Owners |-> {name[o]}]
  /\ latest = PerColumn(None) /\ torn = {}

-----------------------------------------------------------------------------
(* The owner is loaded and the key made.                                   *)
Upload(r) ==
  /\ pc[r] = "idle" /\ Cardinality(InFlight) < AtOnce
  /\ \E o \in Owners : \E c \in ColumnsOf[o], f \in Files :
       /\ req' = [req EXCEPT ![r] = [owner |-> o, column |-> c, key |-> KeyFor(o, c, f),
                                     loaded |-> column[o][c]]]
       /\ torn' = IF \E q \in InFlight : At(q) = <<o, c>> THEN torn \cup {<<o, c>>}
                  ELSE torn
  /\ pc' = [pc EXCEPT ![r] = "put"]
  /\ UNCHANGED <<name, column, bucket, patches, named, supplied, latest>>

Ended(r) == pc' = [pc EXCEPT ![r] = "ended"] /\ req' = [req EXCEPT ![r] = NoReq]

(* upload_bytes: without credentials, or on an error of the provider, the  *)
(* request is refused (503, 502, 500) and nothing is stored.               *)
Put(r) ==
  /\ pc[r] = "put"
  /\ \/ /\ bucket' = {b \in bucket : b.key # req[r].key}
                       \cup {[key |-> req[r].key, owner |-> req[r].owner, by |-> r]}
        /\ pc' = [pc EXCEPT ![r] = "record"] /\ UNCHANGED req
     \/ Ended(r) /\ UNCHANGED bucket
  /\ UNCHANGED <<name, column, history>>

(* The key is assigned to the column, which is updated if that changes it  *)
(* from what was loaded, and committed.                                    *)
Record(r) ==
  /\ pc[r] = "record" /\ Ended(r)
  /\ LET q == req[r] IN
     /\ column' = [column EXCEPT ![q.owner][q.column] = IF q.loaded = q.key THEN @ ELSE q.key]
     /\ supplied' = IF column'[q.owner][q.column] = q.key THEN supplied \ {At(r)} ELSE supplied
     /\ latest' = [latest EXCEPT ![q.owner][q.column] = r]
  /\ UNCHANGED <<name, bucket, patches, named, torn>>

(* A request may die: after Put its object is there, perhaps in the place  *)
(* of an older one.                                                        *)
Fail(r) ==
  /\ r \in InFlight /\ Ended(r)
  /\ torn' = IF pc[r] = "record" THEN torn \cup {At(r)} ELSE torn
  /\ UNCHANGED <<name, column, bucket, patches, named, supplied, latest>>

(* A PATCH may change the name, and moves no object; ...                   *)
Patched(o, n) ==
  /\ patches < MaxPatches /\ patches' = patches + 1
  /\ name' = [name EXCEPT ![o] = n] /\ named' = [named EXCEPT ![o] = @ \cup {n}]
  /\ UNCHANGED <<bucket, pc, req, latest, torn>>
(* ... that of a student has nothing for his columns, ...                  *)
Rename(o) ==
  /\ o \in Pupils /\ \E n \in Names \ {name[o]} : Patched(o, n)
  /\ UNCHANGED <<column, supplied>>
(* ... that of an institution may have a text, or nothing, for any.        *)
Update(o) ==
  /\ o \in Schools /\ \E n \in Names : Patched(o, n)
  /\ \E written \in SUBSET ColumnsOf[o] : \E text \in [written -> Texts \cup {None}] :
       /\ column' = [column EXCEPT ![o] =
                       [c \in ColumnsOf[o] |-> IF c \in written THEN text[c] ELSE column[o][c]]]
       /\ supplied' = supplied \cup ({o} \X written)

Next ==
  \/ \E r \in Requests : Upload(r) \/ Put(r) \/ Record(r) \/ Fail(r)
  \/ \E o \in Owners : Rename(o) \/ Update(o)

Spec == Init /\ [][Next]_vars
-----------------------------------------------------------------------------
(* What is behind the presigned URL of a column.                           *)
Served(o, c) == {b \in bucket : b.key = column[o][c]}

(* Nobody else's files are put where o's are: no name that o has had, with *)
(* his national id, makes the words that a name and the national id of     *)
(* another student make (A_1 with 2 makes those of A with 1_2), and an     *)
(* institution has had no name that another one had.                       *)
Apart(o) ==
  \/ o \in Pupils /\ \A s \in Pupils \ {o} : \A m \in named[o], n \in named[s] :
                        Stem[m] \o Digits[NationalId[o]] # Stem[n] \o Digits[NationalId[s]]
  \/ o \in Schools /\ \A t \in Schools \ {o} : \A m \in named[o], n \in named[t] :
                        Clean[m] # Clean[n]

TypeOK ==
  /\ name \in [Owners -> Names]
  /\ pc \in [Requests -> {"idle", "put", "record", "ended"}]
  /\ \A o \in Owners : name[o] \in named[o] /\ named[o] \subseteq Names
  /\ torn \subseteq Slots /\ supplied \subseteq Slots

(* Whoever follows the link of a column that an upload has written since a *)
(* body last did finds one file, of that owner, through any renames,       *)
(* crossings and failures; and, unless uploads to the column crossed or    *)
(* died, it is the one that was answered last.  The key holds no row id:   *)
(* this rests on the ids and the names being apart.                        *)
LinksLeadToOwnUploads ==
  \A o \in Owners : \A c \in ColumnsOf[o] :
    column[o][c] # None /\ <<o, c>> \notin supplied /\ Apart(o) =>
      \E b \in bucket :
        /\ Served(o, c) = {b} /\ b.owner = o
        /\ \/ <<o, c>> \in torn \/ b.by = latest[o][c]
           \/ pc[b.by] = "record" /\ At(b.by) = <<o, c>>
==============================================================================
