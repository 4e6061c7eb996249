----------------------------- MODULE MCBackoffice ----------------------------
(***************************************************************************)
(* Instances of the parts that share no state with each other: the dossier *)
(* job, the competitions, the leaderboard's sockets, the letters, the      *)
(* documents and the questions.  Each behaviour is one of a single part,   *)
(* the focus; the others stay in their first state.                        *)
(***************************************************************************)
EXTENDS Backoffice, TLC

CONSTANTS
  amina, asha,       \* students, ...
  north, south,      \* ... institutions, ...
  name1, name2       \* ... and names

ASSUME C!CompetitionsAssumption
ASSUME T!LettersAssumption
ASSUME Q!QuestionsAssumption
ASSUME D!DocumentsAssumption
ASSUME L!LeaderboardAssumption

-----------------------------------------------------------------------------
(* One competition is current, another a draft; a third may be created.    *)
TwoComps == (1 :> [current |-> TRUE, status |-> "ACTIVE", gallery |-> {}])
         @@ (2 :> [current |-> FALSE, status |-> "DRAFT", gallery |-> {}])

(* Two students called Ali, with the ids 2 and 1_2, and two institutions;  *)
(* amina with the last name Ali_1 has the folder of asha.  A body has the  *)
(* key of a photo of amina's, which she may not have put there yet, as     *)
(* asha's registration had.  Bound: only amina uploads an id document.     *)
OwnIds == [s \in Pupils |-> s]
OwnDigits == [i \in Pupils |-> IF i = amina THEN <<"2">> ELSE <<"1", "2">>]
Stems == [n \in Names |-> IF n = name1 THEN <<"A", "Ali">> ELSE <<"A", "Ali", "1">>]
SomeTexts == {[folder |-> <<"students", <<"A", "Ali", "2">>>>, column |-> "photo", file |-> "scan"]}
OwnNames == [n \in Names |-> n]
UploadColumns == (amina :> {"photo", "id_document"}) @@ (asha :> {"photo"})
              @@ [t \in Schools |-> {"document_url"}]
FirstNames == [o \in Pupils \cup Schools |-> IF o = south THEN name2 ELSE name1]

-----------------------------------------------------------------------------
VARIABLE focus
mcvars == <<focus, vars, cVars, lVars, tVars, dVars, qVars>>

Parts == {"jobs", "competitions", "leaderboard", "letters", "documents", "questions"}
MCInit ==
  /\ focus \in Parts
  /\ name = FirstNames
  /\ Init /\ C!Init /\ L!Init /\ T!Init /\ D!Init /\ Q!Init
  /\ supplied = IF focus = "documents" THEN {<<asha, "photo">>} ELSE {}
  /\ focus # "letters" => record[amina].category = "juz30" /\ receipts[amina] = Blank
(* Bound: the moderators' sockets connect before anything else happens.    *)
ModeratorFirst == (\E w \in Staff : sock'[w].pc = "new") => sock' = sock /\ fin' = fin
MCNext ==
  /\ UNCHANGED focus
  /\ IF focus = "jobs" THEN Next ELSE UNCHANGED vars
  /\ IF focus = "competitions" THEN C!Next ELSE UNCHANGED cVars
  /\ IF focus = "leaderboard" THEN L!Next /\ ModeratorFirst ELSE UNCHANGED lVars
  /\ IF focus = "letters" THEN T!Next ELSE UNCHANGED tVars
  /\ IF focus = "documents" THEN D!Next ELSE UNCHANGED dVars
  /\ IF focus = "questions" THEN Q!Next ELSE UNCHANGED qVars
MCSpec == MCInit /\ [][MCNext]_mcvars

Symmetry == Permutations(Requests)
==============================================================================
