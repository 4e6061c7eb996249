----------------------------- MODULE Backoffice ------------------------------
(***************************************************************************)
(* The parts that share no state with each other, side by side: the        *)
(* dossier job, the competitions, the letters, the questions, the          *)
(* documents and the leaderboard's sockets.  Each part has variables of    *)
(* its own and its own specification; what is promised of each is stated   *)
(* here once, for the runs and for the proofs.                             *)
(***************************************************************************)
EXTENDS Jobs

CONSTANTS
  Requests,         \* about competitions, questions and documents
  Mailings,         \* about letters
  FailingMailings, FailingFinalisers,
  AtOnce,           \* bound on the requests in flight
  Students,
  Comps, Items, PriorComps, Absent,                   \* of Competitions
  Categories, MaxEdits, Blank,                        \* of Letters
  Numbers, Columns, Values, Unset,                    \* of Questions
  Pupils, Schools, NationalId, Digits, Names, Stem,   \* of Documents
  Clean, ColumnsOf, Files, Texts, MaxPatches, None,
  Viewers, Staff, Finalisers, Rounds, Newest, Leaving \* of Leaderboard

VARIABLES comps, unborn, cPc, cReq, met, cCrossed, wanted
cVars == <<comps, unborn, cPc, cReq, met, cCrossed, wanted>>
VARIABLES record, tPc, tReq, inbox, texted, regrets, logs, lost, edits, receipts, late,
          tCrossed
tVars == <<record, tPc, tReq, inbox, texted, regrets, logs, lost, edits, receipts, late,
           tCrossed>>
VARIABLES rows, uPc, uReq, last, uCrossed
qVars == <<rows, uPc, uReq, last, uCrossed>>
VARIABLES name, column, bucket, dPc, dReq, patches, named, supplied, latest, torn
dVars == <<name, column, bucket, dPc, dReq, patches, named, supplied, latest, torn>>
VARIABLES results, fin, sock, gone, room, screen, stale
lVars == <<results, fin, sock, gone, room, screen, stale>>

C == INSTANCE Competitions WITH pc <- cPc, req <- cReq, crossed <- cCrossed
T == INSTANCE Letters WITH Requests <- Mailings, Failing <- FailingMailings,
                           pc <- tPc, req <- tReq, crossed <- tCrossed
Q == INSTANCE Questions WITH pc <- uPc, req <- uReq, crossed <- uCrossed
D == INSTANCE Documents WITH pc <- dPc, req <- dReq
L == INSTANCE Leaderboard WITH Failing <- FailingFinalisers

-----------------------------------------------------------------------------
(* One competition is current, unless requests that say so overlapped      *)
(* (routes/competitions.py).                                               *)
CurrentIsUnique == C!CurrentIsUnique
(* A set-current on its own leaves one competition current.                *)
SetCurrentSettles == C!SetCurrentSettles
(* Edits of a competition lose no gallery item (routes/competitions.py).   *)
GalleryKeepsItems == C!GalleryKeepsItems
(* The last leaderboard reaches every socket (core/websocket_manager.py).  *)
LastBoardReachesViewers == L!LastBoardReachesViewers
(* Each regret letter is logged (send_regret_email_endpoint).              *)
RegretsAreLogged == T!RegretsAreLogged
(* Students are told what was decided (services/notifications.py).         *)
StudentsKnowTheirReview == T!StudentsKnowTheirReview
(* A link leads to a file of the owner (services/s3.py).                   *)
LinksLeadToOwnUploads == D!LinksLeadToOwnUploads
(* A question keeps what was saved (upsert_round_question).                *)
SavedColumnsAreKept == Q!SavedColumnsAreKept
==============================================================================
