----------------------------- MODULE Leaderboard -----------------------------
(***************************************************************************)
(* The leaderboard of a category on the screens: the registry of sockets   *)
(* (app/core/websocket_manager.py), the two socket endpoints (app/ws) and  *)
(* the broadcast of a finalisation (_broadcast_leaderboard in              *)
(* app/services/ranking_engine.py).                                        *)
(*                                                                         *)
(*   /ws/leaderboard/{category}   Connect, Snapshot, Greet, Hangup,        *)
(*                                Disconnect                               *)
(*   /ws/admin/live-scoring       ConnectAdmin, Hangup, Disconnect         *)
(*   a finalisation               Finalize, ReadBoard, CopyRoom, Send,     *)
(*                                EndOfRoom, Commit, FailFinalisation      *)
(*                                                                         *)
(* How a finalisation computes its result is Scoring; here it has one row  *)
(* to write, which it holds until it commits.  A board is the results of   *)
(* one round of the category.                                              *)
(***************************************************************************)
EXTENDS Integers, FiniteSets

CONSTANTS
  Viewers,      \* public sockets of the category
  Staff,        \* sockets of the live-scoring feed
  Finalisers,   \* one id for each finalisation, which is also its score
  Rounds,       \* rounds of the category
  Newest,       \* the one with the latest scheduled_at
  Students,     \* who is on the board
  Leaving,      \* bound: the sockets whose client may go
  Failing,      \* bound: the finalisations that may die
  AtOnce,       \* bound on the finalisations in flight
  Blank         \* no board

LeaderboardAssumption ==
  /\ IsFiniteSet(Viewers) /\ IsFiniteSet(Staff) /\ Viewers \cap Staff = {}
  /\ Finalisers \subseteq Nat \ {0} /\ IsFiniteSet(Finalisers)
  /\ Newest \in Rounds /\ AtOnce \in Nat
  /\ Leaving \subseteq Viewers \cup Staff /\ Failing \subseteq Finalisers

VARIABLES
  results,   \* round_results: the committed score of each student, or 0
  fin,       \* the finalisations
  sock,      \* the sockets: the coroutine of each
  gone,      \* sockets whose client has closed or vanished
  room,      \* channel |-> its sockets in the ConnectionManager
  screen,    \* the last board each socket was sent
  stale      \* history: sockets that a race, or a failure, may have left
             \* with another board than the one on record

vars == <<results, fin, sock, gone, room, screen, stale>>

Sockets == Viewers \cup Staff
Channels == {"leaderboard", "admin"}
ChannelOf(s) == IF s \in Viewers THEN "leaderboard" ELSE "admin"
Boards == [round: Rounds, scores: [Students -> Finalisers \cup {0}]]
Board(rnd, scores) == [round |-> rnd, scores |-> scores]
NoFin == [pc |-> "idle", round |-> Newest, student |-> Blank, board |-> Blank,
          channel |-> "leaderboard", todo |-> {}, dead |-> {}, reached |-> {},
          alone |-> TRUE]

Finalising == {f \in Finalisers : fin[f].pc \notin {"idle", "end"}}
Connecting == {s \in Sockets : sock[s].pc \in {"snapshot", "greet"}}
Open == {s \in Sockets : sock[s].pc = "open"} \ gone

Init ==
  /\ results = [rnd \in Rounds |-> [s \in Students |-> 0]]
  /\ fin = [f \in Finalisers |-> NoFin]
  /\ sock = [s \in Sockets |-> [pc |-> "new", snap |-> Blank]]
  /\ gone = {}
  /\ room = [c \in Channels |-> {}]
  /\ screen = [s \in Sockets |-> Blank]
  /\ stale = {}

-----------------------------------------------------------------------------
(* connect_leaderboard: accepted, and in the room from then on.            *)
Connect(s) ==
  /\ s \in Viewers /\ sock[s].pc = "new"
  /\ sock' = [sock EXCEPT ![s].pc = "snapshot"]
  /\ room' = [room EXCEPT !["leaderboard"] = @ \cup {s}]
  /\ stale' = IF Finalising # {} THEN stale \cup {s} ELSE stale
  /\ UNCHANGED <<results, fin, gone, screen>>

(* admin_live_ws: closed again without a valid staff token, otherwise in   *)
(* the room.  It is sent no snapshot.                                      *)
ConnectAdmin(s) ==
  /\ s \in Staff /\ sock[s].pc = "new"
  /\ \/ /\ sock' = [sock EXCEPT ![s].pc = "open"]
        /\ room' = [room EXCEPT !["admin"] = @ \cup {s}]
     \/ sock' = [sock EXCEPT ![s].pc = "off"] /\ UNCHANGED room
  /\ UNCHANGED <<results, fin, gone, screen, stale>>

(* _snapshot: in a session of its own, of the newest round.                *)
Snapshot(s) ==
  /\ sock[s].pc = "snapshot"
  /\ sock' = [sock EXCEPT ![s] = [pc |-> "greet", snap |-> Board(Newest, results[Newest])]]
  /\ UNCHANGED <<results, fin, gone, room, screen, stale>>

(* The snapshot is sent.  Only WebSocketDisconnect is caught: any other    *)
(* error ends the coroutine and leaves the socket in the room.             *)
Greet(s) ==
  /\ sock[s].pc = "greet"
  /\ \/ /\ s \notin gone
        /\ screen' = [screen EXCEPT ![s] = sock[s].snap]
        /\ sock' = [sock EXCEPT ![s] = [pc |-> "open", snap |-> Blank]]
        /\ UNCHANGED room
     \/ /\ s \in gone
        /\ sock' = [sock EXCEPT ![s] = [pc |-> "off", snap |-> Blank]]
        /\ room' \in {room, [room EXCEPT !["leaderboard"] = @ \ {s}]}
        /\ UNCHANGED screen
  /\ UNCHANGED <<results, fin, gone, stale>>

(* The client closes the socket or is lost.                                *)
Hangup(s) ==
  /\ s \in Leaving \ gone /\ sock[s].pc \notin {"new", "off"}
  /\ gone' = gone \cup {s}
  /\ UNCHANGED <<results, fin, sock, room, screen, stale>>

(* receive_text raises WebSocketDisconnect.                                *)
Disconnect(s) ==
  /\ sock[s].pc = "open" /\ s \in gone
  /\ sock' = [sock EXCEPT ![s].pc = "off"]
  /\ room' = [room EXCEPT ![ChannelOf(s)] = @ \ {s}]
  /\ UNCHANGED <<results, fin, gone, screen, stale>>

-----------------------------------------------------------------------------
(* A submission completes the panel of a student: his row is written.      *)
Finalize(f) ==
  /\ fin[f].pc = "idle" /\ Cardinality(Finalising) < AtOnce
  /\ \E rnd \in Rounds, s \in Students :
       /\ \A o \in Finalising : fin[o].round # rnd \/ fin[o].student # s
       /\ fin' = [o \in Finalisers |->
            IF o = f THEN [NoFin EXCEPT !.pc = "read", !.round = rnd, !.student = s,
                                        !.alone = Finalising = {}]
            ELSE IF o \in Finalising THEN [fin[o] EXCEPT !.alone = FALSE] ELSE fin[o]]
  /\ stale' = stale \cup Connecting
  /\ UNCHANGED <<results, sock, gone, room, screen>>

(* The results of the round, as this session sees them.                    *)
ReadBoard(f) ==
  /\ fin[f].pc = "read"
  /\ fin' = [fin EXCEPT ![f].pc = "copy",
       ![f].board = Board(fin[f].round,
                          [results[fin[f].round] EXCEPT ![fin[f].student] = f])]
  /\ UNCHANGED <<results, sock, gone, room, screen, stale>>

(* The loop of broadcast_leaderboard, then that of broadcast_admin, is     *)
(* over a copy of the room.                                                *)
CopyRoom(f) ==
  /\ fin[f].pc = "copy"
  /\ fin' = [fin EXCEPT ![f].pc = "send", ![f].todo = room[fin[f].channel], ![f].dead = {}]
  /\ UNCHANGED <<results, sock, gone, room, screen, stale>>

\* Mutant: the try is around the loop.
SendUntilDead(f) ==
  /\ fin[f].pc = "send"
  /\ \E s \in fin[f].todo :
       IF s \in gone
       THEN /\ fin' = [fin EXCEPT ![f].todo = {}, ![f].dead = @ \cup {s}]
            /\ UNCHANGED screen
       ELSE /\ fin' = [fin EXCEPT ![f].todo = @ \ {s},
                 ![f].reached = IF sock[s].pc = "open" THEN @ \cup {s} ELSE @]
            /\ screen' = [screen EXCEPT ![s] = fin[f].board]
  /\ UNCHANGED <<results, sock, gone, room, stale>>
(* send_text to one socket after the other; one that raises is remembered. *)
Send(f) ==
  /\ fin[f].pc = "send"
  /\ \E s \in fin[f].todo :
       IF s \in gone
       THEN /\ fin' = [fin EXCEPT ![f].todo = @ \ {s}, ![f].dead = @ \cup {s}]
            /\ UNCHANGED screen
       ELSE /\ fin' = [fin EXCEPT ![f].todo = @ \ {s},
                 ![f].reached = IF sock[s].pc = "open" THEN @ \cup {s} ELSE @]
            /\ screen' = [screen EXCEPT ![s] = fin[f].board]
  /\ UNCHANGED <<results, sock, gone, room, stale>>

(* The dead sockets leave the room.                                        *)
EndOfRoom(f) ==
  /\ fin[f].pc = "send" /\ fin[f].todo = {}
  /\ room' = [room EXCEPT ![fin[f].channel] = @ \ fin[f].dead]
  /\ fin' = IF fin[f].channel = "leaderboard"
            THEN [fin EXCEPT ![f].pc = "copy", ![f].channel = "admin"]
            ELSE [fin EXCEPT ![f].pc = "commit"]
  /\ UNCHANGED <<results, sock, gone, screen, stale>>

(* The COMMIT of the request comes last.  A finalisation of the newest     *)
(* round that met no other leaves the sockets it has reached up to date.   *)
Commit(f) ==
  /\ fin[f].pc = "commit"
  /\ results' = [results EXCEPT ![fin[f].round][fin[f].student] = f]
  /\ stale' = IF fin[f].alone /\ fin[f].round = Newest
              THEN stale \ fin[f].reached ELSE Sockets
  /\ fin' = [fin EXCEPT ![f] = [NoFin EXCEPT !.pc = "end"]]
  /\ UNCHANGED <<sock, gone, room, screen>>

(* A request that dies has shown a board that does not come to be.         *)
FailFinalisation(f) ==
  /\ f \in Finalising \cap Failing
  /\ fin' = [fin EXCEPT ![f] = [NoFin EXCEPT !.pc = "end"]]
  /\ stale' = Sockets
  /\ UNCHANGED <<results, sock, gone, room, screen>>

Next ==
  \/ \E s \in Sockets : \/ Connect(s) \/ ConnectAdmin(s) \/ Snapshot(s)
                        \/ Greet(s) \/ Hangup(s) \/ Disconnect(s)
  \/ \E f \in Finalisers : \/ Finalize(f) \/ ReadBoard(f) \/ CopyRoom(f)
                           \/ Send(f) \/ EndOfRoom(f) \/ Commit(f)
                           \/ FailFinalisation(f)

Spec == Init /\ [][Next]_vars
-----------------------------------------------------------------------------
TypeOK ==
  /\ results \in [Rounds -> [Students -> Finalisers \cup {0}]]
  /\ screen \in [Sockets -> Boards \cup {Blank}]
  /\ gone \subseteq Sockets /\ stale \subseteq Sockets
  /\ room["leaderboard"] \subseteq Viewers /\ room["admin"] \subseteq Staff
  /\ \A f \in Finalisers : fin[f].todo \subseteq Sockets

(* A viewer ends on the newest board: when no finalisation is in flight,   *)
(* every open socket that no race has touched since shows what is on       *)
(* record, and one undisturbed broadcast of the newest round is enough to  *)
(* bring all of them back.  What can touch them: a socket connects         *)
(* while a finalisation is under way, two of them cross, one fails after   *)
(* it was broadcast, or the round is not the one a snapshot is taken of.   *)
LastBoardReachesViewers ==
  Finalising = {} =>
    \A s \in Open \ stale :
      /\ s \in room[ChannelOf(s)]
      /\ screen[s] \in {Board(Newest, results[Newest])}
                      \cup IF s \in Staff THEN {Blank} ELSE {}
==============================================================================
