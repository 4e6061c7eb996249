-------------------------------- MODULE Otp ----------------------------------
(***************************************************************************)
(* The one-time passcodes an institution logs in with                      *)
(* (app/api/v1/routes/auth.py), read against the institutions on record.   *)
(*                                                                         *)
(*   POST /auth/institution/request-otp   RequestBegin, RequestRead,       *)
(*                                        RequestCommit                    *)
(*   POST /auth/institution/verify-otp    VerifyBegin, VerifyRead,         *)
(*                                        VerifyCommit, OpenSession        *)
(*                                                                         *)
(* A client is a slot that makes one call after the other.  The columns a  *)
(* request writes are those it has changed in the row it loaded.           *)
(***************************************************************************)
EXTENDS Institutions

CONSTANTS
  Clients,      \* concurrent callers of the login endpoints
  MaxCodes,     \* bound on the codes ever requested
  MaxCalls,     \* bound on the calls of verify-otp
  MaxAttempts   \* wrong answers a code allows (5 in the code)

ASSUME OtpAssumption ==
  /\ IsFiniteSet(Clients) /\ Absent \notin Nat
  /\ MaxCodes \in Nat /\ MaxCalls \in Nat /\ MaxAttempts \in Nat

VARIABLES
  codes,       \* institution_otps in the order of created_at, or Absent
  client,      \* client |-> the call it is in
  calls,       \* calls of verify-otp so far
  guesses,     \* history: wrong answers told for each code
  sessions,    \* sessions opened with each code
  overlapped   \* history: a call has overlapped another, or a request of
               \* Institutions

otpVars == <<codes, client, calls, guesses, sessions, overlapped>>

CodeIds == 1..MaxCodes
Code == [inst: Ids, used: BOOLEAN, attempts: 0..MaxAttempts, expired: BOOLEAN]
ASSUME CodeAssumption == Absent \notin Code
Wrong == 0      \* an answer that is no code
Outcomes == {"expire", "lock", "count", "open"}
Call == [pc: {"idle", "request", "insert", "verify", "answer", "session"},
         inst: Ids \cup {Absent}, answer: CodeIds \cup {Wrong},
         stale: SUBSET CodeIds, code: CodeIds \cup {Wrong},
         outcome: Outcomes, attempts: 0..MaxAttempts]
Idle == [pc |-> "idle", inst |-> Absent, answer |-> Wrong, stale |-> {},
         code |-> Wrong, outcome |-> "expire", attempts |-> 0]

Calling == {c \in Clients : client[c].pc # "idle"}
Reserved == {client[c].code : c \in {d \in Clients : client[d].pc = "insert"}}
Issued == {k \in CodeIds : codes[k] # Absent}
Live(i) == {k \in Issued : codes[k].inst = i /\ ~codes[k].used}
Latest(S) == {k \in S : \A x \in S : x <= k}

OtpInit ==
  /\ codes = [k \in CodeIds |-> Absent]
  /\ client = [c \in Clients |-> Idle]
  /\ calls = 0
  /\ guesses = [k \in CodeIds |-> 0]
  /\ sessions = [k \in CodeIds |-> 0]
  /\ overlapped = FALSE

CallBegins(c, call) ==
  /\ client[c].pc = "idle"
  /\ client' = [client EXCEPT ![c] = call]
  /\ Cardinality(Calling) + Cardinality(InFlight) < Concurrency
  /\ overlapped' = (overlapped \/ Calling # {} \/ InFlight # {})
Hangup(c) == client' = [client EXCEPT ![c] = Idle]

\* Mutant: whoever is on record.
InGoodStandingOrNot(i) == i \in OnRecord
(* Both endpoints know only institutions that are not rejected (404).      *)
InGoodStanding(i) == i \in OnRecord /\ rows[i].status # "REJECTED"

-----------------------------------------------------------------------------
(* The institution, and the contact the caller has to know, are checked.   *)
RequestBegin(c) ==
  /\ \E i \in Ids : InGoodStanding(i)
       /\ CallBegins(c, [Idle EXCEPT !.pc = "request", !.inst = i])
  /\ UNCHANGED <<codes, calls, guesses, sessions, instVars>>

(* The SELECT of the unused codes; the new one has its created_at now.     *)
RequestRead(c) ==
  /\ client[c].pc = "request"
  /\ \E last \in Latest(Issued \cup Reserved \cup {0}) :
       /\ last + 1 \in CodeIds
       /\ client' = [client EXCEPT ![c].pc = "insert", ![c].code = last + 1,
                                   ![c].stale = Live(client[c].inst)]
  /\ UNCHANGED <<codes, calls, guesses, sessions, overlapped, instVars>>

(* The codes that were read are spent, the new one is inserted; whether    *)
(* the message arrives is swallowed.                                       *)
RequestCommit(c) ==
  /\ client[c].pc = "insert"
  /\ codes' = [k \in CodeIds |->
       IF k = client[c].code
       THEN [inst |-> client[c].inst, used |-> FALSE, attempts |-> 0,
             expired |-> FALSE]
       ELSE IF k \in client[c].stale THEN [codes[k] EXCEPT !.used = TRUE]
       ELSE codes[k]]
  /\ Hangup(c)
  /\ UNCHANGED <<calls, guesses, sessions, overlapped, instVars>>

(* expires_at passes; for a code that is spent it no longer matters.       *)
Expire(k) ==
  /\ k \in Issued /\ ~codes[k].expired /\ ~codes[k].used
  /\ codes' = [codes EXCEPT ![k].expired = TRUE]
  /\ UNCHANGED <<client, calls, guesses, sessions, overlapped, instVars>>

-----------------------------------------------------------------------------
VerifyBegin(c) ==
  /\ calls < MaxCalls /\ calls' = calls + 1
  /\ \E i \in Ids, a \in Issued \cup {Wrong} : InGoodStanding(i)
       /\ CallBegins(c, [Idle EXCEPT !.pc = "verify", !.inst = i, !.answer = a])
  /\ UNCHANGED <<codes, guesses, sessions, instVars>>

(* What verify_institution_otp decides about the code k it has read.       *)
Verdict(k, answer) ==
  IF codes[k].expired THEN "expire"
  ELSE IF codes[k].attempts >= MaxAttempts THEN "lock"
  ELSE IF answer # k THEN "count" ELSE "open"

(* The SELECT of the newest unused code, and its checks.                   *)
VerifyRead(c) ==
  /\ client[c].pc = "verify"
  /\ \/ Live(client[c].inst) = {} /\ Hangup(c)
     \/ \E k \in Latest(Live(client[c].inst)) :
          client' = [client EXCEPT ![c] =
            [@ EXCEPT !.pc = "answer", !.code = k, !.answer = Wrong,
                      !.attempts = codes[k].attempts,
                      !.outcome = Verdict(k, client[c].answer)]]
  /\ UNCHANGED <<codes, calls, guesses, sessions, overlapped, instVars>>

\* Mutant: a wrong answer is refused without a commit.
VerifyUncounted(c) ==
  /\ client[c].pc = "answer"
  /\ LET k == client[c].code IN
     IF client[c].outcome = "count"
     THEN guesses' = [guesses EXCEPT ![k] = @ + 1] /\ UNCHANGED codes
     ELSE codes' = [codes EXCEPT ![k].used = TRUE] /\ UNCHANGED guesses
  /\ IF client[c].outcome = "open"
     THEN client' = [client EXCEPT ![c].pc = "session"] ELSE Hangup(c)
  /\ UNCHANGED <<calls, sessions, overlapped, instVars>>
\* Mutant: a code that is right is not spent.
VerifyUnspent(c) ==
  /\ client[c].pc = "answer"
  /\ LET k == client[c].code IN
     IF client[c].outcome = "count"
     THEN /\ codes' = [codes EXCEPT ![k].attempts = client[c].attempts + 1]
          /\ guesses' = [guesses EXCEPT ![k] = @ + 1]
     ELSE UNCHANGED <<codes, guesses>>
  /\ IF client[c].outcome = "open"
     THEN client' = [client EXCEPT ![c].pc = "session"] ELSE Hangup(c)
  /\ UNCHANGED <<calls, sessions, overlapped, instVars>>
(* The UPDATE and COMMIT: a wrong answer writes the counter that was read, *)
(* plus one; everything else spends the code.                              *)
VerifyCommit(c) ==
  /\ client[c].pc = "answer"
  /\ LET k == client[c].code IN
     IF client[c].outcome = "count"
     THEN /\ codes' = [codes EXCEPT ![k].attempts = client[c].attempts + 1]
          /\ guesses' = [guesses EXCEPT ![k] = @ + 1]
     ELSE codes' = [codes EXCEPT ![k].used = TRUE] /\ UNCHANGED guesses
  /\ IF client[c].outcome = "open"
     THEN client' = [client EXCEPT ![c].pc = "session"] ELSE Hangup(c)
  /\ UNCHANGED <<calls, sessions, overlapped, instVars>>

(* The token, after the students have been counted.                        *)
OpenSession(c) ==
  /\ client[c].pc = "session"
  /\ sessions' = [sessions EXCEPT ![client[c].code] = @ + 1]
  /\ Hangup(c)
  /\ UNCHANGED <<codes, calls, guesses, overlapped, instVars>>

(* A call that dies leaves what it has committed.                          *)
CallFails(c) ==
  /\ c \in Calling /\ Hangup(c)
  /\ UNCHANGED <<codes, calls, guesses, sessions, overlapped, instVars>>

OtpNext ==
  \/ \E c \in Clients :
       \/ RequestBegin(c) \/ RequestRead(c) \/ RequestCommit(c)
       \/ VerifyBegin(c) \/ VerifyRead(c) \/ VerifyCommit(c)
       \/ OpenSession(c) \/ CallFails(c)
  \/ \E k \in CodeIds : Expire(k)

-----------------------------------------------------------------------------
(* Institutions are taken in and reviewed while they log in.               *)
accessVars == <<instVars, otpVars>>
AccessInit == Init /\ OtpInit
(* What a step of Institutions does to the state of this module.           *)
Beside ==
  /\ Cardinality(InFlight') + Cardinality(Calling) <= Concurrency
  /\ overlapped' = (overlapped \/ Calling # {})
  /\ UNCHANGED <<codes, client, calls, guesses, sessions>>
AccessNext == (Next /\ Beside) \/ OtpNext
AccessFairness ==
  \A r \in Requests : /\ WF_accessVars(Statement(r) /\ Beside)
                      /\ WF_accessVars(DeadlockVictim(r) /\ Beside)
AccessSpec == AccessInit /\ [][AccessNext]_accessVars /\ AccessFairness

OtpTypeOK ==
  /\ TypeOK
  /\ codes \in [CodeIds -> Code \cup {Absent}]
  /\ client \in [Clients -> Call]
  /\ guesses \in [CodeIds -> Nat] /\ sessions \in [CodeIds -> Nat]
  /\ calls \in 0..MaxCalls /\ overlapped \in BOOLEAN

(* A code opens one session and an institution has one live code, as long  *)
(* as calls do not overlap; the SELECT and the UPDATE of                   *)
(* verify_institution_otp and of request_institution_otp are two steps, so *)
(* that overlapping calls may each open a session.                         *)
OneCodeOneSession ==
  /\ ~overlapped => /\ \A k \in CodeIds : sessions[k] <= 1
                    /\ \A i \in Ids : Cardinality(Live(i)) <= 1
  /\ \A k \in CodeIds : sessions[k] <= Cardinality(Clients)

(* A code takes MaxAttempts wrong answers.  Of two callers at a time one   *)
(* may write back the counter it had read before the other went on, once   *)
(* for each value of it: then it takes the sum below, and no more.         *)
FewGuesses ==
  \A k \in CodeIds : guesses[k] <=
    IF overlapped THEN MaxAttempts + ((MaxAttempts * (MaxAttempts + 1)) \div 2)
    ELSE MaxAttempts

(* A code that was sent before the institution was rejected opens nothing  *)
(* after it: only a verification under way at the rejection gets through.  *)
RejectedIsLockedOut ==
  [][~overlapped' => \A k \in CodeIds :
       sessions'[k] > sessions[k] =>
         rows[codes[k].inst].status # "REJECTED"]_accessVars

==============================================================================
