------------------------------- MODULE MCAccess ------------------------------
(***************************************************************************)
(* An instance of Otp and Institutions: an institution on record, others   *)
(* that register or are taken in, and two callers that log in.             *)
(***************************************************************************)
EXTENDS Otp, TLC

CONSTANTS r1, r2, r3

(* "A" and "a" are two spellings of one address.                           *)
Spelling == ("A" :> "a") @@ ("a" :> "a") @@ ("b" :> "b") @@ ("c" :> "c")
OneApproved ==
  [i \in Ids |-> IF i = 1 THEN [email |-> "b", status |-> "APPROVED",
                                reason |-> "none", by |-> Nobody]
                 ELSE Absent]
(* Two batches against each other and against the other ways in, and a     *)
(* review against each of them.                                            *)
Mixed == [r \in Requests |-> CASE r = r1 -> {"batch", "register"}
                               [] r = r2 -> {"batch", "intake", "review"}
                               [] OTHER -> {"review"}]
(* Bound: the institutions that come in and those that log in are not in    *)
(* one behaviour; reviews meet both.                                       *)
Crowd == \E r \in {r1, r2} : pc[r] # "idle"
Logins == calls > 0 \/ Issued # {} \/ Calling # {}
MCNext ==
  /\ AccessNext
  /\ Crowd' => ~Logins'
MCSpec == AccessInit /\ [][MCNext]_accessVars /\ AccessFairness
BothOrders == {<<"A", "c">>, <<"c", "b", "a">>}
==============================================================================
