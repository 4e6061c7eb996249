------------------------------ MODULE MCStudents -----------------------------
(***************************************************************************)
(* Instances of Students: an institution with four students on record.      *)
(***************************************************************************)
EXTENDS Students, TLC

CONSTANTS i1, c1, c2, c3, c4, c5, c6, r1, r2, r3

Registered(c) == [NewRow(i1, c) EXCEPT !.review = "APPROVED"]
FourActive ==
  [id \in Ids |-> CASE id = 1 -> Registered(c1) [] id = 2 -> Registered(c2)
                    [] id = 3 -> Registered(c3) [] id = 4 -> Registered(c4)
                    [] OTHER -> Absent]

(* Two registrations, each against the other kinds; deletions against one  *)
(* another and against every other change.                                 *)
Mixed == [r \in Requests |-> CASE r = r1 -> {"create", "permanent"}
                               [] r = r2 -> {"create", "soft_delete"}
                               [] OTHER -> Kinds \ {"create"}]
OneByOne == [r \in Requests |-> {"create", "soft_delete", "restore"}]
=============================================================================
