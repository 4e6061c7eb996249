------------------------------- MODULE MCRounds ------------------------------
(***************************************************************************)
(* Instances of Rounds: a round whose panel lacks one or two judges.       *)
(***************************************************************************)
EXTENDS Rounds, TLC

CONSTANTS u1, u2, u3, u4, s1, s2

TwoSeated == {<<u1, "REGULAR">>, <<u2, "REGULAR">>}
ThreeSeated == TwoSeated \cup {<<u3, "REGULAR">>}
Symmetry == Permutations(Requests)
==============================================================================
