------------------------------- MODULE MCRubric ------------------------------
(***************************************************************************)
(* An instance of Rubric: two servers, three switches, two judges.         *)
(***************************************************************************)
EXTENDS Rubric, TLC

CONSTANTS v1, v2, s1, s2, s3, j1, j2

Interchangeable == Permutations(Switches) \cup Permutations(Judges)
==============================================================================
