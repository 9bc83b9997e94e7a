--------------------------- MODULE MCCompanionJobs ---------------------------
(* Instances of CompanionJobs for TLC. *)
EXTENDS CompanionJobs, TLC

CONSTANTS p1, p2, w1, w2, w3, w4

OnePage == {p1}
TwoPages == {p1, p2}
TwoWorks == {w1, w2}
FourWorks == {w1, w2, w3, w4}
Moments == {1, 3}
CompanionSymmetry == Permutations(Works)
=============================================================================
