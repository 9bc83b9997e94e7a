---------------------------- MODULE MCRandomXMiner ----------------------------
(* Instances of RandomXMiner for TLC. *)
EXTENDS RandomXMiner, TLC

CONSTANTS e1, e2

TwoCalls == 1..2
ThreeCalls == 1..3
OneEpoch == {e1}
TwoEpochs == {e1, e2}
EpochSymmetry == Permutations(TwoEpochs)
MCJobIds == Calls \X {"prepare", "search", "cancel"}
=============================================================================
