--------------------------- MODULE MCCircleJournal ---------------------------
(* Instances of CircleJournal for TLC. *)
EXTENDS CircleJournal, TLC

CONSTANTS r1, r2, r3, p1, p2, mintA, mintB, approve

TwoRequests == {r1, r2}
ThreeRequests == {r1, r2, r3}
OneProcess == {p1}
TwoProcesses == {p1, p2}
Different == r1 :> mintA @@ r2 :> mintB
Identical == [r \in {r1, r2, r3} |-> approve]
Renamed == Permutations({p1, p2})
=============================================================================
