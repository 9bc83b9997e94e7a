------------------------------ MODULE MCMintAgent ------------------------------
(* Small instances of MintAgent for TLC. *)
EXTENDS MintAgent, TLC

CONSTANTS p1, p2

TwoMints == [mints |-> 2, fee |-> 2, gas |-> 2]

(* Room for one Mint of any process: a second breaks every limit. *)
OneMint == [mints |-> 1, fee |-> 1, gas |-> 1]

(* What each process is asked to do. *)
BothMine == [p \in Procs |-> {"mine"}]
RunBesideMine == [p \in Procs |-> IF p = p1 THEN {"authorize", "run"} ELSE {"mine"}]

StopBesideMine == [p \in Procs |-> IF p = p1 THEN {"authorize", "run", "mine"} ELSE {"stop", "mine"}]

StatusBesideMine == [p \in Procs |-> {"status", "mine"}]

(* Processes and operation ids are interchangeable in Init, Next and every *)
(* invariant.                                                              *)
Symmetry == Permutations(Procs) \cup Permutations(Operations)
OperationSymmetry == Permutations(Operations)
==============================================================================
