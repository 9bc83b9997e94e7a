----------------------- MODULE MCAuxiliaryOperations -----------------------
(* Instances of AuxiliaryOperations for TLC. *)
EXTENDS AuxiliaryOperations, TLC

CONSTANTS p1, p2

OneConvertsOneLooks == p1 :> {"register", "liquify", "reform"} @@ p2 :> {"status"}

(* A Circle wallet with an Arcal whose content is pending, approved to the *)
(* Vault already; and a plain account with one that was liquified.         *)
CirclePendingEoaLiquified ==
    {[wallet |-> "circle",
      chain |-> [registered |-> FALSE, approved |-> TRUE, allowance |-> FALSE, form |-> "nft"]],
     [wallet |-> "eoa",
      chain |-> [registered |-> TRUE, approved |-> FALSE, allowance |-> FALSE, form |-> "arcl"]]}
=============================================================================
