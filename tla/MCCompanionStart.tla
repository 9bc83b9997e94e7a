-------------------------- MODULE MCCompanionStart --------------------------
(* Instances of CompanionStart for TLC. *)
EXTENDS CompanionStart, TLC

CONSTANTS p1, p2, p3

TwoStart == p1 :> {"start"} @@ p2 :> {"start"} @@ p3 :> {"detach", "stop"}

Local == [sha |-> "sha3", path |-> "build", url |-> FALSE]
Released(sha) == [sha |-> sha, path |-> None, url |-> TRUE]
Mainnet == [mode |-> "arc-mainnet", productionAuthorized |-> TRUE, chain |-> "mainnet",
            environmentBound |-> TRUE, addresses |-> "distinct", registrar |-> "distinct",
            worker |-> Local, perPlatform |-> TRUE,
            platforms |-> "linux-x64" :> Released("sha1")]

(* Two releases, a testnet that claims to be production and a manifest that  *)
(* lists no platform: PathsNameBuilds holds, the releases are below          *)
(* directories of their own hash.                                            *)
TwoReleases ==
    {Mainnet,
     [Mainnet EXCEPT !.platforms = "linux-x64" :> Released("sha2")],
     [Mainnet EXCEPT !.mode = "arc-testnet", !.chain = "testnet"],
     [Mainnet EXCEPT !.platforms = <<>>]}
=============================================================================
