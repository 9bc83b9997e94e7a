--------------------------- MODULE MCWalletSetup ----------------------------
(* A helper beside the CLI of the same user, see WalletSetup.cfg.          *)
EXTENDS WalletSetup, TLC
CONSTANTS p1, p2
HelperBesideCli == p1 :> HelperCommands @@ p2 :> {"accept-terms", "mine"}
=============================================================================
