------------------------------ MODULE MintPromise ------------------------------
(***************************************************************************)
(* What the CLI promises the owner of a wallet about certified Mints,      *)
(* without a word on how: each Mint leaves for the wallet's provider at    *)
(* most once, never beside another one; the ledger reports it minted only  *)
(* when the chain issued it and failed only when nothing of it is out.     *)
(***************************************************************************)
CONSTANT Operations

VARIABLES
    chain,   \* unsent, out, lost (a provider never had it), minted or void
    told     \* what the ledger reports: open, minted or failed

Init ==
    /\ chain = [o \in Operations |-> "unsent"]
    /\ told = [o \in Operations |-> "open"]

Send(o) ==
    /\ chain[o] = "unsent" /\ told[o] = "open"
    /\ \A other \in Operations : chain[other] # "out"
    /\ chain' = [chain EXCEPT ![o] = "out"]
    /\ UNCHANGED told

End(o) ==
    /\ chain[o] = "out"
    /\ \E end \in {"lost", "minted", "void"} : chain' = [chain EXCEPT ![o] = end]
    /\ UNCHANGED told

TellMinted(o) ==
    /\ chain[o] = "minted"
    /\ told' = [told EXCEPT ![o] = "minted"]
    /\ UNCHANGED chain

TellFailed(o) ==
    /\ chain[o] \in {"unsent", "lost", "void"}
    /\ told' = [told EXCEPT ![o] = "failed"]
    /\ UNCHANGED chain

(* A recovery that began before another process resolved the row puts it   *)
(* back to unresolved; it never lets the Mint leave a second time.         *)
Reopen(o) ==
    /\ told[o] # "open"
    /\ told' = [told EXCEPT ![o] = "open"]
    /\ UNCHANGED chain

Next ==
    \E o \in Operations :
        Send(o) \/ End(o) \/ TellMinted(o) \/ TellFailed(o) \/ Reopen(o)

Spec == Init /\ [][Next]_<<chain, told>>
==============================================================================
