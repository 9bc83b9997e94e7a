------------------------------ MODULE MintLedger ------------------------------
(***************************************************************************)
(* The statements of the durable operation ledger (SqliteOperationLedger,  *)
(* apps/cli/src/ledger.ts) on the MINT rows of one environment and wallet. *)
(* Every operator maps a table l (one row per operation id) to the table   *)
(* one SQL statement, or one transaction, leaves behind; a module that     *)
(* uses it decides when a statement runs and what a throw does.            *)
(*                                                                         *)
(* Amounts are small naturals and the flat Mint fee is the constant        *)
(* MintFee.  Columns that nothing decides on are left out: hashes, ids,    *)
(* timestamps, error text, sponsor, the per-row stop flag and the event    *)
(* log.                                                                    *)
(***************************************************************************)
EXTENDS Naturals, FiniteSets, Functions

CONSTANTS
    Operations,   \* operation ids the API can hand out
    Callers,      \* whoever creates a provider request id: the CLI processes
    None,         \* the NULL of a column
    MintFee,      \* MINT_FEE_NATIVE
    Quotes,       \* gas a fee estimate can ask the ledger to commit
    Receipts      \* gas a receipt can show, 0 when a paymaster sponsored it

ASSUME LedgerAssumption ==
    /\ MintFee \in Nat
    /\ Quotes \subseteq Nat
    /\ Receipts \subseteq Nat
    /\ None \notin Callers

(* Every state a MINT row can take; ABSENT is an id with no row yet. *)
LedgerStates == {"ABSENT", "CERTIFICATE_READY", "WALLET_SUBMITTING", "TX_PENDING",
                 "SUBMISSION_UNKNOWN", "RECOVERING", "MINT_CONFIRMED",
                 "REVERTED", "REPLACED", "FAILED", "FAILED_RETRYABLE"}

(* UNRESOLVED_STATES.  UNKNOWN is a member too, but no statement writes it. *)
UnresolvedStates == {"CERTIFICATE_READY", "WALLET_SUBMITTING", "TX_PENDING",
                     "SUBMISSION_UNKNOWN", "RECOVERING"}

(* The WHERE clause of the partial unique index operations_active_mint. *)
IndexedStates == {"CERTIFICATE_READY", "WALLET_SUBMITTING", "TX_PENDING",
                  "SUBMISSION_UNKNOWN", "RECOVERING"}

FailureStates == {"REVERTED", "REPLACED", "FAILED", "FAILED_RETRYABLE"}

Gas == {0} \cup Quotes \cup Receipts

Row == [state : LedgerStates, request : Callers \cup {None}, handle : BOOLEAN,
        call : BOOLEAN, feeCommitted : {0, MintFee}, gasCommitted : Gas,
        feeSpent : {0, MintFee}, gasSpent : Gas]

EmptyRow == [state |-> "ABSENT", request |-> None, handle |-> FALSE, call |-> FALSE,
             feeCommitted |-> 0, gasCommitted |-> 0, feeSpent |-> 0, gasSpent |-> 0]

Unresolved(l) == {o \in Operations : l[o].state \in UnresolvedStates}
Confirmed(l) == {o \in Operations : l[o].state = "MINT_CONFIRMED"}

(* Never handed to any wallet, as far as the row r says. *)
Unsent(r) == r.request = None /\ ~r.handle

(* The partial unique index: an INSERT or UPDATE that would leave two      *)
(* active Mints throws.                                                    *)
ActiveMintIndex(l) ==
    \A a, b \in Operations :
        l[a].state \in IndexedStates /\ l[b].state \in IndexedStates => a = b

CanStartMint(l) == Unresolved(l) = {}

SetState(l, o, s) == [l EXCEPT ![o].state = s]

BeginOperation(l, o) == SetState(l, o, "CERTIFICATE_READY")

SetPendingCall(l, o) == [l EXCEPT ![o].call = TRUE]

SetOperationCommitment(l, o, gas) ==
    [l EXCEPT ![o] = [@ EXCEPT !.feeCommitted = MintFee, !.gasCommitted = gas]]

(* A bug that would lose the gate of attachSubmission: any unresolved row. *)
CanAttachLoosely(l, o) == l[o].state \in UnresolvedStates

(* attachSubmission throws from any other state (CREATED: auxiliary rows). *)
CanAttach(l, o) == l[o].state = "CERTIFICATE_READY"

AttachSubmission(l, o, caller, handle) ==
    [l EXCEPT ![o] = [@ EXCEPT !.state = "WALLET_SUBMITTING", !.request = caller, !.handle = handle]]

(* The UPDATE has a WHERE on the state and silently matches nothing else. *)
RecordWalletHandle(l, o) ==
    IF l[o].state \in {"WALLET_SUBMITTING", "SUBMISSION_UNKNOWN", "RECOVERING"}
    THEN [l EXCEPT ![o] = [@ EXCEPT !.state = "TX_PENDING", !.handle = TRUE]]
    ELSE l

MarkSubmissionUnknown(l, o) == SetState(l, o, "SUBMISSION_UNKNOWN")

MarkRecovering(l, o) == SetState(l, o, "RECOVERING")

MarkPending(l, o, handle) ==
    [l EXCEPT ![o] = [@ EXCEPT !.state = "TX_PENDING", !.handle = l[o].handle \/ handle]]

ResolveConfirmed(l, o, gas) ==
    [l EXCEPT ![o] = [@ EXCEPT !.state = "MINT_CONFIRMED",
                               !.feeSpent = l[o].feeCommitted, !.gasSpent = gas]]

ResolveFailure(l, o, s, gas) ==
    [l EXCEPT ![o] = [@ EXCEPT !.state = s, !.feeSpent = 0, !.gasSpent = gas]]

(* The WHERE clause of resolveUnsentFailure. *)
CanReleaseUnsent(l, o) ==
    /\ Unsent(l[o])
    /\ l[o].state \in {"CERTIFICATE_READY", "RECOVERING", "SUBMISSION_UNKNOWN"}

ResolveUnsentFailure(l, o) ==
    [l EXCEPT ![o] = [@ EXCEPT !.state = "FAILED_RETRYABLE", !.feeSpent = 0, !.gasSpent = 0]]

------------------------------------------------------------------------------
(* Budget of the continuous authorization.  All Mints of the wallet count,  *)
(* confirmed ones as spent and unresolved ones as reserved.                 *)

SpentFee(l) == SumFunction([o \in Operations |-> l[o].feeSpent])
SpentGas(l) == SumFunction([o \in Operations |-> l[o].gasSpent])
ReservedFee(l, S) == SumFunction([o \in S |-> l[o].feeCommitted])
ReservedGas(l, S) == SumFunction([o \in S |-> l[o].gasCommitted])

(* assertBudgetAvailable's three comparisons; excluded is the set with the *)
(* operation being sent, whose own reservation never counts twice.         *)
BudgetAvailable(l, limits, excluded, gas) ==
    LET reserved == Unresolved(l) \ excluded
    IN  /\ Cardinality(Confirmed(l)) + (Cardinality(reserved) + 1) <= limits.mints
        /\ SpentFee(l) + (ReservedFee(l, reserved) + MintFee) <= limits.fee
        /\ SpentGas(l) + (ReservedGas(l, reserved) + gas) <= limits.gas
==============================================================================
