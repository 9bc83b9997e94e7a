------------------------ MODULE AuxiliaryOperations ------------------------
(***************************************************************************)
(* The commands that register the Pi content of an issued Arcal and turn   *)
(* it into ARCL and back: content register, form liquify and form reform   *)
(* (apps/cli/src/agent.ts), with the rows they keep in the ledger and the  *)
(* recovery of those rows, by the command itself and by the recovery loop  *)
(* of status and mine in another process.                                  *)
(*                                                                         *)
(* One Arcal of one wallet is modelled.  Its state on chain is what the    *)
(* contracts decide on: content registered, Vault approved for the NFT,    *)
(* ARCL allowance, and the form it has.  Mint rows are in MintAgent.  The  *)
(* wallet is a plain account, which is asked for a transaction, or a       *)
(* Circle wallet, which is asked for a request or an operation.            *)
(***************************************************************************)
EXTENDS Naturals

CONSTANTS
    Procs,          \* CLI processes
    Commands,       \* what each process may be asked to do
    MaxOperations,  \* bound: rows begun
    Starts,         \* the wallet the commands are run with, and how its Arcal stands
    None,
    HollowPossible, \* a confirmed user operation may have done nothing
    Alike           \* kinds of rows that Circle may take another's operation for

(* Rows in the order of their creation, which is the order of listOperations. *)
Operations == 1..MaxOperations

Kinds == {"CONTENT_REGISTER", "NFT_APPROVAL", "ARCL_APPROVAL", "LIQUIFY", "REFORM"}

ConfirmedStates == {"CONTENT_REGISTERED", "APPROVAL_CONFIRMED", "CONVERSION_CONFIRMED"}
FailedStates == {"REVERTED", "REPLACED", "FAILED", "FAILED_RETRYABLE"}
UnresolvedStates == {"WALLET_SUBMITTING", "TX_PENDING", "SUBMISSION_UNKNOWN", "RECOVERING"}

Arcal == [registered : BOOLEAN, approved : BOOLEAN, allowance : BOOLEAN, form : {"nft", "arcl"}]

AllCommands == {"register", "liquify", "reform", "status"}

ASSUME AuxiliaryAssumption ==
    /\ MaxOperations \in Nat /\ None \notin Nat \cup {"own", "other"}
    /\ Commands \in [Procs -> SUBSET AllCommands]
    /\ Starts \subseteq
           [wallet : {"eoa", "circle"},
            chain : {a \in Arcal : a.form = "arcl" => a.registered /\ ~a.approved}]
    /\ HollowPossible \in BOOLEAN /\ Alike \subseteq Kinds

VARIABLES
    row,     \* operations: kind and state of each
    tx,      \* what became of the call of an id outside this machine
    chain,   \* the Arcal as the contracts hold it
    handle,  \* whose submission the handle known of a row names
    wallet,  \* the wallet the commands are run with
    proc     \* the command each process is in

outside == <<tx, chain, handle, wallet>>
vars == <<row, outside, proc>>

Labels == {"idle", "registered", "allowed", "begin", "proof", "simulate", "prepare",
           "submit", "answer", "recover", "query", "lookup", "count", "settle",
           "content", "loop"}

Row == [kind : Kinds \cup {None},
        state : {"ABSENT", "CREATED"} \cup UnresolvedStates \cup ConfirmedStates \cup FailedStates]

Process == [pc : Labels, command : AllCommands \cup {None}, kind : Kinds \cup {None},
            op : Operations \cup {None}, todo : SUBSET Operations,
            answer : {None, "PENDING", "CONFIRMED", "REVERTED", "REPLACED", "UNKNOWN"}]

Idle == [pc |-> "idle", command |-> None, kind |-> None, op |-> None,
         todo |-> {}, answer |-> None]

Outcomes == {"none", "out", "done", "hollow", "reverted", "replaced"}

TypeOK ==
    /\ row \in [Operations -> Row]
    /\ tx \in [Operations -> Outcomes]
    /\ chain \in Arcal
    /\ handle \in [Operations -> {None, "own", "other"}]
    /\ wallet \in {"eoa", "circle"}
    /\ proc \in [Procs -> Process]

Init ==
    /\ row = [o \in Operations |-> [kind |-> None, state |-> "ABSENT"]]
    /\ tx = [o \in Operations |-> "none"]
    /\ \E s \in Starts : wallet = s.wallet /\ chain = s.chain
    /\ handle = [o \in Operations |-> None]
    /\ proc = [p \in Procs |-> Idle]

-----------------------------------------------------------------------------
(* The contracts (external): whether a call would succeed, and what it does.*)

Accepts(kind) ==
    CASE kind = "CONTENT_REGISTER" -> ~chain.registered
      [] kind = "NFT_APPROVAL" -> chain.form = "nft"
      [] kind = "ARCL_APPROVAL" -> TRUE
      [] kind = "LIQUIFY" -> chain.form = "nft" /\ chain.registered /\ chain.approved
      [] kind = "REFORM" -> chain.form = "arcl" /\ chain.allowance

After(kind) ==
    CASE kind = "CONTENT_REGISTER" -> [chain EXCEPT !.registered = TRUE]
      [] kind = "NFT_APPROVAL" -> [chain EXCEPT !.approved = TRUE]
      [] kind = "ARCL_APPROVAL" -> [chain EXCEPT !.allowance = TRUE]
      [] kind = "LIQUIFY" -> [chain EXCEPT !.form = "arcl", !.approved = FALSE]
      [] kind = "REFORM" -> [chain EXCEPT !.form = "nft", !.allowance = FALSE]

Land(o) ==
    /\ tx[o] = "out" /\ Accepts(row[o].kind)
    /\ tx' = [tx EXCEPT ![o] = "done"]
    /\ chain' = After(row[o].kind)
    /\ UNCHANGED <<row, handle, wallet, proc>>

LandHollow(o) ==
    /\ HollowPossible /\ wallet = "circle" /\ tx[o] = "out"
    /\ tx' = [tx EXCEPT ![o] = "hollow"]
    /\ UNCHANGED <<row, chain, handle, wallet, proc>>

Revert(o) ==
    /\ tx[o] = "out"
    /\ tx' = [tx EXCEPT ![o] = "reverted"]
    /\ UNCHANGED <<row, chain, handle, wallet, proc>>

(* Another transaction of the account takes the nonce of a signed one,     *)
(* which no node accepts from then on.                                     *)
UseNonce(o) ==
    /\ wallet = "eoa" /\ row[o].state \notin {"ABSENT", "CREATED"} /\ tx[o] \in {"none", "out"}
    /\ tx' = [tx EXCEPT ![o] = "replaced"]
    /\ UNCHANGED <<row, chain, handle, wallet, proc>>

-----------------------------------------------------------------------------
(* Statements of the ledger on a row that is no Mint, and where a command  *)
(* goes after one.                                                         *)

At(p, label) == proc[p].pc = label
Op(p) == proc[p].op
Kind(p) == proc[p].kind

SetState(o, state) == row' = [row EXCEPT ![o].state = state]

ConfirmedState(kind) ==
    CASE kind = "CONTENT_REGISTER" -> "CONTENT_REGISTERED"
      [] kind \in {"NFT_APPROVAL", "ARCL_APPROVAL"} -> "APPROVAL_CONFIRMED"
      [] OTHER -> "CONVERSION_CONFIRMED"

Become(p, local) == proc' = [proc EXCEPT ![p] = local]
Goto(p, label) == Become(p, [proc[p] EXCEPT !.pc = label])
Leave(p) == Become(p, Idle)

Begins(p, kind) ==
    Become(p, [proc[p] EXCEPT !.pc = "begin", !.kind = kind, !.op = None, !.answer = None])

(* A step of submitExistingAuxiliary throws.  registerContentOperation     *)
(* catches whatever is thrown and fails the row; another command ends with *)
(* its row as it is, and so does the loop of recoverOutstanding.           *)
Throws(p) ==
    /\ IF Kind(p) = "CONTENT_REGISTER" /\ proc[p].command # "status"
       THEN SetState(Op(p), "FAILED_RETRYABLE")
       ELSE UNCHANGED row
    /\ Leave(p)

(* A confirmed step is followed by the next step of its command.           *)
GoesOn(p) ==
    CASE proc[p].command = "liquify" /\ Kind(p) = "CONTENT_REGISTER" ->
             Become(p, [Idle EXCEPT !.pc = "allowed", !.command = "liquify"])
      [] Kind(p) = "NFT_APPROVAL" -> Begins(p, "LIQUIFY")
      [] Kind(p) = "ARCL_APPROVAL" -> Begins(p, "REFORM")
      [] OTHER -> Leave(p)

(* What happens once recoverOperation has returned a record in state.      *)
Returned(p, state) ==
    IF proc[p].command = "status"
    THEN Become(p, [Idle EXCEPT !.pc = "loop", !.command = "status", !.todo = proc[p].todo])
    ELSE IF state \notin ConfirmedStates THEN Leave(p)
    ELSE IF Kind(p) = "CONTENT_REGISTER"
    THEN Become(p, [proc[p] EXCEPT !.pc = "content", !.answer = None])
    ELSE GoesOn(p)

-----------------------------------------------------------------------------
(* The commands.                                                           *)

(* registerContent, liquify and reform with --confirm, after               *)
(* verifyAssetEnvironment; without it, or if that throws, nothing happens. *)
RegisterContent(p) ==
    /\ At(p, "idle") /\ "register" \in Commands[p]
    /\ Become(p, [Idle EXCEPT !.pc = "begin", !.command = "register", !.kind = "CONTENT_REGISTER"])
    /\ UNCHANGED <<row, outside>>

Liquify(p) ==
    /\ At(p, "idle") /\ "liquify" \in Commands[p]
    /\ Become(p, [Idle EXCEPT !.pc = "registered", !.command = "liquify"])
    /\ UNCHANGED <<row, outside>>

Reform(p) ==
    /\ At(p, "idle") /\ "reform" \in Commands[p]
    /\ Become(p, [Idle EXCEPT !.pc = "allowed", !.command = "reform"])
    /\ UNCHANGED <<row, outside>>

ContentIsRegistered(p) ==
    /\ At(p, "registered")
    /\ \/ chain.registered /\ Goto(p, "allowed")
       \/ ~chain.registered /\ Begins(p, "CONTENT_REGISTER")
       \/ Leave(p)
    /\ UNCHANGED <<row, outside>>

(* vaultMayTakeNft and vaultMayLockArcl: an error means "approve".         *)
VaultMayTakeNft(p) ==
    /\ At(p, "allowed") /\ proc[p].command = "liquify"
    /\ \/ chain.approved /\ Begins(p, "LIQUIFY")
       \/ Begins(p, "NFT_APPROVAL")
    /\ UNCHANGED <<row, outside>>

VaultMayLockArcl(p) ==
    /\ At(p, "allowed") /\ proc[p].command = "reform"
    /\ \/ chain.allowance /\ Begins(p, "REFORM")
       \/ Begins(p, "ARCL_APPROVAL")
    /\ UNCHANGED <<row, outside>>

BeginOperation(p, o) ==
    /\ At(p, "begin") /\ row[o].state = "ABSENT"
    /\ \A i \in 1..(o - 1) : row[i].state # "ABSENT"
    /\ row' = [row EXCEPT ![o] = [kind |-> Kind(p), state |-> "CREATED"]]
    /\ Become(p, [proc[p] EXCEPT !.op = o,
                  !.pc = IF Kind(p) = "CONTENT_REGISTER" THEN "proof" ELSE "simulate"])
    /\ UNCHANGED outside

(* getPiProof, and the comparison of its root with the manifest's.         *)
GetPiProof(p) ==
    /\ At(p, "proof")
    /\ \/ UNCHANGED row /\ Goto(p, "simulate")
       \/ \E state \in {"FAILED", "FAILED_RETRYABLE"} : SetState(Op(p), state) /\ Leave(p)
    /\ UNCHANGED outside

(* A bug that would go on whatever the simulation says. *)
SimulatesIgnored(p) ==
    /\ At(p, "simulate")
    /\ \/ UNCHANGED row /\ Goto(p, "prepare")
       \/ SetState(Op(p), "FAILED_RETRYABLE") /\ Leave(p)
       \/ Throws(p)
    /\ UNCHANGED outside

(* simulateCall, estimateFees and setOperationCommitment.  A simulation    *)
(* may fail for reasons of its own.                                        *)
Simulate(p) ==
    /\ At(p, "simulate")
    /\ \/ Accepts(Kind(p)) /\ UNCHANGED row /\ Goto(p, "prepare")
       \/ SetState(Op(p), "FAILED_RETRYABLE") /\ Leave(p)
       \/ Throws(p)
    /\ UNCHANGED outside

(* submit: prepareSubmission, and attachSubmission right after its answer. *)
(* A plain account has signed by then: its transaction has hash and nonce. *)
Attach(p) ==
    /\ At(p, "prepare") /\ row[Op(p)].state = "CREATED"
    /\ SetState(Op(p), "WALLET_SUBMITTING")
    /\ handle' = [handle EXCEPT ![Op(p)] = IF wallet = "eoa" THEN "own" ELSE None]
    /\ Goto(p, "submit")
    /\ UNCHANGED <<tx, chain, wallet>>

PrepareFails(p) ==
    /\ At(p, "prepare")
    /\ SetState(Op(p), "FAILED_RETRYABLE")
    /\ Leave(p)
    /\ UNCHANGED outside

SubmitCall(p) ==
    /\ At(p, "submit") /\ tx[Op(p)] = "none"
    /\ tx' = [tx EXCEPT ![Op(p)] = "out"]
    /\ Goto(p, "answer")
    /\ UNCHANGED <<row, chain, handle, wallet>>

(* The answer binds the request to its own operation, which throws if it   *)
(* is bound to another; that is LoseSubmission.  recordWalletHandle        *)
(* matches three states and returns the row as it is; recoverOperation     *)
(* hands a resolved row back.                                              *)
RecordWalletHandle(p) ==
    /\ At(p, "answer") /\ handle[Op(p)] # "other"
    /\ handle' = [handle EXCEPT ![Op(p)] = "own"]
    /\ IF row[Op(p)].state \in {"WALLET_SUBMITTING", "SUBMISSION_UNKNOWN", "RECOVERING"}
       THEN SetState(Op(p), "TX_PENDING")
       ELSE UNCHANGED row
    /\ IF row'[Op(p)].state \in UnresolvedStates
       THEN Goto(p, "recover")
       ELSE Returned(p, row'[Op(p)].state)
    /\ UNCHANGED <<tx, chain, wallet>>

(* A bug that would take a lost answer for a failure. *)
LoseSubmissionAsFailed(p) ==
    /\ At(p, "submit") \/ At(p, "answer")
    /\ SetState(Op(p), "FAILED_RETRYABLE")
    /\ Leave(p)
    /\ UNCHANGED outside

(* submitCall threw, whether or not the call went out.                     *)
(* markSubmissionUnknown asks for no state.                                *)
LoseSubmission(p) ==
    /\ At(p, "submit") \/ At(p, "answer")
    /\ SetState(Op(p), "SUBMISSION_UNKNOWN")
    /\ Goto(p, "recover")
    /\ UNCHANGED outside

-----------------------------------------------------------------------------
(* Recovery, of a command's own row or in the loop of another process.     *)

(* A bug that would leave a row to the process that once recovered it. *)
RecoverUnclaimed(p) ==
    /\ At(p, "idle") /\ "status" \in Commands[p]
    /\ Become(p, [Idle EXCEPT !.pc = "loop", !.command = "status",
                  !.todo = {o \in Operations : row[o].state \in UnresolvedStates \ {"RECOVERING"}}])
    /\ UNCHANGED <<row, outside>>

(* recoverOutstanding reads the list of unresolved rows once.              *)
RecoverOutstanding(p) ==
    /\ At(p, "idle") /\ "status" \in Commands[p]
    /\ Become(p, [Idle EXCEPT !.pc = "loop", !.command = "status",
                  !.todo = {o \in Operations : row[o].state \in UnresolvedStates}])
    /\ UNCHANGED <<row, outside>>

Loop(p) ==
    /\ At(p, "loop")
    /\ \/ \E o \in proc[p].todo :
             /\ \A i \in proc[p].todo : o <= i
             /\ Become(p, [proc[p] EXCEPT !.pc = "recover", !.op = o, !.kind = row[o].kind,
                                          !.todo = @ \ {o}])
       \/ proc[p].todo = {} /\ Leave(p)
    /\ UNCHANGED <<row, outside>>

(* markRecovering reads the row again and throws if it is resolved.        *)
MarkRecovering(p) ==
    /\ At(p, "recover")
    /\ IF row[Op(p)].state \in UnresolvedStates
       THEN SetState(Op(p), "RECOVERING") /\ Goto(p, "query")
       ELSE Throws(p)
    /\ UNCHANGED outside

(* What Circle makes of a call that was sent: the truth, or nothing yet.   *)
Truth(o) ==
    CASE tx[o] = "out" -> {"PENDING"}
      [] tx[o] \in {"done", "hollow"} -> {"CONFIRMED"}
      [] tx[o] = "reverted" -> {"REVERTED"}
      [] OTHER -> {}

Answered(p, answer) == Become(p, [proc[p] EXCEPT !.pc = "settle", !.answer = answer])

(* queryRequest, or queryOperation once a handle is known.  A request that *)
(* is not bound yet is bound by the query to the one operation of the list *)
(* that has its call, or was rejected on the same contract whatever its    *)
(* call; the operations of other requests are not all known to be taken.   *)
AskCircle(p, whose) ==
    /\ handle[Op(p)] \in {None, whose}
    /\ \E a \in (IF whose = "own" THEN Truth(Op(p)) ELSE {"PENDING", "CONFIRMED", "REVERTED"}) :
           Answered(p, a)
    /\ handle' = [handle EXCEPT ![Op(p)] = whose]
    /\ UNCHANGED row

QueryCircle(p) ==
    /\ At(p, "query") /\ wallet = "circle"
    /\ \/ AskCircle(p, "own")
       \/ Kind(p) \in Alike /\ AskCircle(p, "other")
       \/ Answered(p, "UNKNOWN") /\ UNCHANGED <<row, handle>>
       \/ Throws(p) /\ UNCHANGED handle
    /\ UNCHANGED <<tx, chain, wallet>>

(* querySubmission of a plain account: three reads of the chain, each      *)
(* after the last; an error of either of the first two is "not found".     *)
ReadReceipt(p) ==
    /\ At(p, "query") /\ wallet = "eoa"
    /\ \/ tx[Op(p)] \in {"done", "reverted"} /\ \E a \in Truth(Op(p)) : Answered(p, a)
       \/ Goto(p, "lookup")
    /\ UNCHANGED <<row, outside>>

LookupTransaction(p) ==
    /\ At(p, "lookup")
    /\ \/ tx[Op(p)] \in {"out", "done", "reverted"} /\ Answered(p, "PENDING")
       \/ Goto(p, "count")
    /\ UNCHANGED <<row, outside>>

(* A bug that would count the nonce that comes next as used. *)
CountsInclusive(p) ==
    /\ At(p, "count")
    /\ Answered(p, "REPLACED")
    /\ UNCHANGED <<row, outside>>

(* A nonce used by any transaction, this one too, reads as a replacement.  *)
CountTransactions(p) ==
    /\ At(p, "count")
    /\ \/ /\ Answered(p, IF tx[Op(p)] \in {"done", "reverted", "replaced"}
                         THEN "REPLACED" ELSE "UNKNOWN")
          /\ UNCHANGED row
       \/ Throws(p)
    /\ UNCHANGED outside

Queries(p) == QueryCircle(p) \/ ReadReceipt(p) \/ LookupTransaction(p) \/ CountTransactions(p)

(* markPending, resolveConfirmed, resolveFailure or markSubmissionUnknown: *)
(* none of them asks for a state.  recordWalletHandle just before leaves   *)
(* TX_PENDING, which any of them overwrites.                               *)
Settle(p) ==
    /\ At(p, "settle")
    /\ LET a == proc[p].answer
           state == CASE a = "PENDING" -> "TX_PENDING"
                      [] a = "CONFIRMED" -> ConfirmedState(Kind(p))
                      [] a \in {"REVERTED", "REPLACED"} -> a
                      [] a = "UNKNOWN" -> "SUBMISSION_UNKNOWN"
       IN  SetState(Op(p), state) /\ Returned(p, state)
    /\ UNCHANGED outside

(* registerContentOperation asks the Mirror once the wallet has confirmed; *)
(* a chain it cannot read keeps the confirmation.                          *)
ContentRegistered(p) ==
    /\ At(p, "content")
    /\ \/ UNCHANGED row /\ GoesOn(p)
       \/ ~chain.registered /\ SetState(Op(p), "FAILED") /\ Leave(p)
    /\ UNCHANGED outside

(* The death of a status command is no action of its own: it leaves the   *)
(* row RECOVERING, as a query that throws does.                            *)
Crash(p) ==
    /\ ~At(p, "idle") /\ proc[p].command # "status"
    /\ Leave(p)
    /\ UNCHANGED <<row, outside>>

-----------------------------------------------------------------------------
Sends(p) ==
    \/ RegisterContent(p) \/ Liquify(p) \/ Reform(p)
    \/ ContentIsRegistered(p) \/ VaultMayTakeNft(p) \/ VaultMayLockArcl(p)
    \/ \E o \in Operations : BeginOperation(p, o)
    \/ GetPiProof(p) \/ Simulate(p) \/ Attach(p) \/ PrepareFails(p)
    \/ SubmitCall(p) \/ RecordWalletHandle(p) \/ LoseSubmission(p)

Recovers(p) ==
    \/ RecoverOutstanding(p) \/ Loop(p)
    \/ MarkRecovering(p) \/ Queries(p) \/ Settle(p) \/ ContentRegistered(p)

Next ==
    \/ \E p \in Procs : Sends(p) \/ Recovers(p) \/ Crash(p)
    \/ \E o \in Operations : Land(o) \/ LandHollow(o) \/ Revert(o) \/ UseNonce(o)

Spec == Init /\ [][Next]_vars

(* The operator asks for status again and again.  The query of a row does  *)
(* not throw for ever, which would keep the later rows from their turn; a  *)
(* provider that knows an outcome says so sometime, and so does Circle of  *)
(* an operation it took for this one's.  Nothing makes the chain land a    *)
(* call, or a command go on.                                               *)
LiveSpec ==
    /\ Spec
    /\ \A p \in {q \in Procs : "status" \in Commands[q]} :
           /\ WF_vars(Recovers(p))
           /\ \A o \in Operations :
                  SF_vars(Op(p) = o /\ Queries(p) /\ At(p, "settle")')
           /\ SF_vars(Queries(p) /\ proc'[p].answer \in {"CONFIRMED", "REVERTED", "REPLACED"})

-----------------------------------------------------------------------------
(* A call that is out, or has taken effect, and whose row no recovery      *)
(* looks for any more, though it was not confirmed.                        *)
Lost(o) ==
    tx[o] \in {"out", "done"} /\ row[o].state \notin UnresolvedStates \cup ConfirmedStates

(* The two answers of a wallet that lose a call: its transaction came to   *)
(* be mined between the reads of a plain account, or Circle answered with  *)
(* the end of an operation of another request.                             *)
MinedUnseen(o) == wallet = "eoa" /\ tx[o] = "done" /\ row[o].state = "REPLACED"
TakenForAnother(o) == handle[o] = "other" /\ row[o].state = "REVERTED"

(* Nothing but those two answers ever writes off an approval or a          *)
(* conversion that is out or has taken effect: no lost answer, crash,      *)
(* failed query or second recovery does (agent.ts: "Wallet returned no     *)
(* durable result; recover the original request").  So what a plain        *)
(* account has sent is never lost while it may still be mined.             *)
Tracked ==
    \A o \in Operations : row[o].kind \in Kinds \ {"CONTENT_REGISTER"} /\ Lost(o) =>
        MinedUnseen(o) \/ TakenForAnother(o)

(* Without them, for a wallet that gives neither.                          *)
NeverLost == \A o \in Operations : row[o].kind # "CONTENT_REGISTER" => ~Lost(o)

(* The same of registrations, which the README says are recovered too.     *)
RegistrationTracked == \A o \in Operations : row[o].kind = "CONTENT_REGISTER" => ~Lost(o)

(* No conversion reaches a wallet that the contracts would have refused    *)
(* when the command looked: a liquify only of registered content, whatever *)
(* of the registration was confirmed, unreadable, hollow or another's.     *)
LiquifiesRegistered ==
    \A o \in Operations :
        row[o].kind = "LIQUIFY" /\ tx[o] \notin {"none", "replaced"} => chain.registered

(* A call that has come to its end outside is resolved in the ledger       *)
(* sometime, though commands die, two of them recover one row at a time    *)
(* and overwrite each other.                                               *)
EndedIsSettled ==
    \A o \in Operations :
        tx[o] \in {"done", "hollow", "reverted", "replaced"} ~> row[o].state \notin UnresolvedStates
=============================================================================
