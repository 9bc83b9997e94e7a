------------------------------- MODULE MintAgent -------------------------------
(***************************************************************************)
(* Minting from one wallet: the CLI processes (AgentRuntime, agent.ts)     *)
(* that share one ledger file, the wallet they hand Mints to, and the      *)
(* chain.  A process runs one command at a time.  Its program counter      *)
(* stands where the code awaits something or runs its next ledger          *)
(* statement, so statements of two processes, answers of the wallet and    *)
(* crashes interleave wherever they can.  What survives a crash is the     *)
(* ledger file and the world outside; proc[p] is lost.                     *)
(***************************************************************************)
EXTENDS MintLedger

CONSTANTS
    Procs,     \* CLI processes
    Wallet,    \* "circle": the handle comes with the answer; "eoa": at preparation
    Limits,    \* what authorize grants: [mints, fee, gas]
    Commands,  \* which of AllCommands each process is asked for
    Faults     \* which of PossibleFaults the environment shows

AllCommands == {"status", "mine", "run", "stop", "authorize"}
PossibleFaults == {"prepareFails", "readsFail", "chainLags"}

ASSUME AgentAssumption ==
    /\ Callers = Procs
    /\ None \notin Operations
    /\ Wallet \in {"circle", "eoa"}
    /\ Commands \in [Procs -> SUBSET AllCommands]
    /\ Faults \subseteq PossibleFaults

VARIABLES
    led,      \* operations table of the ledger
    stop,     \* runner_state.stop_requested
    auth,     \* authorizations row: none, active, expired or revoked
    proc,     \* the command each process is running, and its local state
    tx,       \* what became of the transaction of each Mint, outside the CLI
    cert,     \* the certificate of each operation against the clock
    handed    \* how often each Mint was given to the wallet's submitCall

vars == <<led, stop, auth, proc, tx, cert, handed>>
ledger == <<led, stop, auth>>
world == <<tx, cert, handed>>

Labels == {"idle", "loop", "revoke", "clear",
           "probe", "release", "check", "mark", "issued",
           "query", "receipt", "lookup", "count", "settle", "recheck",
           "decide", "work", "begin", "store", "send", "simulate", "commit",
           "prepare", "attach", "submit", "await", "record", "lost"}

(* The labels at which a process works on one operation. *)
Working == Labels \ {"idle", "loop", "revoke", "clear", "decide", "work"}

Statuses == {"UNKNOWN", "NOT_FOUND", "PENDING", "CONFIRMED", "REVERTED", "REPLACED"}
Answers == [status : Statuses, handle : BOOLEAN, gas : Gas \cup {None}]
NoAnswer == [status |-> "UNKNOWN", handle |-> FALSE, gas |-> None]

(* row: the row recoverOperation works from, read by markRecovering; goal: *)
(* what the command does once recoverOperation has returned.               *)
Locals == [pc : Labels, op : Operations \cup {None}, row : Row, seen : BOOLEAN,
           answer : Answers, goal : {"status", "mine", "sent"}, unattended : BOOLEAN]

Idle == [pc |-> "idle", op |-> None, row |-> EmptyRow, seen |-> FALSE,
         answer |-> NoAnswer, goal |-> "status", unattended |-> FALSE]

(* none: no wallet has it, transit: on its way to one.  mined issued an    *)
(* Arcal; hollow is a confirmed transaction that did not.                  *)
Outcomes == {"none", "transit", "pending", "mined", "hollow", "reverted", "replaced"}
Accepted == {"pending", "mined", "hollow", "reverted"}

(* "closing" is the last MIN_CERTIFICATE_SEND_WINDOW_MS before expiry.     *)
CertStates == {"none", "valid", "closing", "expired"}

Issued(o) == tx[o] = "mined"

TypeOK ==
    /\ led \in [Operations -> Row]
    /\ stop \in BOOLEAN
    /\ auth \in {"none", "active", "expired", "revoked"}
    /\ proc \in [Procs -> Locals]
    /\ tx \in [Operations -> Outcomes]
    /\ cert \in [Operations -> CertStates]
    /\ handed \in [Operations -> Nat]

Init ==
    /\ led = [o \in Operations |-> EmptyRow]
    /\ stop = FALSE
    /\ auth = "none"
    /\ proc = [p \in Procs |-> Idle]
    /\ tx = [o \in Operations |-> "none"]
    /\ cert = [o \in Operations |-> "none"]
    /\ handed = [o \in Operations |-> 0]

------------------------------------------------------------------------------
(* Moving a process. *)

At(p, label) == proc[p].pc = label
Op(p) == proc[p].op
Become(p, local) == proc' = [proc EXCEPT ![p] = local]
Goto(p, label) == Become(p, [proc[p] EXCEPT !.pc = label])
Leave(p) == Become(p, Idle)

(* recoverOperation has returned and the table is l: back in recoverOut-   *)
(* standing of mineOnce, at the end of sendCertifiedMint, or of status.    *)
Returned(p, l) ==
    LET s == proc[p]
    IN  Become(p,
          IF s.goal = "mine"
          THEN [Idle EXCEPT !.pc = "decide", !.unattended = s.unattended]
          ELSE IF s.goal = "sent" /\ s.unattended /\ l[s.op].state = "MINT_CONFIRMED"
          THEN [Idle EXCEPT !.pc = "loop", !.unattended = TRUE]
          ELSE Idle)

(* An UPDATE by p that makes the table l, then local state s; the unique   *)
(* index makes it throw, which ends the command with the table at old.     *)
Update(p, old, l, s) ==
    IF ActiveMintIndex(l)
    THEN led' = l /\ Become(p, s)
    ELSE led' = old /\ Leave(p)

(* recoverOutstanding: the unresolved rows are read once and then          *)
(* recovered; the unique index leaves at most one.                         *)
RecoverOutstanding(p, g, u) ==
    IF Unresolved(led) = {}
    THEN Become(p, IF g = "mine" THEN [Idle EXCEPT !.pc = "decide", !.unattended = u]
                                 ELSE Idle)
    ELSE \E o \in Unresolved(led) :
            Become(p, [Idle EXCEPT !.pc = IF Unsent(led[o]) THEN "probe" ELSE "check",
                                   !.op = o, !.goal = g, !.unattended = u])

------------------------------------------------------------------------------
(* Commands. *)

Status(p) ==
    /\ "status" \in Commands[p]
    /\ At(p, "idle")
    /\ RecoverOutstanding(p, "status", FALSE)
    /\ UNCHANGED <<ledger, world>>

(* mine --confirm; without --confirm it only recovers and shows a preview. *)
MineOnce(p) ==
    /\ "mine" \in Commands[p]
    /\ At(p, "idle")
    /\ ~stop
    /\ RecoverOutstanding(p, "mine", FALSE)
    /\ UNCHANGED <<ledger, world>>

Run(p) ==
    /\ "run" \in Commands[p]
    /\ At(p, "idle")
    /\ auth = "active"
    /\ Become(p, [Idle EXCEPT !.pc = "loop", !.unattended = TRUE])
    /\ UNCHANGED <<ledger, world>>

(* A bug that would leave the stop flag to the search alone. *)
RunIterationDeaf(p) ==
    /\ At(p, "loop")
    /\ IF Cardinality(Confirmed(led)) + Cardinality(Unresolved(led)) >= Limits.mints
       THEN Leave(p)
       ELSE RecoverOutstanding(p, "mine", TRUE)
    /\ UNCHANGED <<ledger, world>>

(* One turn of run's loop, with mineOnce's own check of the stop flag. *)
RunIteration(p) ==
    /\ At(p, "loop")
    /\ IF stop \/ Cardinality(Confirmed(led)) + Cardinality(Unresolved(led)) >= Limits.mints
       THEN Leave(p)
       ELSE RecoverOutstanding(p, "mine", TRUE)
    /\ UNCHANGED <<ledger, world>>

(* stop is two statements: the flag, then the authorization. *)
RequestStop(p) ==
    /\ "stop" \in Commands[p]
    /\ At(p, "idle")
    /\ stop' = TRUE
    /\ Goto(p, "revoke")
    /\ UNCHANGED <<led, auth, world>>

RevokeAuthorization(p) ==
    /\ At(p, "revoke")
    /\ auth' = IF auth = "none" THEN "none" ELSE "revoked"
    /\ Leave(p)
    /\ UNCHANGED <<led, stop, world>>

(* authorize stores the grant, then clears the stop flag. *)
Authorize(p) ==
    /\ "authorize" \in Commands[p]
    /\ At(p, "idle")
    /\ auth' = "active"
    /\ Goto(p, "clear")
    /\ UNCHANGED <<led, stop, world>>

ClearStop(p) ==
    /\ At(p, "clear")
    /\ stop' = FALSE
    /\ Leave(p)
    /\ UNCHANGED <<led, auth, world>>

(* Any await can throw and any process can be killed: the command ends. *)
Abort(p) ==
    /\ ~At(p, "idle")
    /\ Leave(p)
    /\ UNCHANGED <<ledger, world>>

------------------------------------------------------------------------------
(* recoverOperation. *)

(* What issuedId(receiptHash) can answer; a lagging RPC node still says 0. *)
IssuedReads(o) == {Issued(o)} \cup (IF "chainLags" \in Faults THEN {FALSE} ELSE {})

(* A bug that would keep every certified Mint for later. *)
ProbeKeeps(p) ==
    /\ At(p, "probe")
    /\ \E seen \in IssuedReads(Op(p)) :
          IF seen THEN Goto(p, "check") ELSE Returned(p, led)
    /\ UNCHANGED <<ledger, world>>

(* A row that no wallet was ever given: only an expired one is released. *)
Probe(p) ==
    /\ At(p, "probe")
    /\ \E seen \in IssuedReads(Op(p)) :
          IF seen
          THEN Goto(p, "check")
          ELSE IF cert[Op(p)] = "expired"
          THEN Goto(p, "release")
          ELSE Returned(p, led)
    /\ UNCHANGED <<ledger, world>>

(* resolveUnsentFailure; when another process handed the Mint over first,  *)
(* that submission is recovered instead.                                   *)
Release(p) ==
    /\ At(p, "release")
    /\ IF CanReleaseUnsent(led, Op(p))
       THEN /\ led' = ResolveUnsentFailure(led, Op(p))
            /\ Returned(p, led')
       ELSE /\ IF led[Op(p)].state \in UnresolvedStates
               THEN Goto(p, "check")
               ELSE Returned(p, led)
            /\ UNCHANGED led
    /\ UNCHANGED <<stop, auth, world>>

(* markRecovering is a SELECT that throws on a resolved row ... *)
CheckUnresolved(p) ==
    /\ At(p, "check")
    /\ IF led[Op(p)].state \in UnresolvedStates THEN Goto(p, "mark") ELSE Leave(p)
    /\ UNCHANGED <<ledger, world>>

(* ... and an UPDATE without a condition, whose row recovery goes on with. *)
MarkRecoveringRow(p) ==
    /\ At(p, "mark")
    /\ LET l == MarkRecovering(led, Op(p))
       IN  Update(p, led, l, [proc[p] EXCEPT !.pc = "issued", !.row = l[Op(p)]])
    /\ UNCHANGED <<stop, auth, world>>

ReadIssued(p) ==
    /\ At(p, "issued")
    /\ \E seen \in IssuedReads(Op(p)) :
          Become(p, [proc[p] EXCEPT !.seen = seen,
                                    !.pc = IF Wallet = "eoa" THEN "receipt" ELSE "query"])
    /\ UNCHANGED <<ledger, world>>

(* A bug that would look up recorded handles only, never a request. *)
CircleAnswersByHandle(row, o) ==
    LET answer(s) == [status : {s}, handle : {TRUE}, gas : {None}]
        ended(s) == [status : {s}, handle : {TRUE}, gas : Receipts \cup {None}]
    IN  IF ~row.handle THEN {NoAnswer}
        ELSE answer("NOT_FOUND")
             \cup (IF tx[o] \in Accepted THEN answer("PENDING") ELSE {})
             \cup (IF tx[o] \in {"mined", "hollow"} THEN ended("CONFIRMED") ELSE {})
             \cup (IF tx[o] = "reverted" THEN ended("REVERTED") ELSE {})

(* What Circle can answer: its list lags and may omit the operation; a     *)
(* request it cannot match is UNKNOWN, and the handle is learned from a    *)
(* match.  Gas is attributed to a transaction that ended, if readable.     *)
CircleAnswers(row, o) ==
    LET answer(s) == [status : {s}, handle : {TRUE}, gas : {None}]
        ended(s) == [status : {s}, handle : {TRUE}, gas : Receipts \cup {None}]
    IN  (IF row.handle THEN answer("NOT_FOUND") ELSE {NoAnswer})
        \cup (IF tx[o] \in Accepted THEN answer("PENDING") ELSE {})
        \cup (IF tx[o] \in {"mined", "hollow"} THEN ended("CONFIRMED") ELSE {})
        \cup (IF tx[o] = "reverted" THEN ended("REVERTED") ELSE {})

QueryCircle(p) ==
    /\ At(p, "query")
    /\ \E a \in CircleAnswers(proc[p].row, Op(p)) :
          Become(p, [proc[p] EXCEPT !.answer = a, !.pc = "settle"])
    /\ UNCHANGED <<ledger, world>>

(* A plain account asks the chain three times, each read after the last.   *)
Answered(p, status, gas) ==
    Become(p, [proc[p] EXCEPT !.answer = [status |-> status, handle |-> TRUE, gas |-> gas],
                              !.pc = "settle"])

ReadReceipt(p) ==
    /\ At(p, "receipt")
    /\ \/ /\ tx[Op(p)] \in {"mined", "reverted"}
          /\ \E g \in Receipts :
                Answered(p, IF Issued(Op(p)) THEN "CONFIRMED" ELSE "REVERTED", g)
       \/ /\ tx[Op(p)] \notin {"mined", "reverted"} \/ "readsFail" \in Faults
          /\ Goto(p, "lookup")
    /\ UNCHANGED <<ledger, world>>

LookupTransaction(p) ==
    /\ At(p, "lookup")
    /\ \/ /\ tx[Op(p)] \in {"pending", "mined", "reverted"}
          /\ Answered(p, "PENDING", None)
       \/ /\ tx[Op(p)] \notin {"pending", "mined", "reverted"} \/ "readsFail" \in Faults
          /\ Goto(p, "count")
    /\ UNCHANGED <<ledger, world>>

(* A nonce used by any transaction, this one too, reads as a replacement. *)
CountTransactions(p) ==
    /\ At(p, "count")
    /\ Answered(p, IF tx[Op(p)] \in {"mined", "reverted", "replaced"}
                   THEN "REPLACED" ELSE "NOT_FOUND", None)
    /\ UNCHANGED <<ledger, world>>

(* A bug that would book the gas of an answer that names none. *)
GasAnswered(answer, default) == answer.gas

GasOr(answer, default) == IF answer.gas = None THEN default ELSE answer.gas

(* A handle the answer revealed is recorded before the status is used. *)
WithHandle(p) ==
    IF proc[p].answer.handle /\ ~proc[p].row.handle
    THEN RecordWalletHandle(led, Op(p))
    ELSE led

SettleIssued(p) ==
    /\ At(p, "settle")
    /\ proc[p].seen
    /\ led' = ResolveConfirmed(led, Op(p), GasOr(proc[p].answer, proc[p].row.gasCommitted))
    /\ Returned(p, led')
    /\ UNCHANGED <<stop, auth, world>>

SettlePending(p) ==
    /\ At(p, "settle")
    /\ ~proc[p].seen
    /\ proc[p].answer.status = "PENDING"
    /\ LET l == MarkPending(WithHandle(p), Op(p), proc[p].answer.handle)
       IN  IF ActiveMintIndex(l)
           THEN led' = l /\ Returned(p, l)
           ELSE led' = WithHandle(p) /\ Leave(p)
    /\ UNCHANGED <<stop, auth, world>>

SettleConfirmed(p) ==
    /\ At(p, "settle")
    /\ ~proc[p].seen
    /\ proc[p].answer.status = "CONFIRMED"
    /\ led' = WithHandle(p)
    /\ Goto(p, "recheck")
    /\ UNCHANGED <<stop, auth, world>>

(* A bug that would trust the read made before the wallet was asked. *)
RecheckWithFirstRead(p) ==
    /\ At(p, "recheck")
    /\ led' = IF proc[p].seen
              THEN ResolveConfirmed(led, Op(p), GasOr(proc[p].answer, proc[p].row.gasCommitted))
              ELSE ResolveFailure(led, Op(p), "FAILED", GasOr(proc[p].answer, 0))
    /\ Returned(p, led')
    /\ UNCHANGED <<stop, auth, world>>

(* The wallet says confirmed: only the receipt on chain makes it a Mint. *)
RecheckIssued(p) ==
    /\ At(p, "recheck")
    /\ \E seen \in IssuedReads(Op(p)) :
          led' = IF seen
                 THEN ResolveConfirmed(led, Op(p),
                                       GasOr(proc[p].answer, proc[p].row.gasCommitted))
                 ELSE ResolveFailure(led, Op(p), "FAILED", GasOr(proc[p].answer, 0))
    /\ Returned(p, led')
    /\ UNCHANGED <<stop, auth, world>>

SettleFailed(p) ==
    /\ At(p, "settle")
    /\ ~proc[p].seen
    /\ proc[p].answer.status \in {"REVERTED", "REPLACED"}
    /\ led' = ResolveFailure(WithHandle(p), Op(p), proc[p].answer.status,
                             GasOr(proc[p].answer, proc[p].row.gasCommitted))
    /\ Returned(p, led')
    /\ UNCHANGED <<stop, auth, world>>

(* A bug that would drop a submission nobody can find. *)
SettleUnknownAsFailed(p) ==
    /\ At(p, "settle")
    /\ ~proc[p].seen
    /\ proc[p].answer.status \in {"UNKNOWN", "NOT_FOUND"}
    /\ led' = ResolveFailure(led, Op(p), "FAILED_RETRYABLE", 0)
    /\ Returned(p, led')
    /\ UNCHANGED <<stop, auth, world>>

SettleUnknown(p) ==
    /\ At(p, "settle")
    /\ ~proc[p].seen
    /\ proc[p].answer.status \in {"UNKNOWN", "NOT_FOUND"}
    /\ LET l == MarkSubmissionUnknown(WithHandle(p), Op(p))
       IN  IF ActiveMintIndex(l)
           THEN led' = l /\ Returned(p, l)
           ELSE led' = WithHandle(p) /\ Leave(p)
    /\ UNCHANGED <<stop, auth, world>>

------------------------------------------------------------------------------
(* The rest of mineOnce. *)

(* resumableCertifiedMint: certified, never handed over, still valid. *)
Resumable ==
    {o \in Unresolved(led) : Unsent(led[o]) /\ led[o].call /\ cert[o] # "expired"}

MayStartWork(p) ==
    /\ Resumable = {}
    /\ CanStartMint(led)
    /\ proc[p].unattended => auth = "active" /\ BudgetAvailable(led, Limits, {}, 0)

Resume(p) ==
    /\ At(p, "decide")
    /\ \E o \in Resumable : Become(p, [proc[p] EXCEPT !.op = o, !.pc = "send"])
    /\ UNCHANGED <<ledger, world>>

StartWork(p) ==
    /\ At(p, "decide")
    /\ MayStartWork(p)
    /\ Goto(p, "work")
    /\ UNCHANGED <<ledger, world>>

RefuseWork(p) ==
    /\ At(p, "decide")
    /\ Resumable = {}
    /\ ~MayStartWork(p)
    /\ Leave(p)
    /\ UNCHANGED <<ledger, world>>

(* The poll of the stop flag aborts the search, and only the search. *)
StopMining(p) ==
    /\ At(p, "work")
    /\ stop
    /\ Leave(p)
    /\ UNCHANGED <<ledger, world>>

(* Challenge, proof of work, submission and the wait for the certificate,  *)
(* which names a new operation.                                            *)
ObtainCertificate(p) ==
    /\ At(p, "work")
    /\ \E o \in Operations :
          /\ cert[o] = "none"
          /\ cert' = [cert EXCEPT ![o] = "valid"]
          /\ Become(p, [proc[p] EXCEPT !.op = o, !.pc = "begin"])
    /\ UNCHANGED <<ledger, tx, handed>>

BeginMint(p) ==
    /\ At(p, "begin")
    /\ IF CanStartMint(led)
       THEN Update(p, led, BeginOperation(led, Op(p)), [proc[p] EXCEPT !.pc = "store"])
       ELSE Leave(p) /\ UNCHANGED led
    /\ UNCHANGED <<stop, auth, world>>

StoreCall(p) ==
    /\ At(p, "store")
    /\ led' = SetPendingCall(led, Op(p))
    /\ Goto(p, "send")
    /\ UNCHANGED <<stop, auth, world>>

------------------------------------------------------------------------------
(* sendCertifiedMint and submit. *)

CheckSendWindow(p) ==
    /\ At(p, "send")
    /\ IF cert[Op(p)] = "valid" THEN Goto(p, "simulate") ELSE Leave(p)
    /\ UNCHANGED <<ledger, world>>

(* One of SIMULATION_ATTEMPTS simulations succeeds, or the command ends    *)
(* and the certified Mint stays resumable.                                 *)
Simulate(p) ==
    /\ At(p, "simulate")
    /\ cert[Op(p)] # "expired" /\ ~Issued(Op(p))
    /\ Goto(p, "commit")
    /\ UNCHANGED <<ledger, world>>

SimulationFails(p) ==
    /\ At(p, "simulate")
    /\ Leave(p)
    /\ UNCHANGED <<ledger, world>>

(* A bug that would commit a quote without asking the budget again. *)
CommitUnchecked(p) ==
    /\ At(p, "commit")
    /\ \E quote \in Quotes :
          /\ led' = SetOperationCommitment(led, Op(p), quote)
          /\ Goto(p, "prepare")
    /\ UNCHANGED <<stop, auth, world>>

(* The quote has arrived: assertBudgetAvailable and the commitment. *)
Commit(p) ==
    /\ At(p, "commit")
    /\ \E quote \in Quotes :
          IF proc[p].unattended =>
                auth = "active" /\ BudgetAvailable(led, Limits, {Op(p)}, quote)
          THEN /\ led' = SetOperationCommitment(led, Op(p), quote)
               /\ Goto(p, "prepare")
          ELSE Leave(p) /\ UNCHANGED led
    /\ UNCHANGED <<stop, auth, world>>

PrepareSubmission(p) ==
    /\ At(p, "prepare")
    /\ Goto(p, "attach")
    /\ UNCHANGED <<ledger, world>>

(* resolveFailure asks nothing of the row it fails. *)
PrepareFails(p) ==
    /\ At(p, "prepare")
    /\ "prepareFails" \in Faults
    /\ led' = ResolveFailure(led, Op(p), "FAILED_RETRYABLE", 0)
    /\ Leave(p)
    /\ UNCHANGED <<stop, auth, world>>

(* A bug that would attach a submission to any row that is still open. *)
AttachToUnresolved(p) ==
    /\ At(p, "attach")
    /\ IF CanAttachLoosely(led, Op(p))
       THEN /\ led' = AttachSubmission(led, Op(p), p, Wallet = "eoa")
            /\ Become(p, [proc[p] EXCEPT !.pc = "submit", !.goal = "sent"])
       ELSE Leave(p) /\ UNCHANGED led
    /\ UNCHANGED <<stop, auth, world>>

Attach(p) ==
    /\ At(p, "attach")
    /\ IF CanAttach(led, Op(p))
       THEN /\ led' = AttachSubmission(led, Op(p), p, Wallet = "eoa")
            /\ Become(p, [proc[p] EXCEPT !.pc = "submit", !.goal = "sent"])
       ELSE Leave(p) /\ UNCHANGED led
    /\ UNCHANGED <<stop, auth, world>>

SubmitCall(p) ==
    /\ At(p, "submit")
    /\ handed' = [handed EXCEPT ![Op(p)] = @ + 1]
    /\ tx' = [tx EXCEPT ![Op(p)] = IF @ = "none" THEN "transit" ELSE @]
    /\ Goto(p, "await")
    /\ UNCHANGED <<ledger, cert>>

SubmitAnswered(p) ==
    /\ At(p, "await")
    /\ tx[Op(p)] \in Accepted
    /\ Goto(p, "record")
    /\ UNCHANGED <<ledger, world>>

(* The call throws, whether or not the wallet took the Mint. *)
SubmitThrows(p) ==
    /\ At(p, "await")
    /\ Goto(p, "lost")
    /\ UNCHANGED <<ledger, world>>

(* The row that submit returns goes straight into recoverOperation. *)
RecordHandle(p) ==
    /\ At(p, "record")
    /\ led' = RecordWalletHandle(led, Op(p))
    /\ IF led'[Op(p)].state \in UnresolvedStates THEN Goto(p, "check") ELSE Returned(p, led')
    /\ UNCHANGED <<stop, auth, world>>

(* A bug that would release a Mint whose submission gave no answer. *)
LoseSubmissionAsFailed(p) ==
    /\ At(p, "lost")
    /\ led' = ResolveFailure(led, Op(p), "FAILED_RETRYABLE", 0)
    /\ Leave(p)
    /\ UNCHANGED <<stop, auth, world>>

LoseSubmission(p) ==
    /\ At(p, "lost")
    /\ Update(p, led, MarkSubmissionUnknown(led, Op(p)), [proc[p] EXCEPT !.pc = "check"])
    /\ UNCHANGED <<stop, auth, world>>

------------------------------------------------------------------------------
(* The world outside: the wallet's provider, the chain and the clock. *)

Moves(o, from, to) ==
    /\ tx[o] \in from
    /\ tx' = [tx EXCEPT ![o] = to]
    /\ UNCHANGED <<ledger, proc, cert, handed>>

Accept(o) == Moves(o, {"transit"}, "pending")

Vanish(o) == Moves(o, {"transit"}, "none")

(* The controller issues for a certificate that has not expired. *)
Land(o) == cert[o] # "expired" /\ Moves(o, {"pending"}, "mined")

Revert(o) == Moves(o, {"pending"}, "reverted")

(* A bundle that succeeds around a user operation that does not. *)
LandHollow(o) == Wallet = "circle" /\ Moves(o, {"pending"}, "hollow")

(* The account's nonce goes to another transaction of its owner. *)
UseNonce(o) ==
    /\ Wallet = "eoa" /\ led[o].handle
    /\ Moves(o, {"none", "transit", "pending"}, "replaced")

NearExpiry(o) ==
    /\ cert[o] = "valid"
    /\ cert' = [cert EXCEPT ![o] = "closing"]
    /\ UNCHANGED <<ledger, proc, tx, handed>>

Expire(o) ==
    /\ cert[o] = "closing"
    /\ cert' = [cert EXCEPT ![o] = "expired"]
    /\ UNCHANGED <<ledger, proc, tx, handed>>

AuthorizationExpires ==
    /\ auth = "active"
    /\ auth' = "expired"
    /\ UNCHANGED <<led, stop, proc, world>>

------------------------------------------------------------------------------
Command(p) ==
    \/ Status(p) \/ MineOnce(p) \/ Run(p) \/ RunIteration(p)
    \/ RequestStop(p) \/ RevokeAuthorization(p) \/ Authorize(p) \/ ClearStop(p)
    \/ Abort(p)

Recovery(p) ==
    \/ Probe(p) \/ Release(p) \/ CheckUnresolved(p) \/ MarkRecoveringRow(p)
    \/ ReadIssued(p) \/ QueryCircle(p)
    \/ ReadReceipt(p) \/ LookupTransaction(p) \/ CountTransactions(p)
    \/ SettleIssued(p) \/ SettlePending(p) \/ SettleConfirmed(p)
    \/ RecheckIssued(p) \/ SettleFailed(p) \/ SettleUnknown(p)

Mining(p) ==
    \/ Resume(p) \/ StartWork(p) \/ RefuseWork(p) \/ StopMining(p)
    \/ ObtainCertificate(p) \/ BeginMint(p) \/ StoreCall(p)

Sending(p) ==
    \/ CheckSendWindow(p) \/ Simulate(p) \/ SimulationFails(p) \/ Commit(p)
    \/ PrepareSubmission(p) \/ PrepareFails(p) \/ Attach(p)
    \/ SubmitCall(p) \/ SubmitAnswered(p) \/ SubmitThrows(p)
    \/ RecordHandle(p) \/ LoseSubmission(p)

Outside(o) ==
    \/ Accept(o) \/ Vanish(o) \/ Land(o) \/ Revert(o) \/ LandHollow(o) \/ UseNonce(o)
    \/ NearExpiry(o) \/ Expire(o)

Next ==
    \/ \E p \in Procs : Command(p) \/ Recovery(p) \/ Mining(p) \/ Sending(p)
    \/ \E o \in Operations : Outside(o)
    \/ AuthorizationExpires

Spec == Init /\ [][Next]_vars

(* A command past its recovery goes on: each of its steps is the process's *)
(* own, or an await that answers or throws.                                *)
Progress == \A p \in Procs : WF_vars(Mining(p) \/ Sending(p))

(* The operator runs status again and again, each step of its recovery     *)
(* gets through sometime, and a provider that knows the outcome says so    *)
(* sometime.  Nothing makes a user mine, or the chain land a Mint.         *)
Conclusive(p) == QueryCircle(p) /\ proc'[p].answer.status \in {"CONFIRMED", "REVERTED"}

Persistence ==
    \A p \in Procs :
        /\ SF_vars(Status(p))
        /\ SF_vars(Probe(p)) /\ SF_vars(Release(p))
        /\ SF_vars(CheckUnresolved(p)) /\ SF_vars(MarkRecoveringRow(p))
        /\ SF_vars(ReadIssued(p)) /\ SF_vars(Conclusive(p))
        /\ SF_vars(SettleIssued(p)) /\ SF_vars(SettlePending(p)) /\ SF_vars(SettleConfirmed(p))
        /\ SF_vars(RecheckIssued(p)) /\ SF_vars(SettleFailed(p)) /\ SF_vars(SettleUnknown(p))

ProgressSpec == Spec /\ Progress
FairSpec == Spec /\ Progress /\ Persistence

------------------------------------------------------------------------------
(* Safety. *)

(* Each certified Mint is given to a wallet at most once, whatever two     *)
(* processes, crashes and resumed commands do (submit, resumableCertified- *)
(* Mint and attachSubmission together).                                    *)
HandedAtMostOnce == \A o \in Operations : handed[o] <= 1

(* A row is resolved as failed only when its Mint is over: nothing of it   *)
(* is on its way, waiting or mined (every resolveFailure of the agent).    *)
FailedIsOver ==
    \A o \in Operations :
        led[o].state \in FailureStates => tx[o] \notin {"transit", "pending", "mined"}

(* Two Mints of a wallet are never out at the same time. *)
OneMintOut ==
    \A a, b \in Operations :
        tx[a] \in {"transit", "pending"} /\ tx[b] \in {"transit", "pending"} => a = b

(* A Mint an unattended runner hands over fits the authorized limits with  *)
(* everything the wallet has already spent or reserved, itself included.   *)
WithinMintsAndFee ==
    /\ Cardinality(Confirmed(led)) + Cardinality(Unresolved(led)) <= Limits.mints
    /\ SpentFee(led) + ReservedFee(led, Unresolved(led)) <= Limits.fee

WithinGas == SpentGas(led) + ReservedGas(led, Unresolved(led)) <= Limits.gas

UnattendedWithinBudget ==
    [][\A p \in Procs :
          SubmitCall(p) /\ proc[p].unattended => WithinMintsAndFee /\ WithinGas]_vars

(* Why HandedAtMostOnce holds: a certified Mint leaves CERTIFICATE_READY   *)
(* for good when one process attaches its request, and only that process   *)
(* stands before submitCall with it.  Inductive together with the types.   *)
HandOver ==
    /\ HandedAtMostOnce
    /\ \A o \in Operations :
          /\ handed[o] > 0 => led[o].request # None
          /\ led[o].request # None => led[o].state \notin {"ABSENT", "CERTIFICATE_READY"}
          /\ cert[o] = "none" => led[o].state = "ABSENT"
    /\ \A p \in Procs :
          /\ At(p, "begin") => led[Op(p)].state = "ABSENT" /\ cert[Op(p)] # "none"
          /\ proc[p].pc \in Working \ {"begin"} => led[Op(p)].state # "ABSENT"
          /\ At(p, "submit") => led[Op(p)].request # None /\ handed[Op(p)] = 0
    /\ \A p, q \in Procs :
          proc[p].pc \in {"begin", "submit"} /\ proc[q].pc = proc[p].pc /\ Op(p) = Op(q)
             => p = q

(* What the owner of the wallet is promised (MintPromise): each Mint as     *)
(* the world outside has it, and as the ledger reports it.                 *)
Promise == INSTANCE MintPromise WITH
    chain <- [o \in Operations |->
                IF handed[o] = 0 THEN "unsent"
                ELSE CASE tx[o] = "none" -> "lost"
                       [] tx[o] \in {"transit", "pending"} -> "out"
                       [] tx[o] = "mined" -> "minted"
                       [] OTHER -> "void"],
    told <- [o \in Operations |->
                CASE led[o].state = "MINT_CONFIRMED" -> "minted"
                  [] led[o].state \in FailureStates -> "failed"
                  [] OTHER -> "open"]

(* Every step of the agents keeps that promise or leaves it alone.         *)
ImplementsPromise == Promise!Spec

------------------------------------------------------------------------------
(* Liveness. *)

(* A Mint that reached its end outside is eventually resolved in the       *)
(* ledger, however often answers were lost and commands died.              *)
EndedIsResolved ==
    \A o \in Operations :
        tx[o] \in {"mined", "hollow", "reverted"} ~> led[o].state \notin UnresolvedStates

(* An expired certificate that no wallet was given stops blocking the      *)
(* wallet ("it will be released after expiry", sendCertifiedMint).         *)
ExpiredIsReleased ==
    \A o \in Operations :
        (led[o].state = "CERTIFICATE_READY" /\ cert[o] = "expired")
            ~> led[o].state # "CERTIFICATE_READY"

(* Once stop is set for good, every process stops mining and handing over  *)
(* Mints for good: the stop checks leave no way to keep a runner going.    *)
StopQuiesces ==
    <>[]stop => <>[](\A p \in Procs :
        proc[p].pc \notin {"work", "begin", "store", "send", "simulate", "commit",
                          "prepare", "attach", "submit"})

------------------------------------------------------------------------------
(* What the documentation says and the code does not do. *)

(* "stop blocks new submissions" (README): no Mint is handed over while    *)
(* the stop flag is set.                                                   *)
StopBlocksSubmission ==
    [][\A p \in Procs : SubmitCall(p) => ~stop]_vars

(* "If a confirmed transaction has no available Gas receipt, the ledger    *)
(* conservatively books the submitted maximum instead of zero" (README).   *)
ConfirmedBooksGas ==
    [][\A p \in Procs :
          RecheckIssued(p) /\ proc[p].answer.gas = None =>
             led'[Op(p)].gasSpent = led[Op(p)].gasCommitted]_vars

(* "Only one CLI process may hold a ledger" (README): no two commands are  *)
(* ever in progress on it.                                                 *)
OneProcessHoldsLedger ==
    \A p, q \in Procs : ~At(p, "idle") /\ ~At(q, "idle") => p = q
==============================================================================
