---------------------------- MODULE MintAgentProofs ----------------------------
(***************************************************************************)
(* Proofs about MintAgent, for any processes, operations and amounts.      *)
(***************************************************************************)
EXTENDS MintAgent, FiniteSetTheorems, TLAPS

------------------------------------------------------------------------------
(* Ledger statements keep the table a table. *)

Table == [Operations -> Row]

LEMMA BlankRow == ASSUME LedgerAssumption PROVE EmptyRow \in Row
BY DEF EmptyRow, Row, LedgerStates, Gas, LedgerAssumption

LEMMA SetStateType ==
    ASSUME NEW l \in Table, NEW o \in Operations, NEW s \in LedgerStates
    PROVE  SetState(l, o, s) \in Table
BY DEF SetState, Table, Row

LEMMA CallType ==
    ASSUME NEW l \in Table, NEW o \in Operations
    PROVE  SetPendingCall(l, o) \in Table
BY DEF SetPendingCall, Table, Row

LEMMA CommitmentType ==
    ASSUME NEW l \in Table, NEW o \in Operations, NEW gas \in Quotes
    PROVE  SetOperationCommitment(l, o, gas) \in Table
BY DEF SetOperationCommitment, Table, Row, Gas

LEMMA AttachType ==
    ASSUME NEW l \in Table, NEW o \in Operations, NEW caller \in Callers, NEW h \in BOOLEAN
    PROVE  AttachSubmission(l, o, caller, h) \in Table
BY DEF AttachSubmission, Table, Row, LedgerStates

LEMMA HandleType ==
    ASSUME NEW l \in Table, NEW o \in Operations
    PROVE  RecordWalletHandle(l, o) \in Table
BY DEF RecordWalletHandle, Table, Row, LedgerStates

LEMMA PendingType ==
    ASSUME NEW l \in Table, NEW o \in Operations, NEW h \in BOOLEAN
    PROVE  MarkPending(l, o, h) \in Table
<1>. DEFINE r == [l[o] EXCEPT !.state = "TX_PENDING", !.handle = l[o].handle \/ h]
<1>1. l[o] \in Row /\ (l[o].handle \/ h) \in BOOLEAN
  BY DEF Table, Row
<1>2. r \in Row
  BY <1>1 DEF Row, LedgerStates
<1>. HIDE DEF r
<1>3. [l EXCEPT ![o] = r] \in Table
  BY <1>2 DEF Table
<1>. QED
  BY <1>3 DEF MarkPending, r

LEMMA ConfirmedType ==
    ASSUME NEW l \in Table, NEW o \in Operations, NEW gas \in Gas
    PROVE  ResolveConfirmed(l, o, gas) \in Table
BY DEF ResolveConfirmed, Table, Row, LedgerStates

LEMMA FailureType ==
    ASSUME NEW l \in Table, NEW o \in Operations, NEW s \in FailureStates, NEW gas \in Gas
    PROVE  ResolveFailure(l, o, s, gas) \in Table
BY DEF ResolveFailure, Table, Row, LedgerStates, FailureStates

LEMMA UnsentType ==
    ASSUME NEW l \in Table, NEW o \in Operations
    PROVE  ResolveUnsentFailure(l, o) \in Table
BY DEF ResolveUnsentFailure, Table, Row, LedgerStates, Gas

------------------------------------------------------------------------------
(* Type correctness.  TypeOK alone is not inductive: the operators of the  *)
(* ledger keep the type of the table only when applied to an operation, so *)
(* a process at a label that works on one must hold one.                   *)

Held == {s \in Locals : s.pc \in Working => s.op \in Operations}

TypeInv == TypeOK /\ proc \in [Procs -> Held]

LEMMA IdleHeld == ASSUME LedgerAssumption PROVE Idle \in Held
<1>1. NoAnswer \in Answers
  BY DEF NoAnswer, Answers, Statuses
<1>2. Idle \in Locals
  BY <1>1, BlankRow DEF Idle, Locals, Labels
<1>. QED
  BY <1>2 DEF Idle, Held, Working, Labels

(* Local states the helpers build from Idle. *)
LEMMA FreshHeld ==
    ASSUME LedgerAssumption, NEW u \in BOOLEAN
    PROVE  /\ [Idle EXCEPT !.pc = "decide", !.unattended = u] \in Held
           /\ [Idle EXCEPT !.pc = "loop", !.unattended = u] \in Held
           /\ \A o \in Operations, label \in {"probe", "check"}, g \in {"status", "mine", "sent"} :
                 [Idle EXCEPT !.pc = label, !.op = o, !.goal = g, !.unattended = u] \in Held
<1>1. Idle \in Locals
  BY IdleHeld DEF Held
<1>2. [Idle EXCEPT !.pc = "decide", !.unattended = u] \in Held
  BY <1>1 DEF Held, Locals, Working, Labels
<1>3. [Idle EXCEPT !.pc = "loop", !.unattended = u] \in Held
  BY <1>1 DEF Held, Locals, Working, Labels
<1>4. ASSUME NEW o \in Operations, NEW label \in {"probe", "check"},
             NEW g \in {"status", "mine", "sent"}
      PROVE  [Idle EXCEPT !.pc = label, !.op = o, !.goal = g, !.unattended = u] \in Held
  BY <1>1 DEF Held, Locals, Working, Labels
<1>. QED
  BY <1>2, <1>3, <1>4

LEMMA Moved ==
    ASSUME TypeInv, NEW p \in Procs, NEW s \in Held, Become(p, s)
    PROVE  proc' \in [Procs -> Held] /\ proc' \in [Procs -> Locals]
<1>1. Held \subseteq Locals
  BY DEF Held
<1>. QED
  BY <1>1 DEF TypeInv, Become

LEMMA Left ==
    ASSUME LedgerAssumption, TypeInv, NEW p \in Procs, Leave(p)
    PROVE  proc' \in [Procs -> Held] /\ proc' \in [Procs -> Locals]
BY Moved, IdleHeld DEF Leave

LEMMA Gone ==
    ASSUME TypeInv, NEW p \in Procs, NEW label \in Labels, Goto(p, label),
           label \in Working => Op(p) \in Operations
    PROVE  proc' \in [Procs -> Held] /\ proc' \in [Procs -> Locals]
<1>1. proc[p] \in Locals
  BY DEF TypeInv, Held
<1>2. [proc[p] EXCEPT !.pc = label] \in Held
  BY <1>1 DEF Held, Locals, Op
<1>. QED
  BY <1>2, Moved DEF Goto

LEMMA Back ==
    ASSUME LedgerAssumption, TypeInv, NEW p \in Procs, NEW l, Returned(p, l)
    PROVE  proc' \in [Procs -> Held] /\ proc' \in [Procs -> Locals]
<1>1. proc[p].unattended \in BOOLEAN
  BY DEF TypeInv, Held, Locals
<1>2. /\ [Idle EXCEPT !.pc = "decide", !.unattended = proc[p].unattended] \in Held
      /\ [Idle EXCEPT !.pc = "loop", !.unattended = TRUE] \in Held
  BY <1>1, FreshHeld
<1>. QED
  BY <1>2, IdleHeld, Moved DEF Returned

LEMMA Recovering ==
    ASSUME LedgerAssumption, TypeInv, NEW p \in Procs, NEW g \in {"status", "mine"},
           NEW u \in BOOLEAN, RecoverOutstanding(p, g, u)
    PROVE  proc' \in [Procs -> Held] /\ proc' \in [Procs -> Locals]
<1>1. CASE Unresolved(led) = {}
  BY <1>1, IdleHeld, FreshHeld, Moved DEF RecoverOutstanding
<1>2. CASE Unresolved(led) # {}
  <2>1. PICK o \in Unresolved(led) :
           Become(p, [Idle EXCEPT !.pc = IF Unsent(led[o]) THEN "probe" ELSE "check",
                                  !.op = o, !.goal = g, !.unattended = u])
    BY <1>2 DEF RecoverOutstanding
  <2>2. o \in Operations
    BY DEF Unresolved
  <2>3. (IF Unsent(led[o]) THEN "probe" ELSE "check") \in {"probe", "check"}
    OBVIOUS
  <2>. QED
    BY <2>1, <2>2, <2>3, FreshHeld, Moved
<1>. QED
  BY <1>1, <1>2

LEMMA OnlyProc ==
    ASSUME TypeInv, proc' \in [Procs -> Held], proc' \in [Procs -> Locals],
           UNCHANGED <<ledger, world>>
    PROVE  TypeInv'
BY DEF TypeInv, TypeOK, ledger, world

LEMMA OnlyRows ==
    ASSUME TypeInv, proc' \in [Procs -> Held], proc' \in [Procs -> Locals],
           led' \in Table, UNCHANGED <<stop, auth, world>>
    PROVE  TypeInv'
BY DEF TypeInv, TypeOK, Table, world

LEMMA CommandTypes ==
    ASSUME LedgerAssumption, TypeInv, NEW p \in Procs, Command(p)
    PROVE  TypeInv'
<1>1. CASE Status(p)
  BY <1>1, Recovering, OnlyProc DEF Status
<1>2. CASE MineOnce(p)
  BY <1>2, Recovering, OnlyProc DEF MineOnce
<1>3. CASE Run(p)
  BY <1>3, FreshHeld, Moved, OnlyProc DEF Run
<1>4. CASE RunIteration(p)
  BY <1>4, Left, Recovering, OnlyProc DEF RunIteration
<1>5. CASE RequestStop(p)
  <2>1. proc' \in [Procs -> Held] /\ proc' \in [Procs -> Locals]
    BY <1>5, Gone DEF RequestStop, Labels, Working
  <2>. QED
    BY <1>5, <2>1 DEF RequestStop, TypeInv, TypeOK, world
<1>6. CASE RevokeAuthorization(p)
  <2>1. proc' \in [Procs -> Held] /\ proc' \in [Procs -> Locals]
    BY <1>6, Left DEF RevokeAuthorization
  <2>. QED
    BY <1>6, <2>1 DEF RevokeAuthorization, TypeInv, TypeOK, world
<1>7. CASE Authorize(p)
  <2>1. proc' \in [Procs -> Held] /\ proc' \in [Procs -> Locals]
    BY <1>7, Gone DEF Authorize, Labels, Working
  <2>. QED
    BY <1>7, <2>1 DEF Authorize, TypeInv, TypeOK, world
<1>8. CASE ClearStop(p)
  <2>1. proc' \in [Procs -> Held] /\ proc' \in [Procs -> Locals]
    BY <1>8, Left DEF ClearStop
  <2>. QED
    BY <1>8, <2>1 DEF ClearStop, TypeInv, TypeOK, world
<1>9. CASE Abort(p)
  BY <1>9, Left, OnlyProc DEF Abort
<1>. QED
  BY <1>1, <1>2, <1>3, <1>4, <1>5, <1>6, <1>7, <1>8, <1>9 DEF Command

LEMMA OutsideTypes ==
    ASSUME TypeInv, NEW o \in Operations, Outside(o)
    PROVE  TypeInv'
<1>1. ASSUME NEW from, NEW to \in Outcomes, Moves(o, from, to)
      PROVE  TypeInv'
  BY <1>1 DEF Moves, TypeInv, TypeOK, ledger
<1>2. CASE Accept(o) \/ Vanish(o) \/ Land(o) \/ Revert(o) \/ LandHollow(o) \/ UseNonce(o)
  BY <1>1, <1>2 DEF Accept, Vanish, Land, Revert, LandHollow, UseNonce, Outcomes
<1>3. CASE NearExpiry(o) \/ Expire(o)
  BY <1>3 DEF NearExpiry, Expire, TypeInv, TypeOK, CertStates, ledger
<1>. QED
  BY <1>2, <1>3 DEF Outside

LEMMA AtWork ==
    ASSUME TypeInv, NEW p \in Procs, proc[p].pc \in Working
    PROVE  /\ Op(p) \in Operations
           /\ proc[p] \in Locals
           /\ led \in Table
           /\ led[Op(p)] \in Row
BY DEF TypeInv, TypeOK, Held, Table, Op

(* Bookings of gas fall on a number even when the answer names none. *)
LEMMA GasBooked ==
    ASSUME LedgerAssumption, NEW a \in Answers, NEW default \in Gas
    PROVE  GasOr(a, default) \in Gas
BY DEF GasOr, Answers

LEMMA HandledType ==
    ASSUME TypeInv, NEW p \in Procs, proc[p].pc \in Working
    PROVE  WithHandle(p) \in Table
BY AtWork, HandleType DEF WithHandle

LEMMA AnswersType ==
    ASSUME NEW o, NEW row \in Row, NEW a \in CircleAnswers(row, o)
    PROVE  a \in Answers
<1>1. NoAnswer \in Answers
  BY DEF NoAnswer, Answers, Statuses
<1>2. \A s \in Statuses :
         /\ [status : {s}, handle : {TRUE}, gas : {None}] \subseteq Answers
         /\ [status : {s}, handle : {TRUE}, gas : Receipts \cup {None}] \subseteq Answers
  BY DEF Answers, Gas
<1>3. {"NOT_FOUND", "PENDING", "CONFIRMED", "REVERTED"} \subseteq Statuses
  BY DEF Statuses
<1>. QED
  BY <1>1, <1>2, <1>3 DEF CircleAnswers

LEMMA AnswerHeld ==
    ASSUME TypeInv, NEW p \in Procs, proc[p].pc \in Working,
           NEW a \in Answers, NEW label \in Working
    PROVE  [proc[p] EXCEPT !.answer = a, !.pc = label] \in Held
BY AtWork DEF Held, Locals, Op, Working

LEMMA RecoveryTypes ==
    ASSUME LedgerAssumption, AgentAssumption, TypeInv, NEW p \in Procs, Recovery(p)
    PROVE  TypeInv'
<1>. USE DEF At
<1>a. ASSUME NEW label \in Labels, Goto(p, label), proc[p].pc \in Working
      PROVE  proc' \in [Procs -> Held] /\ proc' \in [Procs -> Locals]
  BY <1>a, AtWork, Gone
<1>1. CASE Probe(p)
  <2>1. proc[p].pc \in Working
    BY <1>1 DEF Probe, Working, Labels
  <2>. QED
    BY <1>1, <2>1, <1>a, Back, OnlyProc DEF Probe, Labels
<1>2. CASE Release(p)
  <2>1. proc[p].pc \in Working
    BY <1>2 DEF Release, Working, Labels
  <2>2. proc' \in [Procs -> Held] /\ proc' \in [Procs -> Locals]
    BY <1>2, <2>1, <1>a, Back DEF Release, Labels
  <2>3. led' \in Table
    BY <1>2, <2>1, AtWork, UnsentType DEF Release
  <2>. QED
    BY <1>2, <2>2, <2>3, OnlyRows DEF Release
<1>3. CASE CheckUnresolved(p)
  <2>1. proc[p].pc \in Working
    BY <1>3 DEF CheckUnresolved, Working, Labels
  <2>. QED
    BY <1>3, <2>1, <1>a, Left, OnlyProc DEF CheckUnresolved, Labels
<1>4. CASE MarkRecoveringRow(p)
  <2>. DEFINE l == MarkRecovering(led, Op(p))
              s == [proc[p] EXCEPT !.pc = "issued", !.row = l[Op(p)]]
  <2>1. proc[p].pc \in Working
    BY <1>4 DEF MarkRecoveringRow, Working, Labels
  <2>2. l \in Table /\ l[Op(p)] \in Row
    BY <2>1, AtWork, SetStateType DEF MarkRecovering, LedgerStates, Table
  <2>3. s \in Held
    BY <2>1, <2>2, AtWork DEF Held, Locals, Op, Labels
  <2>4. Update(p, led, l, s)
    BY <1>4 DEF MarkRecoveringRow
  <2>5. led' \in Table
    BY <2>1, <2>2, <2>4, AtWork DEF Update
  <2>6. proc' \in [Procs -> Held] /\ proc' \in [Procs -> Locals]
    BY <2>3, <2>4, Moved, Left DEF Update
  <2>. QED
    BY <1>4, <2>5, <2>6, OnlyRows DEF MarkRecoveringRow
<1>5. CASE ReadIssued(p)
  <2>1. proc[p].pc \in Working
    BY <1>5 DEF ReadIssued, Working, Labels
  <2>2. PICK seen \in IssuedReads(Op(p)) :
           Become(p, [proc[p] EXCEPT !.seen = seen,
                                     !.pc = IF Wallet = "eoa" THEN "receipt" ELSE "query"])
    BY <1>5 DEF ReadIssued
  <2>3. seen \in BOOLEAN
    BY DEF IssuedReads, Issued
  <2>4. [proc[p] EXCEPT !.seen = seen,
                        !.pc = IF Wallet = "eoa" THEN "receipt" ELSE "query"] \in Held
    <3> DEFINE next == IF Wallet = "eoa" THEN "receipt" ELSE "query"
    <3>1. next \in Labels
      BY DEF Labels
    <3>2. proc[p].op \in Operations /\ proc[p] \in Locals
      BY <2>1, AtWork DEF Op
    <3> HIDE DEF next
    <3>3. [proc[p] EXCEPT !.seen = seen, !.pc = next] \in Held
      BY <2>3, <3>1, <3>2 DEF Held, Locals
    <3> QED
      BY <3>3 DEF next
  <2>. QED
    BY <1>5, <2>2, <2>4, Moved, OnlyProc DEF ReadIssued
<1>6. CASE QueryCircle(p)
  <2>1. proc[p].pc \in Working
    BY <1>6 DEF QueryCircle, Working, Labels
  <2>2. PICK a \in CircleAnswers(proc[p].row, Op(p)) :
           Become(p, [proc[p] EXCEPT !.answer = a, !.pc = "settle"])
    BY <1>6 DEF QueryCircle
  <2>3. a \in Answers
    BY <2>1, AtWork, AnswersType DEF Locals
  <2>. QED
    BY <1>6, <2>1, <2>2, <2>3, AnswerHeld, Moved, OnlyProc DEF QueryCircle, Working, Labels
<1>7. ASSUME NEW status \in Statuses, NEW gas \in Gas \cup {None}, Answered(p, status, gas),
             proc[p].pc \in Working
      PROVE  proc' \in [Procs -> Held] /\ proc' \in [Procs -> Locals]
  <2>1. [status |-> status, handle |-> TRUE, gas |-> gas] \in Answers
    BY DEF Answers
  <2>. QED
    BY <1>7, <2>1, AnswerHeld, Moved DEF Answered, Working, Labels
<1>8. CASE ReadReceipt(p)
  <2>1. proc[p].pc \in Working
    BY <1>8 DEF ReadReceipt, Working, Labels
  <2>2. Receipts \subseteq Gas
    BY DEF Gas
  <2>. QED
    BY <1>8, <2>1, <2>2, <1>7, <1>a, OnlyProc DEF ReadReceipt, Labels, Statuses
<1>9. CASE LookupTransaction(p)
  <2>1. proc[p].pc \in Working
    BY <1>9 DEF LookupTransaction, Working, Labels
  <2>. QED
    BY <1>9, <2>1, <1>7, <1>a, OnlyProc DEF LookupTransaction, Labels, Statuses
<1>10. CASE CountTransactions(p)
  <2>1. proc[p].pc \in Working
    BY <1>10 DEF CountTransactions, Working, Labels
  <2>. QED
    BY <1>10, <2>1, <1>7, OnlyProc DEF CountTransactions, Statuses
<1>b. ASSUME proc[p].pc \in Working
      PROVE  /\ proc[p].answer \in Answers
             /\ proc[p].row.gasCommitted \in Gas
             /\ 0 \in Gas
             /\ proc[p].answer.handle \in BOOLEAN
  BY <1>b, AtWork DEF Locals, Row, Gas, Answers
<1>11. CASE SettleIssued(p)
  <2>1. proc[p].pc \in Working
    BY <1>11 DEF SettleIssued, Working, Labels
  <2>2. led' \in Table
    BY <1>11, <2>1, <1>b, AtWork, GasBooked, ConfirmedType DEF SettleIssued
  <2>. QED
    BY <1>11, <2>2, Back, OnlyRows DEF SettleIssued
<1>12. CASE SettlePending(p)
  <2>1. proc[p].pc \in Working
    BY <1>12 DEF SettlePending, Working, Labels
  <2>2. led' \in Table
    BY <1>12, <2>1, <1>b, AtWork, HandledType, PendingType DEF SettlePending
  <2>. QED
    BY <1>12, <2>2, Back, Left, OnlyRows DEF SettlePending
<1>13. CASE SettleConfirmed(p)
  <2>1. proc[p].pc \in Working
    BY <1>13 DEF SettleConfirmed, Working, Labels
  <2>. QED
    BY <1>13, <2>1, <1>a, HandledType, OnlyRows DEF SettleConfirmed, Labels
<1>14. CASE RecheckIssued(p)
  <2>1. proc[p].pc \in Working
    BY <1>14 DEF RecheckIssued, Working, Labels
  <2>2. led' \in Table
    BY <1>14, <2>1, <1>b, AtWork, GasBooked, ConfirmedType, FailureType
       DEF RecheckIssued, FailureStates
  <2>. QED
    BY <1>14, <2>2, Back, OnlyRows DEF RecheckIssued
<1>15. CASE SettleFailed(p)
  <2>1. proc[p].pc \in Working
    BY <1>15 DEF SettleFailed, Working, Labels
  <2>2. led' \in Table
    BY <1>15, <2>1, <1>b, AtWork, HandledType, GasBooked, FailureType
       DEF SettleFailed, FailureStates
  <2>. QED
    BY <1>15, <2>2, Back, OnlyRows DEF SettleFailed
<1>16. CASE SettleUnknown(p)
  <2>1. proc[p].pc \in Working
    BY <1>16 DEF SettleUnknown, Working, Labels
  <2>2. led' \in Table
    BY <1>16, <2>1, AtWork, HandledType, SetStateType
       DEF SettleUnknown, MarkSubmissionUnknown, LedgerStates
  <2>. QED
    BY <1>16, <2>2, Back, Left, OnlyRows DEF SettleUnknown
<1>. QED
  BY <1>1, <1>2, <1>3, <1>4, <1>5, <1>6, <1>8, <1>9, <1>10, <1>11, <1>12, <1>13, <1>14,
     <1>15, <1>16 DEF Recovery

LEMMA MiningTypes ==
    ASSUME LedgerAssumption, TypeInv, NEW p \in Procs, Mining(p)
    PROVE  TypeInv'
<1>. USE DEF At
<1>1. CASE Resume(p)
  <2>1. PICK o \in Resumable : Become(p, [proc[p] EXCEPT !.op = o, !.pc = "send"])
    BY <1>1 DEF Resume
  <2>2. o \in Operations /\ proc[p] \in Locals
    BY DEF Resumable, Unresolved, TypeInv, TypeOK
  <2>3. [proc[p] EXCEPT !.op = o, !.pc = "send"] \in Held
    BY <2>2 DEF Held, Locals, Labels
  <2>. QED
    BY <1>1, <2>1, <2>3, Moved, OnlyProc DEF Resume
<1>2. CASE StartWork(p)
  BY <1>2, Gone, OnlyProc DEF StartWork, Labels, Working
<1>3. CASE RefuseWork(p)
  BY <1>3, Left, OnlyProc DEF RefuseWork
<1>4. CASE StopMining(p)
  BY <1>4, Left, OnlyProc DEF StopMining
<1>5. CASE ObtainCertificate(p)
  <2>1. PICK o \in Operations :
           /\ cert' = [cert EXCEPT ![o] = "valid"]
           /\ Become(p, [proc[p] EXCEPT !.op = o, !.pc = "begin"])
    BY <1>5 DEF ObtainCertificate
  <2>2. proc[p] \in Locals
    BY DEF TypeInv, TypeOK
  <2>3. [proc[p] EXCEPT !.op = o, !.pc = "begin"] \in Held
    BY <2>2 DEF Held, Locals, Labels
  <2>4. proc' \in [Procs -> Held] /\ proc' \in [Procs -> Locals]
    BY <2>1, <2>3, Moved
  <2>. QED
    BY <1>5, <2>1, <2>4 DEF ObtainCertificate, TypeInv, TypeOK, CertStates, ledger
<1>6. CASE BeginMint(p)
  <2>1. proc[p].pc \in Working
    BY <1>6 DEF BeginMint, Working, Labels
  <2>2. BeginOperation(led, Op(p)) \in Table
    BY <2>1, AtWork, SetStateType DEF BeginOperation, LedgerStates
  <2>3. [proc[p] EXCEPT !.pc = "store"] \in Held
    BY <2>1, AtWork DEF Held, Locals, Labels, Op
  <2>4. led' \in Table
    BY <1>6, <2>1, <2>2, AtWork DEF BeginMint, Update
  <2>5. proc' \in [Procs -> Held] /\ proc' \in [Procs -> Locals]
    BY <1>6, <2>3, Moved, Left DEF BeginMint, Update
  <2>. QED
    BY <1>6, <2>4, <2>5, OnlyRows DEF BeginMint
<1>7. CASE StoreCall(p)
  <2>1. proc[p].pc \in Working
    BY <1>7 DEF StoreCall, Working, Labels
  <2>. QED
    BY <1>7, <2>1, AtWork, CallType, Gone, OnlyRows DEF StoreCall, Labels
<1>. QED
  BY <1>1, <1>2, <1>3, <1>4, <1>5, <1>6, <1>7 DEF Mining

LEMMA SendingTypes ==
    ASSUME LedgerAssumption, AgentAssumption, TypeInv, NEW p \in Procs, Sending(p)
    PROVE  TypeInv'
<1>. USE DEF At
<1>0. proc[p].pc \in Working
  BY DEF Sending, CheckSendWindow, Simulate, SimulationFails, Commit, PrepareSubmission,
         PrepareFails, Attach, SubmitCall, SubmitAnswered, SubmitThrows, RecordHandle,
         LoseSubmission, Working, Labels
<1>a. ASSUME NEW label \in Labels, Goto(p, label)
      PROVE  proc' \in [Procs -> Held] /\ proc' \in [Procs -> Locals]
  BY <1>0, <1>a, AtWork, Gone
<1>1. CASE CheckSendWindow(p) \/ Simulate(p) \/ SimulationFails(p) \/ PrepareSubmission(p)
           \/ SubmitAnswered(p) \/ SubmitThrows(p)
  BY <1>1, <1>a, Left, OnlyProc DEF CheckSendWindow, Simulate, SimulationFails,
     PrepareSubmission, SubmitAnswered, SubmitThrows, Labels
<1>2. CASE Commit(p)
  <2>1. led' \in Table
    BY <1>2, <1>0, AtWork, CommitmentType DEF Commit
  <2>2. proc' \in [Procs -> Held] /\ proc' \in [Procs -> Locals]
    BY <1>2, <1>a, Left DEF Commit, Labels
  <2>. QED
    BY <1>2, <2>1, <2>2, OnlyRows DEF Commit
<1>3. CASE PrepareFails(p)
  <2>1. led' \in Table
    BY <1>3, <1>0, AtWork, FailureType DEF PrepareFails, FailureStates, Gas
  <2>. QED
    BY <1>3, <2>1, Left, OnlyRows DEF PrepareFails
<1>4. CASE Attach(p)
  <2>1. led' \in Table
    BY <1>4, <1>0, AtWork, AttachType DEF Attach, AgentAssumption
  <2>2. [proc[p] EXCEPT !.pc = "submit", !.goal = "sent"] \in Held
    BY <1>0, AtWork DEF Held, Locals, Labels, Op
  <2>3. proc' \in [Procs -> Held] /\ proc' \in [Procs -> Locals]
    BY <1>4, <2>2, Moved, Left DEF Attach
  <2>. QED
    BY <1>4, <2>1, <2>3, OnlyRows DEF Attach
<1>5. CASE SubmitCall(p)
  <2>1. proc' \in [Procs -> Held] /\ proc' \in [Procs -> Locals]
    BY <1>5, <1>a DEF SubmitCall, Labels
  <2>2. Op(p) \in Operations
    BY <1>0, AtWork
  <2>. QED
    BY <1>5, <2>1, <2>2 DEF SubmitCall, TypeInv, TypeOK, Outcomes, ledger
<1>6. CASE RecordHandle(p)
  <2>1. led' \in Table
    BY <1>6, <1>0, AtWork, HandleType DEF RecordHandle
  <2>2. proc' \in [Procs -> Held] /\ proc' \in [Procs -> Locals]
    BY <1>6, <1>a, Back DEF RecordHandle, Labels
  <2>. QED
    BY <1>6, <2>1, <2>2, OnlyRows DEF RecordHandle
<1>7. CASE LoseSubmission(p)
  <2>1. MarkSubmissionUnknown(led, Op(p)) \in Table
    BY <1>0, AtWork, SetStateType DEF MarkSubmissionUnknown, LedgerStates
  <2>2. [proc[p] EXCEPT !.pc = "check"] \in Held
    BY <1>0, AtWork DEF Held, Locals, Labels, Op
  <2>3. led' \in Table
    BY <1>7, <1>0, <2>1, AtWork DEF LoseSubmission, Update
  <2>4. proc' \in [Procs -> Held] /\ proc' \in [Procs -> Locals]
    BY <1>7, <2>2, Moved, Left DEF LoseSubmission, Update
  <2>. QED
    BY <1>7, <2>3, <2>4, OnlyRows DEF LoseSubmission
<1>. QED
  BY <1>1, <1>2, <1>3, <1>4, <1>5, <1>6, <1>7 DEF Sending

LEMMA InitTypes == ASSUME LedgerAssumption, Init PROVE TypeInv
<1>1. Idle \in Held /\ Idle \in Locals
  BY IdleHeld DEF Held
<1>. QED
  BY <1>1, BlankRow DEF Init, TypeInv, TypeOK, Outcomes, CertStates

LEMMA StepTypes ==
    ASSUME LedgerAssumption, AgentAssumption, TypeInv, [Next]_vars
    PROVE  TypeInv'
<1>1. CASE \E p \in Procs : Command(p) \/ Recovery(p) \/ Mining(p) \/ Sending(p)
  BY <1>1, CommandTypes, RecoveryTypes, MiningTypes, SendingTypes
<1>2. CASE \E o \in Operations : Outside(o)
  BY <1>2, OutsideTypes
<1>3. CASE AuthorizationExpires
  BY <1>3 DEF AuthorizationExpires, TypeInv, TypeOK, world
<1>4. CASE UNCHANGED vars
  BY <1>4 DEF vars, TypeInv, TypeOK
<1>. QED
  BY <1>1, <1>2, <1>3, <1>4 DEF Next

(* Types, and that a process working on an operation has one (agent.ts). *)
THEOREM TypeInvHolds == Spec => []TypeInv
<1>1. Init => TypeInv
  BY InitTypes, LedgerAssumption
<1>2. TypeInv /\ [Next]_vars => TypeInv'
  BY StepTypes, LedgerAssumption, AgentAssumption
<1>. QED
  BY <1>1, <1>2, PTL DEF Spec

(* Rows, processes, outcomes and certificates keep their types whatever    *)
(* two processes, crashes and the world outside do to the ledger.          *)
THEOREM TypeCorrect == Spec => []TypeOK
<1>1. TypeInv => TypeOK
  BY DEF TypeInv
<1>. QED
  BY <1>1, TypeInvHolds, PTL

------------------------------------------------------------------------------
(* One hand-over per Mint.  Most statements leave what HandOver speaks of  *)
(* alone: they keep every request and bring no row back to the states      *)
(* before a submission.                                                    *)

Before == {"ABSENT", "CERTIFICATE_READY"}

Kept(l, m) ==
    \A o \in Operations :
        /\ m[o].request = l[o].request
        /\ m[o].state = l[o].state \/ (m[o].state \notin Before /\ l[o].state # "ABSENT")

LEMMA KeptSame == ASSUME NEW l PROVE Kept(l, l)
BY DEF Kept

LEMMA KeptTwice ==
    ASSUME NEW l, NEW m, NEW n, Kept(l, m), Kept(m, n)
    PROVE  Kept(l, n)
BY DEF Kept, Before

LEMMA StatementsKeep ==
    ASSUME LedgerAssumption, NEW l \in Table, NEW o \in Operations, l[o].state # "ABSENT"
    PROVE  /\ \A s \in LedgerStates \ Before : Kept(l, SetState(l, o, s))
           /\ Kept(l, SetPendingCall(l, o))
           /\ \A gas \in Quotes : Kept(l, SetOperationCommitment(l, o, gas))
           /\ Kept(l, RecordWalletHandle(l, o))
           /\ \A h \in BOOLEAN : Kept(l, MarkPending(l, o, h))
           /\ \A gas \in Gas : Kept(l, ResolveConfirmed(l, o, gas))
           /\ \A s \in FailureStates, gas \in Gas : Kept(l, ResolveFailure(l, o, s, gas))
           /\ Kept(l, ResolveUnsentFailure(l, o))
<1>. USE DEF Table, Row, Kept, Before
<1>1. ASSUME NEW s \in LedgerStates \ Before PROVE Kept(l, SetState(l, o, s))
  BY DEF SetState
<1>2. Kept(l, SetPendingCall(l, o))
  BY DEF SetPendingCall
<1>3. ASSUME NEW gas \in Quotes PROVE Kept(l, SetOperationCommitment(l, o, gas))
  BY DEF SetOperationCommitment
<1>4. Kept(l, RecordWalletHandle(l, o))
  BY DEF RecordWalletHandle
<1>5. ASSUME NEW h \in BOOLEAN PROVE Kept(l, MarkPending(l, o, h))
  BY DEF MarkPending
<1>6. ASSUME NEW gas \in Gas PROVE Kept(l, ResolveConfirmed(l, o, gas))
  BY DEF ResolveConfirmed
<1>7. ASSUME NEW s \in FailureStates, NEW gas \in Gas PROVE Kept(l, ResolveFailure(l, o, s, gas))
  BY DEF ResolveFailure, FailureStates
<1>8. Kept(l, ResolveUnsentFailure(l, o))
  BY DEF ResolveUnsentFailure
<1>. QED
  BY <1>1, <1>2, <1>3, <1>4, <1>5, <1>6, <1>7, <1>8

(* A process moves on without coming to begin or to submit. *)
Quiet(p) ==
    \E s \in Held :
        /\ Become(p, s)
        /\ s.pc \notin {"begin", "submit"}
        /\ s.pc \in Working => led[s.op].state # "ABSENT"

LEMMA QuietLeave == ASSUME LedgerAssumption, NEW p, Leave(p) PROVE Quiet(p)
<1>1. Idle.pc = "idle"
  BY DEF Idle
<1>. QED
  BY <1>1, IdleHeld DEF Quiet, Leave, Working

LEMMA QuietBack ==
    ASSUME LedgerAssumption, TypeInv, NEW p \in Procs, NEW l, Returned(p, l)
    PROVE  Quiet(p)
<1>. DEFINE d == [Idle EXCEPT !.pc = "decide", !.unattended = proc[p].unattended]
            r == [Idle EXCEPT !.pc = "loop", !.unattended = TRUE]
<1>1. proc[p].unattended \in BOOLEAN
  BY DEF TypeInv, Held, Locals
<1>2. d \in Held /\ r \in Held
  BY <1>1, FreshHeld
<1>3. d.pc = "decide" /\ r.pc = "loop" /\ Idle.pc = "idle"
  BY DEF Idle
<1>4. Become(p, d) \/ Become(p, r) \/ Become(p, Idle)
  BY DEF Returned
<1>. QED
  BY <1>2, <1>3, <1>4, IdleHeld DEF Quiet, Working

LEMMA QuietGoto ==
    ASSUME TypeInv, HandOver, NEW p \in Procs, NEW label \in Labels, Goto(p, label),
           label \notin {"begin", "submit"},
           label \in Working => proc[p].pc \in Working \ {"begin"}
    PROVE  Quiet(p)
<1>. DEFINE s == [proc[p] EXCEPT !.pc = label]
<1>1. proc[p] \in Locals /\ (proc[p].pc \in Working => proc[p].op \in Operations)
  BY DEF TypeInv, Held
<1>2. s \in Held /\ s.pc = label /\ s.op = Op(p)
  BY <1>1 DEF Held, Locals, Op
<1>. QED
  BY <1>2 DEF Quiet, Goto, HandOver

LEMMA QuietRecovering ==
    ASSUME LedgerAssumption, TypeInv, NEW p \in Procs, NEW g \in {"status", "mine"},
           NEW u \in BOOLEAN, RecoverOutstanding(p, g, u)
    PROVE  Quiet(p)
<1>. DEFINE d == [Idle EXCEPT !.pc = "decide", !.unattended = u]
<1>1. CASE Unresolved(led) = {}
  <2>1. d \in Held /\ d.pc = "decide" /\ Idle.pc = "idle"
    BY FreshHeld DEF Idle
  <2>. QED
    BY <1>1, <2>1, IdleHeld DEF RecoverOutstanding, Quiet, Working
<1>2. CASE Unresolved(led) # {}
  <2>1. PICK o \in Unresolved(led) :
           Become(p, [Idle EXCEPT !.pc = IF Unsent(led[o]) THEN "probe" ELSE "check",
                                  !.op = o, !.goal = g, !.unattended = u])
    BY <1>2 DEF RecoverOutstanding
  <2>2. o \in Operations /\ led[o].state # "ABSENT"
    BY DEF Unresolved, UnresolvedStates
  <2>. DEFINE label == IF Unsent(led[o]) THEN "probe" ELSE "check"
              s == [Idle EXCEPT !.pc = label, !.op = o, !.goal = g, !.unattended = u]
  <2>3. label \in {"probe", "check"}
    OBVIOUS
  <2>4. s \in Held /\ s.pc = label /\ s.op = o
    BY <2>2, <2>3, FreshHeld DEF Idle
  <2>. QED
    BY <2>1, <2>2, <2>3, <2>4 DEF Quiet
<1>. QED
  BY <1>1, <1>2

LEMMA QuietStep ==
    ASSUME TypeInv, HandOver, NEW p \in Procs, Quiet(p), led' \in Table, Kept(led, led'),
           handed' = handed, cert' = cert
    PROVE  HandOver'
<1>1. PICK s \in Held : /\ Become(p, s)
                        /\ s.pc \notin {"begin", "submit"}
                        /\ s.pc \in Working => led[s.op].state # "ABSENT"
  BY DEF Quiet
<1>2. /\ proc'[p] = s
      /\ \A q \in Procs : q # p => proc'[q] = proc[q]
  BY <1>1 DEF Become, TypeInv, TypeOK
<1>3. \A q \in Procs : proc[q].pc \in Working => proc[q].op \in Operations
  BY DEF TypeInv, Held
<1>4. HandedAtMostOnce'
  BY DEF HandOver, HandedAtMostOnce
<1>5. ASSUME NEW o \in Operations
      PROVE  /\ handed'[o] > 0 => led'[o].request # None
             /\ led'[o].request # None => led'[o].state \notin {"ABSENT", "CERTIFICATE_READY"}
             /\ cert'[o] = "none" => led'[o].state = "ABSENT"
  BY DEF HandOver, Kept, Before
<1>6. ASSUME NEW q \in Procs
      PROVE  /\ proc'[q].pc = "begin" => led'[proc'[q].op].state = "ABSENT"
                                         /\ cert'[proc'[q].op] # "none"
             /\ proc'[q].pc \in Working \ {"begin"} => led'[proc'[q].op].state # "ABSENT"
             /\ proc'[q].pc = "submit" => led'[proc'[q].op].request # None
                                          /\ handed'[proc'[q].op] = 0
  <2>1. CASE q = p
    BY <1>1, <1>2, <2>1 DEF Held, Kept, Before
  <2>2. CASE q # p
    BY <1>2, <1>3, <2>2 DEF HandOver, Kept, Before, At, Op, Working, Labels
  <2>. QED
    BY <2>1, <2>2
<1>7. ASSUME NEW q \in Procs, NEW r \in Procs, proc'[q].pc \in {"begin", "submit"},
             proc'[r].pc = proc'[q].pc, proc'[q].op = proc'[r].op
      PROVE  q = r
  BY <1>1, <1>2, <1>7 DEF HandOver, Op
<1>. QED
  BY <1>4, <1>5, <1>6, <1>7 DEF HandOver, At, Op

LEMMA NotAbsent ==
    ASSUME TypeInv, HandOver, NEW p \in Procs, proc[p].pc \in Working \ {"begin"}
    PROVE  Op(p) \in Operations /\ led \in Table /\ led[Op(p)].state # "ABSENT"
BY AtWork DEF HandOver

LEMMA CommandHandOver ==
    ASSUME LedgerAssumption, TypeInv, HandOver, NEW p \in Procs, Command(p)
    PROVE  HandOver'
<1>1. led' = led /\ handed' = handed /\ cert' = cert
  BY DEF Command, Status, MineOnce, Run, RunIteration, RequestStop, RevokeAuthorization,
         Authorize, ClearStop, Abort, ledger, world
<1>2. led \in Table
  BY DEF TypeInv, TypeOK, Table
<1>3. Quiet(p)
  <2>1. CASE Status(p) \/ MineOnce(p)
    BY <2>1, QuietRecovering DEF Status, MineOnce
  <2>2. CASE Run(p)
    <3>. DEFINE s == [Idle EXCEPT !.pc = "loop", !.unattended = TRUE]
    <3>1. s \in Held /\ s.pc = "loop"
      BY FreshHeld DEF Idle
    <3>. QED
      BY <2>2, <3>1 DEF Run, Quiet, Working
  <2>3. CASE RunIteration(p)
    BY <2>3, QuietLeave, QuietRecovering DEF RunIteration
  <2>4. CASE RequestStop(p)
    BY <2>4, QuietGoto DEF RequestStop, Labels, Working
  <2>5. CASE Authorize(p)
    BY <2>5, QuietGoto DEF Authorize, Labels, Working
  <2>6. CASE RevokeAuthorization(p) \/ ClearStop(p) \/ Abort(p)
    BY <2>6, QuietLeave DEF RevokeAuthorization, ClearStop, Abort
  <2>. QED
    BY <2>1, <2>2, <2>3, <2>4, <2>5, <2>6 DEF Command
<1>. QED
  BY <1>1, <1>2, <1>3, KeptSame, QuietStep

LEMMA HandledKept ==
    ASSUME LedgerAssumption, TypeInv, HandOver, NEW p \in Procs,
           proc[p].pc \in Working \ {"begin"}
    PROVE  /\ WithHandle(p) \in Table
           /\ Kept(led, WithHandle(p))
           /\ WithHandle(p)[Op(p)].state # "ABSENT"
<1>1. Kept(led, WithHandle(p))
  BY NotAbsent, StatementsKeep, KeptSame DEF WithHandle
<1>. QED
  BY <1>1, NotAbsent, HandledType DEF Kept, Before

LEMMA RecoveryHandOver ==
    ASSUME LedgerAssumption, AgentAssumption, TypeInv, HandOver, NEW p \in Procs, Recovery(p)
    PROVE  HandOver'
<1>0. proc[p].pc \in Working \ {"begin"}
  BY DEF At, Recovery, Probe, Release, CheckUnresolved, MarkRecoveringRow, ReadIssued,
         QueryCircle, ReadReceipt, LookupTransaction, CountTransactions, SettleIssued,
         SettlePending, SettleConfirmed, RecheckIssued, SettleFailed, SettleUnknown,
         Working, Labels
<1>1. handed' = handed /\ cert' = cert
  BY DEF Recovery, Probe, Release, CheckUnresolved, MarkRecoveringRow, ReadIssued,
         QueryCircle, ReadReceipt, LookupTransaction, CountTransactions, SettleIssued,
         SettlePending, SettleConfirmed, RecheckIssued, SettleFailed, SettleUnknown, world
<1>2. TypeInv' /\ led' \in Table /\ led \in Table
  BY RecoveryTypes DEF TypeInv, TypeOK, Table
<1>3. Op(p) \in Operations /\ led[Op(p)].state # "ABSENT" /\ proc[p] \in Locals
  BY <1>0, NotAbsent, AtWork
<1>4. /\ proc[p].answer \in Answers /\ proc[p].answer.handle \in BOOLEAN
      /\ proc[p].row.gasCommitted \in Gas /\ 0 \in Gas
  BY <1>3 DEF Locals, Row, Gas, Answers
<1>a. ASSUME NEW label \in Labels \ {"begin", "submit"}, Goto(p, label)
      PROVE  Quiet(p)
  BY <1>0, <1>a, QuietGoto
<1>b. ASSUME NEW s \in Held, Become(p, s), s.pc \notin {"begin", "submit"}, s.op = Op(p)
      PROVE  Quiet(p)
  BY <1>b, <1>3 DEF Quiet
<1>c. ASSUME NEW a \in Answers, Become(p, [proc[p] EXCEPT !.answer = a, !.pc = "settle"])
      PROVE  Quiet(p)
  <2>. DEFINE s == [proc[p] EXCEPT !.answer = a, !.pc = "settle"]
  <2>1. s \in Held
    BY <1>0, AnswerHeld DEF Working, Labels
  <2>2. s.pc = "settle" /\ s.op = Op(p)
    BY <1>3 DEF Locals, Op
  <2>. QED
    BY <1>c, <1>b, <2>1, <2>2
<1>5. CASE Probe(p)
  BY <1>5, <1>1, <1>2, <1>a, QuietBack, KeptSame, QuietStep DEF Probe, ledger, Labels
<1>6. CASE Release(p)
  <2>1. Kept(led, led')
    BY <1>6, <1>2, <1>3, KeptSame, StatementsKeep DEF Release
  <2>2. Quiet(p)
    BY <1>6, <1>a, QuietBack DEF Release, Labels
  <2>. QED
    BY <1>1, <1>2, <2>1, <2>2, QuietStep
<1>7. CASE CheckUnresolved(p)
  BY <1>7, <1>1, <1>2, <1>a, QuietLeave, KeptSame, QuietStep DEF CheckUnresolved, ledger, Labels
<1>8. CASE MarkRecoveringRow(p)
  <2>. DEFINE l == MarkRecovering(led, Op(p))
              s == [proc[p] EXCEPT !.pc = "issued", !.row = l[Op(p)]]
  <2>1. Update(p, led, l, s)
    BY <1>8 DEF MarkRecoveringRow
  <2>2. Kept(led, l)
    BY <1>2, <1>3, StatementsKeep DEF MarkRecovering, LedgerStates, Before
  <2>3. l \in Table
    BY <1>2, <1>3, SetStateType DEF MarkRecovering, LedgerStates
  <2>4. s \in Held /\ s.pc = "issued" /\ s.op = Op(p)
    BY <1>3, <2>3 DEF Held, Locals, Op, Labels, Table
  <2>5. Quiet(p)
    BY <2>1, <2>4, <1>b, QuietLeave DEF Update
  <2>. QED
    BY <1>1, <1>2, <2>1, <2>2, <2>5, KeptSame, QuietStep DEF Update
<1>9. CASE ReadIssued(p)
  <2>1. PICK seen \in IssuedReads(Op(p)) :
           Become(p, [proc[p] EXCEPT !.seen = seen,
                                     !.pc = IF Wallet = "eoa" THEN "receipt" ELSE "query"])
    BY <1>9 DEF ReadIssued
  <2>. DEFINE label == IF Wallet = "eoa" THEN "receipt" ELSE "query"
              s == [proc[p] EXCEPT !.seen = seen, !.pc = label]
  <2>2. seen \in BOOLEAN
    BY DEF IssuedReads, Issued
  <2>3. s \in Held /\ s.pc = label /\ s.op = Op(p)
    BY <1>3, <2>2 DEF Held, Locals, Op, Labels
  <2>4. s.pc \notin {"begin", "submit"}
    BY <2>3
  <2>5. Become(p, s)
    BY <2>1
  <2>6. Quiet(p)
    <3>. HIDE DEF s
    <3>. QED
      BY <2>3, <2>4, <2>5, <1>b
  <2>. QED
    BY <1>9, <1>1, <1>2, <2>6, KeptSame, QuietStep DEF ReadIssued, ledger
<1>10. CASE QueryCircle(p)
  <2>1. Quiet(p)
    BY <1>10, <1>3, <1>c, AnswersType DEF QueryCircle, Locals
  <2>. QED
    BY <1>10, <1>1, <1>2, <2>1, KeptSame, QuietStep DEF QueryCircle, ledger
<1>11. CASE ReadReceipt(p) \/ LookupTransaction(p) \/ CountTransactions(p)
  <2>1. ASSUME NEW status \in Statuses, NEW gas \in Gas \cup {None}, Answered(p, status, gas)
        PROVE  Quiet(p)
    <3>1. [status |-> status, handle |-> TRUE, gas |-> gas] \in Answers
      BY DEF Answers
    <3>. QED
      BY <2>1, <3>1, <1>c DEF Answered
  <2>2. Quiet(p)
    BY <1>11, <1>a, <2>1 DEF ReadReceipt, LookupTransaction, CountTransactions, Labels,
       Statuses, Gas
  <2>. QED
    BY <1>11, <1>1, <1>2, <2>2, KeptSame, QuietStep
       DEF ReadReceipt, LookupTransaction, CountTransactions, ledger
<1>12. CASE SettleIssued(p)
  <2>1. Kept(led, led')
    BY <1>12, <1>2, <1>3, <1>4, GasBooked, StatementsKeep DEF SettleIssued
  <2>. QED
    BY <1>12, <1>1, <1>2, <2>1, QuietBack, QuietStep DEF SettleIssued
<1>13. CASE SettlePending(p)
  <2>. DEFINE l == MarkPending(WithHandle(p), Op(p), proc[p].answer.handle)
  <2>1. Kept(led, l) /\ Kept(led, WithHandle(p))
    BY <1>0, <1>3, <1>4, HandledKept, StatementsKeep, KeptTwice
  <2>2. Quiet(p)
    BY <1>13, QuietBack, QuietLeave DEF SettlePending
  <2>. QED
    BY <1>13, <1>1, <1>2, <2>1, <2>2, QuietStep DEF SettlePending
<1>14. CASE SettleConfirmed(p)
  BY <1>14, <1>0, <1>1, <1>2, <1>a, HandledKept, QuietStep DEF SettleConfirmed, Labels
<1>15. CASE RecheckIssued(p)
  <2>1. Kept(led, led')
    BY <1>15, <1>2, <1>3, <1>4, GasBooked, StatementsKeep DEF RecheckIssued, FailureStates
  <2>. QED
    BY <1>15, <1>1, <1>2, <2>1, QuietBack, QuietStep DEF RecheckIssued
<1>16. CASE SettleFailed(p)
  <2>1. proc[p].answer.status \in FailureStates
    BY <1>16 DEF SettleFailed, FailureStates
  <2>2. Kept(led, led')
    BY <1>16, <1>0, <1>3, <1>4, <2>1, HandledKept, GasBooked, StatementsKeep, KeptTwice
       DEF SettleFailed
  <2>. QED
    BY <1>16, <1>1, <1>2, <2>2, QuietBack, QuietStep DEF SettleFailed
<1>17. CASE SettleUnknown(p)
  <2>. DEFINE l == MarkSubmissionUnknown(WithHandle(p), Op(p))
  <2>1. Kept(WithHandle(p), l)
    BY <1>0, <1>3, HandledKept, StatementsKeep DEF MarkSubmissionUnknown, LedgerStates, Before
  <2>2. Kept(led, l) /\ Kept(led, WithHandle(p))
    BY <1>0, <2>1, HandledKept, KeptTwice
  <2>3. Quiet(p)
    BY <1>17, QuietBack, QuietLeave DEF SettleUnknown
  <2>. QED
    BY <1>17, <1>1, <1>2, <2>2, <2>3, QuietStep DEF SettleUnknown
<1>. QED
  BY <1>5, <1>6, <1>7, <1>8, <1>9, <1>10, <1>11, <1>12, <1>13, <1>14, <1>15, <1>16, <1>17
     DEF Recovery

LEMMA MiningHandOver ==
    ASSUME LedgerAssumption, TypeInv, HandOver, NEW p \in Procs, Mining(p)
    PROVE  HandOver'
<1>. USE DEF At
<1>1. TypeInv' /\ led' \in Table /\ led \in Table /\ proc[p] \in Locals
  BY MiningTypes DEF TypeInv, TypeOK, Table
<1>2. CASE Resume(p)
  <2>1. PICK o \in Resumable : Become(p, [proc[p] EXCEPT !.op = o, !.pc = "send"])
    BY <1>2 DEF Resume
  <2>2. o \in Operations /\ led[o].state # "ABSENT"
    BY DEF Resumable, Unresolved, UnresolvedStates
  <2>. DEFINE s == [proc[p] EXCEPT !.op = o, !.pc = "send"]
  <2>3. s \in Held /\ s.pc = "send" /\ s.op = o
    BY <1>1, <2>2 DEF Held, Locals, Labels
  <2>4. Quiet(p)
    BY <2>1, <2>2, <2>3 DEF Quiet
  <2>. QED
    BY <1>1, <1>2, <2>4, KeptSame, QuietStep DEF Resume, ledger, world
<1>3. CASE StartWork(p) \/ RefuseWork(p) \/ StopMining(p)
  <2>1. Quiet(p)
    BY <1>3, QuietGoto, QuietLeave DEF StartWork, RefuseWork, StopMining, Labels, Working
  <2>. QED
    BY <1>1, <1>3, <2>1, KeptSame, QuietStep
       DEF StartWork, RefuseWork, StopMining, ledger, world
<1>4. CASE ObtainCertificate(p)
  <2>1. PICK o \in Operations :
           /\ cert[o] = "none"
           /\ cert' = [cert EXCEPT ![o] = "valid"]
           /\ Become(p, [proc[p] EXCEPT !.op = o, !.pc = "begin"])
    BY <1>4 DEF ObtainCertificate
  <2>2. led' = led /\ handed' = handed
    BY <1>4 DEF ObtainCertificate, ledger
  <2>3. led[o].state = "ABSENT"
    BY <2>1 DEF HandOver
  <2>4. /\ proc'[p].pc = "begin" /\ proc'[p].op = o
        /\ \A q \in Procs : q # p => proc'[q] = proc[q]
    BY <1>1, <2>1 DEF Become, TypeInv, TypeOK, Locals
  <2>5. /\ cert'[o] = "valid"
        /\ \A other \in Operations : other # o => cert'[other] = cert[other]
    BY <2>1 DEF TypeInv, TypeOK
  <2>6. \A q \in Procs : proc[q].pc \in Working => proc[q].op \in Operations
    BY DEF TypeInv, Held
  <2>7. HandedAtMostOnce'
    BY <2>2 DEF HandOver, HandedAtMostOnce
  <2>8. ASSUME NEW other \in Operations
        PROVE  /\ handed'[other] > 0 => led'[other].request # None
               /\ led'[other].request # None
                     => led'[other].state \notin {"ABSENT", "CERTIFICATE_READY"}
               /\ cert'[other] = "none" => led'[other].state = "ABSENT"
    BY <2>2, <2>5 DEF HandOver
  <2>9. ASSUME NEW q \in Procs
        PROVE  /\ proc'[q].pc = "begin" => led'[proc'[q].op].state = "ABSENT"
                                           /\ cert'[proc'[q].op] # "none"
               /\ proc'[q].pc \in Working \ {"begin"} => led'[proc'[q].op].state # "ABSENT"
               /\ proc'[q].pc = "submit" => led'[proc'[q].op].request # None
                                            /\ handed'[proc'[q].op] = 0
    <3>1. CASE q = p
      BY <2>2, <2>3, <2>4, <2>5, <3>1
    <3>2. CASE q # p
      BY <2>2, <2>4, <2>5, <2>6, <3>2 DEF HandOver, Op, Working, Labels
    <3>. QED
      BY <3>1, <3>2
  <2>10. ASSUME NEW q \in Procs, NEW r \in Procs, proc'[q].pc \in {"begin", "submit"},
                proc'[r].pc = proc'[q].pc, proc'[q].op = proc'[r].op
         PROVE  q = r
    BY <2>1, <2>4, <2>10 DEF HandOver, Op
  <2>. QED
    BY <2>7, <2>8, <2>9, <2>10 DEF HandOver, Op
<1>5. CASE BeginMint(p)
  <2>1. handed' = handed /\ cert' = cert
    BY <1>5 DEF BeginMint, world
  <2>2. CASE led' = led /\ Leave(p)
    BY <1>1, <2>1, <2>2, QuietLeave, KeptSame, QuietStep
  <2>3. CASE led' = BeginOperation(led, Op(p)) /\ Become(p, [proc[p] EXCEPT !.pc = "store"])
    <3>1. Op(p) \in Operations /\ led[Op(p)].state = "ABSENT" /\ cert[Op(p)] # "none"
      BY <1>5, AtWork DEF BeginMint, HandOver, Working, Labels
    <3>2. led[Op(p)].request = None /\ ~(handed[Op(p)] > 0)
      BY <3>1 DEF HandOver
    <3>3. /\ led'[Op(p)].state = "CERTIFICATE_READY" /\ led'[Op(p)].request = None
          /\ \A o \in Operations : o # Op(p) => led'[o] = led[o]
      BY <1>1, <2>3, <3>1, <3>2 DEF BeginOperation, SetState, Table, Row
    <3>4. /\ proc'[p].pc = "store" /\ proc'[p].op = Op(p)
          /\ \A q \in Procs : q # p => proc'[q] = proc[q]
      BY <1>1, <2>3 DEF Become, TypeInv, TypeOK, Locals, Op
    <3>5. \A q \in Procs : proc[q].pc \in Working => proc[q].op \in Operations
      BY DEF TypeInv, Held
    <3>6. HandedAtMostOnce'
      BY <2>1 DEF HandOver, HandedAtMostOnce
    <3>7. ASSUME NEW o \in Operations
          PROVE  /\ handed'[o] > 0 => led'[o].request # None
                 /\ led'[o].request # None
                       => led'[o].state \notin {"ABSENT", "CERTIFICATE_READY"}
                 /\ cert'[o] = "none" => led'[o].state = "ABSENT"
      BY <2>1, <3>1, <3>2, <3>3 DEF HandOver
    <3>8. ASSUME NEW q \in Procs
          PROVE  /\ proc'[q].pc = "begin" => led'[proc'[q].op].state = "ABSENT"
                                             /\ cert'[proc'[q].op] # "none"
                 /\ proc'[q].pc \in Working \ {"begin"}
                       => led'[proc'[q].op].state # "ABSENT"
                 /\ proc'[q].pc = "submit" => led'[proc'[q].op].request # None
                                              /\ handed'[proc'[q].op] = 0
      <4>1. CASE q = p
        BY <3>3, <3>4, <4>1
      <4>2. CASE q # p
        <5>1. proc'[q] = proc[q]
          BY <3>4, <4>2
        <5>2. proc[q].pc = "begin" => proc[q].op # Op(p)
          BY <1>5, <4>2 DEF BeginMint, HandOver, Op
        <5>. QED
          BY <5>1, <5>2, <2>1, <3>1, <3>2, <3>3, <3>5 DEF HandOver, Op, Working, Labels
      <4>. QED
        BY <4>1, <4>2
    <3>9. ASSUME NEW q \in Procs, NEW r \in Procs, proc'[q].pc \in {"begin", "submit"},
                 proc'[r].pc = proc'[q].pc, proc'[q].op = proc'[r].op
          PROVE  q = r
      BY <3>4, <3>9 DEF HandOver, Op
    <3>. QED
      BY <3>6, <3>7, <3>8, <3>9 DEF HandOver, Op
  <2>. QED
    BY <1>5, <2>2, <2>3 DEF BeginMint, Update
<1>6. CASE StoreCall(p)
  <2>1. proc[p].pc \in Working \ {"begin"}
    BY <1>6 DEF StoreCall, Working, Labels
  <2>2. Kept(led, led')
    BY <1>6, <2>1, NotAbsent, StatementsKeep DEF StoreCall
  <2>3. Quiet(p)
    BY <1>6, <2>1, QuietGoto DEF StoreCall, Labels
  <2>. QED
    BY <1>1, <1>6, <2>2, <2>3, QuietStep DEF StoreCall, world
<1>. QED
  BY <1>2, <1>3, <1>4, <1>5, <1>6 DEF Mining

(* Attaching is what lets a process go before submitCall: the row was      *)
(* CERTIFICATE_READY, so nobody had attached to it or handed it over.      *)
LEMMA AttachHandOver ==
    ASSUME LedgerAssumption, AgentAssumption, TypeInv, HandOver, NEW p \in Procs, Attach(p),
           CanAttach(led, Op(p))
    PROVE  HandOver'
<1>1. proc[p].pc = "attach" /\ proc[p].pc \in Working \ {"begin"}
  BY DEF Attach, At, Working, Labels
<1>2. Op(p) \in Operations /\ led \in Table /\ proc[p] \in Locals /\ p # None
  BY <1>1, NotAbsent, AtWork DEF LedgerAssumption, AgentAssumption
<1>3. /\ handed' = handed /\ cert' = cert
      /\ led' = AttachSubmission(led, Op(p), p, Wallet = "eoa")
      /\ Become(p, [proc[p] EXCEPT !.pc = "submit", !.goal = "sent"])
  BY DEF Attach, world
<1>4. led[Op(p)].request = None /\ handed[Op(p)] = 0
  BY <1>2 DEF CanAttach, HandOver, TypeInv, TypeOK
<1>5. /\ led'[Op(p)].state = "WALLET_SUBMITTING" /\ led'[Op(p)].request = p
      /\ \A o \in Operations : o # Op(p) => led'[o] = led[o]
  BY <1>2, <1>3 DEF AttachSubmission, Table, Row
<1>6. /\ proc'[p].pc = "submit" /\ proc'[p].op = Op(p)
      /\ \A q \in Procs : q # p => proc'[q] = proc[q]
  BY <1>2, <1>3 DEF Become, TypeInv, TypeOK, Locals, Op
<1>7. \A q \in Procs : proc[q].pc \in Working => proc[q].op \in Operations
  BY DEF TypeInv, Held
<1>8. HandedAtMostOnce'
  BY <1>3 DEF HandOver, HandedAtMostOnce
<1>9. ASSUME NEW o \in Operations
      PROVE  /\ handed'[o] > 0 => led'[o].request # None
             /\ led'[o].request # None => led'[o].state \notin {"ABSENT", "CERTIFICATE_READY"}
             /\ cert'[o] = "none" => led'[o].state = "ABSENT"
  BY <1>2, <1>3, <1>5 DEF HandOver, CanAttach
<1>10. ASSUME NEW q \in Procs
       PROVE  /\ proc'[q].pc = "begin" => led'[proc'[q].op].state = "ABSENT"
                                          /\ cert'[proc'[q].op] # "none"
              /\ proc'[q].pc \in Working \ {"begin"} => led'[proc'[q].op].state # "ABSENT"
              /\ proc'[q].pc = "submit" => led'[proc'[q].op].request # None
                                           /\ handed'[proc'[q].op] = 0
  <2>1. CASE q = p
    BY <1>2, <1>3, <1>4, <1>5, <1>6, <2>1
  <2>2. CASE q # p
    <3>1. led[Op(p)].state = "CERTIFICATE_READY"
      BY DEF CanAttach
    <3>. QED
      BY <2>2, <3>1, <1>2, <1>3, <1>5, <1>6, <1>7 DEF HandOver, At, Op, Working, Labels
  <2>. QED
    BY <2>1, <2>2
<1>11. ASSUME NEW q \in Procs, NEW r \in Procs, proc'[q].pc \in {"begin", "submit"},
              proc'[r].pc = proc'[q].pc, proc'[q].op = proc'[r].op
       PROVE  q = r
  BY <1>4, <1>6, <1>11 DEF HandOver, At, Op
<1>. QED
  BY <1>8, <1>9, <1>10, <1>11 DEF HandOver, At, Op

(* The process before submitCall is the only one there with its Mint. *)
LEMMA SubmitHandOver ==
    ASSUME TypeInv, HandOver, NEW p \in Procs, SubmitCall(p)
    PROVE  HandOver'
<1>1. proc[p].pc = "submit" /\ proc[p].pc \in Working \ {"begin"}
  BY DEF SubmitCall, At, Working, Labels
<1>2. Op(p) \in Operations /\ proc[p] \in Locals /\ handed \in [Operations -> Nat]
  BY <1>1, AtWork DEF TypeInv, TypeOK
<1>3. handed[Op(p)] = 0 /\ led[Op(p)].request # None
  BY <1>1 DEF HandOver, At
<1>4. /\ handed'[Op(p)] = 1 /\ led' = led /\ cert' = cert
      /\ \A o \in Operations : o # Op(p) => handed'[o] = handed[o]
  BY <1>2, <1>3 DEF SubmitCall, ledger
<1>5. /\ proc'[p].pc = "await" /\ proc'[p].op = Op(p)
      /\ \A q \in Procs : q # p => proc'[q] = proc[q]
  BY <1>2 DEF SubmitCall, Goto, Become, TypeInv, TypeOK, Locals, Op
<1>6. \A q \in Procs : proc[q].pc \in Working => proc[q].op \in Operations
  BY DEF TypeInv, Held
<1>7. HandedAtMostOnce'
  BY <1>2, <1>4 DEF HandOver, HandedAtMostOnce
<1>8. ASSUME NEW o \in Operations
      PROVE  /\ handed'[o] > 0 => led'[o].request # None
             /\ led'[o].request # None => led'[o].state \notin {"ABSENT", "CERTIFICATE_READY"}
             /\ cert'[o] = "none" => led'[o].state = "ABSENT"
  BY <1>3, <1>4 DEF HandOver
<1>9. ASSUME NEW q \in Procs
      PROVE  /\ proc'[q].pc = "begin" => led'[proc'[q].op].state = "ABSENT"
                                         /\ cert'[proc'[q].op] # "none"
             /\ proc'[q].pc \in Working \ {"begin"} => led'[proc'[q].op].state # "ABSENT"
             /\ proc'[q].pc = "submit" => led'[proc'[q].op].request # None
                                          /\ handed'[proc'[q].op] = 0
  <2>1. CASE q = p
    BY <1>1, <1>4, <1>5, <2>1 DEF HandOver
  <2>2. CASE q # p
    BY <1>1, <1>4, <1>5, <1>6, <2>2 DEF HandOver, At, Op, Working, Labels
  <2>. QED
    BY <2>1, <2>2
<1>10. ASSUME NEW q \in Procs, NEW r \in Procs, proc'[q].pc \in {"begin", "submit"},
              proc'[r].pc = proc'[q].pc, proc'[q].op = proc'[r].op
       PROVE  q = r
  BY <1>5, <1>10 DEF HandOver, Op
<1>. QED
  BY <1>7, <1>8, <1>9, <1>10 DEF HandOver, At, Op

LEMMA SendingHandOver ==
    ASSUME LedgerAssumption, AgentAssumption, TypeInv, HandOver, NEW p \in Procs, Sending(p)
    PROVE  HandOver'
<1>0. proc[p].pc \in Working \ {"begin"}
  BY DEF At, Sending, CheckSendWindow, Simulate, SimulationFails, Commit, PrepareSubmission,
         PrepareFails, Attach, SubmitCall, SubmitAnswered, SubmitThrows, RecordHandle,
         LoseSubmission, Working, Labels
<1>1. TypeInv' /\ led' \in Table /\ led \in Table
  BY SendingTypes DEF TypeInv, TypeOK, Table
<1>2. Op(p) \in Operations /\ led[Op(p)].state # "ABSENT" /\ proc[p] \in Locals
  BY <1>0, NotAbsent, AtWork
<1>a. ASSUME NEW label \in Labels \ {"begin", "submit"}, Goto(p, label)
      PROVE  Quiet(p)
  BY <1>0, <1>a, QuietGoto
<1>3. CASE CheckSendWindow(p) \/ Simulate(p) \/ SimulationFails(p) \/ PrepareSubmission(p)
           \/ SubmitAnswered(p) \/ SubmitThrows(p)
  <2>1. Quiet(p)
    BY <1>3, <1>a, QuietLeave DEF CheckSendWindow, Simulate, SimulationFails,
       PrepareSubmission, SubmitAnswered, SubmitThrows, Labels
  <2>2. led' = led /\ handed' = handed /\ cert' = cert
    BY <1>3 DEF CheckSendWindow, Simulate, SimulationFails, PrepareSubmission,
       SubmitAnswered, SubmitThrows, ledger, world
  <2>. QED
    BY <1>1, <2>1, <2>2, KeptSame, QuietStep
<1>4. CASE Commit(p)
  <2>1. Kept(led, led')
    BY <1>4, <1>1, <1>2, KeptSame, StatementsKeep DEF Commit
  <2>2. Quiet(p)
    BY <1>4, <1>a, QuietLeave DEF Commit, Labels
  <2>. QED
    BY <1>1, <1>4, <2>1, <2>2, QuietStep DEF Commit, world
<1>5. CASE PrepareFails(p)
  <2>1. Kept(led, led')
    BY <1>5, <1>1, <1>2, StatementsKeep DEF PrepareFails, FailureStates, Gas
  <2>. QED
    BY <1>1, <1>5, <2>1, QuietLeave, QuietStep DEF PrepareFails, world
<1>6. CASE Attach(p)
  <2>1. CASE CanAttach(led, Op(p))
    BY <1>6, <2>1, AttachHandOver
  <2>2. CASE ~CanAttach(led, Op(p))
    BY <1>1, <1>6, <2>2, QuietLeave, KeptSame, QuietStep DEF Attach, world
  <2>. QED
    BY <2>1, <2>2
<1>7. CASE SubmitCall(p)
  BY <1>7, SubmitHandOver
<1>8. CASE RecordHandle(p)
  <2>1. Kept(led, led')
    BY <1>8, <1>1, <1>2, StatementsKeep DEF RecordHandle
  <2>2. Quiet(p)
    BY <1>8, <1>a, QuietBack DEF RecordHandle, Labels
  <2>. QED
    BY <1>1, <1>8, <2>1, <2>2, QuietStep DEF RecordHandle, world
<1>9. CASE LoseSubmission(p)
  <2>. DEFINE l == MarkSubmissionUnknown(led, Op(p))
              s == [proc[p] EXCEPT !.pc = "check"]
  <2>1. Update(p, led, l, s)
    BY <1>9 DEF LoseSubmission
  <2>2. Kept(led, l)
    BY <1>1, <1>2, StatementsKeep DEF MarkSubmissionUnknown, LedgerStates, Before
  <2>3. Become(p, s) => Goto(p, "check")
    BY DEF Goto
  <2>4. Quiet(p)
    BY <2>1, <2>3, <1>a, QuietLeave DEF Update, Labels
  <2>. QED
    BY <1>1, <1>9, <2>1, <2>2, <2>4, KeptSame, QuietStep DEF Update, LoseSubmission, world
<1>. QED
  BY <1>3, <1>4, <1>5, <1>6, <1>7, <1>8, <1>9 DEF Sending

LEMMA OutsideHandOver ==
    ASSUME TypeInv, HandOver, NEW o \in Operations, Outside(o)
    PROVE  HandOver'
<1>1. led' = led /\ proc' = proc /\ handed' = handed
  BY DEF Outside, Accept, Vanish, Land, Revert, LandHollow, UseNonce, NearExpiry, Expire,
         Moves, ledger
<1>2. \A other \in Operations : cert'[other] = "none" <=> cert[other] = "none"
  BY DEF Outside, Accept, Vanish, Land, Revert, LandHollow, UseNonce, NearExpiry, Expire,
         Moves, TypeInv, TypeOK
<1>3. \A p \in Procs : At(p, "begin") => Op(p) \in Operations
  BY AtWork DEF At, Working, Labels
<1>. QED
  BY <1>1, <1>2, <1>3 DEF HandOver, HandedAtMostOnce, At, Op

LEMMA StepHandOver ==
    ASSUME LedgerAssumption, AgentAssumption, TypeInv, HandOver, [Next]_vars
    PROVE  HandOver'
<1>1. CASE \E p \in Procs : Command(p) \/ Recovery(p) \/ Mining(p) \/ Sending(p)
  BY <1>1, CommandHandOver, RecoveryHandOver, MiningHandOver, SendingHandOver
<1>2. CASE \E o \in Operations : Outside(o)
  BY <1>2, OutsideHandOver
<1>3. CASE AuthorizationExpires \/ UNCHANGED vars
  BY <1>3 DEF AuthorizationExpires, vars, world, HandOver, HandedAtMostOnce, At, Op
<1>. QED
  BY <1>1, <1>2, <1>3 DEF Next

LEMMA InitHandOver == ASSUME Init PROVE HandOver
BY DEF Init, HandOver, HandedAtMostOnce, At, Op, Idle, EmptyRow, Working

(* Why no Mint is handed over again: one process attaches its request,     *)
(* only that one comes to submitCall, and the row never returns to         *)
(* CERTIFICATE_READY (submit, agent.ts; attachSubmission, ledger.ts).      *)
THEOREM HandOverHolds == Spec => []HandOver
<1>1. Init => HandOver
  BY InitHandOver
<1>2. TypeInv /\ HandOver /\ [Next]_vars => HandOver'
  BY StepHandOver, LedgerAssumption, AgentAssumption
<1>. QED
  BY <1>1, <1>2, TypeInvHolds, PTL DEF Spec

(* However many processes share a ledger, crash and resume each other's    *)
(* certified Mints, each Mint is given to submitCall at most once.         *)
THEOREM OneHandOver == Spec => []HandedAtMostOnce
<1>1. HandOver => HandedAtMostOnce
  BY DEF HandOver
<1>. QED
  BY <1>1, HandOverHolds, PTL

------------------------------------------------------------------------------
(* What the ledger and the processes know of the world outside.            *)

(* What can have become of a Mint whose handed-over row was failed.  A     *)
(* failed preparation asks nothing and fails any row; a lagging node hides *)
(* a mined receipt, and a nonce the Mint itself used reads as replaced.    *)
Ends ==
    IF "prepareFails" \in Faults THEN Outcomes
    ELSE IF Wallet = "circle" /\ "chainLags" \notin Faults THEN {"hollow", "reverted"}
    ELSE {"mined", "hollow", "reverted", "replaced"}

Asking == {"query", "receipt", "lookup", "count", "settle", "recheck"}
AfterAttach == Asking \cup {"check", "mark", "issued", "submit", "await", "record", "lost"}

(* A row past its certificate names a request, and its resolution agrees   *)
(* with the outcome t.                                                     *)
RowAccounted(r, t) ==
    /\ r.handle \/ r.state \notin {"ABSENT", "CERTIFICATE_READY"} \cup FailureStates
          => r.request # None
    /\ r.state = "MINT_CONFIRMED" => t = "mined"
    /\ r.state \in FailureStates /\ r.request # None => t \in Ends

(* What a process in local state s has learned holds of the table l and of *)
(* the transaction it asks about, although both go on changing.            *)
Knows(s, l) ==
    /\ s.pc \in AfterAttach => l[s.op].request # None
    /\ s.pc \in Asking /\ s.seen => tx[s.op] = "mined"
    /\ s.pc \in {"receipt", "lookup", "count"} => Wallet = "eoa"
    /\ s.pc = "settle" /\ s.answer.status = "CONFIRMED" => tx[s.op] \in {"mined", "hollow"}
    /\ s.pc = "settle" /\ s.answer.status \in {"REVERTED", "REPLACED"} => tx[s.op] \in Ends
    /\ s.pc = "recheck" => tx[s.op] \in {"mined", "hollow"}

RowsAccounted(l) ==
    ActiveMintIndex(l) /\ \A o \in Operations : RowAccounted(l[o], tx[o])

Accounted ==
    /\ RowsAccounted(led)
    /\ \A o \in Operations :
          /\ handed[o] = 0 => tx[o] \in {"none", "replaced"}
          /\ Wallet = "circle" => tx[o] # "replaced"
    /\ \A p \in Procs : Knows(proc[p], led)

(* Statements that keep an accounted table accounted: o is a row with a    *)
(* request, except where the statement comes before the submission.        *)
LEMMA EarlyStatements ==
    ASSUME NEW l \in Table, NEW o \in Operations, RowsAccounted(l)
    PROVE  /\ RowsAccounted(SetPendingCall(l, o))
           /\ \A gas \in Quotes : RowsAccounted(SetOperationCommitment(l, o, gas))
           /\ RowsAccounted(RecordWalletHandle(l, o))
<1>. USE DEF Table, Row, RowsAccounted, RowAccounted, ActiveMintIndex
<1>1. RowsAccounted(SetPendingCall(l, o))
  BY DEF SetPendingCall
<1>2. ASSUME NEW gas \in Quotes PROVE RowsAccounted(SetOperationCommitment(l, o, gas))
  BY DEF SetOperationCommitment
<1>3. RowsAccounted(RecordWalletHandle(l, o))
  BY DEF RecordWalletHandle, IndexedStates, FailureStates
<1>. QED
  BY <1>1, <1>2, <1>3

LEMMA OpenStatements ==
    ASSUME NEW l \in Table, NEW o \in Operations, RowsAccounted(l), l[o].request # None
    PROVE  /\ \A s \in {"SUBMISSION_UNKNOWN", "RECOVERING"} :
                 ActiveMintIndex(SetState(l, o, s)) => RowsAccounted(SetState(l, o, s))
           /\ \A h \in BOOLEAN :
                 ActiveMintIndex(MarkPending(l, o, h)) => RowsAccounted(MarkPending(l, o, h))
<1>. USE DEF Table, Row, RowsAccounted, RowAccounted, FailureStates
<1>1. ASSUME NEW s \in {"SUBMISSION_UNKNOWN", "RECOVERING"}, ActiveMintIndex(SetState(l, o, s))
      PROVE  RowsAccounted(SetState(l, o, s))
  BY <1>1 DEF SetState
<1>2. ASSUME NEW h \in BOOLEAN, ActiveMintIndex(MarkPending(l, o, h))
      PROVE  RowsAccounted(MarkPending(l, o, h))
  BY <1>2 DEF MarkPending
<1>. QED
  BY <1>1, <1>2

LEMMA ResolvingStatements ==
    ASSUME NEW l \in Table, NEW o \in Operations, RowsAccounted(l)
    PROVE  /\ \A gas \in Gas : l[o].request # None /\ tx[o] = "mined"
                 => RowsAccounted(ResolveConfirmed(l, o, gas))
           /\ \A s \in FailureStates, gas \in Gas : tx[o] \in Ends
                 => RowsAccounted(ResolveFailure(l, o, s, gas))
           /\ Unsent(l[o]) => RowsAccounted(ResolveUnsentFailure(l, o))
<1>. USE DEF Table, Row, RowsAccounted, RowAccounted, ActiveMintIndex, IndexedStates,
             FailureStates
<1>1. ASSUME NEW gas \in Gas, l[o].request # None, tx[o] = "mined"
      PROVE  RowsAccounted(ResolveConfirmed(l, o, gas))
  BY <1>1 DEF ResolveConfirmed
<1>2. ASSUME NEW s \in FailureStates, NEW gas \in Gas, tx[o] \in Ends
      PROVE  RowsAccounted(ResolveFailure(l, o, s, gas))
  BY <1>2, l[o].handle => l[o].request # None DEF ResolveFailure
<1>3. ASSUME Unsent(l[o]) PROVE RowsAccounted(ResolveUnsentFailure(l, o))
  BY <1>3 DEF ResolveUnsentFailure, Unsent
<1>. QED
  BY <1>1, <1>2, <1>3

(* A process that works on no submission knows nothing that could change. *)
LEMMA KnowsNothing ==
    ASSUME NEW s, NEW l, s.pc \notin AfterAttach
    PROVE  Knows(s, l)
BY DEF Knows, AfterAttach, Asking

(* The step of one process: only its row, and its own knowledge, change. *)
Informed(p, l) == \E s : Become(p, s) /\ Knows(s, l)

LEMMA InformedLeave == ASSUME NEW p, NEW l, Leave(p) PROVE Informed(p, l)
<1>1. Idle.pc \notin AfterAttach
  BY DEF Idle, AfterAttach, Asking
<1>. QED
  BY <1>1, KnowsNothing DEF Informed, Leave

LEMMA InformedBack == ASSUME NEW p, NEW m, NEW l, Returned(p, m) PROVE Informed(p, l)
<1>. DEFINE d == [Idle EXCEPT !.pc = "decide", !.unattended = proc[p].unattended]
            r == [Idle EXCEPT !.pc = "loop", !.unattended = TRUE]
<1>1. d.pc = "decide" /\ r.pc = "loop" /\ Idle.pc = "idle"
  BY DEF Idle
<1>2. Become(p, d) \/ Become(p, r) \/ Become(p, Idle)
  BY DEF Returned
<1>3. Knows(d, l) /\ Knows(r, l) /\ Knows(Idle, l)
  BY <1>1, KnowsNothing DEF AfterAttach, Asking
<1>. QED
  BY <1>2, <1>3 DEF Informed

LEMMA InformedGoto ==
    ASSUME TypeInv, NEW p \in Procs, NEW l, NEW label \in Labels, Goto(p, label),
           label \in AfterAttach => label \notin Asking /\ l[Op(p)].request # None
    PROVE  Informed(p, l)
<1>. DEFINE s == [proc[p] EXCEPT !.pc = label]
<1>1. s.pc = label /\ s.op = Op(p)
  BY DEF TypeInv, Held, Locals, Op
<1>2. Knows(s, l)
  BY <1>1 DEF Knows, AfterAttach, Asking
<1>. QED
  BY <1>2 DEF Informed, Goto

LEMMA InformedRecovering ==
    ASSUME TypeInv, Accounted, NEW p \in Procs, NEW g, NEW u, RecoverOutstanding(p, g, u)
    PROVE  Informed(p, led)
<1>. DEFINE d == [Idle EXCEPT !.pc = "decide", !.unattended = u]
<1>1. CASE Unresolved(led) = {}
  <2>1. d.pc = "decide" /\ Idle.pc = "idle"
    BY DEF Idle
  <2>2. Knows(d, led) /\ Knows(Idle, led)
    BY <2>1, KnowsNothing DEF AfterAttach, Asking
  <2>. QED
    BY <1>1, <2>2 DEF RecoverOutstanding, Informed
<1>2. CASE Unresolved(led) # {}
  <2>1. PICK o \in Unresolved(led) :
           Become(p, [Idle EXCEPT !.pc = IF Unsent(led[o]) THEN "probe" ELSE "check",
                                  !.op = o, !.goal = g, !.unattended = u])
    BY <1>2 DEF RecoverOutstanding
  <2>. DEFINE s == [Idle EXCEPT !.pc = IF Unsent(led[o]) THEN "probe" ELSE "check",
                                !.op = o, !.goal = g, !.unattended = u]
  <2>2. s.pc = (IF Unsent(led[o]) THEN "probe" ELSE "check") /\ s.op = o
    BY DEF Idle
  <2>3. ~Unsent(led[o]) => led[o].request # None
    BY DEF Unsent, Unresolved, Accounted, RowsAccounted, RowAccounted
  <2>4. Knows(s, led)
    BY <2>2, <2>3 DEF Knows, AfterAttach, Asking
  <2>. QED
    BY <2>1, <2>4 DEF Informed
<1>. QED
  BY <1>1, <1>2

LEMMA AccountedStep ==
    ASSUME TypeInv, Accounted, NEW p \in Procs, Informed(p, led'), RowsAccounted(led'),
           \A o \in Operations : led[o].request # None => led'[o].request # None,
           tx' = tx, handed' = handed
    PROVE  Accounted'
<1>1. PICK s : Become(p, s) /\ Knows(s, led')
  BY DEF Informed
<1>2. proc'[p] = s /\ \A q \in Procs : q # p => proc'[q] = proc[q]
  BY <1>1 DEF Become, TypeInv, TypeOK
<1>3. \A q \in Procs : proc[q].pc \in AfterAttach => proc[q].op \in Operations
  BY AtWork DEF AfterAttach, Asking, Working, Labels, Op
<1>4. RowsAccounted(led)'
  BY DEF RowsAccounted, RowAccounted, Ends
<1>5. ASSUME NEW q \in Procs PROVE Knows(proc[q], led)'
  <2>1. CASE q = p
    BY <1>1, <1>2, <2>1 DEF Knows, Ends
  <2>2. CASE q # p
    BY <1>2, <1>3, <2>2 DEF Accounted, Knows, Ends
  <2>. QED
    BY <2>1, <2>2
<1>. QED
  BY <1>4, <1>5 DEF Accounted

(* Statements never take a request away. *)
LEMMA KeptRequests ==
    ASSUME NEW l, NEW m, Kept(l, m)
    PROVE  \A o \in Operations : l[o].request # None => m[o].request # None
BY DEF Kept

LEMMA AccountedGoes ==
    ASSUME TypeInv, Accounted, NEW p \in Procs, Informed(p, led),
           UNCHANGED <<ledger, tx, handed>>
    PROVE  Accounted'
BY AccountedStep DEF ledger, Accounted

LEMMA CommandAccounted ==
    ASSUME LedgerAssumption, TypeInv, Accounted, NEW p \in Procs, Command(p)
    PROVE  Accounted'
<1>1. led' = led /\ tx' = tx /\ handed' = handed
  BY DEF Command, Status, MineOnce, Run, RunIteration, RequestStop, RevokeAuthorization,
         Authorize, ClearStop, Abort, ledger, world
<1>2. Informed(p, led)
  <2>1. CASE Status(p) \/ MineOnce(p)
    BY <2>1, InformedRecovering DEF Status, MineOnce
  <2>2. CASE Run(p)
    <3>. DEFINE s == [Idle EXCEPT !.pc = "loop", !.unattended = TRUE]
    <3>1. s.pc = "loop"
      BY DEF Idle
    <3>2. Knows(s, led)
      BY <3>1, KnowsNothing DEF AfterAttach, Asking
    <3>. QED
      BY <2>2, <3>2 DEF Run, Informed
  <2>3. CASE RunIteration(p)
    BY <2>3, InformedLeave, InformedRecovering DEF RunIteration
  <2>4. CASE RequestStop(p) \/ Authorize(p)
    BY <2>4, InformedGoto DEF RequestStop, Authorize, Labels, AfterAttach, Asking
  <2>5. CASE RevokeAuthorization(p) \/ ClearStop(p) \/ Abort(p)
    BY <2>5, InformedLeave DEF RevokeAuthorization, ClearStop, Abort
  <2>. QED
    BY <2>1, <2>2, <2>3, <2>4, <2>5 DEF Command
<1>. QED
  BY <1>1, <1>2, AccountedStep DEF Accounted

LEMMA HandledAccounted ==
    ASSUME LedgerAssumption, TypeInv, HandOver, Accounted, NEW p \in Procs,
           proc[p].pc \in AfterAttach
    PROVE  /\ WithHandle(p) \in Table
           /\ RowsAccounted(WithHandle(p))
           /\ Kept(led, WithHandle(p))
           /\ WithHandle(p)[Op(p)].request # None
<1>1. proc[p].pc \in Working \ {"begin"}
  BY DEF AfterAttach, Asking, Working, Labels
<1>2. Op(p) \in Operations /\ led \in Table
  BY <1>1, AtWork
<1>3. WithHandle(p) \in Table /\ Kept(led, WithHandle(p))
  BY <1>1, HandledKept
<1>4. RowsAccounted(WithHandle(p))
  BY <1>2, EarlyStatements DEF WithHandle, Accounted
<1>5. led[Op(p)].request # None
  BY DEF Accounted, Knows, Op
<1>. QED
  BY <1>2, <1>3, <1>4, <1>5 DEF Kept

(* An answer is as good as the outcome it was read from. *)
LEMMA AnswerKnows ==
    ASSUME TypeInv, Accounted, NEW p \in Procs, NEW a \in Answers,
           proc[p].pc \in Asking,
           a.status = "CONFIRMED" => tx[Op(p)] \in {"mined", "hollow"},
           a.status \in {"REVERTED", "REPLACED"} => tx[Op(p)] \in Ends,
           Become(p, [proc[p] EXCEPT !.answer = a, !.pc = "settle"])
    PROVE  Informed(p, led)
<1>. DEFINE s == [proc[p] EXCEPT !.answer = a, !.pc = "settle"]
<1>1. proc[p] \in Locals
  BY DEF TypeInv, TypeOK
<1>2. s.pc = "settle" /\ s.op = Op(p) /\ s.answer = a /\ s.seen = proc[p].seen
  BY <1>1 DEF Locals, Op
<1>3. Knows(proc[p], led)
  BY DEF Accounted
<1>. HIDE DEF s
<1>4. Knows(s, led)
  BY <1>2, <1>3 DEF Knows, AfterAttach, Asking, Op
<1>. QED
  BY <1>4 DEF Informed, s

LEMMA CircleSays ==
    ASSUME NEW o, NEW row, NEW a \in CircleAnswers(row, o)
    PROVE  /\ a.status = "CONFIRMED" => tx[o] \in {"mined", "hollow"}
           /\ a.status \in {"REVERTED", "REPLACED"} => tx[o] = "reverted"
<1>. DEFINE Answer(s, G) == [status : {s}, handle : {TRUE}, gas : G]
<1>1. \A s, G : \A x \in Answer(s, G) : x.status = s
  OBVIOUS
<1>2. NoAnswer.status = "UNKNOWN"
  BY DEF NoAnswer
<1>3. \/ a = NoAnswer
      \/ a \in Answer("NOT_FOUND", {None})
      \/ a \in Answer("PENDING", {None})
      \/ tx[o] \in {"mined", "hollow"} /\ a \in Answer("CONFIRMED", Receipts \cup {None})
      \/ tx[o] = "reverted" /\ a \in Answer("REVERTED", Receipts \cup {None})
  BY Zenon DEF CircleAnswers
<1>. HIDE DEF Answer
<1>. QED
  BY <1>1, <1>2, <1>3

LEMMA AskingAccounted ==
    ASSUME AgentAssumption, TypeInv, Accounted, NEW p \in Procs,
           \/ ReadIssued(p) \/ QueryCircle(p)
           \/ ReadReceipt(p) \/ LookupTransaction(p) \/ CountTransactions(p)
    PROVE  Accounted'
<1>1. led' = led /\ tx' = tx /\ handed' = handed
  BY DEF ReadIssued, QueryCircle, ReadReceipt, LookupTransaction, CountTransactions,
         ledger, world
<1>2. proc[p] \in Locals /\ Knows(proc[p], led) /\ tx[Op(p)] \in Outcomes
  <2>1. proc[p].pc \in Working
    BY DEF At, ReadIssued, QueryCircle, ReadReceipt, LookupTransaction, CountTransactions,
           Working, Labels
  <2>. QED
    BY <2>1, AtWork DEF Accounted, TypeInv, TypeOK
<1>3. CASE ReadIssued(p)
  <2>1. PICK seen \in IssuedReads(Op(p)) :
           Become(p, [proc[p] EXCEPT !.seen = seen,
                                     !.pc = IF Wallet = "eoa" THEN "receipt" ELSE "query"])
    BY <1>3 DEF ReadIssued
  <2>. DEFINE s == [proc[p] EXCEPT !.seen = seen,
                                   !.pc = IF Wallet = "eoa" THEN "receipt" ELSE "query"]
  <2>2. /\ s.pc = (IF Wallet = "eoa" THEN "receipt" ELSE "query")
        /\ s.op = proc[p].op /\ s.seen = seen
    BY <1>2 DEF Locals
  <2>3. seen => tx[proc[p].op] = "mined"
    BY DEF IssuedReads, Issued, Op
  <2>4. led[proc[p].op].request # None
    BY <1>2, <1>3 DEF ReadIssued, At, Knows, AfterAttach
  <2>. HIDE DEF s
  <2>5. Knows(s, led)
    BY <2>2, <2>3, <2>4 DEF Knows, AfterAttach, Asking
  <2>6. Informed(p, led)
    BY <2>1, <2>5 DEF Informed, s
  <2>. QED
    BY <1>1, <2>6, AccountedStep DEF Accounted
<1>4. CASE QueryCircle(p)
  <2>1. PICK a \in CircleAnswers(proc[p].row, Op(p)) :
           Become(p, [proc[p] EXCEPT !.answer = a, !.pc = "settle"])
    BY <1>4 DEF QueryCircle
  <2>2. a \in Answers
    BY <1>2, AnswersType DEF Locals
  <2>3. a.status = "CONFIRMED" => tx[Op(p)] \in {"mined", "hollow"}
    BY CircleSays
  <2>4. a.status \in {"REVERTED", "REPLACED"} => tx[Op(p)] = "reverted"
    BY CircleSays
  <2>5. proc[p].pc \in Asking
    BY <1>4 DEF QueryCircle, At, Asking
  <2>6. Informed(p, led)
    BY <2>1, <2>2, <2>3, <2>4, <2>5, AnswerKnows DEF Ends, Outcomes
  <2>. QED
    BY <1>1, <2>6, AccountedStep DEF Accounted
<1>5. CASE ReadReceipt(p) \/ LookupTransaction(p) \/ CountTransactions(p)
  <2>1. proc[p].pc \in {"receipt", "lookup", "count"} /\ proc[p].pc \in Asking
    BY <1>5 DEF ReadReceipt, LookupTransaction, CountTransactions, At, Asking
  <2>2. Wallet = "eoa"
    BY <1>2, <2>1 DEF Knows
  <2>3. ASSUME NEW status \in Statuses, NEW gas \in Gas \cup {None}, Answered(p, status, gas),
               status = "CONFIRMED" => tx[Op(p)] \in {"mined", "hollow"},
               status \in {"REVERTED", "REPLACED"}
                  => tx[Op(p)] \in {"mined", "reverted", "replaced"}
        PROVE  Informed(p, led)
    <3>1. [status |-> status, handle |-> TRUE, gas |-> gas] \in Answers
      BY DEF Answers
    <3>. QED
      BY <2>1, <2>2, <2>3, <3>1, AnswerKnows DEF Answered, Ends, Outcomes
  <2>4. ASSUME NEW label \in {"lookup", "count"}, Goto(p, label)
        PROVE  Informed(p, led)
    <3>. DEFINE s == [proc[p] EXCEPT !.pc = label]
    <3>1. s.pc = label /\ s.op = proc[p].op /\ s.seen = proc[p].seen
      BY <1>2 DEF Locals
    <3>. HIDE DEF s
    <3>2. Knows(s, led)
      BY <1>2, <2>1, <3>1 DEF Knows, AfterAttach, Asking
    <3>. QED
      BY <2>4, <3>2 DEF Informed, Goto, s
  <2>5. Informed(p, led)
    <3>1. CASE ReadReceipt(p)
      BY <3>1, <2>3, <2>4 DEF ReadReceipt, Issued, Statuses, Gas
    <3>2. CASE LookupTransaction(p)
      BY <3>2, <2>3, <2>4 DEF LookupTransaction, Statuses
    <3>3. CASE CountTransactions(p)
      BY <3>3, <2>3 DEF CountTransactions, Statuses
    <3>. QED
      BY <1>5, <3>1, <3>2, <3>3
  <2>. QED
    BY <1>1, <2>5, AccountedStep DEF Accounted
<1>. QED
  BY <1>3, <1>4, <1>5

LEMMA RecoveryAccounted ==
    ASSUME LedgerAssumption, AgentAssumption, TypeInv, HandOver, Accounted,
           NEW p \in Procs, Recovery(p)
    PROVE  Accounted'
<1>1. CASE ReadIssued(p) \/ QueryCircle(p)
           \/ ReadReceipt(p) \/ LookupTransaction(p) \/ CountTransactions(p)
  BY <1>1, AskingAccounted
<1>2. CASE Probe(p) \/ Release(p) \/ CheckUnresolved(p) \/ MarkRecoveringRow(p)
           \/ SettleIssued(p) \/ SettlePending(p) \/ SettleConfirmed(p)
           \/ RecheckIssued(p) \/ SettleFailed(p) \/ SettleUnknown(p)
  <2>1. proc[p].pc \in Working \ {"begin"}
    BY <1>2 DEF At, Probe, Release, CheckUnresolved, MarkRecoveringRow, SettleIssued,
       SettlePending, SettleConfirmed, RecheckIssued, SettleFailed, SettleUnknown,
       Working, Labels
  <2>2. tx' = tx /\ handed' = handed
    BY <1>2 DEF Probe, Release, CheckUnresolved, MarkRecoveringRow, SettleIssued,
       SettlePending, SettleConfirmed, RecheckIssued, SettleFailed, SettleUnknown,
       ledger, world
  <2>3. /\ Op(p) \in Operations /\ led \in Table /\ proc[p] \in Locals
        /\ led[Op(p)].state # "ABSENT"
    BY <2>1, NotAbsent, AtWork
  <2>4. /\ proc[p].answer \in Answers /\ proc[p].answer.handle \in BOOLEAN
        /\ proc[p].row.gasCommitted \in Gas /\ 0 \in Gas
    BY <2>3 DEF Locals, Row, Gas, Answers
  <2>5. Knows(proc[p], led) /\ RowsAccounted(led)
    BY DEF Accounted
  <2>6. RowAccounted(led[Op(p)], tx[Op(p)])
    BY <2>3, <2>5 DEF RowsAccounted
  <2>a. ASSUME RowsAccounted(led'), Kept(led, led'), Informed(p, led')
        PROVE  Accounted'
    BY <2>a, <2>2, KeptRequests, AccountedStep
  <2>b. ASSUME proc[p].pc \in AfterAttach
        PROVE  led[Op(p)].request # None
    BY <2>b, <2>5 DEF Knows, Op
  <2>c. ASSUME NEW l, Kept(led, l), led[Op(p)].request # None
        PROVE  l[Op(p)].request # None
    BY <2>c, <2>3, KeptRequests
  <2>7. CASE Probe(p)
    (* Issued means handed over: whoever is told so asks about a request. *)
    <3>1. led' = led
      BY <2>7 DEF Probe, ledger
    <3>2. Issued(Op(p)) => led[Op(p)].request # None
      <4>1. Issued(Op(p)) => handed[Op(p)] # 0
        BY <2>3 DEF Accounted, Issued
      <4>. QED
        BY <4>1, <2>3 DEF HandOver, TypeInv, TypeOK
    <3>3. PICK seen \in IssuedReads(Op(p)) :
             IF seen THEN Goto(p, "check")
             ELSE IF cert[Op(p)] = "expired" THEN Goto(p, "release")
             ELSE Returned(p, led)
      BY <2>7 DEF Probe
    <3>4. Informed(p, led)
      <4>1. CASE seen
        BY <4>1, <3>2, <3>3, InformedGoto DEF IssuedReads, Labels, Asking
      <4>2. CASE ~seen
        BY <4>2, <3>3, InformedBack, InformedGoto DEF Labels, AfterAttach, Asking
      <4>. QED
        BY <4>1, <4>2
    <3>. QED
      BY <3>1, <3>4, <2>5, <2>a, KeptSame
  <2>8. CASE Release(p)
    <3>1. CASE CanReleaseUnsent(led, Op(p))
      <4>1. led' = ResolveUnsentFailure(led, Op(p)) /\ Returned(p, led')
        BY <2>8, <3>1 DEF Release
      <4>2. RowsAccounted(led') /\ Kept(led, led')
        BY <3>1, <4>1, <2>3, <2>5, ResolvingStatements, StatementsKeep DEF CanReleaseUnsent
      <4>. QED
        BY <4>1, <4>2, <2>a, InformedBack
    <3>2. CASE ~CanReleaseUnsent(led, Op(p))
      (* Whatever stands in the way of the release came with a request. *)
      <4>1. led' = led
        BY <2>8, <3>2 DEF Release
      <4>2. led[Op(p)].state \in UnresolvedStates => led[Op(p)].request # None
        BY <3>2, <2>6 DEF RowAccounted, CanReleaseUnsent, Unsent, UnresolvedStates,
           FailureStates
      <4>3. Informed(p, led)
        BY <2>8, <3>2, <4>1, <4>2, InformedBack, InformedGoto DEF Release, Labels, Asking
      <4>. QED
        BY <4>1, <4>3, <2>5, <2>a, KeptSame
    <3>. QED
      BY <3>1, <3>2
  <2>9. CASE CheckUnresolved(p)
    <3>1. led' = led /\ led[Op(p)].request # None
      BY <2>9, <2>b DEF CheckUnresolved, ledger, At, AfterAttach
    <3>2. Informed(p, led)
      BY <2>9, <3>1, InformedGoto, InformedLeave DEF CheckUnresolved, Labels, Asking
    <3>. QED
      BY <3>1, <3>2, <2>5, <2>a, KeptSame
  <2>10. CASE MarkRecoveringRow(p)
    <3>. DEFINE l == MarkRecovering(led, Op(p))
                s == [proc[p] EXCEPT !.pc = "issued", !.row = l[Op(p)]]
    <3>1. led[Op(p)].request # None
      BY <2>10, <2>b DEF MarkRecoveringRow, At, AfterAttach
    <3>2. Kept(led, l)
      BY <2>3, StatementsKeep DEF MarkRecovering, LedgerStates, Before
    <3>3. ActiveMintIndex(l) => RowsAccounted(l)
      BY <3>1, <2>3, <2>5, OpenStatements DEF MarkRecovering
    <3>4. s.pc = "issued" /\ s.op = Op(p)
      BY <2>3 DEF Locals, Op
    <3>5. Knows(s, l)
      <4>1. l[Op(p)].request # None
        BY <3>1, <3>2, <2>c
      <4>. HIDE DEF s, l
      <4>. QED
        BY <3>4, <4>1 DEF Knows, AfterAttach, Asking
    <3>6. Update(p, led, l, s)
      BY <2>10 DEF MarkRecoveringRow
    <3>. HIDE DEF s, l
    <3>7. CASE led' = l /\ Become(p, s) /\ ActiveMintIndex(l)
      BY <3>2, <3>3, <3>5, <3>7, <2>a DEF Informed
    <3>8. CASE led' = led /\ Leave(p)
      BY <3>8, <2>5, <2>a, InformedLeave, KeptSame
    <3>. QED
      BY <3>6, <3>7, <3>8 DEF Update
  <2>11. CASE SettleIssued(p)
    <3>1. led[Op(p)].request # None /\ tx[Op(p)] = "mined"
      BY <2>11, <2>5, <2>b DEF SettleIssued, At, AfterAttach, Asking, Knows, Op
    <3>2. RowsAccounted(led') /\ Kept(led, led')
      BY <2>11, <3>1, <2>3, <2>4, <2>5, GasBooked, ResolvingStatements, StatementsKeep
         DEF SettleIssued
    <3>. QED
      BY <2>11, <3>2, <2>a, InformedBack DEF SettleIssued
  <2>12. CASE SettlePending(p)
    <3>. DEFINE l == MarkPending(WithHandle(p), Op(p), proc[p].answer.handle)
    <3>1. proc[p].pc \in AfterAttach
      BY <2>12 DEF SettlePending, At, AfterAttach, Asking
    <3>2. Kept(led, l) /\ (ActiveMintIndex(l) => RowsAccounted(l))
      BY <3>1, <2>1, <2>3, <2>4, HandledKept, HandledAccounted, StatementsKeep, KeptTwice,
         OpenStatements
    <3>3. Informed(p, led')
      BY <2>12, InformedBack, InformedLeave DEF SettlePending
    <3>. QED
      BY <2>12, <3>1, <3>2, <3>3, <2>a, HandledAccounted DEF SettlePending
  <2>13. CASE SettleConfirmed(p)
    <3>. DEFINE s == [proc[p] EXCEPT !.pc = "recheck"]
    <3>1. proc[p].pc = "settle" /\ proc[p].pc \in AfterAttach
      BY <2>13 DEF SettleConfirmed, At, AfterAttach, Asking
    <3>2. s.pc = "recheck" /\ s.op = Op(p) /\ s.seen = proc[p].seen
      BY <2>3 DEF Locals, Op
    <3>3. RowsAccounted(led') /\ Kept(led, led') /\ led'[Op(p)].request # None
      BY <2>13, <3>1, HandledAccounted DEF SettleConfirmed
    <3>. HIDE DEF s
    <3>4. Knows(s, led')
      BY <2>13, <3>1, <3>2, <3>3, <2>5 DEF SettleConfirmed, Knows, Op, AfterAttach, Asking
    <3>5. Informed(p, led')
      BY <2>13, <3>4 DEF SettleConfirmed, Goto, Informed, s
    <3>. QED
      BY <3>3, <3>5, <2>a
  <2>14. CASE RecheckIssued(p)
    <3>1. proc[p].pc = "recheck" /\ proc[p].pc \in AfterAttach
      BY <2>14 DEF RecheckIssued, At, AfterAttach, Asking
    <3>2. led[Op(p)].request # None /\ tx[Op(p)] \in {"mined", "hollow"}
      BY <3>1, <2>5, <2>b DEF Knows, Op
    <3>3. PICK seen \in IssuedReads(Op(p)) :
             led' = IF seen
                    THEN ResolveConfirmed(led, Op(p),
                                          GasOr(proc[p].answer, proc[p].row.gasCommitted))
                    ELSE ResolveFailure(led, Op(p), "FAILED", GasOr(proc[p].answer, 0))
      BY <2>14 DEF RecheckIssued
    <3>4. seen => tx[Op(p)] = "mined"
      BY DEF IssuedReads, Issued
    <3>5. ~seen => tx[Op(p)] \in Ends
      BY <3>2 DEF IssuedReads, Issued, Ends, Outcomes
    <3>6. RowsAccounted(led') /\ Kept(led, led')
      BY <3>2, <3>3, <3>4, <3>5, <2>3, <2>4, <2>5, GasBooked, ResolvingStatements,
         StatementsKeep DEF FailureStates
    <3>. QED
      BY <2>14, <3>6, <2>a, InformedBack DEF RecheckIssued
  <2>15. CASE SettleFailed(p)
    <3>1. proc[p].pc = "settle" /\ proc[p].pc \in AfterAttach
      BY <2>15 DEF SettleFailed, At, AfterAttach, Asking
    <3>2. tx[Op(p)] \in Ends /\ proc[p].answer.status \in FailureStates
      BY <2>15, <3>1, <2>5 DEF SettleFailed, Knows, Op, FailureStates
    <3>3. RowsAccounted(led') /\ Kept(led, led')
      BY <2>15, <3>1, <3>2, <2>1, <2>3, <2>4, GasBooked, HandledKept, HandledAccounted,
         ResolvingStatements, StatementsKeep, KeptTwice DEF SettleFailed
    <3>. QED
      BY <2>15, <3>3, <2>a, InformedBack DEF SettleFailed
  <2>16. CASE SettleUnknown(p)
    <3>. DEFINE l == MarkSubmissionUnknown(WithHandle(p), Op(p))
    <3>1. proc[p].pc \in AfterAttach
      BY <2>16 DEF SettleUnknown, At, AfterAttach, Asking
    <3>2. Kept(led, l)
      BY <2>1, <2>3, HandledKept, StatementsKeep, KeptTwice
         DEF MarkSubmissionUnknown, LedgerStates, Before
    <3>3. ActiveMintIndex(l) => RowsAccounted(l)
      BY <3>1, <2>3, HandledAccounted, OpenStatements DEF MarkSubmissionUnknown
    <3>4. Informed(p, led')
      BY <2>16, InformedBack, InformedLeave DEF SettleUnknown
    <3>. QED
      BY <2>16, <3>1, <3>2, <3>3, <3>4, <2>a, HandledAccounted DEF SettleUnknown
  <2>. QED
    BY <1>2, <2>7, <2>8, <2>9, <2>10, <2>11, <2>12, <2>13, <2>14, <2>15, <2>16
<1>. QED
  BY <1>1, <1>2 DEF Recovery

LEMMA MiningAccounted ==
    ASSUME LedgerAssumption, TypeInv, HandOver, Accounted, NEW p \in Procs, Mining(p)
    PROVE  Accounted'
<1>1. /\ tx' = tx /\ handed' = handed /\ led \in Table /\ proc[p] \in Locals
      /\ RowsAccounted(led)
  BY DEF Mining, Resume, StartWork, RefuseWork, StopMining, ObtainCertificate, BeginMint,
         StoreCall, world, TypeInv, TypeOK, Table, Accounted
<1>a. ASSUME NEW o, NEW label \in Labels \ AfterAttach,
             Become(p, [proc[p] EXCEPT !.op = o, !.pc = label])
      PROVE  Informed(p, led)
  <2>. DEFINE s == [proc[p] EXCEPT !.op = o, !.pc = label]
  <2>1. s.pc = label
    BY <1>1 DEF Locals
  <2>. QED
    BY <1>a, <2>1, KnowsNothing DEF Informed
<1>2. CASE Resume(p) \/ StartWork(p) \/ RefuseWork(p) \/ StopMining(p) \/ ObtainCertificate(p)
  <2>1. led' = led
    BY <1>2 DEF Resume, StartWork, RefuseWork, StopMining, ObtainCertificate, ledger
  <2>2. Informed(p, led)
    BY <1>2, <1>a, InformedLeave, InformedGoto
       DEF Resume, StartWork, RefuseWork, StopMining, ObtainCertificate, Labels,
           AfterAttach, Asking
  <2>. QED
    BY <1>1, <2>1, <2>2, AccountedStep
<1>3. CASE BeginMint(p)
  <2>. DEFINE l == BeginOperation(led, Op(p))
  <2>1. Op(p) \in Operations /\ led[Op(p)].state = "ABSENT" /\ led[Op(p)].request = None
    <3>1. Op(p) \in Operations /\ led[Op(p)].state = "ABSENT"
      BY <1>3, AtWork DEF BeginMint, At, HandOver, Working, Labels
    <3>. QED
      BY <3>1 DEF HandOver
  <2>2. ActiveMintIndex(l) => RowsAccounted(l)
    BY <1>1, <2>1 DEF BeginOperation, SetState, RowsAccounted, RowAccounted, Table, Row,
       FailureStates
  <2>3. \A o \in Operations : led[o].request # None => l[o].request # None
    BY <1>1, <2>1 DEF BeginOperation, SetState, Table, Row
  <2>4. Goto(p, "store") => Informed(p, l)
    BY InformedGoto DEF Labels, AfterAttach, Asking
  <2>5. CASE led' = led /\ Leave(p)
    BY <1>1, <2>5, InformedLeave, AccountedStep
  <2>6. CASE led' = l /\ ActiveMintIndex(l) /\ Goto(p, "store")
    BY <1>1, <2>2, <2>3, <2>4, <2>6, AccountedStep
  <2>. QED
    BY <1>3, <2>5, <2>6 DEF BeginMint, Update, Goto
<1>4. CASE StoreCall(p)
  <2>1. proc[p].pc \in Working \ {"begin"}
    BY <1>4 DEF StoreCall, At, Working, Labels
  <2>2. RowsAccounted(led') /\ Kept(led, led')
    BY <1>1, <1>4, <2>1, NotAbsent, EarlyStatements, StatementsKeep DEF StoreCall
  <2>3. Informed(p, led')
    BY <1>4, InformedGoto DEF StoreCall, Labels, AfterAttach, Asking
  <2>. QED
    BY <1>1, <2>2, <2>3, KeptRequests, AccountedStep
<1>. QED
  BY <1>2, <1>3, <1>4 DEF Mining

LEMMA SendingAccounted ==
    ASSUME LedgerAssumption, AgentAssumption, TypeInv, HandOver, Accounted,
           NEW p \in Procs, Sending(p)
    PROVE  Accounted'
<1>1. proc[p].pc \in Working \ {"begin"}
  BY DEF At, Sending, CheckSendWindow, Simulate, SimulationFails, Commit, PrepareSubmission,
         PrepareFails, Attach, SubmitCall, SubmitAnswered, SubmitThrows, RecordHandle,
         LoseSubmission, Working, Labels
<1>2. /\ Op(p) \in Operations /\ led \in Table /\ proc[p] \in Locals
      /\ led[Op(p)].state # "ABSENT"
      /\ RowsAccounted(led) /\ RowAccounted(led[Op(p)], tx[Op(p)])
  BY <1>1, NotAbsent, AtWork DEF Accounted, RowsAccounted
<1>a. ASSUME RowsAccounted(led'), Kept(led, led'), Informed(p, led'),
             tx' = tx, handed' = handed
      PROVE  Accounted'
  BY <1>a, KeptRequests, AccountedStep
<1>b. ASSUME proc[p].pc \in AfterAttach PROVE led[Op(p)].request # None
  BY <1>b DEF Accounted, Knows, Op
<1>3. CASE CheckSendWindow(p) \/ Simulate(p) \/ SimulationFails(p) \/ PrepareSubmission(p)
           \/ SubmitAnswered(p) \/ SubmitThrows(p)
  <2>1. led' = led /\ tx' = tx /\ handed' = handed
    BY <1>3 DEF CheckSendWindow, Simulate, SimulationFails, PrepareSubmission,
       SubmitAnswered, SubmitThrows, ledger, world
  <2>2. SubmitAnswered(p) \/ SubmitThrows(p) => led[Op(p)].request # None
    BY <1>b DEF SubmitAnswered, SubmitThrows, At, AfterAttach
  <2>3. Informed(p, led)
    BY <1>3, <2>2, InformedGoto, InformedLeave DEF CheckSendWindow, Simulate,
       SimulationFails, PrepareSubmission, SubmitAnswered, SubmitThrows, Labels,
       AfterAttach, Asking
  <2>. QED
    BY <1>2, <1>a, <2>1, <2>3, KeptSame
<1>4. CASE Commit(p)
  <2>1. RowsAccounted(led') /\ Kept(led, led')
    BY <1>2, <1>4, KeptSame, StatementsKeep, EarlyStatements DEF Commit
  <2>2. Informed(p, led')
    BY <1>4, InformedGoto, InformedLeave DEF Commit, Labels, AfterAttach, Asking
  <2>. QED
    BY <1>4, <1>a, <2>1, <2>2 DEF Commit, world
<1>5. CASE PrepareFails(p)
  <2>1. tx[Op(p)] \in Ends
    BY <1>2, <1>5 DEF PrepareFails, Ends, TypeInv, TypeOK
  <2>2. RowsAccounted(led') /\ Kept(led, led')
    BY <1>2, <1>5, <2>1, ResolvingStatements, StatementsKeep
       DEF PrepareFails, FailureStates, Gas
  <2>. QED
    BY <1>5, <1>a, <2>2, InformedLeave DEF PrepareFails, world
<1>6. CASE Attach(p)
  <2>1. CASE CanAttach(led, Op(p))
    <3>. DEFINE s == [proc[p] EXCEPT !.pc = "submit", !.goal = "sent"]
    <3>1. /\ led' = AttachSubmission(led, Op(p), p, Wallet = "eoa")
          /\ Become(p, s) /\ tx' = tx /\ handed' = handed
      BY <1>6, <2>1 DEF Attach, world
    <3>2. p # None /\ led[Op(p)].state = "CERTIFICATE_READY"
      BY <2>1 DEF LedgerAssumption, AgentAssumption, CanAttach
    <3>3. /\ led'[Op(p)].state = "WALLET_SUBMITTING" /\ led'[Op(p)].request = p
          /\ \A o \in Operations : o # Op(p) => led'[o] = led[o]
      BY <1>2, <3>1 DEF AttachSubmission, Table, Row
    <3>4. RowsAccounted(led')
      BY <1>2, <3>2, <3>3 DEF RowsAccounted, RowAccounted, ActiveMintIndex, IndexedStates,
         FailureStates
    <3>5. s.pc = "submit" /\ s.op = Op(p)
      BY <1>2 DEF Locals, Op
    <3>. HIDE DEF s
    <3>6. Informed(p, led')
      BY <3>1, <3>2, <3>3, <3>5 DEF Informed, Knows, AfterAttach, Asking
    <3>. QED
      BY <3>1, <3>2, <3>3, <3>4, <3>6, AccountedStep
  <2>2. CASE ~CanAttach(led, Op(p))
    BY <1>2, <1>6, <1>a, <2>2, KeptSame, InformedLeave DEF Attach, world
  <2>. QED
    BY <2>1, <2>2
<1>7. CASE SubmitCall(p)
  (* Handed over for the first time: the wallet's answer is still to come, *)
  (* so a row that is resolved already was resolved by what ended it.      *)
  <2>1. /\ proc[p].pc = "submit" /\ handed[Op(p)] = 0 /\ led[Op(p)].request # None
    BY <1>7 DEF SubmitCall, HandOver, At
  <2>2. tx[Op(p)] \in {"none", "replaced"} /\ tx \in [Operations -> Outcomes]
        /\ handed \in [Operations -> Nat]
    BY <1>2, <2>1 DEF Accounted, TypeInv, TypeOK
  <2>3. /\ led' = led /\ handed'[Op(p)] = 1
        /\ tx'[Op(p)] = IF tx[Op(p)] = "none" THEN "transit" ELSE tx[Op(p)]
        /\ \A o \in Operations : o # Op(p) => tx'[o] = tx[o] /\ handed'[o] = handed[o]
    BY <1>2, <1>7, <2>1, <2>2 DEF SubmitCall, ledger
  <2>4. led[Op(p)].state \in FailureStates => tx'[Op(p)] \in Ends
    BY <1>2, <2>1, <2>2, <2>3 DEF RowAccounted, Ends, Outcomes
  <2>5. \A o \in Operations : RowAccounted(led'[o], tx'[o])
    <3>1. RowAccounted(led[Op(p)], tx'[Op(p)])
      BY <1>2, <2>2, <2>4 DEF RowAccounted
    <3>. QED
      BY <1>2, <2>3, <3>1 DEF RowsAccounted
  <2>6. RowsAccounted(led)'
    BY <1>2, <2>3, <2>5 DEF RowsAccounted, RowAccounted, Ends
  <2>7. ASSUME NEW q \in Procs PROVE Knows(proc[q], led)'
    <3>1. q # p => proc'[q] = proc[q]
      BY <1>7 DEF SubmitCall, Goto, Become, TypeInv, TypeOK
    <3>2. proc'[p].pc = "await" /\ proc'[p].op = Op(p)
      BY <1>2, <1>7 DEF SubmitCall, Goto, Become, TypeInv, TypeOK, Locals, Op
    <3>3. CASE q = p
      BY <2>1, <2>3, <3>2, <3>3 DEF Knows, AfterAttach, Asking
    <3>4. CASE q # p
      <4>1. Knows(proc[q], led) /\ proc'[q] = proc[q]
        BY <3>1, <3>4 DEF Accounted
      <4>2. proc[q].pc \in AfterAttach => proc[q].op \in Operations
        BY AtWork DEF AfterAttach, Asking, Working, Labels, Op
      <4>3. \A o \in Operations :
               /\ tx[o] \in {"mined", "hollow"} => tx'[o] = tx[o]
               /\ tx[o] \in Ends => tx'[o] \in Ends
        BY <2>2, <2>3 DEF Ends, Outcomes
      <4>. QED
        BY <2>3, <4>1, <4>2, <4>3 DEF Knows, AfterAttach, Asking, Ends
    <3>. QED
      BY <3>3, <3>4
  <2>8. ASSUME NEW o \in Operations
        PROVE  /\ handed'[o] = 0 => tx'[o] \in {"none", "replaced"}
               /\ Wallet = "circle" => tx'[o] # "replaced"
    BY <2>2, <2>3 DEF Accounted
  <2>. QED
    BY <2>6, <2>7, <2>8 DEF Accounted
<1>8. CASE RecordHandle(p)
  <2>1. RowsAccounted(led') /\ Kept(led, led')
    BY <1>2, <1>8, EarlyStatements, StatementsKeep DEF RecordHandle
  <2>2. led'[Op(p)].request # None
    BY <1>2, <1>8, <1>b, <2>1 DEF RecordHandle, At, AfterAttach, Kept
  <2>3. Informed(p, led')
    BY <1>8, <2>2, InformedGoto, InformedBack DEF RecordHandle, Labels, Asking
  <2>. QED
    BY <1>8, <1>a, <2>1, <2>3 DEF RecordHandle, world
<1>9. CASE LoseSubmission(p)
  <2>. DEFINE l == MarkSubmissionUnknown(led, Op(p))
  <2>1. led[Op(p)].request # None
    BY <1>9, <1>b DEF LoseSubmission, At, AfterAttach
  <2>2. Kept(led, l)
    BY <1>2, StatementsKeep DEF MarkSubmissionUnknown, LedgerStates, Before
  <2>3. ActiveMintIndex(l) => RowsAccounted(l)
    BY <1>2, <2>1, OpenStatements DEF MarkSubmissionUnknown
  <2>4. l[Op(p)].request # None
    BY <1>2, <2>1, <2>2 DEF Kept
  <2>5. CASE led' = l /\ ActiveMintIndex(l) /\ Goto(p, "check")
    BY <1>9, <2>2, <2>3, <2>4, <2>5, <1>a, InformedGoto DEF LoseSubmission, world, Labels, Asking
  <2>6. CASE led' = led /\ Leave(p)
    BY <1>2, <1>9, <2>6, <1>a, InformedLeave, KeptSame DEF LoseSubmission, world
  <2>. QED
    BY <1>9, <2>5, <2>6 DEF LoseSubmission, Update, Goto
<1>. QED
  BY <1>3, <1>4, <1>5, <1>6, <1>7, <1>8, <1>9 DEF Sending

(* Outside, an outcome that anyone knows of is final. *)
LEMMA OutsideAccounted ==
    ASSUME TypeInv, HandOver, Accounted, NEW o \in Operations, Outside(o)
    PROVE  Accounted'
<1>1. led' = led /\ proc' = proc /\ handed' = handed
  BY DEF Outside, Accept, Vanish, Land, Revert, LandHollow, UseNonce, NearExpiry, Expire,
         Moves, ledger
<1>2. tx' \in [Operations -> Outcomes]
  BY OutsideTypes DEF TypeInv, TypeOK
<1>3. ASSUME NEW other \in Operations
      PROVE  /\ tx[other] \in {"mined", "hollow"} => tx'[other] = tx[other]
             /\ tx[other] \in Ends => tx'[other] \in Ends
             /\ handed[other] = 0 => tx'[other] \in {"none", "replaced"}
             /\ Wallet = "circle" => tx'[other] # "replaced"
  <2>1. handed[other] = 0 => tx[other] \in {"none", "replaced"}
    BY DEF Accounted
  <2>2. Wallet = "circle" => tx[other] # "replaced"
    BY DEF Accounted
  <2>3. CASE tx'[other] = tx[other]
    BY <2>1, <2>2, <2>3
  <2>4. CASE /\ tx[other] \in {"none", "transit", "pending"}
             /\ tx[other] = "none" => tx'[other] = "replaced"
             /\ tx'[other] = "replaced" => Wallet # "circle"
    BY <1>2, <2>1, <2>4 DEF Ends, Outcomes
  <2>5. tx \in [Operations -> Outcomes]
    BY DEF TypeInv, TypeOK
  <2>. QED
    BY <2>3, <2>4, <2>5 DEF Outside, Accept, Vanish, Land, Revert, LandHollow, UseNonce,
       NearExpiry, Expire, Moves
<1>4. RowsAccounted(led)'
  BY <1>1, <1>3 DEF Accounted, RowsAccounted, RowAccounted, Ends
<1>5. ASSUME NEW p \in Procs PROVE Knows(proc[p], led)'
  <2>1. Knows(proc[p], led)
    BY DEF Accounted
  <2>2. proc[p].pc \in AfterAttach => proc[p].op \in Operations
    BY AtWork DEF AfterAttach, Asking, Working, Labels, Op
  <2>. QED
    BY <1>1, <1>3, <2>1, <2>2 DEF Knows, AfterAttach, Asking, Ends
<1>. QED
  BY <1>1, <1>3, <1>4, <1>5 DEF Accounted

LEMMA StepAccounted ==
    ASSUME LedgerAssumption, AgentAssumption, TypeInv, HandOver, Accounted, [Next]_vars
    PROVE  Accounted'
<1>1. CASE \E p \in Procs : Command(p) \/ Recovery(p) \/ Mining(p) \/ Sending(p)
  BY <1>1, CommandAccounted, RecoveryAccounted, MiningAccounted, SendingAccounted
<1>2. CASE \E o \in Operations : Outside(o)
  BY <1>2, OutsideAccounted
<1>3. CASE AuthorizationExpires \/ UNCHANGED vars
  <2>1. led' = led /\ proc' = proc /\ tx' = tx /\ handed' = handed
    BY <1>3 DEF AuthorizationExpires, vars, world
  <2>. QED
    BY <2>1 DEF Accounted, RowsAccounted, RowAccounted, Knows, Ends
<1>. QED
  BY <1>1, <1>2, <1>3 DEF Next

LEMMA InitAccounted == ASSUME Init PROVE Accounted
<1>1. \A p \in Procs : Knows(proc[p], led)
  BY KnowsNothing DEF Init, Idle, AfterAttach, Asking
<1>. QED
  BY <1>1 DEF Init, Accounted, RowsAccounted, RowAccounted, ActiveMintIndex, EmptyRow,
     IndexedStates, FailureStates

(* The ledger, what each process has read of it and the chain agree: a     *)
(* row is ended as its Mint has ended, one that may be out is indexed,     *)
(* and a Mint nobody was handed is nowhere (recoverOperation, agent.ts;    *)
(* operations_active_mint, ledger.ts).                                     *)
THEOREM AccountedHolds == Spec => []Accounted
<1>1. Init => Accounted
  BY InitAccounted
<1>2. TypeInv /\ HandOver /\ Accounted /\ [Next]_vars => Accounted'
  BY StepAccounted, LedgerAssumption, AgentAssumption
<1>. QED
  BY <1>1, <1>2, TypeInvHolds, HandOverHolds, PTL DEF Spec

(* The ledger shows a Mint as confirmed only when the chain issued it,     *)
(* whatever wallet, fault, race or crash was met on the way.               *)
ConfirmedIsIssued ==
    \A o \in Operations : led[o].state = "MINT_CONFIRMED" => Issued(o)

THEOREM ConfirmedOnlyIfIssued == Spec => []ConfirmedIsIssued
<1>1. Accounted => ConfirmedIsIssued
  BY DEF Accounted, RowsAccounted, RowAccounted, ConfirmedIsIssued, Issued
<1>. QED
  BY <1>1, AccountedHolds, PTL

(* As long as no preparation fails, a Mint that may still come to something *)
(* is unresolved in the ledger, and the unique index leaves room for one.  *)
LEMMA OutIsIndexed ==
    ASSUME TypeInv, HandOver, Accounted, "prepareFails" \notin Faults,
           NEW o \in Operations, tx[o] \in {"transit", "pending"}
    PROVE  led[o].state \in IndexedStates
<1>1. handed[o] # 0 /\ handed[o] \in Nat
  BY DEF Accounted, TypeInv, TypeOK
<1>2. led[o].request # None /\ led[o].state \notin {"ABSENT", "CERTIFICATE_READY"}
  BY <1>1 DEF HandOver
<1>3. tx[o] \notin Ends
  BY DEF Ends
<1>4. led[o].state \in LedgerStates
  BY DEF TypeInv, TypeOK, Row
<1>. QED
  BY <1>2, <1>3, <1>4 DEF Accounted, RowsAccounted, RowAccounted, LedgerStates,
     IndexedStates, FailureStates

(* Two Mints of a wallet are never out at once, with any wallet and any    *)
(* number of processes, as long as no preparation fails.                   *)
THEOREM OneOut ==
    ASSUME "prepareFails" \notin Faults
    PROVE  Spec => []OneMintOut
<1>1. TypeInv /\ HandOver /\ Accounted => OneMintOut
  BY OutIsIndexed DEF OneMintOut, Accounted, RowsAccounted, ActiveMintIndex
<1>. QED
  BY <1>1, TypeInvHolds, HandOverHolds, AccountedHolds, PTL

(* With a Circle wallet whose chain node keeps up, a row is failed only    *)
(* when its Mint is over.                                                  *)
Candid == Wallet = "circle" /\ "prepareFails" \notin Faults /\ "chainLags" \notin Faults

LEMMA FailedOver ==
    ASSUME Candid, TypeInv, HandOver, Accounted, NEW o \in Operations,
           led[o].state \in FailureStates
    PROVE  tx[o] \in {"none", "hollow", "reverted"}
<1>1. CASE led[o].request # None
  BY <1>1 DEF Accounted, RowsAccounted, RowAccounted, Ends, Candid
<1>2. CASE led[o].request = None
  <2>1. handed[o] = 0
    BY <1>2 DEF HandOver, TypeInv, TypeOK
  <2>. QED
    BY <2>1 DEF Accounted, Candid
<1>. QED
  BY <1>1, <1>2

(* A Mint the ledger shows as FAILED or REPLACED never issues an Arcal     *)
(* afterwards (recoverOperation, agent.ts), with the wallet and the node   *)
(* of Candid.                                                              *)
THEOREM FailedOnlyIfOver ==
    ASSUME Candid
    PROVE  Spec => []FailedIsOver
<1>1. TypeInv /\ HandOver /\ Accounted => FailedIsOver
  BY FailedOver DEF FailedIsOver
<1>. QED
  BY <1>1, TypeInvHolds, HandOverHolds, AccountedHolds, PTL

------------------------------------------------------------------------------
(* Every step keeps the promise of MintPromise or leaves it alone.         *)

ChainOf(o) ==
    IF handed[o] = 0 THEN "unsent"
    ELSE CASE tx[o] = "none" -> "lost"
           [] tx[o] \in {"transit", "pending"} -> "out"
           [] tx[o] = "mined" -> "minted"
           [] OTHER -> "void"

ToldOf(o) ==
    CASE led[o].state = "MINT_CONFIRMED" -> "minted"
      [] led[o].state \in FailureStates -> "failed"
      [] OTHER -> "open"

Chain == [o \in Operations |-> ChainOf(o)]
Told == [o \in Operations |-> ToldOf(o)]

PromiseStep == Promise!Next \/ UNCHANGED <<Chain, Told>>

(* The actions of MintPromise, told of Chain and Told. *)
LEMMA SendStep ==
    ASSUME NEW o \in Operations, Chain[o] = "unsent", Told[o] = "open",
           \A other \in Operations : Chain[other] # "out",
           Chain' = [Chain EXCEPT ![o] = "out"], Told' = Told
    PROVE  PromiseStep
BY Zenon DEF PromiseStep, Promise!Next, Promise!Send, Chain, Told, ChainOf, ToldOf

LEMMA EndStep ==
    ASSUME NEW o \in Operations, NEW end \in {"lost", "minted", "void"}, Chain[o] = "out",
           Chain' = [Chain EXCEPT ![o] = end], Told' = Told
    PROVE  PromiseStep
BY Zenon DEF PromiseStep, Promise!Next, Promise!End, Chain, Told, ChainOf, ToldOf

LEMMA TellMintedStep ==
    ASSUME NEW o \in Operations, Chain[o] = "minted", Chain' = Chain,
           Told' = [Told EXCEPT ![o] = "minted"]
    PROVE  PromiseStep
BY Zenon DEF PromiseStep, Promise!Next, Promise!TellMinted, Chain, Told, ChainOf, ToldOf

LEMMA TellFailedStep ==
    ASSUME NEW o \in Operations, Chain[o] \in {"unsent", "lost", "void"}, Chain' = Chain,
           Told' = [Told EXCEPT ![o] = "failed"]
    PROVE  PromiseStep
BY Zenon DEF PromiseStep, Promise!Next, Promise!TellFailed, Chain, Told, ChainOf, ToldOf

LEMMA ReopenStep ==
    ASSUME NEW o \in Operations, Told[o] # "open", Chain' = Chain,
           Told' = [Told EXCEPT ![o] = "open"]
    PROVE  PromiseStep
BY Zenon DEF PromiseStep, Promise!Next, Promise!Reopen, Chain, Told, ChainOf, ToldOf

LEMMA StutterStep == ASSUME Chain' = Chain, Told' = Told PROVE PromiseStep
BY DEF PromiseStep

(* What one changed row comes to: the new invariant alone says that the    *)
(* ledger tells the truth about it.                                        *)
LEMMA RowStep ==
    ASSUME Candid, (TypeInv /\ HandOver /\ Accounted)', NEW o \in Operations,
           \A other \in Operations : other # o => led'[other] = led[other],
           tx' = tx, handed' = handed
    PROVE  PromiseStep
<1>1. Chain' = Chain
  BY DEF Chain, ChainOf
<1>2. Told' = [Told EXCEPT ![o] = ToldOf(o)']
  <2>1. \A other \in Operations : other # o => ToldOf(other)' = ToldOf(other)
    BY Zenon DEF ToldOf
  <2>. QED
    BY <2>1 DEF Told
<1>3. Chain[o] = ChainOf(o) /\ Told[o] = ToldOf(o)
  BY DEF Chain, Told
<1>4. CASE led'[o].state = "MINT_CONFIRMED"
  <2>1. tx[o] = "mined"
    BY <1>4 DEF Accounted, RowsAccounted, RowAccounted
  <2>2. handed[o] # 0
    BY <2>1 DEF Accounted
  <2>3. Chain[o] = "minted" /\ ToldOf(o)' = "minted"
    BY <1>3, <1>4, <2>1, <2>2 DEF ChainOf, ToldOf, FailureStates
  <2>. QED
    BY <1>1, <1>2, <2>3, TellMintedStep
<1>5. CASE led'[o].state \in FailureStates
  <2>1. tx'[o] \in {"none", "hollow", "reverted"}
    BY <1>5 DEF Accounted, RowsAccounted, RowAccounted, Ends, Candid, HandOver, TypeInv, TypeOK
  <2>2. Chain[o] \in {"unsent", "lost", "void"} /\ ToldOf(o)' = "failed"
    BY <1>3, <1>5, <2>1 DEF ChainOf, ToldOf, FailureStates
  <2>. QED
    BY <1>1, <1>2, <2>2, TellFailedStep
<1>6. CASE led'[o].state \notin FailureStates \cup {"MINT_CONFIRMED"}
  <2>1. ToldOf(o)' = "open"
    BY <1>6 DEF ToldOf
  <2>2. CASE Told[o] = "open"
    <3>1. Told' = Told
      BY <1>2, <2>1, <2>2 DEF Told
    <3>. QED
      BY <1>1, <3>1, StutterStep
  <2>3. CASE Told[o] # "open"
    BY <1>1, <1>2, <2>1, <2>3, ReopenStep
  <2>. QED
    BY <2>2, <2>3
<1>. QED
  BY <1>4, <1>5, <1>6

(* A process writes no row but the one it works on. *)
OnlyRow(o, l, m) == \A other \in Operations : other # o => m[other] = l[other]

LEMMA StatementsWriteOneRow ==
    ASSUME NEW o, NEW l \in Table
    PROVE  /\ OnlyRow(o, l, l)
           /\ \A s : OnlyRow(o, l, SetState(l, o, s))
           /\ OnlyRow(o, l, SetPendingCall(l, o))
           /\ \A gas : OnlyRow(o, l, SetOperationCommitment(l, o, gas))
           /\ \A caller, h : OnlyRow(o, l, AttachSubmission(l, o, caller, h))
           /\ OnlyRow(o, l, RecordWalletHandle(l, o))
           /\ \A h : OnlyRow(o, l, MarkPending(l, o, h))
           /\ \A gas : OnlyRow(o, l, ResolveConfirmed(l, o, gas))
           /\ \A s, gas : OnlyRow(o, l, ResolveFailure(l, o, s, gas))
           /\ OnlyRow(o, l, ResolveUnsentFailure(l, o))
BY DEF OnlyRow, SetState, SetPendingCall, SetOperationCommitment, AttachSubmission,
   RecordWalletHandle, MarkPending, ResolveConfirmed, ResolveFailure, ResolveUnsentFailure,
   Table

LEMMA OneRowWritten ==
    ASSUME TypeInv, NEW p \in Procs, Recovery(p) \/ Mining(p) \/ Sending(p)
    PROVE  OnlyRow(Op(p), led, led')
<1>1. led \in Table
  BY DEF TypeInv, TypeOK, Table
<1>2. OnlyRow(Op(p), led, WithHandle(p)) /\ (proc[p].pc \in Working => WithHandle(p) \in Table)
  BY <1>1, StatementsWriteOneRow, HandledType DEF WithHandle
<1>3. ASSUME NEW l, OnlyRow(Op(p), led, WithHandle(p)), OnlyRow(Op(p), WithHandle(p), l)
      PROVE  OnlyRow(Op(p), led, l)
  BY <1>3 DEF OnlyRow
<1>4. CASE Recovery(p)
  <2>1. CASE Release(p)
    BY <1>1, <2>1, StatementsWriteOneRow DEF Release
  <2>2. CASE MarkRecoveringRow(p)
    BY <1>1, <2>2, StatementsWriteOneRow DEF MarkRecoveringRow, MarkRecovering, Update
  <2>3. CASE SettleIssued(p) \/ RecheckIssued(p)
    BY <1>1, <2>3, StatementsWriteOneRow DEF SettleIssued, RecheckIssued
  <2>4. CASE SettlePending(p) \/ SettleConfirmed(p) \/ SettleFailed(p) \/ SettleUnknown(p)
    <3>1. WithHandle(p) \in Table
      BY <1>2, <2>4 DEF SettlePending, SettleConfirmed, SettleFailed, SettleUnknown, At,
         Working, Labels
    <3>2. OnlyRow(Op(p), WithHandle(p), led')
      BY <2>4, <3>1, StatementsWriteOneRow DEF SettlePending, SettleConfirmed, SettleFailed,
         SettleUnknown, MarkSubmissionUnknown
    <3>. QED
      BY <1>2, <1>3, <3>2
  <2>5. CASE \/ Probe(p) \/ CheckUnresolved(p) \/ ReadIssued(p) \/ QueryCircle(p)
             \/ ReadReceipt(p) \/ LookupTransaction(p) \/ CountTransactions(p)
    BY <1>1, <2>5, StatementsWriteOneRow DEF Probe, CheckUnresolved, ReadIssued, QueryCircle,
       ReadReceipt, LookupTransaction, CountTransactions, ledger
  <2>. QED
    BY <1>4, <2>1, <2>2, <2>3, <2>4, <2>5 DEF Recovery
<1>5. CASE Mining(p)
  BY <1>1, <1>5, StatementsWriteOneRow DEF Mining, Resume, StartWork, RefuseWork, StopMining,
     ObtainCertificate, BeginMint, BeginOperation, Update, StoreCall, ledger
<1>6. CASE Sending(p)
  <2>1. CASE Commit(p) \/ PrepareFails(p) \/ Attach(p) \/ RecordHandle(p) \/ LoseSubmission(p)
    BY <1>1, <2>1, StatementsWriteOneRow DEF Commit, PrepareFails, Attach, RecordHandle,
       LoseSubmission, Update, MarkSubmissionUnknown
  <2>2. CASE ~(Commit(p) \/ PrepareFails(p) \/ Attach(p) \/ RecordHandle(p) \/ LoseSubmission(p))
    BY <1>1, <1>6, <2>2, StatementsWriteOneRow DEF Sending, CheckSendWindow, Simulate,
       SimulationFails, PrepareSubmission, SubmitCall, SubmitAnswered, SubmitThrows, ledger
  <2>. QED
    BY <2>1, <2>2
<1>. QED
  BY <1>4, <1>5, <1>6

LEMMA SubmitCallStep ==
    ASSUME Candid, TypeInv, HandOver, Accounted, NEW p \in Procs, SubmitCall(p)
    PROVE  PromiseStep
<1>0. proc[p].pc = "submit" /\ Op(p) \in Operations /\ led[Op(p)] \in Row
  BY AtWork DEF SubmitCall, At, Working, Labels
<1>. SUFFICES ASSUME NEW o \in Operations, o = Op(p) PROVE PromiseStep
  BY <1>0
<1>1. /\ handed[o] = 0 /\ led[o].request # None
      /\ led[o].state \notin {"ABSENT", "CERTIFICATE_READY"} /\ led[o].state \in LedgerStates
  BY <1>0 DEF HandOver, At, Row
<1>2. tx[o] = "none" /\ tx \in [Operations -> Outcomes] /\ handed \in [Operations -> Nat]
  BY <1>1 DEF Accounted, Candid, TypeInv, TypeOK
<1>3. led[o].state \in IndexedStates
  BY <1>1, <1>2 DEF Accounted, RowsAccounted, RowAccounted, Ends, Candid, LedgerStates,
     IndexedStates, FailureStates
<1>4. \A other \in Operations : Chain[other] # "out"
  <2>. SUFFICES ASSUME NEW other \in Operations, Chain[other] = "out" PROVE FALSE
    OBVIOUS
  <2>1. handed[other] # 0 /\ tx[other] \in {"transit", "pending"}
    BY DEF Chain, ChainOf
  <2>2. led[other].state \in IndexedStates
    BY <2>1, OutIsIndexed DEF Candid
  <2>3. other = o
    BY <1>1, <1>3, <2>2 DEF Accounted, RowsAccounted, ActiveMintIndex
  <2>. QED
    BY <1>1, <2>1, <2>3
<1>5. Chain[o] = "unsent" /\ Told[o] = "open"
  <2>1. Told[o] = "open"
    BY <1>1, <1>3 DEF Told, ToldOf, IndexedStates, FailureStates
  <2>. QED
    BY <1>1, <2>1 DEF Chain, ChainOf
<1>6. /\ handed'[o] = 1 /\ tx'[o] = "transit" /\ led' = led
      /\ \A other \in Operations :
            other # o => tx'[other] = tx[other] /\ handed'[other] = handed[other]
  BY <1>1, <1>2 DEF SubmitCall, ledger
<1>7. Told' = Told
  BY <1>6 DEF Told, ToldOf
<1>8. Chain' = [Chain EXCEPT ![o] = "out"]
  <2>1. ChainOf(o)' = "out"
    BY <1>6 DEF ChainOf
  <2>2. \A other \in Operations : other # o => ChainOf(other)' = ChainOf(other)
    BY <1>6 DEF ChainOf
  <2>. QED
    BY <2>1, <2>2 DEF Chain
<1>. QED
  BY <1>1, <1>4, <1>5, <1>7, <1>8, SendStep

LEMMA OutsideStep ==
    ASSUME Candid, TypeInv, Accounted, NEW o \in Operations, Outside(o)
    PROVE  PromiseStep
<1>1. led' = led /\ handed' = handed /\ tx \in [Operations -> Outcomes]
  BY DEF Outside, Accept, Vanish, Land, Revert, LandHollow, UseNonce, NearExpiry, Expire,
         Moves, ledger, TypeInv, TypeOK
<1>2. Told' = Told
  BY <1>1 DEF Told, ToldOf
<1>3. CASE NearExpiry(o) \/ Expire(o)
  <2>1. tx' = tx
    BY <1>3 DEF NearExpiry, Expire
  <2>2. Chain' = Chain
    BY <1>1, <2>1 DEF Chain, ChainOf
  <2>. QED
    BY <1>2, <2>2, StutterStep
<1>4. CASE Accept(o) \/ Vanish(o) \/ Land(o) \/ Revert(o) \/ LandHollow(o)
  <2>1. /\ tx[o] \in {"transit", "pending"}
        /\ tx'[o] \in {"none", "pending", "mined", "reverted", "hollow"}
        /\ \A other \in Operations : other # o => tx'[other] = tx[other]
    BY <1>1, <1>4 DEF Accept, Vanish, Land, Revert, LandHollow, Moves
  <2>2. handed[o] # 0
    BY <2>1 DEF Accounted
  <2>3. Chain[o] = "out" /\ ChainOf(o)' \in {"out", "lost", "minted", "void"}
    <3>1. ChainOf(o) = "out"
      BY <2>1, <2>2 DEF ChainOf
    <3>2. ChainOf(o)' \in {"out", "lost", "minted", "void"}
      BY <1>1, <2>1, <2>2 DEF ChainOf
    <3>. QED
      BY <3>1, <3>2 DEF Chain
  <2>4. Chain' = [Chain EXCEPT ![o] = ChainOf(o)']
    <3>1. \A other \in Operations : other # o => ChainOf(other)' = ChainOf(other)
      BY <1>1, <2>1 DEF ChainOf
    <3>. QED
      BY <3>1 DEF Chain
  <2>5. CASE ChainOf(o)' = "out"
    <3>1. Chain' = Chain
      BY <2>3, <2>4, <2>5 DEF Chain
    <3>. QED
      BY <1>2, <3>1, StutterStep
  <2>6. CASE ChainOf(o)' \in {"lost", "minted", "void"}
    BY <1>2, <2>3, <2>4, <2>6, EndStep
  <2>. QED
    BY <2>3, <2>5, <2>6
<1>. QED
  BY <1>3, <1>4 DEF Outside, UseNonce, Candid

(* What the owner is promised: a Mint leaves at most once and never beside *)
(* another, is reported minted only when issued and failed only when over. *)
(* Every step of every process and of the world is a step of MintPromise   *)
(* or changes nothing of it.                                               *)
THEOREM KeepsPromise ==
    ASSUME Candid
    PROVE  Spec => ImplementsPromise
<1>1. Init => Promise!Init
  <2>1. Init => /\ [o \in Operations |-> "unsent"] = Chain
                /\ [o \in Operations |-> "open"] = Told
    BY DEF Init, Chain, ChainOf, Told, ToldOf, EmptyRow, FailureStates
  <2>. QED
    BY <2>1, Zenon DEF Promise!Init, Chain, ChainOf, Told, ToldOf
<1>2. TypeInv /\ HandOver /\ Accounted /\ (TypeInv /\ HandOver /\ Accounted)' /\ [Next]_vars
         => PromiseStep
  <2>. SUFFICES ASSUME TypeInv, HandOver, Accounted, (TypeInv /\ HandOver /\ Accounted)',
                       [Next]_vars
                PROVE  PromiseStep
    OBVIOUS
  <2>1. ASSUME led' = led, tx' = tx, handed' = handed
        PROVE  PromiseStep
    BY <2>1, StutterStep DEF Chain, ChainOf, Told, ToldOf
  <2>2. ASSUME NEW p \in Procs, Command(p)
        PROVE  PromiseStep
    BY <2>1, <2>2 DEF Command, Status, MineOnce, Run, RunIteration, RequestStop,
       RevokeAuthorization, Authorize, ClearStop, Abort, ledger, world
  <2>3. ASSUME NEW p \in Procs, Recovery(p) \/ Mining(p) \/ Sending(p), ~SubmitCall(p)
        PROVE  PromiseStep
    <3>1. tx' = tx /\ handed' = handed
      BY <2>3 DEF Recovery, Probe, Release, CheckUnresolved, MarkRecoveringRow, ReadIssued,
         QueryCircle, ReadReceipt, LookupTransaction, CountTransactions, SettleIssued,
         SettlePending, SettleConfirmed, RecheckIssued, SettleFailed, SettleUnknown,
         Mining, Resume, StartWork, RefuseWork, StopMining, ObtainCertificate, BeginMint,
         StoreCall, Sending, CheckSendWindow, Simulate, SimulationFails, Commit,
         PrepareSubmission, PrepareFails, Attach, SubmitAnswered, SubmitThrows,
         RecordHandle, LoseSubmission, world
    <3>2. \A other \in Operations : other # Op(p) => led'[other] = led[other]
      BY <2>3, OneRowWritten DEF OnlyRow
    <3>3. CASE Op(p) \in Operations
      BY <3>1, <3>2, <3>3, RowStep
    <3>4. CASE Op(p) \notin Operations
      <4>1. led \in Table /\ led' \in Table
        BY DEF TypeInv, TypeOK, Table
      <4>2. led' = led
        BY <3>2, <3>4, <4>1 DEF Table
      <4>. QED
        BY <2>1, <3>1, <4>2
    <3>. QED
      BY <3>3, <3>4
  <2>4. ASSUME NEW p \in Procs, SubmitCall(p) PROVE PromiseStep
    BY <2>4, SubmitCallStep
  <2>5. ASSUME NEW o \in Operations, Outside(o) PROVE PromiseStep
    BY <2>5, OutsideStep
  <2>6. CASE AuthorizationExpires \/ UNCHANGED vars
    BY <2>1, <2>6 DEF AuthorizationExpires, vars, world
  <2>. QED
    BY <2>2, <2>3, <2>4, <2>5, <2>6 DEF Next
<1>3. PromiseStep => [Promise!Next]_<<Chain, Told>>
  BY DEF PromiseStep
<1>. QED
  BY <1>1, <1>2, <1>3, TypeInvHolds, HandOverHolds, AccountedHolds, PTL
     DEF Spec, ImplementsPromise, Promise!Spec, Chain, Told, ChainOf, ToldOf

------------------------------------------------------------------------------
(* The budget of an unattended runner.                                     *)

(* A sum over nothing, and over one: what a wallet with one active Mint has *)
(* reserved.  Sums over more are only compared with themselves.            *)
LEMMA EmptySum == ASSUME NEW f PROVE SumFunctionOnSet(f, {}) = 0
<1> DEFINE E(g, s) == IF s = {} THEN 0
                      ELSE f[CHOOSE x \in s : TRUE] + g[s \ {CHOOSE x \in s : TRUE}]
           Rec(g) == g = [s \in SUBSET {} |-> E(g, s)]
           It == CHOOSE g : Rec(g)
<1>1. SumFunctionOnSet(f, {}) = It[{}]
  BY DEF SumFunctionOnSet, FoldFunctionOnSet, MapThenFoldSet
<1>2. Rec([s \in SUBSET {} |-> 0])
  OBVIOUS
<1> HIDE DEF Rec
<1>3. Rec(It)
  BY <1>2
<1>4. It[{}] = 0
  BY <1>3 DEF Rec
<1> QED BY <1>1, <1>4

LEMMA SingleSum == ASSUME NEW f, NEW a, f[a] \in Nat PROVE SumFunctionOnSet(f, {a}) = f[a]
<1> DEFINE E(g, s) == IF s = {} THEN 0
                      ELSE f[CHOOSE x \in s : TRUE] + g[s \ {CHOOSE x \in s : TRUE}]
           Rec(g) == g = [s \in SUBSET {a} |-> E(g, s)]
           It == CHOOSE g : Rec(g)
           Sol == [s \in SUBSET {a} |-> IF s = {} THEN 0 ELSE f[a]]
<1>1. SumFunctionOnSet(f, {a}) = It[{a}]
  BY DEF SumFunctionOnSet, FoldFunctionOnSet, MapThenFoldSet
<1>2. Rec(Sol)
  <2>1. ASSUME NEW s \in SUBSET {a} PROVE Sol[s] = E(Sol, s)
    <3>1. CASE s = {}
      BY <3>1
    <3>2. CASE s # {}
      <4>1. s = {a}
        BY <3>2
      <4>2. (CHOOSE x \in s : TRUE) = a
        BY <4>1
      <4>3. Sol[s \ {a}] = 0
        BY <4>1
      <4> QED BY <4>1, <4>2, <4>3
    <3> QED BY <3>1, <3>2
  <2> HIDE DEF E
  <2> QED BY <2>1
<1> HIDE DEF Rec
<1>3. Rec(It)
  BY <1>2
<1>4. It[{a}] = E(It, {a}) /\ It[{}] = E(It, {})
  BY <1>3 DEF Rec
<1>5. (CHOOSE x \in {a} : TRUE) = a /\ {a} \ {a} = {}
  OBVIOUS
<1>6. It[{a}] = f[a] + 0
  BY <1>4, <1>5
<1> QED BY <1>1, <1>6

LEMMA Reserved ==
    ASSUME LedgerAssumption, NEW l \in Table
    PROVE  /\ ReservedFee(l, {}) = 0 /\ ReservedGas(l, {}) = 0
           /\ \A o \in Operations : /\ ReservedFee(l, {o}) = l[o].feeCommitted
                                   /\ ReservedGas(l, {o}) = l[o].gasCommitted
<1>1. ReservedFee(l, {}) = 0 /\ ReservedGas(l, {}) = 0
  <2>1. DOMAIN [o \in {} |-> l[o].feeCommitted] = {} /\ DOMAIN [o \in {} |-> l[o].gasCommitted] = {}
    OBVIOUS
  <2> QED BY <2>1, EmptySum DEF ReservedFee, ReservedGas, SumFunction
<1>2. ASSUME NEW o \in Operations
      PROVE  /\ ReservedFee(l, {o}) = l[o].feeCommitted
             /\ ReservedGas(l, {o}) = l[o].gasCommitted
  <2> DEFINE f == [x \in {o} |-> l[x].feeCommitted]
             g == [x \in {o} |-> l[x].gasCommitted]
  <2>1. /\ DOMAIN f = {o} /\ f[o] = l[o].feeCommitted
        /\ DOMAIN g = {o} /\ g[o] = l[o].gasCommitted
    OBVIOUS
  <2>2. f[o] \in Nat /\ g[o] \in Nat
    <3>1. l[o].feeCommitted \in {0, MintFee} /\ l[o].gasCommitted \in Gas
      BY l[o] \in Row DEF Table, Row
    <3>2. MintFee \in Nat /\ Gas \subseteq Nat
      BY LedgerAssumption DEF LedgerAssumption, Gas
    <3>3. l[o].feeCommitted \in Nat
      BY <3>1, <3>2
    <3>4. l[o].gasCommitted \in Nat
      BY <3>1, <3>2
    <3> HIDE DEF f, g
    <3> QED BY <2>1, <3>3, <3>4, Zenon
  <2>3. ReservedFee(l, {o}) = SumFunctionOnSet(f, {o})
        /\ ReservedGas(l, {o}) = SumFunctionOnSet(g, {o})
    BY <2>1 DEF ReservedFee, ReservedGas, SumFunction
  <2> HIDE DEF f, g
  <2> QED BY <2>1, <2>2, <2>3, SingleSum
<1> QED BY <1>1, <1>2

(* What a row has cost fits its state, and a row with a request has the    *)
(* fee committed.                                                          *)
FeeBooked(r) ==
    /\ r.state = "MINT_CONFIRMED" => r.feeSpent = MintFee
    /\ r.state \in FailureStates \cup {"ABSENT"} => r.feeSpent = 0
    /\ r.request # None => r.feeCommitted = MintFee

(* Between its commitment and the hand-over. *)
Handing == {"prepare", "attach", "submit"}

(* One more Mint fits the limits. *)
Room ==
    /\ Cardinality(Confirmed(led)) + 1 <= Limits.mints
    /\ SpentFee(led) + MintFee <= Limits.fee

(* p may still hand over the Mint whose budget it has asked for. *)
Fitting(p) ==
    /\ proc[p].unattended
    /\ proc[p].pc \in Handing
    /\ proc[p].pc = "submit" \/ led[Op(p)].state = "CERTIFICATE_READY"

Budgeted ==
    /\ \A o \in Operations : FeeBooked(led[o])
    /\ \A p \in Procs : proc[p].pc \in {"prepare", "attach"}
                            => led[Op(p)].feeCommitted = MintFee
    /\ \A p \in Procs : Fitting(p) => Room

(* How a statement may change the fees of a row r to those of s. *)
Charges(r, s) ==
    /\ s.feeCommitted \in {r.feeCommitted, MintFee}
    /\ FeeBooked(s)
    /\ s.state \in IndexedStates => s.feeSpent = r.feeSpent
    /\ s.state = "CERTIFICATE_READY" => r.state \in {"CERTIFICATE_READY", "ABSENT"}

LEMMA StatementsCharge ==
    ASSUME NEW l \in Table, NEW o \in Operations, FeeBooked(l[o])
    PROVE  /\ Charges(l[o], l[o])
           /\ \A s \in {"SUBMISSION_UNKNOWN", "RECOVERING"} :
                 Charges(l[o], SetState(l, o, s)[o])
           /\ l[o].state = "ABSENT" => Charges(l[o], BeginOperation(l, o)[o])
           /\ Charges(l[o], SetPendingCall(l, o)[o])
           /\ \A gas : Charges(l[o], SetOperationCommitment(l, o, gas)[o])
           /\ \A caller, h : l[o].feeCommitted = MintFee
                 => Charges(l[o], AttachSubmission(l, o, caller, h)[o])
           /\ \A h : Charges(l[o], MarkPending(l, o, h)[o])
           /\ \A gas : l[o].request # None => Charges(l[o], ResolveConfirmed(l, o, gas)[o])
           /\ \A s \in FailureStates : \A gas : Charges(l[o], ResolveFailure(l, o, s, gas)[o])
           /\ Charges(l[o], ResolveUnsentFailure(l, o)[o])
<1> USE DEF Table, Row, Charges, FeeBooked, IndexedStates, FailureStates
<1>1. Charges(l[o], l[o])
  OBVIOUS
<1>2. ASSUME NEW s \in {"SUBMISSION_UNKNOWN", "RECOVERING"}
      PROVE  Charges(l[o], SetState(l, o, s)[o])
  BY DEF SetState
<1>3. ASSUME l[o].state = "ABSENT" PROVE Charges(l[o], BeginOperation(l, o)[o])
  BY <1>3 DEF BeginOperation, SetState
<1>4. Charges(l[o], SetPendingCall(l, o)[o])
  BY DEF SetPendingCall
<1>5. ASSUME NEW gas PROVE Charges(l[o], SetOperationCommitment(l, o, gas)[o])
  BY DEF SetOperationCommitment
<1>6. ASSUME NEW caller, NEW h, l[o].feeCommitted = MintFee
      PROVE  Charges(l[o], AttachSubmission(l, o, caller, h)[o])
  BY <1>6 DEF AttachSubmission
<1>7. ASSUME NEW h PROVE Charges(l[o], MarkPending(l, o, h)[o])
  BY DEF MarkPending
<1>8. ASSUME NEW gas, l[o].request # None PROVE Charges(l[o], ResolveConfirmed(l, o, gas)[o])
  BY <1>8 DEF ResolveConfirmed
<1>9. ASSUME NEW s \in FailureStates, NEW gas
      PROVE  Charges(l[o], ResolveFailure(l, o, s, gas)[o])
  BY DEF ResolveFailure
<1>10. Charges(l[o], ResolveUnsentFailure(l, o)[o])
  BY DEF ResolveUnsentFailure
<1> QED
  BY <1>1, <1>2, <1>3, <1>4, <1>5, <1>6, <1>7, <1>8, <1>9, <1>10

(* A handle that was recorded costs nothing. *)
Like(r, s) ==
    /\ s.feeSpent = r.feeSpent /\ s.feeCommitted = r.feeCommitted /\ s.request = r.request
    /\ s.state \in {r.state, "TX_PENDING"}

LEMMA HandleIsFree ==
    ASSUME NEW l \in Table, NEW o \in Operations, FeeBooked(l[o])
    PROVE  /\ Like(l[o], RecordWalletHandle(l, o)[o])
           /\ Charges(l[o], RecordWalletHandle(l, o)[o])
BY DEF RecordWalletHandle, Like, Table, Row, Charges, FeeBooked, IndexedStates, FailureStates

LEMMA LikeCharges ==
    ASSUME NEW r, NEW s, NEW t, Like(r, s), Charges(s, t)
    PROVE  Charges(r, t)
BY DEF Like, Charges

(* Whatever a process does, the fees of its row follow its state. *)
LEMMA HandledCharges ==
    ASSUME TypeInv, Accounted, Budgeted, NEW p \in Procs, proc[p].pc \in AfterAttach
    PROVE  /\ Op(p) \in Operations
           /\ led \in Table /\ WithHandle(p) \in Table
           /\ FeeBooked(led[Op(p)]) /\ FeeBooked(WithHandle(p)[Op(p)])
           /\ Charges(led[Op(p)], WithHandle(p)[Op(p)])
           /\ led[Op(p)].request # None /\ WithHandle(p)[Op(p)].request # None
           /\ \A t : Charges(WithHandle(p)[Op(p)], t) => Charges(led[Op(p)], t)
<1>1. proc[p].pc \in Working
  BY DEF AfterAttach, Asking, Working, Labels
<1>2. Op(p) \in Operations /\ led \in Table /\ WithHandle(p) \in Table
  BY <1>1, AtWork, HandledType
<1>3. FeeBooked(led[Op(p)])
  BY <1>2 DEF Budgeted
<1>4. /\ Like(led[Op(p)], RecordWalletHandle(led, Op(p))[Op(p)])
      /\ Charges(led[Op(p)], RecordWalletHandle(led, Op(p))[Op(p)])
  BY <1>2, <1>3, HandleIsFree
<1>5. Like(led[Op(p)], led[Op(p)]) /\ Charges(led[Op(p)], led[Op(p)])
  BY <1>2, <1>3, StatementsCharge DEF Like
<1>6. /\ Like(led[Op(p)], WithHandle(p)[Op(p)])
      /\ Charges(led[Op(p)], WithHandle(p)[Op(p)])
  BY <1>4, <1>5 DEF WithHandle
<1>7. FeeBooked(WithHandle(p)[Op(p)])
  BY <1>6 DEF Charges
<1>8. led[Op(p)].request # None
  BY DEF Accounted, Knows, Op
<1>9. WithHandle(p)[Op(p)].request # None
  BY <1>6, <1>8 DEF Like
<1> QED
  BY <1>2, <1>3, <1>6, <1>7, <1>8, <1>9, LikeCharges

LEMMA RecoveryCharges ==
    ASSUME TypeInv, Accounted, Budgeted, NEW p \in Procs, Recovery(p),
           Op(p) \in Operations
    PROVE  Charges(led[Op(p)], led'[Op(p)])
<1>1. led \in Table /\ FeeBooked(led[Op(p)])
  BY DEF TypeInv, TypeOK, Table, Budgeted
<1>2. CASE Release(p)
  BY <1>1, <1>2, StatementsCharge DEF Release
<1>3. CASE MarkRecoveringRow(p)
  BY <1>1, <1>3, StatementsCharge DEF MarkRecoveringRow, MarkRecovering, Update
<1>4. CASE SettleIssued(p) \/ RecheckIssued(p)
  <2>1. led[Op(p)].request # None
    BY <1>4, HandledCharges DEF SettleIssued, RecheckIssued, At, AfterAttach, Asking
  <2> QED
    BY <1>1, <1>4, <2>1, StatementsCharge DEF SettleIssued, RecheckIssued, FailureStates
<1>5. CASE SettlePending(p) \/ SettleConfirmed(p) \/ SettleFailed(p) \/ SettleUnknown(p)
  <2>1. proc[p].pc \in AfterAttach
    BY <1>5 DEF SettlePending, SettleConfirmed, SettleFailed, SettleUnknown, At,
       AfterAttach, Asking
  <2>2. CASE SettlePending(p)
    BY <2>1, <2>2, HandledCharges, StatementsCharge DEF SettlePending
  <2>3. CASE SettleConfirmed(p)
    BY <2>1, <2>3, HandledCharges DEF SettleConfirmed
  <2>4. CASE SettleFailed(p)
    <3>1. proc[p].answer.status \in FailureStates
      BY <2>4 DEF SettleFailed, FailureStates
    <3> QED
      BY <2>1, <2>4, <3>1, HandledCharges, StatementsCharge DEF SettleFailed
  <2>5. CASE SettleUnknown(p)
    BY <2>1, <2>5, HandledCharges, StatementsCharge DEF SettleUnknown, MarkSubmissionUnknown
  <2> QED
    BY <1>5, <2>2, <2>3, <2>4, <2>5
<1>6. CASE \/ Probe(p) \/ CheckUnresolved(p) \/ ReadIssued(p) \/ QueryCircle(p)
           \/ ReadReceipt(p) \/ LookupTransaction(p) \/ CountTransactions(p)
  BY <1>1, <1>6, StatementsCharge DEF Probe, CheckUnresolved, ReadIssued, QueryCircle,
     ReadReceipt, LookupTransaction, CountTransactions, ledger
<1> QED
  BY <1>2, <1>3, <1>4, <1>5, <1>6 DEF Recovery

LEMMA SendingCharges ==
    ASSUME TypeInv, HandOver, Accounted, Budgeted, NEW p \in Procs, Mining(p) \/ Sending(p),
           Op(p) \in Operations
    PROVE  Charges(led[Op(p)], led'[Op(p)])
<1>1. led \in Table /\ FeeBooked(led[Op(p)])
  BY DEF TypeInv, TypeOK, Table, Budgeted
<1>2. CASE BeginMint(p)
  <2>1. led[Op(p)].state = "ABSENT"
    BY <1>2 DEF HandOver, BeginMint
  <2> QED
    BY <1>1, <1>2, <2>1, StatementsCharge DEF BeginMint, Update
<1>3. CASE StoreCall(p)
  BY <1>1, <1>3, StatementsCharge DEF StoreCall
<1>4. CASE Commit(p)
  BY <1>1, <1>4, StatementsCharge DEF Commit
<1>5. CASE PrepareFails(p)
  BY <1>1, <1>5, StatementsCharge DEF PrepareFails, FailureStates
<1>6. CASE Attach(p)
  <2>1. led[Op(p)].feeCommitted = MintFee
    BY <1>6 DEF Budgeted, Attach, At
  <2> QED
    BY <1>1, <1>6, <2>1, StatementsCharge DEF Attach
<1>7. CASE RecordHandle(p)
  BY <1>1, <1>7, HandleIsFree DEF RecordHandle
<1>8. CASE LoseSubmission(p)
  BY <1>1, <1>8, StatementsCharge DEF LoseSubmission, Update, MarkSubmissionUnknown
<1>9. CASE UNCHANGED led
  BY <1>1, <1>9, StatementsCharge
<1> QED
  BY <1>2, <1>3, <1>4, <1>5, <1>6, <1>7, <1>8, <1>9
     DEF Mining, Sending, Resume, StartWork, RefuseWork, StopMining, ObtainCertificate,
         CheckSendWindow, Simulate, SimulationFails, PrepareSubmission, SubmitCall,
         SubmitAnswered, SubmitThrows, ledger

LEMMA StepCharges ==
    ASSUME TypeInv, HandOver, Accounted, Budgeted, [Next]_vars, NEW o \in Operations
    PROVE  Charges(led[o], led'[o])
<1>1. Charges(led[o], led[o])
  BY StatementsCharge DEF TypeInv, TypeOK, Table, Budgeted
<1>2. CASE UNCHANGED led
  BY <1>1, <1>2
<1>3. CASE \E p \in Procs : Recovery(p) \/ Mining(p) \/ Sending(p)
  BY <1>1, <1>3, RecoveryCharges, SendingCharges, OneRowWritten DEF OnlyRow
<1> QED
  BY <1>2, <1>3 DEF Next, vars, Command, Status, MineOnce, Run, RunIteration, RequestStop,
     RevokeAuthorization, Authorize, ClearStop, Abort, AuthorizationExpires, Outside, Accept,
     Vanish, Land, Revert, LandHollow, UseNonce, NearExpiry, Expire, Moves, ledger

(* Only a commitment brings a process to the hand-over of its Mint. *)
Aside(p) == \E s : Become(p, s) /\ s.pc \notin Handing

LEMMA AsideLeave == ASSUME NEW p, Leave(p) PROVE Aside(p)
BY DEF Leave, Aside, Idle, Handing

LEMMA AsideBack == ASSUME NEW p, NEW l, Returned(p, l) PROVE Aside(p)
<1> DEFINE d == [Idle EXCEPT !.pc = "decide", !.unattended = proc[p].unattended]
           r == [Idle EXCEPT !.pc = "loop", !.unattended = TRUE]
<1>1. d.pc = "decide" /\ r.pc = "loop" /\ Idle.pc = "idle"
  BY DEF Idle
<1>2. Become(p, d) \/ Become(p, r) \/ Become(p, Idle)
  BY DEF Returned
<1> QED
  BY <1>1, <1>2 DEF Aside, Handing

LEMMA AsideGoto ==
    ASSUME TypeInv, NEW p \in Procs, NEW label, Goto(p, label), label \notin Handing
    PROVE  Aside(p)
<1> DEFINE s == [proc[p] EXCEPT !.pc = label]
<1>1. s.pc = label
  BY DEF TypeInv, TypeOK, Locals
<1> QED
  BY <1>1 DEF Goto, Aside

LEMMA AsideRecovering ==
    ASSUME NEW p, NEW g, NEW u, RecoverOutstanding(p, g, u)
    PROVE  Aside(p)
<1> DEFINE d == [Idle EXCEPT !.pc = "decide", !.unattended = u]
           at(o) == [Idle EXCEPT !.pc = IF Unsent(led[o]) THEN "probe" ELSE "check",
                                 !.op = o, !.goal = g, !.unattended = u]
<1>1. d.pc \notin Handing /\ Idle.pc \notin Handing /\ \A o : at(o).pc \notin Handing
  BY DEF Idle, Handing
<1>2. Become(p, d) \/ Become(p, Idle) \/ \E o : Become(p, at(o))
  BY DEF RecoverOutstanding
<1> HIDE DEF d, at
<1> QED
  BY <1>1, <1>2 DEF Aside

LEMMA StaysAside ==
    ASSUME TypeInv, NEW p \in Procs, Command(p) \/ Recovery(p) \/ Mining(p) \/ Sending(p)
    PROVE  Aside(p) \/ Commit(p) \/ PrepareSubmission(p) \/ Attach(p)
<1> USE DEF Handing
<1>0. proc[p] \in Locals
  BY DEF TypeInv, TypeOK
<1>1. CASE Command(p)
  <2>1. CASE Run(p)
    <3> DEFINE s == [Idle EXCEPT !.pc = "loop", !.unattended = TRUE]
    <3>1. s.pc = "loop" /\ Become(p, s)
      BY <2>1 DEF Run, Idle
    <3> QED
      BY <3>1 DEF Aside
  <2>2. CASE ~Run(p)
    BY <1>1, <2>2, AsideRecovering, AsideLeave, AsideGoto
       DEF Command, Status, MineOnce, RunIteration, RequestStop, RevokeAuthorization,
           Authorize, ClearStop, Abort
  <2> QED
    BY <2>1, <2>2
<1>2. CASE Recovery(p)
  <2>1. CASE MarkRecoveringRow(p)
    <3> DEFINE s == [proc[p] EXCEPT !.pc = "issued", !.row = MarkRecovering(led, Op(p))[Op(p)]]
    <3>1. s.pc = "issued" /\ (Become(p, s) \/ Leave(p))
      BY <1>0, <2>1 DEF MarkRecoveringRow, Update, Locals
    <3> QED
      BY <3>1, AsideLeave DEF Aside
  <2>2. CASE ReadIssued(p)
    <3>1. PICK seen : Become(p, [proc[p] EXCEPT !.seen = seen,
                                     !.pc = IF Wallet = "eoa" THEN "receipt" ELSE "query"])
      BY <2>2 DEF ReadIssued
    <3>2. [proc[p] EXCEPT !.seen = seen,
                          !.pc = IF Wallet = "eoa" THEN "receipt" ELSE "query"].pc
             \in {"receipt", "query"}
      BY <1>0 DEF Locals
    <3> QED
      BY <3>1, <3>2 DEF Aside
  <2>3. ASSUME NEW a, Become(p, [proc[p] EXCEPT !.answer = a, !.pc = "settle"])
        PROVE  Aside(p)
    <3>1. [proc[p] EXCEPT !.answer = a, !.pc = "settle"].pc = "settle"
      BY <1>0 DEF Locals
    <3> QED
      BY <2>3, <3>1 DEF Aside
  <2>4. CASE \/ QueryCircle(p) \/ ReadReceipt(p) \/ LookupTransaction(p) \/ CountTransactions(p)
    BY <2>3, <2>4, AsideGoto DEF QueryCircle, ReadReceipt, LookupTransaction, CountTransactions,
       Answered
  <2>5. CASE Probe(p) \/ Release(p) \/ CheckUnresolved(p) \/ SettleIssued(p) \/ SettlePending(p)
    BY <2>5, AsideGoto, AsideBack, AsideLeave
       DEF Probe, Release, CheckUnresolved, SettleIssued, SettlePending
  <2>6. CASE SettleConfirmed(p) \/ RecheckIssued(p) \/ SettleFailed(p) \/ SettleUnknown(p)
    BY <2>6, AsideGoto, AsideBack, AsideLeave
       DEF SettleConfirmed, RecheckIssued, SettleFailed, SettleUnknown
  <2> QED
    BY <1>2, <2>1, <2>2, <2>4, <2>5, <2>6 DEF Recovery
<1>3. CASE Mining(p)
  <2>1. ASSUME NEW o, NEW label, label \notin Handing,
               Become(p, [proc[p] EXCEPT !.op = o, !.pc = label])
        PROVE  Aside(p)
    <3>1. [proc[p] EXCEPT !.op = o, !.pc = label].pc = label
      BY <1>0 DEF Locals
    <3> QED
      BY <2>1, <3>1 DEF Aside
  <2>4. CASE Resume(p)
    <3>1. PICK o : Become(p, [proc[p] EXCEPT !.op = o, !.pc = "send"])
      BY <2>4 DEF Resume
    <3> QED
      BY <2>1, <3>1
  <2>5. CASE ObtainCertificate(p)
    <3>1. PICK o : Become(p, [proc[p] EXCEPT !.op = o, !.pc = "begin"])
      BY <2>5 DEF ObtainCertificate
    <3> QED
      BY <2>1, <3>1
  <2>2. CASE BeginMint(p)
    <3>1. [proc[p] EXCEPT !.pc = "store"].pc = "store"
      BY <1>0 DEF Locals
    <3> QED
      BY <2>2, <3>1, AsideLeave DEF BeginMint, Update, Aside
  <2>3. CASE StartWork(p) \/ RefuseWork(p) \/ StopMining(p) \/ StoreCall(p)
    BY <2>3, AsideGoto, AsideLeave DEF StartWork, RefuseWork, StopMining, StoreCall
  <2> QED
    BY <1>3, <2>2, <2>3, <2>4, <2>5 DEF Mining
<1>4. CASE Sending(p)
  <2>1. CASE LoseSubmission(p)
    <3>1. [proc[p] EXCEPT !.pc = "check"].pc = "check"
      BY <1>0 DEF Locals
    <3> QED
      BY <2>1, <3>1, AsideLeave DEF LoseSubmission, Update, Aside
  <2>2. CASE \/ CheckSendWindow(p) \/ Simulate(p) \/ SimulationFails(p) \/ PrepareFails(p)
             \/ SubmitCall(p) \/ SubmitAnswered(p) \/ SubmitThrows(p) \/ RecordHandle(p)
    BY <2>2, AsideGoto, AsideLeave, AsideBack DEF CheckSendWindow, Simulate, SimulationFails,
       PrepareFails, SubmitCall, SubmitAnswered, SubmitThrows, RecordHandle
  <2> QED
    BY <1>4, <2>1, <2>2 DEF Sending
<1> QED
  BY <1>1, <1>2, <1>3, <1>4

(* A process at the hand-over has come there by its commitment, and its    *)
(* Mint and its kind of command have stayed what they were.                *)
LEMMA ComesFrom ==
    ASSUME TypeInv, [Next]_vars, NEW p \in Procs, proc'[p].pc \in Handing
    PROVE  \/ proc'[p] = proc[p]
           \/ Commit(p) /\ proc'[p].pc = "prepare" /\ proc'[p].op = Op(p)
                        /\ proc'[p].unattended = proc[p].unattended
           \/ /\ PrepareSubmission(p) \/ Attach(p)
              /\ proc[p].pc \in {"prepare", "attach"}
              /\ proc'[p].op = Op(p) /\ proc'[p].unattended = proc[p].unattended
              /\ proc'[p].pc = "submit" => Attach(p) /\ CanAttach(led, Op(p))
<1>0. proc \in [Procs -> Locals]
  BY DEF TypeInv, TypeOK
<1>1. CASE UNCHANGED proc
  BY <1>1
<1>2. ASSUME NEW q \in Procs, Command(q) \/ Recovery(q) \/ Mining(q) \/ Sending(q), q # p
      PROVE  proc'[p] = proc[p]
  <2>1. \E s : Become(q, s)
    BY <1>2, StaysAside DEF Aside, Commit, PrepareSubmission, Attach, Goto, Leave
  <2> QED
    BY <1>0, <1>2, <2>1 DEF Become
<1>3. ASSUME Aside(p) PROVE FALSE
  BY <1>0, <1>3 DEF Aside, Become
<1>4. CASE Commit(p)
  <2>1. [proc[p] EXCEPT !.pc = "prepare"].pc = "prepare"
        /\ [proc[p] EXCEPT !.pc = "prepare"].op = Op(p)
        /\ [proc[p] EXCEPT !.pc = "prepare"].unattended = proc[p].unattended
    BY <1>0 DEF Locals, Op
  <2>2. Goto(p, "prepare")
    BY <1>3, <1>4, AsideLeave DEF Commit
  <2> QED
    BY <1>0, <1>4, <2>1, <2>2 DEF Goto, Become
<1>5. CASE PrepareSubmission(p)
  <2>1. [proc[p] EXCEPT !.pc = "attach"].pc = "attach"
        /\ [proc[p] EXCEPT !.pc = "attach"].op = Op(p)
        /\ [proc[p] EXCEPT !.pc = "attach"].unattended = proc[p].unattended
    BY <1>0 DEF Locals, Op
  <2> QED
    BY <1>0, <1>5, <2>1 DEF PrepareSubmission, Goto, Become, At
<1>6. CASE Attach(p)
  <2> DEFINE s == [proc[p] EXCEPT !.pc = "submit", !.goal = "sent"]
  <2>1. s.pc = "submit" /\ s.op = Op(p) /\ s.unattended = proc[p].unattended
    BY <1>0 DEF Locals, Op
  <2>2. Become(p, s) /\ CanAttach(led, Op(p))
    BY <1>3, <1>6, AsideLeave DEF Attach
  <2> HIDE DEF s
  <2> QED
    BY <1>0, <1>6, <2>1, <2>2 DEF Become, Attach, At
<1>7. CASE \E q \in Procs : Command(q) \/ Recovery(q) \/ Mining(q) \/ Sending(q)
  <2>1. CASE \E q \in Procs : q # p /\ (Command(q) \/ Recovery(q) \/ Mining(q) \/ Sending(q))
    BY <1>2, <2>1
  <2>2. CASE Command(p) \/ Recovery(p) \/ Mining(p) \/ Sending(p)
    BY <1>3, <1>4, <1>5, <1>6, <2>2, StaysAside
  <2> QED
    BY <1>7, <2>1, <2>2
<1> QED
  BY <1>1, <1>7 DEF Next, vars, AuthorizationExpires, Outside, Accept, Vanish, Land, Revert,
     LandHollow, UseNonce, NearExpiry, Expire, Moves

(* A Mint about to be handed over is active in the ledger. *)
LEMMA SubmitsActive ==
    ASSUME Candid, TypeInv, HandOver, Accounted, NEW p \in Procs, proc[p].pc = "submit"
    PROVE  Op(p) \in Operations /\ led[Op(p)].state \in IndexedStates
<1>1. Op(p) \in Operations /\ led[Op(p)] \in Row
  BY AtWork DEF Working, Labels
<1>2. led[Op(p)].request # None /\ handed[Op(p)] = 0
  BY DEF HandOver, At
<1>3. tx[Op(p)] = "none"
  BY <1>1, <1>2 DEF Accounted, Candid
<1>4. led[Op(p)].state \notin FailureStates \cup {"MINT_CONFIRMED", "ABSENT"}
  BY <1>1, <1>2, <1>3 DEF Accounted, RowsAccounted, RowAccounted, Ends, Candid, HandOver
<1> QED
  BY <1>1, <1>4 DEF Row, LedgerStates, FailureStates, IndexedStates

(* While one Mint stays active, no other is confirmed or charged. *)
LEMMA RoomStays ==
    ASSUME Candid, TypeInv, HandOver, Accounted, Budgeted, [Next]_vars,
           (TypeInv /\ HandOver /\ Accounted)', Room,
           NEW o \in Operations, led[o].state \in IndexedStates, led'[o].state \in IndexedStates
    PROVE  Room'
<1>1. CASE UNCHANGED led
  BY <1>1 DEF Room, Confirmed, SpentFee
<1>2. CASE tx' = tx
  <2>1. ASSUME NEW x \in Operations
        PROVE  /\ led'[x].state = "MINT_CONFIRMED" <=> led[x].state = "MINT_CONFIRMED"
               /\ led'[x].feeSpent = led[x].feeSpent
    <3>1. Charges(led[x], led'[x]) /\ FeeBooked(led[x])
      BY StepCharges DEF Budgeted
    <3>2. CASE x = o
      BY <3>1, <3>2 DEF Charges, IndexedStates
    <3>3. CASE x # o
      <4>1. led[x].state \notin IndexedStates /\ led'[x].state \notin IndexedStates
        BY <3>3 DEF Accounted, RowsAccounted, ActiveMintIndex
      <4>2. led[x].state \in LedgerStates /\ led'[x].state \in LedgerStates
        BY DEF TypeInv, TypeOK, Row
      <4>3. tx[x] # "mined" => led[x].state # "MINT_CONFIRMED" /\ led'[x].state # "MINT_CONFIRMED"
        BY <1>2 DEF Accounted, RowsAccounted, RowAccounted
      <4>4. tx[x] = "mined" => led[x].state \notin FailureStates \cup {"ABSENT"}
        <5>1. tx[x] = "mined" => led[x].state \notin FailureStates
          BY FailedOver
        <5>2. tx[x] = "mined" => led[x].state # "ABSENT"
          BY DEF Accounted, HandOver, TypeInv, TypeOK
        <5> QED BY <5>1, <5>2
      <4>5. tx[x] = "mined" => led'[x].state \notin FailureStates \cup {"ABSENT"}
        <5>1. tx[x] = "mined" => led'[x].state \notin FailureStates
          BY <1>2 DEF Accounted, RowsAccounted, RowAccounted, Ends, Candid, HandOver, TypeInv, TypeOK
        <5>2. tx[x] = "mined" => led'[x].state # "ABSENT"
          BY <1>2 DEF Accounted, HandOver, TypeInv, TypeOK
        <5> QED BY <5>1, <5>2
      <4>6. led'[x].state = "MINT_CONFIRMED" <=> led[x].state = "MINT_CONFIRMED"
        BY <4>1, <4>2, <4>3, <4>4, <4>5 DEF LedgerStates, IndexedStates, FailureStates
      <4>7. FeeBooked(led'[x])
        BY <3>1 DEF Charges
      <4> QED
        BY <3>1, <4>1, <4>2, <4>6, <4>7 DEF FeeBooked, LedgerStates, IndexedStates, FailureStates
    <3> QED
      BY <3>2, <3>3
  <2>2. Confirmed(led') = Confirmed(led)
    BY <2>1 DEF Confirmed
  <2>3. [x \in Operations |-> led'[x].feeSpent] = [x \in Operations |-> led[x].feeSpent]
    BY <2>1
  <2>4. SpentFee(led') = SpentFee(led)
    BY <2>3 DEF SpentFee
  <2> QED
    BY <2>2, <2>4 DEF Room
<1>3. \A p \in Procs : SubmitCall(p) => led' = led
  BY DEF SubmitCall, ledger
<1>4. \A p \in Procs : Recovery(p) \/ Mining(p) \/ Sending(p) => tx' = tx \/ SubmitCall(p)
  BY DEF Recovery, Probe, Release, CheckUnresolved, MarkRecoveringRow, ReadIssued,
     QueryCircle, ReadReceipt, LookupTransaction, CountTransactions, SettleIssued,
     SettlePending, SettleConfirmed, RecheckIssued, SettleFailed, SettleUnknown,
     Mining, Resume, StartWork, RefuseWork, StopMining, ObtainCertificate, BeginMint,
     StoreCall, Sending, CheckSendWindow, Simulate, SimulationFails, Commit,
     PrepareSubmission, PrepareFails, Attach, SubmitAnswered, SubmitThrows,
     RecordHandle, LoseSubmission, world
<1>5. \A p \in Procs : Command(p) => led' = led
  BY DEF Command, Status, MineOnce, Run, RunIteration, RequestStop, RevokeAuthorization,
     Authorize, ClearStop, Abort, ledger
<1>6. \A x \in Operations : Outside(x) => led' = led
  BY DEF Outside, Accept, Vanish, Land, Revert, LandHollow, UseNonce, NearExpiry, Expire,
     Moves, ledger
<1> QED
  BY <1>1, <1>2, <1>3, <1>4, <1>5, <1>6 DEF Next, vars, AuthorizationExpires

(* The commitment finds nothing reserved but its own Mint. *)
LEMMA CommitFindsRoom ==
    ASSUME LedgerAssumption, TypeInv, Accounted, NEW p \in Procs, Commit(p),
           proc'[p].pc = "prepare", proc[p].unattended,
           led[Op(p)].state = "CERTIFICATE_READY"
    PROVE  Room
<1>1. Op(p) \in Operations /\ led \in Table
  BY AtWork DEF Commit, At, Working, Labels
<1>2. ~Leave(p)
  BY AsideLeave DEF Aside, Handing, Become, TypeInv, TypeOK
<1>3. PICK quote \in Quotes : BudgetAvailable(led, Limits, {Op(p)}, quote)
  BY <1>2 DEF Commit
<1>4. Unresolved(led) \ {Op(p)} = {}
  BY <1>1 DEF Unresolved, UnresolvedStates, IndexedStates, Accounted, RowsAccounted,
     ActiveMintIndex
<1>5. Cardinality({}) = 0 /\ ReservedFee(led, {}) = 0 /\ 0 + 1 = 1 /\ 0 + MintFee = MintFee
  BY <1>1, Reserved, FS_EmptySet DEF LedgerAssumption
<1> QED
  BY <1>3, <1>4, <1>5 DEF BudgetAvailable, Room

LEMMA StepBudgeted ==
    ASSUME LedgerAssumption, Candid, TypeInv, HandOver, Accounted, Budgeted, [Next]_vars,
           TypeInv', HandOver', Accounted'
    PROVE  Budgeted'
<1>1. \A o \in Operations : Charges(led[o], led'[o])
  BY StepCharges
<1>2. \A o \in Operations : FeeBooked(led'[o])
  BY <1>1 DEF Charges
<1>3. ASSUME NEW p \in Procs, proc'[p].pc \in {"prepare", "attach"}
      PROVE  led'[proc'[p].op].feeCommitted = MintFee
  <2>1. proc'[p].op \in Operations
    BY <1>3 DEF TypeInv, Held, Working, Labels
  <2>2. CASE Commit(p) /\ proc'[p].pc = "prepare" /\ proc'[p].op = Op(p)
    <3>1. ~Leave(p)
      BY <2>2, AsideLeave DEF Aside, Handing, Become, TypeInv, TypeOK
    <3>2. PICK quote \in Quotes : led' = SetOperationCommitment(led, Op(p), quote)
      BY <2>2, <3>1 DEF Commit
    <3>3. led \in Table
      BY DEF TypeInv, TypeOK, Table
    <3> QED
      BY <2>1, <2>2, <3>2, <3>3 DEF SetOperationCommitment, Table, Row
  <2>3. CASE proc[p].pc \in {"prepare", "attach"} /\ proc'[p].op = Op(p)
    BY <1>1, <2>1, <2>3 DEF Budgeted, Charges
  <2> QED
    BY <1>3, <2>2, <2>3, ComesFrom DEF Handing, Op
<1>4. ASSUME NEW p \in Procs, Fitting(p)' PROVE Room'
  <2>1. /\ proc'[p].unattended /\ proc'[p].pc \in Handing
        /\ proc'[p].pc = "submit" \/ led'[proc'[p].op].state = "CERTIFICATE_READY"
    BY <1>4 DEF Fitting, Op
  <2>2. proc'[p].op \in Operations
    BY <2>1 DEF TypeInv, Held, Working, Labels, Handing
  <2>3. led'[proc'[p].op].state \in IndexedStates
    <3>1. CASE proc'[p].pc = "submit"
      <4>1. led'[proc'[p].op].request # None /\ handed'[proc'[p].op] = 0
        BY <3>1 DEF HandOver, At, Op
      <4>2. tx'[proc'[p].op] = "none"
        BY <2>2, <4>1 DEF Accounted, Candid
      <4>3. led'[proc'[p].op].state \notin FailureStates \cup {"MINT_CONFIRMED", "ABSENT"}
        BY <2>2, <4>1, <4>2 DEF Accounted, RowsAccounted, RowAccounted, Ends, Candid, HandOver
      <4>4. led'[proc'[p].op].state \in LedgerStates
        BY <2>2 DEF TypeInv, TypeOK, Row
      <4> QED
        BY <4>3, <4>4 DEF LedgerStates, FailureStates, IndexedStates
    <3> QED
      BY <2>1, <3>1 DEF IndexedStates
  <2>4. proc'[p].op = Op(p) /\ proc'[p].unattended = proc[p].unattended
    BY <2>1, ComesFrom DEF Op
  <2>5. Op(p) \in Operations
    BY <2>2, <2>4
  <2>6. led'[Op(p)].state = "CERTIFICATE_READY" => led[Op(p)].state \in {"CERTIFICATE_READY", "ABSENT"}
    BY <1>1, <2>5 DEF Charges
  <2>7. proc[p].pc \in {"commit"} \cup Handing => led[Op(p)].state # "ABSENT"
    BY DEF HandOver, Working, Labels, Handing
  <2>8. CASE proc[p].pc = "submit" /\ proc'[p] = proc[p]
    <3>1. led[Op(p)].state \in IndexedStates
      BY <2>8, SubmitsActive
    <3>2. Room
      BY <2>1, <2>8 DEF Budgeted, Fitting, Handing
    <3> QED
      BY <2>3, <2>4, <2>5, <3>1, <3>2, RoomStays
  <2>9. CASE /\ proc[p].pc \in {"prepare", "attach"}
             /\ proc'[p].pc = "submit" => CanAttach(led, Op(p))
    <3>1. led[Op(p)].state = "CERTIFICATE_READY"
      BY <2>1, <2>4, <2>6, <2>7, <2>9 DEF CanAttach, Handing
    <3>2. Room
      BY <2>1, <2>4, <2>9, <3>1 DEF Budgeted, Fitting, Handing
    <3> QED
      BY <2>3, <2>4, <2>5, <3>1, <3>2, RoomStays DEF IndexedStates
  <2>10. CASE Commit(p) /\ proc'[p].pc = "prepare"
    <3>1. led[Op(p)].state = "CERTIFICATE_READY"
      BY <2>1, <2>4, <2>6, <2>7, <2>10 DEF Commit, At
    <3>2. Room
      BY <2>1, <2>4, <2>10, <3>1, CommitFindsRoom
    <3> QED
      BY <2>3, <2>4, <2>5, <3>1, <3>2, RoomStays DEF IndexedStates
  <2> QED
    BY <2>1, <2>8, <2>9, <2>10, ComesFrom DEF Handing
<1> QED
  BY <1>2, <1>3, <1>4 DEF Budgeted, Op

LEMMA InitBudgeted == ASSUME LedgerAssumption, Init PROVE Budgeted
BY DEF Init, Budgeted, FeeBooked, Fitting, Handing, EmptyRow, Idle, FailureStates

(* What a runner has asked the budget for still fits when it hands over:   *)
(* no other Mint can be confirmed or begun while its own is active         *)
(* (assertBudgetAvailable and setOperationCommitment, ledger.ts).          *)
THEOREM BudgetedHolds ==
    ASSUME Candid
    PROVE  Spec => []Budgeted
<1>1. Init => Budgeted
  BY InitBudgeted, LedgerAssumption
<1>2. TypeInv /\ HandOver /\ Accounted /\ Budgeted /\ [Next]_vars
      /\ TypeInv' /\ HandOver' /\ Accounted'
         => Budgeted'
  <2> SUFFICES ASSUME TypeInv, HandOver, Accounted, Budgeted, [Next]_vars,
                      TypeInv', HandOver', Accounted'
               PROVE  Budgeted'
    OBVIOUS
  <2> QED
    BY StepBudgeted, LedgerAssumption, Candid
<1> QED
  BY <1>1, <1>2, TypeInvHolds, HandOverHolds, AccountedHolds, PTL DEF Spec

(* The number and the fees of UnattendedWithinBudget, without its gas. *)
UnattendedWithinMintsAndFee ==
    [][\A p \in Procs : SubmitCall(p) /\ proc[p].unattended => WithinMintsAndFee]_vars

(* An unattended runner hands over no Mint beyond the authorized number or *)
(* fees, whatever other processes mint, settle or resume meanwhile         *)
(* (mineOnce, agent.ts, with assertBudgetAvailable, ledger.ts).            *)
THEOREM RunnerKeepsWithin ==
    ASSUME Candid
    PROVE  Spec => UnattendedWithinMintsAndFee
<1>1. ASSUME LedgerAssumption, TypeInv, HandOver, Accounted, Budgeted,
             NEW p \in Procs, SubmitCall(p), proc[p].unattended
      PROVE  WithinMintsAndFee
  <2>1. Op(p) \in Operations /\ led[Op(p)].state \in IndexedStates /\ led \in Table
    BY <1>1, SubmitsActive DEF SubmitCall, At, TypeInv, TypeOK, Table
  <2>2. Unresolved(led) = {Op(p)}
    BY <1>1, <2>1 DEF Unresolved, UnresolvedStates, IndexedStates, Accounted, RowsAccounted,
       ActiveMintIndex
  <2>3. Room
    BY <1>1 DEF Budgeted, Fitting, Handing, SubmitCall, At
  <2>4. led[Op(p)].request # None
    BY <1>1 DEF HandOver, SubmitCall
  <2>5. ReservedFee(led, {Op(p)}) = MintFee
    BY <1>1, <2>1, <2>4, Reserved DEF Budgeted, FeeBooked
  <2>6. Cardinality({Op(p)}) = 1
    BY FS_Singleton
  <2> QED
    BY <2>2, <2>3, <2>5, <2>6 DEF WithinMintsAndFee, Room
<1>2. TypeInv /\ HandOver /\ Accounted /\ Budgeted /\ [Next]_vars
         => [\A p \in Procs : SubmitCall(p) /\ proc[p].unattended => WithinMintsAndFee]_vars
  BY <1>1, LedgerAssumption
<1> QED
  BY <1>2, TypeInvHolds, HandOverHolds, AccountedHolds, BudgetedHolds, PTL
     DEF Spec, UnattendedWithinMintsAndFee

------------------------------------------------------------------------------
(* The whole budget, of a process that has the ledger to itself, as the    *)
(* README of the CLI says of every process.                                *)
Alone == \A p, q \in Procs : p = q

(* The tables l and m differ in the row of o, and not in what it has cost. *)
CostsTheSame(l, m, o) ==
    /\ \A x \in Operations \ {o} : m[x] = l[x]
    /\ m[o].feeSpent = l[o].feeSpent /\ m[o].gasSpent = l[o].gasSpent
    /\ m[o].state = "MINT_CONFIRMED" <=> l[o].state = "MINT_CONFIRMED"

(* The budget reads of its own row only what it has cost so far. *)
LEMMA SameBudget ==
    ASSUME NEW l, NEW m, NEW o \in Operations, NEW gas, CostsTheSame(l, m, o),
           BudgetAvailable(l, Limits, {o}, gas)
    PROVE  BudgetAvailable(m, Limits, {o}, gas)
<1>1. Confirmed(m) = Confirmed(l) /\ Unresolved(m) \ {o} = Unresolved(l) \ {o}
  BY DEF CostsTheSame, Confirmed, Unresolved
<1>2. /\ [x \in Operations |-> m[x].feeSpent] = [x \in Operations |-> l[x].feeSpent]
      /\ [x \in Operations |-> m[x].gasSpent] = [x \in Operations |-> l[x].gasSpent]
  BY DEF CostsTheSame
<1>3. SpentFee(m) = SpentFee(l) /\ SpentGas(m) = SpentGas(l)
  BY <1>2 DEF SpentFee, SpentGas
<1> DEFINE reserved == Unresolved(l) \ {o}
<1>4. reserved \subseteq Operations \ {o}
  BY DEF Unresolved
<1> HIDE DEF reserved
<1>5. /\ [x \in reserved |-> m[x].feeCommitted] = [x \in reserved |-> l[x].feeCommitted]
      /\ [x \in reserved |-> m[x].gasCommitted] = [x \in reserved |-> l[x].gasCommitted]
  BY <1>4 DEF CostsTheSame
<1>6. ReservedFee(m, reserved) = ReservedFee(l, reserved)
      /\ ReservedGas(m, reserved) = ReservedGas(l, reserved)
  BY <1>5 DEF ReservedFee, ReservedGas
<1> QED
  BY <1>1, <1>3, <1>6 DEF BudgetAvailable, reserved

(* What the runner has asked for is what its row still books. *)
AsAsked(p) ==
    /\ BudgetAvailable(led, Limits, {Op(p)}, led[Op(p)].gasCommitted)
    /\ led[Op(p)].feeCommitted = MintFee
    /\ proc[p].pc = "submit" => led[Op(p)].state = "WALLET_SUBMITTING"

Asked == \A p \in Procs : proc[p].unattended /\ proc[p].pc \in Handing => AsAsked(p)

LEMMA CommitAsks ==
    ASSUME LedgerAssumption, TypeInv, NEW p \in Procs, Commit(p), proc[p].unattended,
           proc'[p].pc = "prepare", proc'[p].op = Op(p)
    PROVE  AsAsked(p)'
<1>1. Op(p) \in Operations /\ led \in Table /\ Op(p)' = Op(p)
  BY AtWork DEF Commit, At, Working, Labels, Op
<1>2. ~Leave(p)
  BY AsideLeave DEF Aside, Handing, Become, TypeInv, TypeOK
<1>3. PICK quote \in Quotes : /\ BudgetAvailable(led, Limits, {Op(p)}, quote)
                              /\ led' = SetOperationCommitment(led, Op(p), quote)
  BY <1>2 DEF Commit
<1>4. /\ \A x \in Operations \ {Op(p)} : led'[x] = led[x]
      /\ led'[Op(p)] = [led[Op(p)] EXCEPT !.feeCommitted = MintFee, !.gasCommitted = quote]
  BY <1>1, <1>3 DEF SetOperationCommitment, Table
<1>5. /\ led'[Op(p)].feeCommitted = MintFee /\ led'[Op(p)].gasCommitted = quote
      /\ led'[Op(p)].feeSpent = led[Op(p)].feeSpent
      /\ led'[Op(p)].gasSpent = led[Op(p)].gasSpent
      /\ led'[Op(p)].state = led[Op(p)].state
  BY <1>1, <1>4, led[Op(p)] \in Row DEF Table, Row
<1>6. CostsTheSame(led, led', Op(p))
  BY <1>4, <1>5 DEF CostsTheSame
<1>7. BudgetAvailable(led', Limits, {Op(p)}, quote)
  BY <1>1, <1>3, <1>6, SameBudget
<1> QED
  BY <1>1, <1>5, <1>7 DEF AsAsked

LEMMA AttachKeepsAsked ==
    ASSUME LedgerAssumption, TypeInv, NEW p \in Procs, Attach(p), CanAttach(led, Op(p)),
           AsAsked(p), proc'[p].op = Op(p)
    PROVE  AsAsked(p)'
<1>1. Op(p) \in Operations /\ led \in Table /\ Op(p)' = Op(p)
  BY AtWork DEF Attach, At, Working, Labels, Op
<1>2. led' = AttachSubmission(led, Op(p), p, Wallet = "eoa")
  BY DEF Attach
<1>3. /\ \A x \in Operations \ {Op(p)} : led'[x] = led[x]
      /\ led'[Op(p)] = [led[Op(p)] EXCEPT !.state = "WALLET_SUBMITTING", !.request = p,
                                          !.handle = (Wallet = "eoa")]
  BY <1>1, <1>2 DEF AttachSubmission, Table
<1>4. /\ led'[Op(p)].feeCommitted = led[Op(p)].feeCommitted
      /\ led'[Op(p)].gasCommitted = led[Op(p)].gasCommitted
      /\ led'[Op(p)].feeSpent = led[Op(p)].feeSpent
      /\ led'[Op(p)].gasSpent = led[Op(p)].gasSpent
      /\ led'[Op(p)].state = "WALLET_SUBMITTING"
  BY <1>1, <1>3, led[Op(p)] \in Row DEF Table, Row
<1>5. CostsTheSame(led, led', Op(p))
  BY <1>3, <1>4 DEF CostsTheSame, CanAttach
<1>6. BudgetAvailable(led', Limits, {Op(p)}, led[Op(p)].gasCommitted)
  BY <1>1, <1>5, SameBudget DEF AsAsked
<1> QED
  BY <1>1, <1>4, <1>6 DEF AsAsked

LEMMA StepAsked ==
    ASSUME LedgerAssumption, Alone, TypeInv, Asked, [Next]_vars
    PROVE  Asked'
<1> SUFFICES ASSUME NEW p \in Procs, proc'[p].unattended, proc'[p].pc \in Handing
             PROVE  AsAsked(p)'
  BY DEF Asked
<1>0. proc \in [Procs -> Locals]
  BY DEF TypeInv, TypeOK
<1>1. CASE UNCHANGED <<led, proc>>
  BY <1>1 DEF Asked, AsAsked, Op
<1>2. CASE PrepareSubmission(p)
  <2>1. led' = led /\ Goto(p, "attach") /\ proc[p].pc = "prepare"
    BY <1>2 DEF PrepareSubmission, At, ledger
  <2>2. proc'[p].pc = "attach" /\ proc'[p].op = Op(p)
        /\ proc'[p].unattended = proc[p].unattended
    BY <1>0, <2>1 DEF Goto, Become, Locals, Op
  <2> QED
    BY <2>1, <2>2 DEF Asked, AsAsked, Op, Handing
<1>3. CASE Commit(p)
  <2>1. ~PrepareSubmission(p) /\ ~Attach(p) /\ proc'[p] # proc[p]
    BY <1>3 DEF Commit, PrepareSubmission, Attach, At, Handing
  <2> QED
    BY <1>3, <2>1, ComesFrom, CommitAsks
<1>4. CASE Attach(p)
  <2>1. proc[p].pc = "attach" /\ ~Commit(p) /\ ~PrepareSubmission(p)
    BY <1>4 DEF Commit, PrepareSubmission, Attach, At
  <2>2. CanAttach(led, Op(p)) /\ ~Leave(p)
    <3>1. ~Leave(p)
      BY <1>0, AsideLeave DEF Aside, Become
    <3> QED
      BY <1>4, <3>1 DEF Attach
  <2>3. proc'[p].op = Op(p) /\ proc'[p].unattended = proc[p].unattended
    BY <1>0, <1>4, <2>2 DEF Attach, Become, Locals, Op
  <2> QED
    BY <1>4, <2>1, <2>2, <2>3, AttachKeepsAsked DEF Asked, Handing
<1>5. CASE \E q \in Procs : Command(q) \/ Recovery(q) \/ Mining(q) \/ Sending(q)
  <2>1. Command(p) \/ Recovery(p) \/ Mining(p) \/ Sending(p)
    BY <1>5 DEF Alone
  <2>2. ~Aside(p)
    BY <1>0 DEF Aside, Become
  <2> QED
    BY <1>2, <1>3, <1>4, <2>1, <2>2, StaysAside
<1> QED
  BY <1>1, <1>5 DEF Next, vars, ledger, AuthorizationExpires, Outside, Accept, Vanish, Land,
     Revert, LandHollow, UseNonce, NearExpiry, Expire, Moves

(* A runner that has the ledger to itself hands over no Mint beyond the    *)
(* number, the fees or the gas it is authorized for, with any wallet, any  *)
(* quotes and any receipts (assertBudgetAvailable, ledger.ts).             *)
THEOREM AloneKeepsBudget ==
    ASSUME Alone
    PROVE  Spec => UnattendedWithinBudget
<1>1. Init => Asked
  BY DEF Init, Asked, Idle, Handing
<1>2. TypeInv /\ Asked /\ [Next]_vars => Asked'
  <2> SUFFICES ASSUME TypeInv, Asked, [Next]_vars
               PROVE  Asked'
    OBVIOUS
  <2> QED
    BY StepAsked, LedgerAssumption, Alone
<1>3. ASSUME TypeInv, Accounted, Asked, NEW p \in Procs, SubmitCall(p), proc[p].unattended
      PROVE  WithinMintsAndFee /\ WithinGas
  <2>1. Op(p) \in Operations /\ led \in Table /\ proc[p].pc = "submit"
    BY <1>3, AtWork DEF SubmitCall, At, Working, Labels
  <2>2. AsAsked(p)
    BY <1>3, <2>1 DEF Asked, Handing
  <2>3. Unresolved(led) = {Op(p)} /\ Unresolved(led) \ {Op(p)} = {}
    BY <1>3, <2>1, <2>2 DEF AsAsked, Unresolved, UnresolvedStates, IndexedStates, Accounted,
       RowsAccounted, ActiveMintIndex
  <2>4. /\ ReservedFee(led, {}) = 0 /\ ReservedGas(led, {}) = 0
        /\ ReservedFee(led, {Op(p)}) = MintFee
        /\ ReservedGas(led, {Op(p)}) = led[Op(p)].gasCommitted
    BY <2>1, <2>2, Reserved, LedgerAssumption DEF AsAsked
  <2>5. Cardinality({}) = 0 /\ Cardinality({Op(p)}) = 1
    BY FS_EmptySet, FS_Singleton
  <2>6. led[Op(p)].gasCommitted \in Nat
    <3>1. led[Op(p)].gasCommitted \in Gas
      BY <2>1, led[Op(p)] \in Row DEF Table, Row
    <3>2. Gas \subseteq Nat
      BY LedgerAssumption DEF LedgerAssumption, Gas
    <3> QED BY <3>1, <3>2
  <2>7. 0 + 1 = 1 /\ 0 + MintFee = MintFee /\ 0 + led[Op(p)].gasCommitted = led[Op(p)].gasCommitted
    BY <2>6, LedgerAssumption DEF LedgerAssumption
  <2> QED
    BY <2>2, <2>3, <2>4, <2>5, <2>7 DEF AsAsked, BudgetAvailable, WithinMintsAndFee, WithinGas
<1>4. TypeInv /\ Accounted /\ Asked /\ [Next]_vars
         => [\A p \in Procs : SubmitCall(p) /\ proc[p].unattended
                                 => WithinMintsAndFee /\ WithinGas]_vars
  BY <1>3
<1> QED
  BY <1>1, <1>2, <1>4, TypeInvHolds, AccountedHolds, PTL DEF Spec, UnattendedWithinBudget
==============================================================================
