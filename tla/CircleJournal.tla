---------------------------- MODULE CircleJournal ----------------------------
(***************************************************************************)
(* The Circle agent wallet (apps/cli/src/circle-cli-driver.ts): a request  *)
(* is journaled on disk, executed once through the Circle CLI under its id *)
(* as idempotency key, and bound to the operation Circle made of it, from  *)
(* the answer or, when the answer is lost, by matching Circle's list.      *)
(*                                                                         *)
(* Circle makes at most one operation of a request, so the operation of    *)
(* request r is named r here; the driver sees it as an opaque id and must  *)
(* find out that it belongs to r.  All requests are to one contract of one *)
(* wallet, which is all that matchesEnvelope tells apart besides the time. *)
(* Files are read and written synchronously; what waits is the CLI and the *)
(* chain, and there other processes and Circle go on.                      *)
(***************************************************************************)
EXTENDS Integers, FiniteSets

CONSTANTS
    Requests,       \* provider request ids
    CallOf,         \* the call each is for (call data)
    Processes,      \* CLI processes on the one journal
    OneOut,         \* Mints: the ledger hands out the next request when the
                    \*   one before has ended; auxiliary operations overlap
    ListsCalls,     \* whether a list has signature and parameters: what may be
    Window,         \* the 120 s a createDate may lie before preparedAt
    MaxClock,       \* bound: last moment
    None

ASSUME JournalAssumption ==
    /\ None \notin Requests
    /\ OneOut \in BOOLEAN /\ ListsCalls \subseteq BOOLEAN
    /\ Window \in Nat /\ MaxClock \in Nat

VARIABLES
    journal,    \* CircleRequestJournal, by request id
    operation,  \* Circle's operation of each request, and when it was made
    shown,      \* operations Circle's list has by now
    executed,   \* requests whose execute was started, once each
    wire,       \* executes that have not reached Circle
    told,       \* final answers the agent has got for each request
    process,    \* what each CLI process waits for
    now

vars == <<journal, operation, shown, executed, wire, told, process, now>>

States == {"QUEUED", "SENT", "COMPLETE", "FAILED", "DENIED"}
WithHash == {"SENT", "COMPLETE", "FAILED"}
Statuses == {"PENDING", "CONFIRMED", "REVERTED", "NOT_FOUND", "UNKNOWN"}
FinalAnswers == {"CONFIRMED", "REVERTED"}

Records == [preparedAt : 0..MaxClock, operation : Requests \cup {None}, hash : BOOLEAN]
ASSUME NoRecordAssumption == None \notin Records

NoOperation == [state |-> "none", createdAt |-> 0]

Steps == {"idle", "prepared", "executing", "listing", "reading"}
Idle == [step |-> "idle", request |-> None, record |-> None,
         list |-> [r \in Requests |-> NoOperation], candidates |-> {}]

Init ==
    /\ journal = [r \in Requests |-> None]
    /\ operation = [r \in Requests |-> NoOperation]
    /\ shown = {} /\ executed = {} /\ wire = {}
    /\ told = [r \in Requests |-> {}]
    /\ process = [p \in Processes |-> Idle]
    /\ now = 0

TypeOK ==
    /\ journal \in [Requests -> Records \cup {None}]
    /\ operation \in [Requests -> [state : States \cup {"none"}, createdAt : 0..MaxClock]]
    /\ shown \subseteq Requests
    /\ wire \subseteq executed /\ executed \subseteq Requests
    /\ told \in [Requests -> SUBSET FinalAnswers]
    /\ \A p \in Processes :
        /\ process[p].step \in Steps
        /\ process[p].request \in Requests \cup {None}
        /\ process[p].candidates \subseteq Requests
    /\ now \in 0..MaxClock

circleVars == <<operation, shown, wire>>

-----------------------------------------------------------------------------
(* The driver. *)

Bound(r) == journal[r] # None /\ journal[r].operation # None

(* The operations other requests have claimed are not left out. *)
AnyClaim(op, r) == op \in Requests

(* findByOperationId finds no other request. *)
Unclaimed(op, r) == \A s \in Requests : Bound(s) /\ journal[s].operation = op => s = r

(* A broadcast transaction counts as confirmed. *)
SentIsConfirmed(state) ==
    CASE state \in {"SENT", "COMPLETE"} -> "CONFIRMED"
      [] state \in {"FAILED", "DENIED"} -> "REVERTED"
      [] OTHER -> "PENDING"

StatusOf(state) ==
    CASE state = "COMPLETE" -> "CONFIRMED"
      [] state \in {"FAILED", "DENIED"} -> "REVERTED"
      [] OTHER -> "PENDING"

(* What the agent learns: only a final answer ends the request. *)
Tell(r, status) ==
    told' = [told EXCEPT ![r] = @ \cup ({status} \cap FinalAnswers)]

Conflict(r, op) == Bound(r) /\ journal[r].operation # op

(* bind takes the hash of the last answer as it is. *)
BindAsAnswered(r, op, hash) ==
    journal' = [journal EXCEPT ![r].operation = op, ![r].hash = hash]

(* The operation's state is written into the record for its id. *)
BindState(r, op, hash) ==
    journal' = [journal EXCEPT ![r].operation = <<op, hash>>, ![r].hash = hash]

Bind(r, op, hash) ==
    journal' = [journal EXCEPT ![r].operation = op, ![r].hash = hash \/ @]

Become(p, state) == process' = [process EXCEPT ![p] = state]

(* prepareSubmission: the record is on disk before anything is sent. *)
Prepare(p, r) ==
    /\ process[p].step = "idle" /\ journal[r] = None
    /\ journal' = [journal EXCEPT ![r] =
                       [preparedAt |-> now, operation |-> None, hash |-> FALSE]]
    /\ Become(p, [Idle EXCEPT !.step = "prepared", !.request = r])
    /\ UNCHANGED <<circleVars, executed, told, now>>

(* submit, once the ledger has attached the request.  runner.run waits.    *)
Execute(p) ==
    /\ process[p].step = "prepared"
    /\ OneOut => \A s \in executed : told[s] # {}
    /\ executed' = executed \cup {process[p].request}
    /\ wire' = wire \cup {process[p].request}
    /\ Become(p, [process[p] EXCEPT !.step = "executing"])
    /\ UNCHANGED <<journal, operation, shown, told, now>>

(* Circle's answer, which may be older than the broadcast. *)
Executed(p) ==
    LET r == process[p].request
    IN  /\ process[p].step = "executing" /\ operation[r].state # "none"
        /\ ~Conflict(r, r)
        /\ \E hash \in {FALSE, operation[r].state \in WithHash} : Bind(r, r, hash)
        /\ Become(p, Idle)
        /\ UNCHANGED <<circleVars, executed, told, now>>

(* The CLI times out or fails, the list cannot be had, the bind conflicts, *)
(* or the process dies: the call throws, and nothing on disk changes.      *)
Fails(p) ==
    /\ process[p].step # "idle"
    /\ Become(p, Idle)
    /\ UNCHANGED <<journal, circleVars, executed, told, now>>

(* queryRequest reads the record, then asks for the list. *)
Query(p, r) ==
    /\ process[p].step = "idle" /\ r \in executed /\ told[r] = {}
    /\ Become(p, [Idle EXCEPT !.step = "listing", !.request = r,
                              !.record = journal[r]])
    /\ UNCHANGED <<journal, circleVars, executed, told, now>>

Listed == [r \in Requests |-> IF r \in shown THEN operation[r] ELSE NoOperation]

(* queryOperationRaw of the operation in the record, when it is listed. *)
FoundById(p) ==
    LET q == process[p]
        op == q.record.operation
    IN  /\ q.step = "listing" /\ op # None /\ Listed[op].state # "none"
        /\ Tell(q.request, StatusOf(Listed[op].state))
        /\ Become(p, Idle)
        /\ UNCHANGED <<journal, circleVars, executed, now>>

(* The list fails or lacks it: the chain is asked about a recorded hash.   *)
(* A node may not have the receipt yet (PENDING, NOT_FOUND: no end).       *)
AskedChain(p) ==
    LET q == process[p]
        op == q.record.operation
    IN  /\ q.step = "listing" /\ op # None /\ q.record.hash
        /\ operation[op].state \in {"COMPLETE", "FAILED"}
        /\ Tell(q.request, StatusOf(operation[op].state))
        /\ Become(p, Idle)
        /\ UNCHANGED <<journal, circleVars, executed, now>>

(* The start of the window does not count. *)
WithinWindow(list, op, record) ==
    list[op].state # "none" /\ list[op].createdAt > record.preparedAt - Window

(* matchesEnvelope, for operations of the one contract. *)
InEnvelope(list, op, record) ==
    list[op].state # "none" /\ list[op].createdAt >= record.preparedAt - Window

Matching(calls, list, r, record) ==
    {op \in Requests : /\ calls /\ InEnvelope(list, op, record)
                       /\ CallOf[op] = CallOf[r]}

Candidates(list, r, record) ==
    {op \in Requests : InEnvelope(list, op, record) /\ Unclaimed(op, r)}

(* Rejected by Circle before it was broadcast. *)
Rejected(list, r, record) ==
    {op \in Candidates(list, r, record) : list[op].state = "DENIED"}

(* One match: bind reads the journal again; none or several: UNKNOWN. *)
Conclude(p, list, matches) ==
    LET r == process[p].request
    IN  /\ \A op \in matches : matches = {op} => ~Conflict(r, op)
        /\ Become(p, Idle)
        /\ \/ Cardinality(matches) # 1 /\ UNCHANGED <<journal, told>>
           \/ \E op \in matches :
               /\ matches = {op}
               /\ Bind(r, op, list[op].state \in WithHash)
               /\ Tell(r, StatusOf(list[op].state))
        /\ UNCHANGED <<circleVars, executed, now>>

Unbound(p, step) == process[p].step = step /\ process[p].record.operation = None

(* The list has calls: match by signature and parameters. *)
MatchList(p) ==
    LET q == process[p]
        matches == Matching(TRUE, Listed, q.request, q.record)
    IN  /\ Unbound(p, "listing") /\ TRUE \in ListsCalls /\ matches # {}
        /\ Conclude(p, Listed, matches)

(* It has none: read the transactions of the candidates from the chain. *)
ReadChain(p) ==
    LET q == process[p]
    IN  /\ Unbound(p, "listing")
        /\ \E calls \in ListsCalls : Matching(calls, Listed, q.request, q.record) = {}
        /\ Become(p, [q EXCEPT !.step = "reading", !.list = Listed,
                          !.candidates = Candidates(Listed, q.request, q.record)])
        /\ UNCHANGED <<journal, circleVars, executed, told, now>>

(* The candidates whose transaction carries the call. *)
Carrying(p) ==
    LET q == process[p]
    IN  {op \in q.candidates : /\ q.list[op].state \in WithHash
                               /\ CallOf[op] = CallOf[q.request]}

(* Unreadable ones are left out.  With none left, those Circle rejected. *)
MatchVerified(p, verified) ==
    LET q == process[p]
    IN  /\ Unbound(p, "reading") /\ verified \subseteq Carrying(p)
        /\ Conclude(p, q.list,
                    IF verified # {} THEN verified
                    ELSE Rejected(q.list, q.request, q.record))

MatchChain(p) == \E verified \in SUBSET Carrying(p) : MatchVerified(p, verified)

-----------------------------------------------------------------------------
(* Circle and the chain. *)

(* A repeated request id makes no second operation. *)
Accept(r) ==
    /\ r \in wire
    /\ wire' = wire \ {r}
    /\ operation' = [operation EXCEPT ![r] = [state |-> "QUEUED", createdAt |-> now]]
    /\ UNCHANGED <<journal, shown, executed, told, process, now>>

Lose(r) ==
    /\ r \in wire
    /\ wire' = wire \ {r}
    /\ UNCHANGED <<journal, operation, shown, executed, told, process, now>>

Show(r) ==
    /\ operation[r].state # "none" /\ r \notin shown
    /\ shown' = shown \cup {r}
    /\ UNCHANGED <<journal, operation, executed, wire, told, process, now>>

Advance(r) ==
    /\ \E state \in CASE operation[r].state = "QUEUED" -> {"SENT", "DENIED"}
                      [] operation[r].state = "SENT" -> {"COMPLETE", "FAILED"}
                      [] OTHER -> {} :
          operation' = [operation EXCEPT ![r].state = state]
    /\ UNCHANGED <<journal, shown, executed, wire, told, process, now>>

Tick ==
    /\ now < MaxClock
    /\ now' = now + 1
    /\ UNCHANGED <<journal, circleVars, executed, told, process>>

Answered(p) == FoundById(p) \/ AskedChain(p) \/ MatchList(p) \/ MatchChain(p)

Driver(p) ==
    \/ \E r \in Requests : Prepare(p, r) \/ Query(p, r)
    \/ Execute(p) \/ Executed(p) \/ ReadChain(p) \/ Answered(p)
    \/ Fails(p)

Circle(r) == Accept(r) \/ Lose(r) \/ Show(r) \/ Advance(r)

Next == (\E p \in Processes : Driver(p)) \/ (\E r \in Requests : Circle(r)) \/ Tick

Spec == Init /\ [][Next]_vars

Recovers(p) == \E r \in Requests : Query(p, r)

Submits(p) ==
    \/ Execute(p) \/ Executed(p)
    \/ process[p].step \in {"prepared", "executing"} /\ Fails(p)

(* Circle goes on, submissions return or throw (the CLI has a timeout),    *)
(* and some agent asks again until it is told an end; asked again and      *)
(* again, it is at some time not disturbed between question and answer.    *)
LiveSpec ==
    /\ Spec
    /\ WF_vars(\E r \in Requests : Show(r)) /\ WF_vars(\E r \in Requests : Advance(r))
    /\ \A p \in Processes : WF_vars(Submits(p))
    /\ WF_vars(\E p \in Processes : Recovers(p))
    /\ SF_vars(\E p \in Processes : FoundById(p))
    /\ SF_vars(\E p \in Processes : MatchList(p))
    /\ SF_vars(\E p \in Processes : ReadChain(p))
    /\ SF_vars(\E p \in Processes : MatchVerified(p, Carrying(p)))

-----------------------------------------------------------------------------
(* A request is bound to its own operation and no other, whoever binds it  *)
(* and however it was found.                                               *)
BoundToOwn == \A r \in Requests : Bound(r) => journal[r].operation = r

(* circle-cli-driver.ts:770 says identical calls are told apart by what    *)
(* other requests have claimed: two requests never claim one operation.    *)
OneClaim == \A r, s \in Requests :
    Bound(r) /\ Bound(s) /\ journal[r].operation = journal[s].operation => r = s

(* The end of a request the agent is told of is the end its own operation  *)
(* has come to, and stays that.                                            *)
ToldIsTrue == \A r \in Requests : \A answer \in told[r] :
    /\ operation[r].state \in {"COMPLETE", "FAILED", "DENIED"}
    /\ answer = StatusOf(operation[r].state)

(* What is on disk is only ever added to: a record, the operation it is    *)
(* bound to and the hash of its transaction are never lost or replaced.    *)
JournalGrows ==
    [][\A r \in Requests : journal[r] # None =>
           /\ journal'[r] # None
           /\ journal'[r].preparedAt = journal[r].preparedAt
           /\ Bound(r) => journal'[r].operation = journal[r].operation
           /\ journal[r].hash => journal'[r].hash]_vars

(* Once Circle has made an operation of a request, the agent that asks     *)
(* often enough learns how it ended, whatever answers it has lost.         *)
OperationIsFound == \A r \in Requests :
    operation[r].state # "none" ~> told[r] # {}

(* circle-cli-driver.ts:783 says of a request that is matched to one       *)
(* Circle rejected: nothing was executed.  What is told REVERTED never is. *)
RevertedNeverRuns == \A r \in Requests :
    "REVERTED" \in told[r] => operation[r].state # "COMPLETE"
=============================================================================
