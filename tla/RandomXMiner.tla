----------------------------- MODULE RandomXMiner -----------------------------
(***************************************************************************)
(* RealRandomXMiner.mine (apps/cli/src/randomx-miner.ts) on a worker it    *)
(* drives through RandomXWorkerClient (tools/benchmark/src/worker-client   *)
(* .ts): prepare unless the epoch is the one prepared last, search, and    *)
(* wait for the result; an abort signal sends one cancel.                  *)
(*                                                                         *)
(* The caller runs one mine at a time, in order: mineOnce of the agent,    *)
(* pump of the companion.  A line read from stdout goes to the waiter of   *)
(* its job id or to the queue of that id; both are the lines delivered and *)
(* not taken.  JavaScript runs one step at a time, and whatever a line     *)
(* makes possible runs before the next event of the process is seen, so a  *)
(* timer or an exit finds no answer still untaken.                         *)
(***************************************************************************)
EXTENDS RandomXWorker, FiniteSetsExt

CONSTANTS
    Calls,             \* bound: calls of mine, 1..n, in order
    MayDie,            \* whether the system may kill the worker
    PrepareTimesOut,   \* whether a prepare may take longer than 120 s
    ReplyTimesOut      \* whether any other answer may be late (10 s, 5 s, ...)

Id(m, of) == <<m, of>>

ASSUME MinerAssumption ==
    /\ Calls \subseteq Nat
    /\ Calls \X {"prepare", "search", "cancel"} \subseteq JobIds
    /\ MayDie \in BOOLEAN /\ PrepareTimesOut \in BOOLEAN /\ ReplyTimesOut \in BOOLEAN

VARIABLES
    delivered,      \* how many lines of log the client has read
    taken,          \* which of them its waiters have taken
    mine,           \* the call under way, or the last one, and its step
    epochOf,        \* the epoch each call was made for
    outcome,        \* how each call settled
    preparedKey,    \* RealRandomXMiner.preparedKey
    exitSeen,       \* RandomXWorkerClient.closed
    aborted,        \* calls whose signal has been aborted
    cancelling,     \* calls whose cancel request waits for its answer
    cli             \* "up", or "crashed" by an error nobody handles

clientVars == <<delivered, taken, mine, epochOf, outcome, preparedKey, exitSeen,
                aborted, cancelling, cli>>
vars == <<workerVars, clientVars>>

Outcomes == {"none", "solution", "exhausted", "cancelled", "error", "timeout", "lost"}

Steps == {"idle", "preparing", "starting", "searching"}

MinerTypeOK ==
    /\ TypeOK
    /\ delivered \in 0..Len(log)
    /\ taken \subseteq 1..delivered
    /\ mine \in [call : Calls \cup {0}, step : Steps]
    /\ epochOf \in [Calls -> Epochs \cup {None}]
    /\ outcome \in [Calls -> Outcomes]
    /\ preparedKey \in Epochs \cup {None}
    /\ exitSeen \in BOOLEAN
    /\ aborted \subseteq Calls /\ cancelling \subseteq Calls
    /\ cli \in {"up", "crashed"}

Init ==
    /\ WorkerInit
    /\ delivered = 0 /\ taken = {}
    /\ mine = [call |-> 0, step |-> "idle"]
    /\ epochOf = [m \in Calls |-> None]
    /\ outcome = [m \in Calls |-> "none"]
    /\ preparedKey = None
    /\ exitSeen = FALSE
    /\ aborted = {} /\ cancelling = {}
    /\ cli = "up"

-----------------------------------------------------------------------------
(* The client's side of the pipe. *)

(* send throws once the process is known to have ended, or stdin has been  *)
(* destroyed, which it is some time after close() has ended it.            *)
Closed == exitSeen \/ eof

(* A write to a process that is gone but whose exit event has not come yet *)
(* breaks the pipe: the stream emits an error nobody listens for.          *)
Send(c) ==
    /\ stdin' = Append(stdin, c)
    /\ cli' = IF process = "running" THEN cli ELSE "crashed"

(* What a send that is Closed leaves of the program: a write to a stdin    *)
(* that is ended and not yet destroyed is an error nobody listens for.     *)
Unsent == IF exitSeen THEN {cli} ELSE {cli, "crashed"}

(* The lines a waiter for a job takes: the wanted types, and any error. *)
Answers(job, types) ==
    {i \in (1..delivered) \ taken : log[i].jobId = job
        /\ log[i].type \in types \cup {"INVALID_REQUEST", "WORKER_FAILURE"}}

Wanted ==
    CASE mine.step = "preparing" -> Answers(Id(mine.call, "prepare"), {"ready"})
      [] mine.step = "starting" -> Answers(Id(mine.call, "search"), {"started"})
      [] mine.step = "searching" -> Answers(Id(mine.call, "search"),
                                            {"progress", "solution", "exhausted", "cancelled"})
      [] OTHER -> {}

CancelAnswers(m) == Answers(Id(m, "cancel"), {"cancel-requested"})

(* Nothing a waiter could take is untaken. *)
Caught == Wanted = {} /\ \A m \in cancelling : CancelAnswers(m) = {}

Take == taken' = taken \cup {Min(Wanted)}
Answer == log[Min(Wanted)].type

-----------------------------------------------------------------------------
(* mine *)

Settle(result) ==
    /\ outcome' = [outcome EXCEPT ![mine.call] = result]
    /\ mine' = [mine EXCEPT !.step = "idle"]

SearchCommand(m) == [command |-> "search", jobId |-> Id(m, "search"), arg |-> None]

NextCall == mine.call + 1

MayCall == cli = "up" /\ mine.step = "idle" /\ NextCall \in Calls /\ ~eof /\ Caught

(* mine throws at once when the challenge has 5 s or less to live, or when *)
(* the worker has ended.  After a close it would have a new worker; no     *)
(* caller mines then.                                                      *)
MineThrows(e) ==
    /\ MayCall
    /\ epochOf' = [epochOf EXCEPT ![NextCall] = e]
    /\ outcome' = [outcome EXCEPT ![NextCall] = "error"]
    /\ mine' = [call |-> NextCall, step |-> "idle"]
    /\ UNCHANGED <<workerVars, delivered, taken, preparedKey, exitSeen, aborted,
                   cancelling, cli>>

Mine(e) ==
    /\ MayCall /\ ~Closed
    /\ epochOf' = [epochOf EXCEPT ![NextCall] = e]
    /\ IF preparedKey = e
       THEN /\ mine' = [call |-> NextCall, step |-> "starting"]
            /\ Send(SearchCommand(NextCall))
       ELSE /\ mine' = [call |-> NextCall, step |-> "preparing"]
            /\ Send([command |-> "prepare", jobId |-> Id(NextCall, "prepare"), arg |-> e])
    /\ UNCHANGED <<eof, log, process, doing, active, search, contexts, delivered, taken,
                   outcome, preparedKey, exitSeen, aborted, cancelling>>

Prepared ==
    /\ cli = "up" /\ mine.step = "preparing" /\ Wanted # {} /\ Answer = "ready"
    /\ Take
    /\ preparedKey' = epochOf[mine.call]
    /\ IF Closed
       THEN Settle("error") /\ UNCHANGED stdin /\ cli' \in Unsent
       ELSE /\ mine' = [mine EXCEPT !.step = "starting"]
            /\ Send(SearchCommand(mine.call))
            /\ UNCHANGED outcome
    /\ UNCHANGED <<eof, log, process, doing, active, search, contexts, delivered, epochOf,
                   exitSeen, aborted, cancelling>>

(* A bug that would send the cancel under the id of the search. *)
CancelUnderSearchId(m) ==
    IF Closed
    THEN cli' = "crashed" /\ UNCHANGED <<stdin, cancelling>>
    ELSE /\ Send([command |-> "cancel", jobId |-> Id(m, "search"), arg |-> Id(m, "search")])
         /\ cancelling' = cancelling \cup {m}

(* `void worker.request(...)`: nobody handles what the request rejects with. *)
RequestCancel(m) ==
    IF Closed
    THEN cli' = "crashed" /\ UNCHANGED <<stdin, cancelling>>
    ELSE /\ Send([command |-> "cancel", jobId |-> Id(m, "cancel"), arg |-> Id(m, "search")])
         /\ cancelling' = cancelling \cup {m}

(* A bug that would lose an abort that came before the search started. *)
StartedDeaf ==
    /\ cli = "up" /\ mine.step = "starting" /\ Wanted # {} /\ Answer = "started"
    /\ Take
    /\ mine' = [mine EXCEPT !.step = "searching"]
    /\ UNCHANGED <<workerVars, delivered, epochOf, outcome, preparedKey, exitSeen, aborted,
                   cancelling, cli>>

Started ==
    /\ cli = "up" /\ mine.step = "starting" /\ Wanted # {} /\ Answer = "started"
    /\ Take
    /\ mine' = [mine EXCEPT !.step = "searching"]
    /\ IF mine.call \in aborted
       THEN RequestCancel(mine.call)
       ELSE UNCHANGED <<stdin, cancelling, cli>>
    /\ UNCHANGED <<eof, log, process, doing, active, search, contexts, delivered, epochOf,
                   outcome, preparedKey, exitSeen, aborted>>

Progress ==
    /\ cli = "up" /\ mine.step = "searching" /\ Wanted # {} /\ Answer = "progress"
    /\ Take
    /\ UNCHANGED <<workerVars, delivered, mine, epochOf, outcome, preparedKey, exitSeen,
                   aborted, cancelling, cli>>

Ended ==
    /\ cli = "up" /\ mine.step # "idle" /\ Wanted # {}
    /\ Answer \in Terminal \cup {"INVALID_REQUEST"}
    /\ Take
    /\ Settle(IF Answer \in {"INVALID_REQUEST", "WORKER_FAILURE"} THEN "error" ELSE Answer)
    /\ UNCHANGED <<workerVars, delivered, epochOf, preparedKey, exitSeen, aborted,
                   cancelling, cli>>

(* The timer of the waiter fires: the worker is not told. *)
TimesOut ==
    /\ cli = "up" /\ Caught
    /\ \/ mine.step = "preparing" /\ PrepareTimesOut
       \/ mine.step \in {"starting", "searching"} /\ ReplyTimesOut
    /\ Settle("timeout")
    /\ UNCHANGED <<workerVars, delivered, taken, epochOf, preparedKey, exitSeen, aborted,
                   cancelling, cli>>

(* The caller aborts: a stop, a DELETE of the job.  The listener is there  *)
(* only while the search runs, and is removed when mine settles.           *)
Abort ==
    /\ cli = "up" /\ mine.step # "idle" /\ mine.call \notin aborted /\ Caught
    /\ aborted' = aborted \cup {mine.call}
    /\ IF mine.step = "searching"
       THEN RequestCancel(mine.call)
       ELSE UNCHANGED <<stdin, cancelling, cli>>
    /\ UNCHANGED <<eof, log, process, doing, active, search, contexts, delivered, taken,
                   mine, epochOf, outcome, preparedKey, exitSeen>>

(* The answer to a cancel.  An error rejects the request, and an unhandled *)
(* rejection ends a Node.js process.                                       *)
CancelAnswered(m) ==
    /\ cli = "up" /\ m \in cancelling /\ CancelAnswers(m) # {}
    /\ taken' = taken \cup {Min(CancelAnswers(m))}
    /\ cancelling' = cancelling \ {m}
    /\ cli' = IF log[Min(CancelAnswers(m))].type = "cancel-requested" THEN "up" ELSE "crashed"
    /\ UNCHANGED <<workerVars, delivered, mine, epochOf, outcome, preparedKey, exitSeen,
                   aborted>>

CancelTimesOut(m) ==
    /\ cli = "up" /\ ReplyTimesOut /\ m \in cancelling /\ Caught
    /\ cancelling' = cancelling \ {m}
    /\ cli' = "crashed"
    /\ UNCHANGED <<workerVars, delivered, taken, mine, epochOf, outcome, preparedKey,
                   exitSeen, aborted>>

-----------------------------------------------------------------------------
(* Events of the child process. *)

(* A line on stdout.  Lines of one chunk are delivered in one go. *)
Deliver ==
    /\ cli = "up" /\ delivered < Len(log)
    /\ delivered' = delivered + 1
    /\ UNCHANGED <<workerVars, taken, mine, epochOf, outcome, preparedKey, exitSeen,
                   aborted, cancelling, cli>>

(* A bug that would reject nobody when the worker ends. *)
SilentExit ==
    /\ cli = "up" /\ process # "running" /\ ~exitSeen /\ Caught
    /\ exitSeen' = TRUE
    /\ UNCHANGED <<workerVars, delivered, taken, mine, epochOf, outcome, preparedKey,
                   aborted, cancelling, cli>>

(* The exit event, which may come before the last lines of stdout.  Any    *)
(* code but 0 rejects the waiters: of mine, and of a cancel.               *)
ExitEvent ==
    /\ cli = "up" /\ process # "running" /\ ~exitSeen /\ Caught
    /\ exitSeen' = TRUE
    /\ IF process = "exited" \/ mine.step = "idle"
       THEN UNCHANGED <<outcome, mine>>
       ELSE Settle("lost")
    /\ cancelling' = IF process = "exited" THEN cancelling ELSE {}
    /\ cli' = IF process # "exited" /\ cancelling # {} THEN "crashed" ELSE "up"
    /\ UNCHANGED <<workerVars, delivered, taken, epochOf, preparedKey, aborted>>

(* close(), when the command is over or the companion is stopped: it ends  *)
(* stdin, and kills a worker that has not exited 5 s later.                *)
Close ==
    /\ cli = "up" /\ ~Closed /\ Caught
    /\ eof' = TRUE
    /\ preparedKey' = None
    /\ UNCHANGED <<stdin, log, process, doing, active, search, contexts, delivered, taken,
                   mine, epochOf, outcome, exitSeen, aborted, cancelling, cli>>

CloseKills ==
    /\ cli = "up" /\ eof /\ ReplyTimesOut
    /\ Die
    /\ UNCHANGED clientVars

(* The pipes of a process that is gone are closed. *)
PipeCloses ==
    /\ cli = "crashed" /\ ~eof
    /\ eof' = TRUE
    /\ UNCHANGED <<stdin, log, process, doing, active, search, contexts, clientVars>>

Takes == Prepared \/ Started \/ Progress \/ Ended \/ \E m \in Calls : CancelAnswered(m)

ClientStep ==
    \/ \E e \in Epochs : Mine(e) \/ MineThrows(e)
    \/ Takes \/ TimesOut \/ Abort
    \/ \E m \in Calls : CancelTimesOut(m)
    \/ Deliver \/ ExitEvent \/ Close \/ CloseKills \/ PipeCloses

WorkerRuns ==
    /\ MainThread \/ SearchThread \/ (MayDie /\ Die)
    /\ UNCHANGED clientVars

Next == ClientStep \/ WorkerRuns

Spec == Init /\ [][Next]_vars

(* Both threads of the worker run, and the event loop of the client does   *)
(* too.                                                                    *)
Running ==
    /\ WF_vars((MainThread \/ Release) /\ UNCHANGED clientVars)
    /\ WF_vars(Deliver) /\ WF_vars(Takes) /\ WF_vars(ExitEvent)

(* A search is sure to end once it is told to: a hashing thread looks at   *)
(* the flag between two nonces.                                            *)
CancelBounds ==
    WF_vars(search.cancel /\ (\E type \in Terminal : Tell(type)) /\ UNCHANGED clientVars)

LiveSpec == Spec /\ Running /\ CancelBounds

-----------------------------------------------------------------------------
(* Safety. *)

(* A solution was computed on the dataset of the epoch it was asked for.   *)
(* Nothing else looks: what the worker holds current is remembered on the  *)
(* client's side in preparedKey.                                           *)
SolutionIsOfItsEpoch ==
    \A m \in Calls : outcome[m] = "solution" =>
        \E i \in taken : /\ log[i].jobId = Id(m, "search") /\ log[i].type = "solution"
                        /\ log[i].context = epochOf[m]

(* A call that ended with the terminal message of its search leaves the    *)
(* worker to the next one: no line of that search comes later.             *)
SettledIsQuiet ==
    \A m \in Calls : outcome[m] \in {"solution", "exhausted", "cancelled"} =>
        \A i \in (1..Len(log)) \ taken : log[i].jobId # Id(m, "search")

(* A worker that exits with code 0 rejects no waiter: none may be left     *)
(* without a line that answers it.                                         *)
CleanExitOwesNothing ==
    process = "exited" /\ cli = "up" /\ delivered = Len(log) /\ Wanted = {}
        => mine.step = "idle"

(* Cancelling a search stops that search, not the program that mines.      *)
CancelSparesTheProgram == cli = "up"

(* The worker is used as its own specification expects, so what is proved  *)
(* of RandomXWorker holds for the worker of a miner.                       *)
ImplementsWorker == WorkerSpec

(* The worker refuses no search of a caller that waits for each result.    *)
SearchIsAccepted ==
    \A i \in DOMAIN log : log[i].type = "INVALID_REQUEST" =>
        log[i].jobId \notin {Id(m, "search") : m \in Calls}

(* A worker that ends of itself has given every search it started its      *)
(* terminal message.                                                       *)
StartedSearchEnds ==
    process \in {"exited", "terminated"} =>
        \A i \in DOMAIN log : log[i].type = "started" =>
            \E j \in DOMAIN log : log[j].jobId = log[i].jobId /\ log[j].type \in Terminal

-----------------------------------------------------------------------------
(* Liveness. *)

(* The search of the call under way is on, and nobody has cancelled it:    *)
(* its own time (maxDurationMs) is what ends it.                           *)
SearchIsOn == Hashing /\ search.job = Id(mine.call, "search") /\ ~search.cancel

(* Every call of mine settles, whatever happens to the worker and without  *)
(* a timer, as soon as its search is over (randomx-miner.ts, mine).        *)
EveryCallSettles == mine.step # "idle" ~> mine.step = "idle" \/ cli = "crashed" \/ SearchIsOn

(* A search whose signal is aborted stops inside the worker (companion.ts, *)
(* cancel), even if its time is not up and even if the program crashes.    *)
CancelStopsTheSearch ==
    \A m \in Calls : (mine.call = m /\ mine.step = "searching" /\ m \in aborted)
        ~> ~(Hashing /\ search.job = Id(m, "search"))
=============================================================================
