---------------------------- MODULE RandomXWorker ----------------------------
(***************************************************************************)
(* The native RandomX worker (native/randomx-worker/src): a process that   *)
(* reads one JSON command per line, prepares datasets, and runs one search *)
(* at a time on a thread of its own.                                       *)
(*                                                                         *)
(* The main thread reads a command, joins a search that is over, and       *)
(* serves the command; a prepare takes long.  The search thread hashes,    *)
(* emits its terminal message, and only then takes stateMutex again to     *)
(* reset `active`.  Each action is what one thread does between two points *)
(* where the other can be seen: a critical section, or an output line.     *)
(*                                                                         *)
(* A search is its outcome: the threads it hashes on, their nonces and the *)
(* clock are left out.  Commands that change nothing (hash, status) and    *)
(* malformed ones are left out too; light mode is never asked for here.    *)
(***************************************************************************)
EXTENDS Naturals, Sequences, FiniteSets

CONSTANTS
    JobIds,        \* correlation ids a caller can use
    Epochs,        \* epoch keys; a context is a dataset of one epoch
    None,          \* a null pointer, or an argument a command does not have
    MaxProgress    \* bound: progress lines in all

ASSUME WorkerAssumption ==
    /\ None \notin JobIds \cup Epochs
    /\ MaxProgress \in Nat

VARIABLES
    stdin,         \* commands written and not read yet
    eof,           \* whether the caller has ended stdin
    log,           \* every line written to stdout, oldest first
    process,       \* "running", or how it ended
    doing,         \* the main thread: its step and the command at hand
    active,        \* Impl::active: the job id of the search under way
    search,        \* the SearchJob and its thread, as long as it is joinable
    contexts       \* cached contexts, most recently used first; current first

workerVars == <<stdin, eof, log, process, doing, active, search, contexts>>

Prepares == [command : {"prepare"}, jobId : JobIds, arg : Epochs]
SearchCommands == [command : {"search"}, jobId : JobIds, arg : {None}]
Cancels == [command : {"cancel"}, jobId : JobIds, arg : JobIds]
Commands == Prepares \cup SearchCommands \cup Cancels

(* The types of the last message of a search. *)
Terminal == {"solution", "exhausted", "cancelled", "WORKER_FAILURE"}

(* "INVALID_REQUEST" and "WORKER_FAILURE" are the codes of an error message. *)
Types == Terminal \cup {"ready", "started", "progress", "cancel-requested",
                        "INVALID_REQUEST"}

(* context is the dataset a solution's hash was computed with. *)
Messages == [type : Types, jobId : JobIds, context : Epochs \cup {None}]

NoSearch == [job |-> None, phase |-> "none", cancel |-> FALSE, context |-> None]

Searches == [job : JobIds, phase : {"hashing", "told", "finished"}, cancel : BOOLEAN,
             context : Epochs]

Reading == [step |-> "read", command |-> None]

TypeOK ==
    /\ stdin \in Seq(Commands)
    /\ eof \in BOOLEAN
    /\ log \in Seq(Messages)
    /\ process \in {"running", "exited", "terminated", "killed"}
    /\ doing \in [step : {"read", "exit"}, command : {None}]
            \cup [step : {"join"}, command : Prepares \cup SearchCommands]
            \cup [step : {"serve"}, command : Commands]
            \cup [step : {"building"}, command : Prepares]
    /\ active \in JobIds \cup {None}
    /\ search \in Searches \cup {NoSearch}
    /\ contexts \in Seq(Epochs) /\ Len(contexts) <= 2

WorkerInit ==
    /\ stdin = <<>>
    /\ eof = FALSE
    /\ log = <<>>
    /\ process = "running"
    /\ doing = Reading
    /\ active = None
    /\ search = NoSearch
    /\ contexts = <<>>

-----------------------------------------------------------------------------
(* The main thread. *)

Emit(type, job) == log' = Append(log, [type |-> type, jobId |-> job, context |-> None])

(* An exception in handle becomes an error message for its job. *)
Refuse ==
    /\ Emit("INVALID_REQUEST", doing.command.jobId)
    /\ doing' = Reading

(* getline hands over the next command; prepare and search begin with      *)
(* joinCompletedSearch, cancel does not.                                   *)
Read ==
    /\ process = "running" /\ doing.step = "read" /\ stdin # <<>>
    /\ stdin' = Tail(stdin)
    /\ doing' = [step |-> IF Head(stdin).command = "cancel" THEN "serve" ELSE "join",
                 command |-> Head(stdin)]
    /\ UNCHANGED <<eof, log, process, active, search, contexts>>

(* joinCompletedSearch: a search that has left `active` is joined; one that *)
(* has not is left alone, even if it has nothing more to say.               *)
JoinCompletedSearch ==
    /\ process = "running" /\ doing.step = "join"
    /\ search' = IF active = None THEN NoSearch ELSE search
    /\ doing' = [doing EXCEPT !.step = "serve"]
    /\ UNCHANGED <<stdin, eof, log, process, active, contexts>>

(* A bug that would prepare without asking for an active search. *)
PrepareAnyway ==
    /\ process = "running" /\ doing.step = "serve" /\ doing.command.command = "prepare"
    /\ doing' = [doing EXCEPT !.step = "building"]
    /\ UNCHANGED <<stdin, eof, log, process, active, search, contexts>>

(* Up to the allocation of the context, which may take minutes. *)
Prepare ==
    /\ process = "running" /\ doing.step = "serve" /\ doing.command.command = "prepare"
    /\ IF active # None
       THEN Refuse
       ELSE doing' = [doing EXCEPT !.step = "building"] /\ UNCHANGED log
    /\ UNCHANGED <<stdin, eof, process, active, search, contexts>>

Cached(epoch) == \E i \in DOMAIN contexts : contexts[i] = epoch

(* Bugs that would leave the current context on a hit, or evict nothing. *)
CacheHitKeeps(epoch) == IF Cached(epoch) THEN contexts ELSE <<epoch>> \o contexts
ContextsPileUp(epoch) == <<epoch>> \o contexts

(* At most two contexts: the least recently used one goes. *)
MakeCurrent(epoch) ==
    IF contexts = <<>> THEN <<epoch>>
    ELSE IF Head(contexts) = epoch THEN contexts
    ELSE <<epoch, Head(contexts)>>

Built ==
    /\ process = "running" /\ doing.step = "building"
    /\ contexts' = MakeCurrent(doing.command.arg)
    /\ Emit("ready", doing.command.jobId)
    /\ doing' = Reading
    /\ UNCHANGED <<stdin, eof, process, active, search>>

(* Not enough memory, or the allocation fails. *)
BuildFails ==
    /\ process = "running" /\ doing.step = "building"
    /\ ~Cached(doing.command.arg)
    /\ Refuse
    /\ UNCHANGED <<stdin, eof, process, active, search, contexts>>

(* The search command.  Assigning to a std::thread that is still joinable  *)
(* calls std::terminate.                                                   *)
Search ==
    /\ process = "running" /\ doing.step = "serve" /\ doing.command.command = "search"
    /\ IF active # None \/ contexts = <<>>
       THEN Refuse /\ UNCHANGED <<process, active, search>>
       ELSE /\ active' = doing.command.jobId
            /\ Emit("started", doing.command.jobId)
            /\ doing' = Reading
            /\ IF search = NoSearch
               THEN /\ search' = [job |-> doing.command.jobId, phase |-> "hashing",
                                  cancel |-> FALSE, context |-> Head(contexts)]
                    /\ UNCHANGED process
               ELSE process' = "terminated" /\ UNCHANGED search
    /\ UNCHANGED <<stdin, eof, contexts>>

Cancel ==
    /\ process = "running" /\ doing.step = "serve" /\ doing.command.command = "cancel"
    /\ IF active = doing.command.arg
       THEN /\ search' = [search EXCEPT !.cancel = TRUE]
            /\ Emit("cancel-requested", doing.command.jobId)
            /\ doing' = Reading
       ELSE Refuse /\ UNCHANGED search
    /\ UNCHANGED <<stdin, eof, process, active, contexts>>

(* End of input: shutdown cancels the active search ... *)
Shutdown ==
    /\ process = "running" /\ doing.step = "read" /\ stdin = <<>> /\ eof
    /\ doing' = [doing EXCEPT !.step = "exit"]
    /\ search' = IF active = None THEN search ELSE [search EXCEPT !.cancel = TRUE]
    /\ UNCHANGED <<stdin, eof, log, process, active, contexts>>

(* A bug that would exit without joining the thread. *)
ExitWithoutJoin ==
    /\ process = "running" /\ doing.step = "exit"
    /\ process' = "exited"
    /\ search' = NoSearch /\ active' = None /\ contexts' = <<>>
    /\ UNCHANGED <<stdin, eof, log, doing>>

(* ... joins its thread, and main returns 0. *)
Exit ==
    /\ process = "running" /\ doing.step = "exit"
    /\ search.phase \in {"none", "finished"}
    /\ process' = "exited"
    /\ search' = NoSearch /\ active' = None /\ contexts' = <<>>
    /\ UNCHANGED <<stdin, eof, log, doing>>

-----------------------------------------------------------------------------
(* The search thread. *)

Hashing == process = "running" /\ search.phase = "hashing"

Report ==
    /\ Hashing
    /\ Cardinality({i \in DOMAIN log : log[i].type = "progress"}) < MaxProgress
    /\ Emit("progress", search.job)
    /\ UNCHANGED <<stdin, eof, process, doing, active, search, contexts>>

(* Every hashing thread is done: a failure hides a solution, a solution    *)
(* hides a cancellation; otherwise the nonces or the time ran out.         *)
MayEndAs(type) ==
    \/ type \in {"WORKER_FAILURE", "solution"}
    \/ type = "cancelled" /\ search.cancel
    \/ type = "exhausted" /\ ~search.cancel

(* A bug that would have every hashing thread tell its own end. *)
EachThreadTells(type) ==
    /\ Hashing /\ MayEndAs(type)
    /\ log' = Append(log, [type |-> type, jobId |-> search.job,
                           context |-> IF type = "solution" THEN search.context ELSE None])
    /\ search' \in {search, [search EXCEPT !.phase = "told"]}
    /\ UNCHANGED <<stdin, eof, process, doing, active, contexts>>

Tell(type) ==
    /\ Hashing /\ MayEndAs(type)
    /\ search' = [search EXCEPT !.phase = "told"]
    /\ log' = Append(log, [type |-> type, jobId |-> search.job,
                           context |-> IF type = "solution" THEN search.context ELSE None])
    /\ UNCHANGED <<stdin, eof, process, doing, active, contexts>>

(* After the terminal message: active.reset() under the lock, and return. *)
Release ==
    /\ process = "running" /\ search.phase = "told"
    /\ active' = IF active = search.job THEN None ELSE active
    /\ search' = [search EXCEPT !.phase = "finished"]
    /\ UNCHANGED <<stdin, eof, log, process, doing, contexts>>

(* Somebody kills the process: the system, for the gigabytes of its dataset, *)
(* or the caller.                                                            *)
Die ==
    /\ process = "running"
    /\ process' = "killed"
    /\ UNCHANGED <<stdin, eof, log, doing, active, search, contexts>>

MainThread == Read \/ JoinCompletedSearch \/ Prepare \/ Built \/ BuildFails \/ Search
              \/ Cancel \/ Shutdown \/ Exit

SearchThread == Report \/ (\E type \in Terminal : Tell(type)) \/ Release

WorkerStep == MainThread \/ SearchThread \/ Die

-----------------------------------------------------------------------------
(* The caller, as far as the worker knows it: ids are never used twice. *)

Unused(job) ==
    /\ \A i \in DOMAIN stdin : stdin[i].jobId # job
    /\ doing = Reading \/ doing.step = "exit" \/ doing.command.jobId # job
    /\ \A i \in DOMAIN log : log[i].jobId # job

Write(c) ==
    /\ ~eof /\ Unused(c.jobId)
    /\ stdin' = Append(stdin, c)
    /\ UNCHANGED <<eof, log, process, doing, active, search, contexts>>

EndInput ==
    /\ ~eof
    /\ eof' = TRUE
    /\ UNCHANGED <<stdin, log, process, doing, active, search, contexts>>

CallerStep == (\E c \in Commands : Write(c)) \/ EndInput

WorkerSpec == WorkerInit /\ [][WorkerStep \/ CallerStep]_workerVars

-----------------------------------------------------------------------------
(* The protocol's promise for a search (native/randomx-worker/README.md,   *)
(* "JSONL protocol"): it emits `started`, progress, then one terminal      *)
(* message, and nothing after it.  Several threads write the lines, and    *)
(* the next search may start while the thread of this one still runs.      *)
IsSearch(i) == log[i].type \in Terminal \cup {"started", "progress"}

StartedComesFirst ==
    \A j \in DOMAIN log : IsSearch(j) /\ log[j].type # "started" =>
        \E i \in 1..(j - 1) : log[i].jobId = log[j].jobId /\ log[i].type = "started"

TerminalComesLast ==
    \A i, j \in DOMAIN log : i < j /\ log[i].jobId = log[j].jobId =>
        log[i].type \notin Terminal

SearchIsFramed == StartedComesFirst /\ TerminalComesLast

(* A search keeps the dataset it was started on: while one is active, no   *)
(* prepare makes another context the current one.                          *)
ActiveOnCurrent ==
    process = "running" /\ active # None =>
        /\ search.job = active /\ search.phase \in {"hashing", "told"}
        /\ contexts # <<>> /\ Head(contexts) = search.context
=============================================================================
