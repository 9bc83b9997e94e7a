---------------------------- MODULE CompanionJobs ----------------------------
(***************************************************************************)
(* CompanionJobs and its HTTP server (apps/cli/src/companion.ts, and start *)
(* of companion-command.ts): pages of the site post work to a loopback     *)
(* server, which runs the jobs one after another on one miner.             *)
(*                                                                         *)
(* Only two things wait: the body of a request, and the miner.  All else   *)
(* is synchronous, so submit, cancel and the continuation of pump are one  *)
(* step each; that pump calls itself until it starts a job or has none is  *)
(* part of the step that calls it.  The miner is RandomXMiner, seen here   *)
(* as a call that ends with a solution or an error.                        *)
(***************************************************************************)
EXTENDS Integers, FiniteSets

CONSTANTS
    Pages,          \* the browser tabs that talk to the companion
    Works,          \* challenge input, epoch key and target: what workKey joins
    Expiries,       \* the moments a challenge may expire
    MaxPending,     \* MAX_PENDING_JOBS
    MinStart,       \* MIN_START_SECONDS
    Retention,      \* FINISHED_RETENTION_MS
    MaxJobs,        \* bound: jobs ever made
    MaxClock,       \* bound: last moment
    None

ASSUME CompanionAssumption ==
    /\ Expiries \subseteq Nat
    /\ MaxPending \in Nat \ {0} /\ MinStart \in Nat /\ Retention \in Nat
    /\ MaxJobs \in Nat /\ MaxClock \in Nat
    /\ None \notin Works

VARIABLES
    jobs,       \* CompanionJobs.jobs, by order of insertion
    issued,     \* how many jobs were ever made
    running,    \* CompanionJobs.running, 0 for null
    now,        \* options.now
    page,       \* the work each page has posted while its body is being read
    server      \* "serving", "closing" after server.close, "closed"

vars == <<jobs, issued, running, now, page, server>>

Slots == 1..MaxJobs

Final == {"SOLUTION_FOUND", "FAILED", "EXPIRED", "CANCELLED"}
Pending == {"QUEUED", "COMPUTING"}
Resumable == Pending \cup {"SOLUTION_FOUND"}

Jobs == [work : Works \cup {None}, expiresAt : Expiries \cup {0},
         status : Final \cup Pending \cup {"ABSENT"}, aborted : BOOLEAN,
         finishedAt : 0..MaxClock]

(* A job never made, or deleted from the map. *)
Absent == [work |-> None, expiresAt |-> 0, status |-> "ABSENT",
           aborted |-> FALSE, finishedAt |-> 0]

(* A bug that would store the time a job has left, not its expiry. *)
QueuedFor(w, e) == [work |-> w, expiresAt |-> e - now, status |-> "QUEUED",
                    aborted |-> FALSE, finishedAt |-> 0]

Queued(w, e) == [work |-> w, expiresAt |-> e, status |-> "QUEUED",
                 aborted |-> FALSE, finishedAt |-> 0]

Requests == [work : Works, expiresAt : Expiries]

TypeOK ==
    /\ jobs \in [Slots -> Jobs]
    /\ issued \in 0..MaxJobs
    /\ running \in 0..MaxJobs
    /\ now \in 0..MaxClock
    /\ page \in [Pages -> Requests \cup {None}]
    /\ server \in {"serving", "closing", "closed"}

WithStatus(js, S) == {j \in Slots : js[j].status \in S}

Idle(p) == page[p] = None

Init ==
    /\ jobs = [j \in Slots |-> Absent]
    /\ issued = 0 /\ running = 0 /\ now = 0
    /\ page = [p \in Pages |-> None]
    /\ server = "serving"

-----------------------------------------------------------------------------
(* What the methods of CompanionJobs do to the map. *)

TooSoon(expiresAt) == expiresAt <= now + MinStart

Finish(js, ended, status) ==
    [j \in Slots |-> IF j \in ended
                     THEN [js[j] EXCEPT !.status = status, !.finishedAt = now]
                     ELSE js[j]]

Stale(j) == jobs[j].status \in Final /\ jobs[j].finishedAt < now - Retention

Prune == [j \in Slots |-> IF Stale(j) THEN Absent ELSE jobs[j]]

(* pump without its test of running. *)
AlwaysFree(busy) == busy \in Int

Free(busy) == busy = 0

(* pump takes the newest job. *)
IsNewest(j, ready) == \A k \in ready : j >= k

IsNext(j, ready) == \A k \in ready : j <= k

Start(js, next) == [js EXCEPT ![next].status = "COMPUTING"]

(* pump returns after an expired job and does not call itself again. *)
PumpOnce(js, busy) ==
    LET queued == WithStatus(js, {"QUEUED"})
    IN  \/ (busy # 0 \/ queued = {}) /\ jobs' = js /\ running' = busy
        \/ \E next \in queued :
            /\ busy = 0 /\ IsNext(next, queued)
            /\ IF TooSoon(js[next].expiresAt)
               THEN jobs' = Finish(js, {next}, "EXPIRED") /\ running' = 0
               ELSE jobs' = Start(js, next) /\ running' = next

(* The queued jobs before the first that still has time are expired. *)
Pump(js, busy) ==
    LET queued == WithStatus(js, {"QUEUED"})
        ready == {j \in queued : ~TooSoon(js[j].expiresAt)}
    IN  \/ ~Free(busy) /\ jobs' = js /\ running' = busy
        \/ /\ Free(busy) /\ ready = {}
           /\ jobs' = Finish(js, queued, "EXPIRED") /\ running' = 0
        \/ \E next \in ready :
            /\ Free(busy) /\ IsNext(next, ready)
            /\ jobs' = Start(Finish(js, {j \in queued \ ready : j < next}, "EXPIRED"), next)
            /\ running' = next

(* cancel without its test of isTerminal. *)
CancelFinished(js) ==
    [j \in Slots |->
        IF j \notin js \/ jobs[j].status = "ABSENT" THEN jobs[j]
        ELSE IF jobs[j].status = "COMPUTING" THEN [jobs[j] EXCEPT !.aborted = TRUE]
        ELSE [jobs[j] EXCEPT !.status = "CANCELLED", !.finishedAt = now]]

(* cancel for every job of js: queued ones end, a computing one is aborted. *)
CancelJobs(js) ==
    [j \in Slots |->
        IF j \notin js \/ jobs[j].status \notin Pending THEN jobs[j]
        ELSE IF jobs[j].status = "QUEUED"
        THEN [jobs[j] EXCEPT !.status = "CANCELLED", !.finishedAt = now]
        ELSE [jobs[j] EXCEPT !.aborted = TRUE]]

-----------------------------------------------------------------------------
(* The pages and the handler. *)

Answer(p) == page' = [page EXCEPT ![p] = None]

(* A page posts work; the handler waits for the body. *)
Post(p, w, e) ==
    /\ server = "serving" /\ Idle(p)
    /\ page' = [page EXCEPT ![p] = [work |-> w, expiresAt |-> e]]
    /\ UNCHANGED <<jobs, issued, running, now, server>>

(* The body never comes whole, is no JSON, or the challenge is nearly over. *)
Refuse(p) ==
    /\ ~Idle(p)
    /\ Answer(p)
    /\ UNCHANGED <<jobs, issued, running, now, server>>

(* submit resumes unfinished jobs only. *)
SameUnfinished(p) ==
    {j \in WithStatus(Prune, Pending) : Prune[j].work = page[p].work}

(* submit, with the jobs after its prune. *)
Same(p) == {j \in WithStatus(Prune, Resumable) : Prune[j].work = page[p].work}

Full == Cardinality(WithStatus(Prune, Pending)) >= MaxPending

Accepted(p) == ~Idle(p) /\ ~TooSoon(page[p].expiresAt)

Resume(p) ==
    /\ Accepted(p)
    /\ Same(p) # {}
    /\ Answer(p)
    /\ jobs' = Prune
    /\ UNCHANGED <<issued, running, now, server>>

TooMany(p) ==
    /\ Accepted(p) /\ Same(p) = {} /\ Full
    /\ jobs' = Prune
    /\ Answer(p)
    /\ UNCHANGED <<issued, running, now, server>>

Enqueue(p) ==
    /\ Accepted(p) /\ Same(p) = {} /\ ~Full
    /\ issued < MaxJobs
    /\ issued' = issued + 1
    /\ Answer(p)
    /\ Pump([Prune EXCEPT ![issued + 1] =
                 Queued(page[p].work, page[p].expiresAt)], running)
    /\ UNCHANGED <<now, server>>

(* DELETE by a page that knows the id. *)
Cancel(j) ==
    /\ server = "serving"
    /\ jobs' = CancelJobs({j})
    /\ UNCHANGED <<issued, running, now, page, server>>

(* The continuation asks the clock before the signal. *)
SettleByClock(status) ==
    /\ running # 0
    /\ status \in CASE jobs[running].expiresAt <= now -> {"SOLUTION_FOUND", "EXPIRED"}
                    [] jobs[running].expiresAt > now /\ jobs[running].aborted
                          -> {"SOLUTION_FOUND", "CANCELLED"}
                    [] OTHER -> {"SOLUTION_FOUND", "FAILED"}
    /\ Pump(Finish(jobs, {running}, status), 0)
    /\ UNCHANGED <<issued, now, page, server>>

(* miner.mine settles, and the continuation of pump runs. *)
Settle(status) ==
    /\ running # 0
    /\ status \in CASE jobs[running].aborted -> {"SOLUTION_FOUND", "CANCELLED"}
                    [] ~jobs[running].aborted /\ jobs[running].expiresAt <= now
                          -> {"SOLUTION_FOUND", "EXPIRED"}
                    [] OTHER -> {"SOLUTION_FOUND", "FAILED"}
    /\ Pump(Finish(jobs, {running}, status), 0)
    /\ UNCHANGED <<issued, now, page, server>>

Tick ==
    /\ now < MaxClock
    /\ now' = now + 1
    /\ UNCHANGED <<jobs, issued, running, page, server>>

(* SIGINT or SIGTERM: cancelAll, then server.close. *)
Stop ==
    /\ server = "serving"
    /\ jobs' = CancelJobs(Slots)
    /\ server' = "closing"
    /\ UNCHANGED <<issued, running, now, page>>

(* server.close calls back once the open requests are answered. *)
Close ==
    /\ server = "closing" /\ \A p \in Pages : Idle(p)
    /\ server' = "closed"
    /\ UNCHANGED <<jobs, issued, running, now, page>>

Mined == \E status \in Final : Settle(status)

Served(p) == Refuse(p) \/ Resume(p) \/ TooMany(p) \/ Enqueue(p)

Next ==
    \/ \E p \in Pages : \/ \E w \in Works, e \in Expiries : Post(p, w, e)
                        \/ Served(p)
    \/ \E j \in Slots : Cancel(j)
    \/ Mined \/ Tick \/ Stop \/ Close

Spec == Init /\ [][Next]_vars

-----------------------------------------------------------------------------
(* The miner has one job at a time, the one pump is waiting for.           *)
(* (RandomXMiner is called by nobody else while it works.)                 *)
OneAtATime == \A j \in Slots : jobs[j].status = "COMPUTING" <=> j = running /\ running # 0

(* No job waits while the miner is free: every step that frees it, or that *)
(* adds a job, starts the next one that still has time.                    *)
NoIdleQueue == running = 0 => WithStatus(jobs, {"QUEUED"}) = {}

(* Two jobs never work, or have worked with success, on the same challenge.*)
NoDuplicateWork == \A j, k \in WithStatus(jobs, Resumable) :
                       jobs[j].work = jobs[k].work => j = k

(* What a page is told of an ended job stays true until the job is         *)
(* forgotten, and it is not forgotten within the retention time.           *)
FinalIsFinal ==
    [][\A j \in WithStatus(jobs, Final) :
           \/ jobs'[j] = jobs[j]
           \/ jobs'[j] = Absent /\ jobs[j].finishedAt + Retention < now]_vars

(* A job is never overtaken by one that was accepted later.                *)
StartsInOrder ==
    [][\A j, k \in Slots :
           /\ jobs[j].status # "COMPUTING" /\ jobs'[j].status = "COMPUTING"
           /\ k < j
           => jobs'[k].status # "QUEUED"]_vars

(* A job a page has cancelled ends as cancelled or solved, whatever else   *)
(* goes wrong with the miner while it stops; an expired or failed miner    *)
(* call is told apart from it.                                             *)
AbortedIsCancelled == \A j \in WithStatus(jobs, Final) :
    jobs[j].aborted => jobs[j].status \in {"CANCELLED", "SOLUTION_FOUND"}

(* apps/cli/README.md:135 says a page that posts identical work resumes    *)
(* the search: the job it is answered with is not being cancelled.         *)
ResumedIsLive == \A p \in Pages : Accepted(p) =>
    \A j \in Same(p) : jobs[j].status \in Pending => ~jobs[j].aborted

(* companion.ts:203 says cancelAll cancels everything for shutdown: once   *)
(* the server has closed, no job goes on that nobody has cancelled.        *)
ShutdownCancelsEverything == server = "closed" =>
    \A j \in WithStatus(jobs, Pending) : jobs[j].aborted
=============================================================================
