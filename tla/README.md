# Verification of the Arcals agent

TLA+ specifications, TLC runs and TLAPS proofs for the programs of this
repository: the `arcals` CLI with its durable ledger, the wallets it drives,
the companion that mines for a browser, and the native RandomX worker. Every
definition is written from the source; `PROJECT.json` ("map") names the lines
each one stands for.

## 1. The system

An owner mints NFTs ("Arcals") with a proof of work. The CLI obtains a
challenge from the API, has a RandomX worker search a nonce, hands the solution
in, waits for a certificate, and sends one Mint transaction through a wallet.
A sent Mint costs a fee and gas, so the whole design is about two promises:
never send a certified Mint twice, and never forget one that may be out. What
keeps them is a SQLite ledger that outlives every crash.

| Part | State it keeps | Operations | Talks to |
| --- | --- | --- | --- |
| Operation ledger (`apps/cli/src/ledger.ts`) | rows of `operations`, `runner_state.stop_requested`, `authorizations`, `api_sessions` | begin, attach, record, mark, resolve, commit, budget, stop | SQLite; several processes share the file |
| Agent runtime (`agent.ts`) | nothing durable; the local state of one command | mine, run, status, stop, authorize; content register, liquify, reform | ledger, wallet, chain, API, miner |
| Wallets (`wallets.ts`) | prepared submissions in memory (plain account) | prepare, submit, query | RPC node or a provider driver |
| Circle driver (`circle-cli-driver.ts`) | a journal of requests and bindings on disk | prepare, submit, query operation / request | the Circle CLI, the chain |
| Companion (`companion.ts`, `companion-command.ts`) | jobs in memory; a record of the running companion | submit, poll, cancel over local HTTP; start, detach, stop | the miner |
| Miner (`randomx-miner.ts`, `tools/benchmark/src/worker-client.ts`) | one worker process and its pending waits | mine, cancel, close | the native worker over JSON lines |
| Native worker (`native/randomx-worker/src`) | dataset, active search and its threads | prepare, hash, search, cancel, status, shutdown | the miner |
| Trust (`trust.ts`) | cached manifest and worker files | load, install, verify | files, HTTP, chain |
| SDK (`packages/sdk`) | none | API client with retries, call builders | API |
| Protocol (`packages/protocol`) | none | encodings, schemas, errors, Pi tree | everyone |
| WASM engine (`native/randomx-wasm`) | one VM | hash, search in a browser | the page |
| Wallet setup skill (`skills/arcals/scripts`) | files of an agent wallet | guided setup | Circle CLI |
| Generated and data packages (`contract-bindings`, `test-fixtures`), benchmarks, CI | none | - | - |

What is hard about it: several CLI processes on one ledger, each statement
atomic and nothing more; a wallet call that may or may not have been taken when
it throws; answers of a provider and of an RPC node that lag behind each other;
crashes between any two statements; a stop that arrives in the middle; and, in
the miner and the worker, cancellations that race results and a search that
ends while the next one begins.

What makes each part correct:

- ledger and agent: one hand-over per Mint; one Mint out at a time; a row is
  resolved the way its Mint ended; an unattended runner stays within its
  budget; stop brings it to rest; what ended is eventually resolved and an
  expired certificate released;
- Circle driver: a request is bound to the one operation it caused, is told
  that operation's true end, and finds it again however many answers are lost;
  what is on disk is only added to;
- companion: at most one job mines and none waits for a free miner,
  jobs start in the order they came, the same work is
  never mined twice at once, what a page is told of an ended job stays true, and
  an aborted job ends as cancelled or, if the search was faster, as solved;
- miner and worker: one search at a time, on the dataset it was asked for;
  exactly one terminal message per search, last; every call settles, and an
  aborted search stops;
- auxiliary operations: no lost answer, crash or second recovery writes off an
  approval or a conversion that is out (two wrong answers of a wallet do, and
  errors do it to registrations: section 6), a conversion is sent only where the
  contracts would take it, and what ended is settled;
- companion command and trust: a companion serves with the very worker its
  manifest names, a half-written file is never in place, and a stop returns;
- API session: a write is done once however often it is sent, and a command ends;
- wallet setup: what is reported is so, and a wallet is deployed by one transfer;
- protocol and wallet calls: what two parties compute apart agrees, and what a
  wallet executes is what the agent asked for.

## 2. The modules

| Module | What it is | Uses |
| --- | --- | --- |
| `MintLedger` | the SQL statements of the ledger on Mint rows, as operators from table to table | - |
| `MintAgent` | CLI processes running commands on one ledger, wallet, chain and clock | `MintLedger`, `MintPromise` |
| `MintPromise` | abstract: what the owner of a wallet is promised | - |
| `MintAgentProofs` | every safety property of `MintAgent` proved, the promise and the budget among them | `MintAgent` |
| `RandomXWorker` | main thread, search thread and output of the native worker, for any caller | - |
| `RandomXMiner` | `RealRandomXMiner` and `RandomXWorkerClient` on that worker | `RandomXWorker` |
| `RandomXWorkerProofs` | the safety properties of the worker for any caller, and of the miner that is one, proved | `RandomXMiner` |
| `CompanionJobs` | the companion's jobs, their pump and the HTTP handlers | - |
| `CompanionJobsProofs` | its invariants and action properties, proved | `CompanionJobs` |
| `CircleJournal` | the Circle driver: journal, submission, matching of Circle's operations | - |
| `CircleJournalProofs` | the journal forgets nothing, and Mints are bound to their own operations, proved | `CircleJournal` |
| `AuxiliaryOperations` | content registration and conversions: their rows, their commands, their recovery | - |
| `AuxiliaryProofs` | its safety properties, proved | `AuxiliaryOperations` |
| `CompanionStart` | starts, detached starts and stops of the companion with the installation of its worker | - |
| `CompanionStartProofs` | the installed worker is the manifest's, proved | `CompanionStart` |
| `Protocol` | Pi content and proofs, hashes, windows, manifests, the agent's checks; no state | - |
| `WalletCalls` | the calls, what Circle executes for them, fees, capabilities, handles; no state | `Protocol` |
| `ProtocolProofs` | that these functions agree with each other, and that a session writes once, proved | `ApiSession` |
| `ApiSession` | preflight, login, challenge and work over a network that loses and repeats | `WalletCalls` |
| `WalletSetup` | the commands of the setup helper beside the deployment a Mint begins with | - |
| `WalletSetupProofs` | its reports and its one deployment, proved | `WalletSetup` |
| `MC...` | instances for TLC: small sets, symmetry | the module named |

How they meet: `MintAgent` sees a Circle wallet as a query that answers truly
and sometimes not at all (`CircleAnswers`); `CircleJournal` is the driver that
gives those answers, and `ToldIsTrue` and `OperationIsFound` are what `MintAgent`
takes for granted. `CompanionJobs` and `MintAgent` see the miner as a call that
ends; `RandomXMiner` is that call, and `EveryCallSettles` says that it does.
`RandomXMiner` composes the client with `RandomXWorker` and is checked and proved
to use it as `WorkerSpec` expects (`ImplementsWorker`), so what is proved of the
worker for any caller holds for it. A command `mine --once` goes through three modules:
`WalletSetup` (`MineOnce`) until its wallet has code, `ApiSession` from the
preflight to the certificate, `MintAgent` from the ledger row on; where one
begins, the one before may have ended in any of its states. `CompanionStart`
ends where `CompanionJobs` begins, at a server that listens.

### Ledger and agent (`MintLedger`, `MintAgent`)

`led` is the table `operations`, one row per operation id; `stop` and `auth` are
`runner_state.stop_requested` and the `authorizations` row. They survive a
crash; `proc[p]`, the command a process runs with its local variables, does not.
`tx`, `cert` and `handed` are the world outside: what became of each Mint's
transaction, how its certificate stands against the clock, and how often
`submitCall` was given it.

A process's program counter names the `await` or ledger statement it is about to
do. Synchronous code between two of them is one action, except that two ledger
statements are two actions: another process may work on the file in between. Two
places keep statements together, since a split would lengthen every proof about
them and add no outcome. `SettlePending`, `SettleUnknown` and
`SettleFailed` begin with `recordWalletHandle` (`agent.ts:1514`): between it and
the next statement the row is TX_PENDING with its handle, active and unresolved
as before, a crash there leaves it to the next recovery, and the next statement
overwrites the state whatever it is. `Commit` is the sums of
`assertBudgetAvailable` (684) and the `UPDATE` of the commitment (693): while a
runner is there its Mint holds the unique index or is still CERTIFICATE_READY, so
another process can at most commit to the same row, which with one quote writes
the same numbers.
`Update` is one SQL statement under the partial unique index: an `UPDATE` that
would break it throws, and the throw ends the command. `Abort` is any throw or
crash of a command: at every label it leaves the ledger and the world as they
are.

| Code | Actions |
| --- | --- |
| commands (`agent.ts`) | `Status`, `MineOnce`, `Run`, `RunIteration`, `RequestStop`, `RevokeAuthorization`, `Authorize`, `ClearStop`, `Abort` |
| `recoverOperation` | `Probe` ... `SettleUnknown`; the wallet's answer is `QueryCircle` or the three reads `ReadReceipt`, `LookupTransaction`, `CountTransactions` of a plain account |
| `mineOnce` | `Resume`, `StartWork`, `RefuseWork`, `StopMining`, `ObtainCertificate`, `BeginMint`, `StoreCall` |
| `sendCertifiedMint`, `submit` | `CheckSendWindow` ... `LoseSubmission` |
| provider, chain, clock | `Accept`, `Vanish`, `Land`, `Revert`, `LandHollow`, `UseNonce`, `NearExpiry`, `Expire`, `AuthorizationExpires` |

Left out: columns nothing decides on, the event log and the per-row stop flag
(which `stop` sets and no decision reads), commands without
`--confirm` (they recover and show a preview), `associateTransaction` (its
failure is swallowed and it changes nothing). An estimate of fees is any member
of `Quotes`. API sessions and auxiliary rows have modules of their own; a Mint
reads neither. Failures of the API
and of preflight checks are `Abort` here. A provider is assumed to hand a Mint it
lists to the chain unchanged and never to take back a final answer.

### Miner and worker (`RandomXWorker`, `RandomXMiner`)

The worker's `stdin` is a queue of commands, `log` everything it ever wrote;
`delivered` is how much of it the client has read and `taken` what its waiters
have used, which stands for the client's waiter list and its queues at once.
`active` is `Impl::active`; `search` is the job and its `std::thread` as long as
that thread is joinable; `contexts` the cached datasets, current one first. The
main thread stops wherever the search thread could be seen: `Read`, then
`JoinCompletedSearch` and the check of `Search` or `Prepare` as two critical
sections. The search thread writes its terminal message (`Tell`) and only then
resets `active` (`Release`). A search is its outcome: hashing threads, nonces
and time are left out, as are `hash` and `status`, which change nothing, and the
light mode, which this client never asks for. The system is assumed to give the
worker its search thread: where `std::thread` throws (`randomx_engine.cpp:548`)
the search is answered with an error after `started`, `active` stays set, and the
worker refuses every later prepare and search until it is ended.

`mine` is three waits (`preparing`, `starting`, `searching`); its caller makes
one call at a time, as `mineOnce` and `pump` do, and none after `close`.
JavaScript runs one step at a time and a settled promise runs before the next
event, hence `Caught` in the events' guards. `send` throws when the exit has been seen or
`stdin` is destroyed; between `close()` and that moment a write is an error event
on `stdin` that nobody listens for, so a call that goes on after `close` fails or
ends the program (`Unsent`). Two more things reject all waiters and are not
modelled: the `error` event of a child that could not be started or signalled,
and a line that is no JSON, which this worker writes at most as the torn last
line of its death; the exit rejects the same waiters then. An error nobody handles (a broken
pipe, a rejected `void worker.request(...)`) ends the program: `cli = "crashed"`.

### Companion (`CompanionJobs`)

`jobs` is the map by order of insertion, `running` the job `pump` waits for,
`page[p]` a request whose body is still being read, `server` the HTTP server.
Only the body and the miner are awaited, so `submit`, `cancel` and the
continuation of `pump` are one action each; `pump` calling itself until a job
starts is part of the action that calls it (`Pump`). Time is a small clock;
`MinStart` and `Retention` stand for 5 s and the retention of ended jobs. The
tests of host and origin and the texts of answers are left out.

### Circle driver (`CircleJournal`)

`journal` is the record of each request on disk; Circle makes at most one
operation of a request (the id is its idempotency key), so the operation is
named by its request and `journal[r].operation = r` says "bound to its own". A
query reads the record, waits for Circle's list, perhaps for transactions of
the candidates (`ReadChain`, `MatchChain`), and binds what matches exactly one.
`shown` is what Circle's list has by now, `wire` an `execute` still on its way.
`OneOut` is the ledger's unique index seen from here: a Mint is submitted when
the one before has ended. All requests are to one contract, the only other
thing the envelope of a match tells apart. Left out: attribution of gas, signing, and the length of Circle's list (50);
deployment is in `WalletSetup`, what is executed for a call in `WalletCalls`.

### Auxiliary operations (`AuxiliaryOperations`)

`row` are the rows of the ledger that are no Mint, in the order of their
creation; `tx` what became of the call of each outside; `chain` the one Arcal as
the contracts hold it (registered, approved, allowance, form); `wallet` the kind
of wallet; `handle` whose submission the handle known of a row names, its own or,
with Circle, that of another request. A command is
`Liquify`, `Reform` or `RegisterContent`, then the questions it asks the chain
(`ContentIsRegistered`, `VaultMayTakeNft`, `VaultMayLockArcl`) and, per row,
`BeginOperation`, `GetPiProof`, `Simulate`, `Attach` or `PrepareFails`,
`SubmitCall`, `RecordWalletHandle` or `LoseSubmission`; recovery is
`MarkRecovering`, the wallet's answer (`Queries`), `Settle`, in the command itself
and in the loop of another process (`RecoverOutstanding`, `Loop`).

An answer is what the wallets can give, not the truth. A plain account reads
receipt, transaction and nonce at three moments (`ReadReceipt`,
`LookupTransaction`, `CountTransactions`), so that its own transaction, mined in
between, reads as REPLACED; a nonce may be used by another transaction too
(`UseNonce`). Circle (`QueryCircle`) is asked for the operation of the request,
and `AskCircle` binds the one that matches: that request's own, or one of another
request that has the same call or was rejected on the same contract, whose PENDING,
CONFIRMED or REVERTED it then tells for good. `Alike` is the kinds of rows this
may happen to; what Circle's list and the journal have to be like for it is in
`CircleJournal`. The binding in the journal and the handle in the ledger are one
step, and `Settle` leaves out the `recordWalletHandle` before it, whose TX_PENDING
the next statement overwrites. None of the ledger's
statements asks for the state a row was read in, and neither does the model: two
processes write what they found, the later one last. `Throws` is where the
commands differ: a registration catches and fails its row, another command
leaves it.

### Companion command and trust (`CompanionStart`)

`disk` is the worker file at each path, `download` the file a process writes
beside it, `port` who listens, `record` the file `companion.json`. A write of a
file is two actions, the file is there and empty in between. A process may die
at every step and leaves its files. What a manifest says is a record, accepted
as `loadAgentManifest` accepts it: the environment is bound, productions are
authorized on mainnet only, each build names a hash and is to be had.

### API session and preflight (`ApiSession`, `Protocol`, `WalletCalls`)

`stored` is the session in the ledger, shared by the processes of a wallet;
`network` every request ever sent, each of which the server may do late, twice
or never (`DoneUnheard`); `valid` and `done` are the server, which is not in this
repository: all that is assumed of it is that it does a write once per
idempotency key and answers a repetition alike, which is what the comments of
the SDK say of it. `Send` and `GiveUp` are the retries of `send`. The preflight
is `PreflightConfig`, over any answers of the API, the contracts and the wallet
(`Configs`, `Chains`, `Wallets`), with the operators of `Protocol` and
`WalletCalls`; a mismatch ends the command.

In these two modules a hash is the term it was made of, so that equal hashes
mean equal contents (Keccak is free of collisions) and different domains never
meet; ABI encoding is likewise its arguments. Bytes32 and addresses are values
that are only compared. Fields have their ranges (`Uint64`, `Uint256`), because
the hash functions throw outside of them. `Packed` content and the little-endian
nonce are modelled digit by digit, as what they do is the question.

### Wallet setup (`WalletSetup`)

`terms` are Circle's Terms (current, accepted, all it has recorded), `user` what
the user was shown and has accepted, `login` whose session the Circle CLI has and
which one-time codes are out, `transfers` the deployment transfers Circle has
taken, by key. A helper process runs one command to its end and says one word
(`told`). Every call of the Circle CLI is an action of its own, for the user,
Circle and another process go on between two of them. The deployment by
`ensureWalletDeployed` of the CLI shares its actions: the two programs derive the
same key. Left out: `check`, which only reads, and the amounts of funding plans.

## 3. The runs

All runs use two TLC workers. `CHECK_DEADLOCK FALSE` stands in every
configuration because the system may stop: every Mint has ended, every call is
made, the server is closed, the requests are answered.

| Run | Instance | Shows |
| --- | --- | --- |
| `mint_circle` | a runner with an authorization for one Mint beside a process that mines, 2 Mints, Circle wallet | `HandedAtMostOnce`, `OneMintOut`, `FailedIsOver`, `ImplementsPromise`, `UnattendedWithinBudget`, types |
| `mint_stops` | a runner with a plain account beside a process that mines and stops it; preparations and reads fail | `StopQuiesces` |
| `mint_recovers` | 1 process, 1 Mint, `status` and `mine`, under `FairSpec` | `EndedIsResolved`, `ExpiredIsReleased` |
| `miner_plain` | 3 calls, 2 epochs, worker may die | `SearchIsFramed`, `ActiveOnCurrent`, `SolutionIsOfItsEpoch`, `SettledIsQuiet`, `CleanExitOwesNothing`, `ImplementsWorker`, types |
| `miner_live` | 2 calls of one epoch, any answer late, worker may die | `EveryCallSettles`, `CancelStopsTheSearch` |
| `companion` | 1 page, 4 works, 4 jobs, cap 3, two moments | `OneAtATime`, `NoIdleQueue`, `NoDuplicateWork`, `AbortedIsCancelled`, `StartsInOrder`, `FinalIsFinal`, types |
| `circle` | 2 processes, 2 requests, lists with and without calls | `BoundToOwn`, `ToldIsTrue`, `JournalGrows`, `OperationIsFound`, types |
| `auxiliary` | a process that registers and converts beside one that recovers, 2 rows; Circle with an Arcal to register, approved already, or a plain account with a liquified one | `Tracked`, `LiquifiesRegistered`, `EndedIsSettled` |
| `startup` | 2 starts beside a process that starts detached and stops, 2 releases and a manifest to be refused | `VerifiedStays`, `NeverHalfInstalled`, `StopReturns` |
| `session` | 2 processes, 2 attempts, 2 polls, every answer of the preflight true or wrong in one thing | `WrittenOnce`, `CommandEnds` |
| `setup` | every command of the helper beside one that accepts Terms and one Mint, 2 versions of the Terms | `ReportsAreTrue`, `OneDeployment` |
| `chain_lags` | 1 process, 1 Mint, the node lags | `FailedIsOver`, which the code breaks (section 6) |

`TypeOK` of the four modules without it in this table was checked on the same
instances, and is a part of the invariants proved in section 5.

Why the bounds are enough. Mint runs: every rule of the ledger is about one row,
or about two rows of one wallet through the unique index and the budget; two
Mints and two processes give every pair of statements, and `proc` of a third
process would only repeat one of two. The authorization has room for exactly one
Mint, so a second one breaks every limit; there is one quote and no receipt, so
every Mint costs the same gas (section 6 has what happens otherwise). `mint_stops` has one Mint, since a stop
is about what the next command does; `mint_recovers` one process, since liveness
of two is that of one beside disturbances, which `Abort` and lost answers are. Miner: three calls reach a hit, a miss and an
eviction of the two-entry dataset cache in between and two searches back to back;
`MaxProgress` bounds progress lines, which only occupy the pipe; `miner_live`
needs a search and one after it. Companion: one job computing and two queued is
the least in which order and the skipping of expired jobs show, and a fourth
finds the queue full; pages differ only in the body they wait for. The clock has
the moments before and after an expiry, `MinStart` and `Retention` are 0 in it,
so the gap in which a job may no longer start but its search would still be in
time is not exercised. Circle: matching is about a request and a candidate that
is not its own. Auxiliary: a conversion needs two rows, an approval and itself, or
a registration and itself; Circle liquifies here and the plain account reforms, and
`Alike` is an approval and a conversion. The invariants were also checked under
`Spec` with both wallets on both Arcals and every kind in `Alike` (4.3 million
states, too long beside the liveness). Startup: two releases and three processes are the
least in which one installs what another has verified while a third stops it.
Session: two attempts (4 in the code) are one repetition, two polls (300) one
that finds the job neither ready nor over; the limits only count. The Pi tree has
height 3 and 5 Arcals (20 and 1,000,000), so that there are empty leaves and paths
that differ in each position. Setup: two versions of the Terms, one skill, one
account, two attempts at a transfer (3).

Symmetry is used only where every property is an invariant or an action property
(`mint_circle`, `miner_plain`, `companion`), over sets whose members `Init`,
`Next` and the properties treat alike: the operations, the epochs, the works. In
`mint_circle` the processes have different commands and are not symmetric.

The instance of `session` also evaluates, before it runs, what pure operators do:
of all combinations of answers exactly the true ones pass the preflight
(`OnlyTheTruthPasses`); digits return from packing (`DigitsReturn`) and nonces
from their bytes (`NoncesReturn`); and a Merkle proof is accepted for its own
Arcal and content and no other (`ProofsAreOfTheirArcal`, against a tree that is
built from the leaves up).

## 4. Fairness

- `Progress` (`mint_stops`, `mint_recovers`): a command that mines or sends goes
  on; each of its awaits has a time limit or throws.
- `Persistence` (`mint_recovers`): the operator asks for `status` again and
  again, each step of the recovery gets through at some time (strong fairness:
  answers may be lost any number of times, not for ever), and a provider that
  knows an outcome says so at some time. Nothing forces a user to mine, a Mint
  to land, or a certificate to expire.
- `Running` (`miner_live`): the worker's threads and the client's event loop
  run. `CancelBounds`: hashing threads look at the cancel flag between nonces.
  Neither the worker's death, nor a timer, nor the end of a search nobody
  cancelled is fair: `EveryCallSettles` lets a call wait for exactly that last
  thing, which `maxDurationMs` bounds in the code.
- `LiveSpec` of `CircleJournal`: Circle shows and advances what it has,
  submissions return (the CLI process has a timeout) and some agent asks again
  until it is told an end; it is at some time not disturbed between question and
  answer, and all transactions of the candidates can be read at some time.

- `LiveSpec` of `AuxiliaryOperations`: the operator asks for status again and
  again; the query of a row does not throw for ever, and a provider that knows an
  outcome says so at some time (strong fairness per row, as the loop takes the
  rows in turn); so does Circle of an operation it took for this row's, since that
  one ends too. No command has to go on, no call has to land.
- `LiveSpec` of `CompanionStart`: a stop goes on, since its reads, requests and
  pauses have an end; nothing is asked of any other process.
- `LiveSpec` of `ApiSession`: a process goes on, since `fetch` and the wallet
  have time limits and a search ends with its challenge; nothing is asked of the
  server, so `CommandEnds` holds of one that never answers.

`WalletSetup` has no liveness run: a helper command waits only for the Circle
CLI, under a time limit, and its user is not bound to come back.

The jobs of the companion have no liveness run of their own: that an accepted job ends follows
from `NoIdleQueue` and `OneAtATime` (a queued job waits only for the one that
computes), `StartsInOrder` (it is not overtaken), and `EveryCallSettles`.

## 5. What is proved

TLAPS checks these for every value of the constants that meets the assumptions
(`LedgerAssumption`, `AgentAssumption`, `WorkerAssumption`, `MinerAssumption`,
`CompanionAssumption`, `JournalAssumption`, `NoRecordAssumption`,
`AuxiliaryAssumption`, `StartAssumption`, `SessionAssumption`,
`ProtocolAssumption`, `SetupAssumption`, `SilenceAssumption`; TLC evaluates them
in the runs): types and ranges, that `None` and its like are no data, and that
ids of different commands differ. A further premise of a theorem stands in its
`ASSUME` and is named here with the reason for it. Each invariant has one lemma
per group of actions, and one step per part a group can disturb.

### Ledger and agent

- `TypeCorrect`: `Spec => []TypeOK`, from the inductive `TypeInv`, which adds
  what the types need: a process at a label that works on an operation has one.
- `OneHandOver`: `Spec => []HandedAtMostOnce`. The invariant is not inductive: a
  process could stand before `submitCall` with a Mint already handed over.
  `HandOver` adds why that does not happen: a Mint leaves `CERTIFICATE_READY` for
  good when one process attaches its request; only that process stands before
  `submitCall`; and no row is created twice. Most actions are `Quiet`, they move a
  process or write columns that `HandOver` does not read (`Kept`).
- `AccountedHolds`, `ConfirmedOnlyIfIssued`, `OneOut`, `FailedOnlyIfOver`. A row
  agrees with the chain only because of what the processes that will write it
  have read, perhaps long ago: `Accounted` says of every process that what it
  `Knows` still holds (an issued Mint stays issued, an end stays an end), whatever
  others wrote since. It holds for any wallet and any fault; `Ends` says which
  ends a failed row may have under which. From it:
  - `OneOut` (`OneMintOut`): a Mint that is out has an indexed row, and the
    unique index leaves one. Premise: no preparation fails, for one that does
    releases a row whatever has become of it (section 6).
  - `FailedOnlyIfOver` (`FailedIsOver`) under `Candid`: a Circle wallet, no
    failing preparation, a node that does not lag. Without each of the three the
    property breaks (section 6 and the run `chain_lags`).
- `KeepsPromise`: under `Candid`, `Spec => ImplementsPromise`. The outcomes of the
  Mints map to the chain of `MintPromise` and the rows to what is told; each step
  of a process or of the world is a step of the promise on one Mint, or none.
- `BudgetedHolds`, `RunnerKeepsWithin`: under `Candid`, an unattended runner
  hands over no Mint beyond the number and the fees it is authorized for, the
  first two parts of `UnattendedWithinBudget`. The check of the budget and the
  hand-over are several steps apart. `Budgeted` says that what was asked for still
  fits: while a runner stands between them its Mint is active or still
  `CERTIFICATE_READY`, so nobody else can begin or confirm a Mint (`RoomStays`),
  and a row with a request has exactly the one fee committed (`FeeBooked`). The
  sums of the ledger are folds; only those over no and over one row are ever
  computed (`EmptySum`, `SingleSum`), so no induction is needed.
- `AloneKeepsBudget`: the whole of `UnattendedWithinBudget`, gas included, for any
  wallet, faults, quotes and receipts, with the premise `Alone`: one process has
  the ledger, as `apps/cli/README.md:179` says ("Only one CLI process may hold a
  ledger"). Nothing in `ledger.ts` sees to it (`OneProcessHoldsLedger` in section
  6), and with two processes gas is where it shows. `Asked` says that the row
  still books what the budget was asked for, until the hand-over.

### Miner and worker

- `DatasetHeld`: `WorkerSpec => []ActiveOnCurrent`. `OneThread` strengthens it:
  `active` points to the one search whose thread is joinable and not finished,
  and no context is built while it does.
- `SearchesFramed`: `WorkerSpec => []SearchIsFramed`. `Framed` adds that a search
  still hashing has said `started` and nothing terminal, and `Fresh` that no id
  in the pipe or at hand has been used in an earlier line.
- `MinerUsesWorker`: `Spec => ImplementsWorker`, so both hold of the miner
  (`MinerSearchesFramed`). `WorkerSpec` asks of its caller that ids be fresh and
  that a search be sent when the last is over. `MinerInv` has what gives that:
  the id of a command not yet sent has never been heard (`IdsAreFresh`); a search
  starts once (`SaidOnce`); what a step of `mine` waits for is on its way or said
  (`WorkerOwes`), and a call goes on only with the answer taken (`TakenInOrder`).
- `MinerTypeCorrect`, `MinerSettlesQuietly`, `CleanExitAnswersAll`: parts of
  `MinerInv`, the last from `LeavesInOrder`.
- `SolutionsFit` (`SolutionIsOfItsEpoch`), with the premise
  `PrepareTimesOut = FALSE`, without which it breaks (section 6). `EpochInv`
  follows the epoch of a call from its prepare to the current dataset, to the
  search, to the line and to the solution.

### Companion

- `CompanionInv` has `TypeOK`, `OneAtATime`, `NoIdleQueue`, `NoDuplicateWork` and
  `AbortedIsCancelled` together, and that a slot not yet used is empty and a
  waiting job is not aborted. They need each other: `pump` may start a job
  because nothing computes, and leaves none waiting because it goes on until one
  starts (`OneJobAtATime`, `QueueMovesOn`, `WorkIsJoined`, `CancelIsTold`,
  `TypeCorrect`). From the same steps the action properties
  `FirstComeFirstServed` (`StartsInOrder`) and `EndedStaysEnded`
  (`FinalIsFinal`).
- `VerifiedStaysHolds` and `NeverHalfInstalledHolds`: from `PathsNameBuilds`, the
  two invariants of `CompanionStart`. The premise is about manifests: a path
  that something is downloaded to is a path of one build. The default path is
  below a directory named by the hash; a `worker.binaryPath` of the operator must
  be chosen that way, and the code does not check it. The manifests of the
  `startup` run meet it. `IInv` (`InstallsAreSound`) adds what each process has
  written so far: the file beside the worker is its own, and at the rename it is
  whole and of the manifest's build, so that whatever it replaces is that build
  too.

### Circle driver

- `TypeCorrect`, `NothingIsLost` (`JournalGrows`), for any requests and calls,
  however many are out at a time. `JournalInv` adds that a process that waits
  works on a record which was there when it read it, and that the lists it has
  read are of operations that exist.
- `MintsAreBoundToOwn` (`BoundToOwn`), `MintsAreToldTrue` (`ToldIsTrue`),
  `MintsClaimOnce` (`OneClaim`) and `RevertedMintsNeverRun`
  (`RevertedNeverRuns`), with the premise `MintsOnly`: requests go out one at a
  time (`OneOut`, which the ledger's unique index sees to and the proof of `OneOut`
  in `MintAgentProofs` shows) and their calls differ, as those of Mints do, each
  with its certificate. Without either the last two break (section 6). `MintsInv`
  adds `OneUntold`: of the requests that went out at most one has not been told its
  end, so what Circle lists and nobody has claimed is that one's.

### Auxiliary operations

- `NoneWrittenOff` (`Tracked`) and `OnlyRegisteredIsLiquified`, for both wallets.
  Recovery and commands overwrite each other's rows without asking. `AuxiliaryInv`
  says of each process what it knows for good when it does: that its call has not
  been handed over, or what there is to the answer it was given (`Ends`): the call
  came to nothing, or it took effect and a plain account's reads called it
  replaced, or the handle names another's operation. A row is submitted only by
  the command that began it (`OneSubmits`), and for other rows than registrations
  a failed one is `Over`. `Tracked` names the two answers that write off a call
  that is out or done; it has no premise that rules them out, and a lost answer, a
  crash, a failed query or an overwritten row is none of them. With a plain
  account it says that a call is not lost as long as it may still be mined.
- `CircleLosesNone` (`NeverLost`): without the two, nothing is lost. Premises: a
  Circle wallet, and none but registrations in `Alike`, which is so where every
  operation of another request that was rejected on the same contract, or has the
  same call, is claimed in the journal already. Without either it breaks (section 6).

### Session and setup

- `WritesAreOnce` (`WrittenOnce`). `SessionInv` says which keys can be on the
  network or done at the server: those a process has drawn so far, the one of
  its work only after it has a challenge and can take no other.
- `ReportsHold` (`ReportsAreTrue`) and `DeployedOnce` (`OneDeployment`).
  `SetupInv` adds to a report what its command relied on while it went on
  (`Relies`), and that every transfer has the one key of its wallet (`OneKey`).

### Protocol and calls

About the operators of `Protocol` and `WalletCalls`, for every size of the tree
and every range of the integers:

- `DigitsAreOfOneArcal`: each digit of Pi up to the last Arcal's belongs to
  exactly one Arcal; `PackingReturns`: packed digits are valid and unpack to
  themselves;
- `NoncesDiffer`: two 64-bit nonces never give one RandomX input (with
  `Uint64Max + 1 = 256 ^ 8`); `SignatureIsOne`: of `s` and the order minus `s`,
  one at most is canonical;
- `LaggingNodeTakesChallenge`, `LaggingNodeTakesCertificate`: what the backend
  dates with its margin is in its window for a node that lags up to it;
- `DigestsBind`, `EnvironmentBinds`: digest, epoch key and environment id
  determine what they are of, once the agent's checks have passed;
- `StoredCallIsTaken`, `OneCertificate`: the Mint that is built and stored
  passes the check on resume, and two calls that pass it for one operation
  carry one certificate;
- `ExecutesTheCall`: what the Circle driver has executed has the effect and
  the value of the call, without a tuple or an array;
  `QuoteCoversEstimate`: the fallback quote is never below the chain's
  estimate; `UnattendedNeedsSession`: no plain account and no Circle wallet
  passes an unattended preflight without a live authorization.

### Only model-checked

- Every liveness property (`StopQuiesces`, `EndedIsResolved`,
  `ExpiredIsReleased`, `EveryCallSettles`, `CancelStopsTheSearch`,
  `OperationIsFound`, `EndedIsSettled`, `StopReturns`, `CommandEnds`): liveness
  under fairness is out of the prover's reach.
- The gas part of `UnattendedWithinBudget` with several processes: it holds where
  every Mint costs the same gas and no receipt corrects it, as in `mint_circle`,
  and not otherwise (section 6).
- The Merkle check of the Pi tree and what else the instance of `session`
  evaluates: `ComputePiRootFromProof` recurses along the proof, and what it
  computes for every length would take induction over data.

## 6. Where the code does something else

One run shows a property that the documents state and the code breaks
(`PROJECT.json`, "findings", quotes both):

- `chain_lags`: a provider answers CONFIRMED before the RPC node behind
  `issuedId` has the block; recovery books the Mint as FAILED, for good.

The same models show the following. Each is a property stated in its module, and
can be had from a configuration here by making it the only property, without the
symmetry, and with the changes named.

| Property | From | Changes | What happens |
| --- | --- | --- | --- |
| `StopBlocksSubmission` | `MintStops.cfg` | `SPECIFICATION Spec` | a Mint whose certificate is there when `stop` comes is still handed over (`apps/cli/README.md:182`: "blocks new submissions") |
| `OneMintOut` | `MintCircle.cfg` | `Faults = {"prepareFails"}` | the failed preparation of one process releases the row another has submitted (`agent.ts:1402`) |
| `OneProcessHoldsLedger` | `MintCircle.cfg` | - | nothing in `ledger.ts` keeps a second process out (`apps/cli/README.md:179`) |
| `UnattendedWithinBudget` | `MintCircle.cfg` | `Quotes = {1, 2}` | another process resumes the Mint the runner has attached and overwrites its gas commitment with a dearer quote, for `setOperationCommitment` asks for no state; the runner hands it over with more gas booked than its limit (`ledger.ts:403`, `apps/cli/README.md:197`). The number and the fees hold, which is proved |
| `FailedIsOver` | `MintStops.cfg` | `SPECIFICATION Spec` | a plain account's Mint, mined between the three reads, is booked as REPLACED (`wallets.ts:225`) |
| `ConfirmedBooksGas` | `ChainLags.cfg` | `Faults = {}`, `Quotes = {1}` | a confirmed transaction without a Mint and without a receipt books no gas (`apps/cli/README.md:185`) |
| `StartedSearchEnds` | `WorkerTerminates.cfg` | - | the search thread resets `active` after the next search's `joinCompletedSearch` and before its check; `std::thread` is assigned over a joinable one and the process ends after `started` (`randomx_engine.cpp:510`, 548) |
| `CancelSparesTheProgram` | `CancelRaces.cfg` | - | a cancel reaches the worker after its search has ended; the error it is answered with rejects a promise nobody handles, and Node.js ends the program (`randomx-miner.ts:114`) |
| `SearchIsAccepted` | `WorkerTerminates.cfg` | - | a search that follows a terminal message is refused before `active` is reset |
| `SolutionIsOfItsEpoch` | `MinerPlain.cfg` | `PrepareTimesOut = TRUE` | a prepare given up after 120 s is completed by the worker, and the next search for the old epoch runs on its dataset |
| `ResumedIsLive` | `Companion.cfg` | - | a page that cancels and posts the same work gets the job that is being aborted (`apps/cli/README.md:135`) |
| `ShutdownCancelsEverything` | `Companion.cfg` | - | a body read after `cancelAll` starts a search (`companion.ts:203`: "Cancels everything, for shutdown.") |
| `OneClaim` | `Circle.cfg` | `CallOf <- Identical`, `OneOut = FALSE` | with calls in Circle's list, the match ignores claims (`circle-cli-driver.ts:761` against 770) |
| `RevertedNeverRuns` | `Circle.cfg` | `OneOut = FALSE` | the match for rejected operations does not compare calls; a request on its way is told REVERTED and runs (783) |
| `NeverLost` | `Auxiliary.cfg` | `SPECIFICATION Spec`, `Alike = {}` | a plain account's approval, mined between the three reads, is booked as REPLACED for good and the command ends (`wallets.ts:225`, `agent.ts:1560`); allowed in `Tracked` as `MinedUnseen` |
| `NeverLost` | `Auxiliary.cfg` | `SPECIFICATION Spec`, in `MCAuxiliaryOperations` the Circle start only | a conversion whose answer was lost is told REVERTED of an operation of another request that was rejected on the same contract, and runs (`circle-cli-driver.ts:783`); allowed in `Tracked` as `TakenForAnother` |
| `RegistrationTracked` | `Auxiliary.cfg` | - | an error after a registration was handed over, a failed query even, makes its row FAILED_RETRYABLE with the call still out (`agent.ts:1640`) |
| `StopFindsCompanion` | `CompanionStart.cfg` | - | a companion that closes removes the record of the one started after it, and `stop` no longer finds that one (`companion-command.ts:185`) |
| `SearchFitsChallenge` | `ApiSession.cfg` | - | the epoch is read before the wallet is deployed and logged in, the challenge may be of the next one, and nothing compares them before the search (`agent.ts:501`) |
| `GoodSessionIsKept` | `ApiSession.cfg` | - | a process that was refused deletes the session another one has just stored (`agent.ts:1345`) |
| `OnlyAcceptedTerms` | `WalletSetup.cfg` | - | `terms accept` names no version; Terms that change between the comparison and the call are recorded though the user never saw them (`setup-agent-wallet.mjs:647` against `setup-and-wallet.md:26`) |

One comment is not what the code does: `chainFeeQuote` divides with rounding down
where its comment speaks of rounding up; the quote still covers the estimate
(`QuoteCoversEstimate`).

The checked runs leave these cases out where a property would break on them:
`mint_circle` has no failing preparations and one quote, `miner_plain` no late prepares,
`FailedIsOver` no plain account and no lagging node. `Tracked` leaves out
registrations and no case; the two answers it names are the rows `NeverLost` above.

## 7. What is not modelled, and what comes next

Not modelled yet: the hashing loop of the worker and its split of the nonces, its
`hash` and `status` and the light mode. Left out for good, as data, text or I/O
without state: the reading commands and previews of the CLI, its argument
parsing, the event log and the schema migration of the ledger, the adapters that
forward to a wallet of the host, the signing and the CLI texts of the Circle
driver, the SDK's reads, JSON serialization, schemas, artwork and OpenAPI of the
protocol, the JSON parser, the generated bindings, the benchmarks, the WASM
engine and the CI workflows.

| Order | Module | What it will be |
| --- | --- | --- |
| 1 | `SearchThreads` | hashing threads, their nonces, the best share and how a search ends; implements the search of `RandomXWorker` |

| Order | Theorem | Idea |
| --- | --- | --- |
| 1 | the parts of `SearchThreads`, and that it implements the search of `RandomXWorker` | each thread keeps to its nonces; the last one out tells the end |
| 2 | the gas part of `UnattendedWithinBudget` with several processes, one quote and no receipts | `Budgeted` with gas booked as fees are |
| 3 | `RegistrationTracked` without errors after the hand-over, `StopFindsCompanion` with one start at a time | the premises under which the rows of section 6 hold |
