----------------------------- MODULE ApiSession -----------------------------
(***************************************************************************)
(* From preflight to the certificate of mine --once: the client of the     *)
(* Arcals API (packages/sdk/src/index.ts), the session that the processes  *)
(* of a wallet share through the ledger (apps/cli/src/ledger.ts) and the   *)
(* steps of AgentRuntime.mineOnce that use them (apps/cli/src/agent.ts).   *)
(* A process starts here with its wallet deployed, see WalletSetup, and    *)
(* ends where MintAgent goes on.                                           *)
(*                                                                         *)
(* The server is not in this repository.  Of it the client assumes that a  *)
(* write is done once per idempotency key.                                 *)
(***************************************************************************)
EXTENDS WalletCalls, FiniteSets

CONSTANTS
    Manifest,                  \* of the deployment this agent trusts
    Configs, Chains, Wallets,  \* what the API, the contracts, the wallet may say
    Pids,      \* processes; each runs one command
    Attempts,  \* of a request, 4 in the code
    Polls,     \* of a work job, 300 in the code
    None

ASSUME SessionAssumption ==
    /\ Attempts \in Nat \ {0}
    /\ Polls \in Nat \ {0}
    /\ None \notin Pids

(* The key of a write: a UUID, drawn for the call.  A second login and the *)
(* challenge after it draw their own.  A session is named by its key.      *)
Turns == {"first", "renewed"}
Keys == Pids \X Turns
Old == <<None, "first">>   \* the session of an earlier run
Tokens == Keys \cup {Old}

Writes == {"session", "challenge", "work"}
Request == [kind : Writes, by : Pids, key : Keys, token : Tokens \cup {None},
            challenge : Keys \cup {None}]

Ended == {"certified", "failed"}

VARIABLES
    stored,   \* the session in the ledger
    valid,    \* the sessions that the server accepts
    done,     \* the writes it has done
    network,  \* the requests sent; each may arrive late, twice or never
    proc      \* the command of each process

vars == <<stored, valid, done, network, proc>>
serverVars == <<valid, done>>

Idle == [pc |-> "idle", bearer |-> None, renewed |-> FALSE, attempt |-> 0,
         challenge |-> None, behind |-> FALSE, polls |-> 0]

TypeOK ==
    /\ stored \in Tokens \cup {None}
    /\ valid \subseteq Tokens
    /\ done \subseteq Writes \X Keys
    /\ network \subseteq Request
    /\ proc \in [Pids ->
           [pc : {"idle", "authenticate", "save", "clear",
                  "poll"} \cup Writes \cup Ended,
            bearer : Tokens \cup {None}, renewed : BOOLEAN, attempt : 0..Attempts,
            challenge : Keys \cup {None}, behind : BOOLEAN, polls : 0..Polls]]

(* A session of an earlier run may be stored, and be over by now.          *)
Init ==
    /\ stored \in {None, Old}
    /\ valid \in SUBSET ({stored} \ {None})
    /\ done = {}
    /\ network = {}
    /\ proc = [p \in Pids |-> Idle]

At(p, label) == proc[p].pc = label
Become(p, local) == proc' = [proc EXCEPT ![p] = local]

(* At another label a process has sent nothing yet; at the end it is gone. *)
Then(p, label) ==
    IF label \in Ended
    THEN [Idle EXCEPT !.pc = label, !.renewed = proc[p].renewed]
    ELSE [proc[p] EXCEPT !.pc = label, !.attempt = 0]
Goto(p, label) == Become(p, Then(p, label))

-----------------------------------------------------------------------------
(* Requests.  All attempts of a call carry the key that was drawn for it.  *)
Turn(p) == IF proc[p].renewed THEN "renewed" ELSE "first"

Key(p) == <<p, Turn(p)>>

RequestOf(p) == [kind |-> proc[p].pc, by |-> p, key |-> Key(p),
                 token |-> IF At(p, "session") THEN None ELSE proc[p].bearer,
                 challenge |-> proc[p].challenge]

Authorized(r) == r.kind = "session" \/ r.token \in valid

(* A write that was done before is answered as it was then.                *)
Do(r) ==
    /\ done' = done \cup {<<r.kind, r.key>>}
    /\ valid' = IF r.kind = "session" /\ <<r.kind, r.key>> \notin done
                THEN valid \cup {r.key} ELSE valid

(* send: a request goes out, and goes out again after a failure of the     *)
(* transport or a status 429, 502, 503 or 504.  A read has no effect, so   *)
(* that only its last answer counts.                                       *)
SendAfresh(p) ==
    /\ proc[p].pc \in Writes /\ proc[p].attempt < Attempts
    /\ network' = network \cup {IF proc[p].attempt = 0 THEN RequestOf(p)
                               ELSE [RequestOf(p) EXCEPT !.key = <<p, "renewed">>]}
    /\ Become(p, [proc[p] EXCEPT !.attempt = @ + 1])
    /\ UNCHANGED <<stored, serverVars>>

Send(p) ==
    /\ proc[p].pc \in Writes /\ proc[p].attempt < Attempts
    /\ network' = network \cup {RequestOf(p)}
    /\ Become(p, [proc[p] EXCEPT !.attempt = @ + 1])
    /\ UNCHANGED <<stored, serverVars>>

(* The last failure is the caller's. *)
RetryForever(p) ==
    /\ proc[p].attempt = Attempts
    /\ Become(p, [proc[p] EXCEPT !.attempt = 0])
    /\ UNCHANGED <<stored, serverVars, network>>

GiveUp(p) ==
    /\ proc[p].attempt = Attempts
    /\ Goto(p, "failed")
    /\ UNCHANGED <<stored, serverVars, network>>

(* A request is done although nobody hears of it: its answer is lost, or   *)
(* its sender has given up.                                                *)
DoneUnheard(r) ==
    /\ Authorized(r) /\ Do(r)
    /\ UNCHANGED <<stored, network, proc>>

(* checkedJson: an answer, or WALLET_AUTH_REQUIRED.                        *)
Answered(p) ==
    /\ proc[p].attempt > 0
    /\ Authorized(RequestOf(p))
    /\ Do(RequestOf(p))
    /\ UNCHANGED network

Refused(p) ==
    /\ proc[p].attempt > 0
    /\ ~Authorized(RequestOf(p))
    /\ UNCHANGED <<serverVars, network>>

-----------------------------------------------------------------------------
(* preflightConfig: wallet, API, worker and contracts agree.  The worker is  *)
(* that of CompanionStart.                                                  *)
PreflightConfig(wallet, config, chain) ==
    /\ PreflightWallet(Manifest, wallet, wallet.unattended, wallet.authorization, wallet.now)
    /\ VerifyApiConfiguration(Manifest, config)
    /\ VerifyOnchainDeployment(Manifest, chain)

Preflights ==
    {PreflightConfig(wallet, config, chain) :
        wallet \in Wallets, config \in Configs, chain \in Chains}

(* The epoch that Mine will hash with is the API's of this moment.         *)
MineOnce(p) ==
    /\ At(p, "idle")
    /\ \E agree \in Preflights : Goto(p, IF agree THEN "authenticate" ELSE "failed")
    /\ UNCHANGED <<stored, serverVars, network>>

(* apiSession: a session that ends within two minutes is not used.         *)
Authenticate(p) ==
    /\ At(p, "authenticate")
    /\ \/ Goto(p, "session")
       \/ /\ stored # None
          /\ Become(p, [Then(p, "challenge") EXCEPT !.bearer = stored])
    /\ UNCHANGED <<stored, serverVars, network>>

(* createAuthNonce and the signature of its message come first; they leave  *)
(* nothing behind.                                                          *)
CreateAuthSession(p) ==
    /\ At(p, "session")
    /\ Answered(p)
    /\ Become(p, [Then(p, "save") EXCEPT !.bearer = Key(p)])
    /\ UNCHANGED stored

SaveApiSession(p) ==
    /\ At(p, "save")
    /\ stored' = proc[p].bearer
    /\ Goto(p, "challenge")
    /\ UNCHANGED <<serverVars, network>>

(* issueChallengeWithSession: one login more if the session is refused.    *)
IssueChallenge(p) ==
    /\ At(p, "challenge")
    /\ \/ /\ Answered(p)
          /\ Become(p, [Then(p, "work") EXCEPT !.challenge = Key(p)])
       \/ Refused(p) /\ Goto(p, IF proc[p].renewed THEN "failed" ELSE "clear")
    /\ UNCHANGED stored

(* Whichever session is stored by now is deleted.                          *)
ClearApiSession(p) ==
    /\ At(p, "clear")
    /\ stored' = None
    /\ Become(p, [Then(p, "session") EXCEPT !.renewed = TRUE])
    /\ UNCHANGED <<serverVars, network>>

(* The search comes before the first request of the work.                  *)
SubmitWork(p) ==
    /\ At(p, "work")
    /\ \/ Answered(p) /\ Goto(p, "poll")
       \/ Refused(p) /\ Goto(p, "failed")
    /\ UNCHANGED stored

(* waitForCertificate: the job is ready, and getWorkJob reads it once more, *)
(* or it is over, or neither.  The verifier hashes with the epoch of the    *)
(* challenge.                                                               *)
Poll(p) ==
    /\ At(p, "poll")
    /\ \/ /\ proc[p].bearer \in valid /\ ~proc[p].behind
          /\ Goto(p, "certified")
       \/ Goto(p, "failed")
       \/ /\ proc[p].bearer \in valid /\ proc[p].polls + 1 < Polls
          /\ Become(p, [proc[p] EXCEPT !.polls = @ + 1])
    /\ UNCHANGED <<stored, serverVars, network>>

(* A check, the wallet or the search fails, the API answers with another   *)
(* error, or the process dies.                                             *)
Abort(p) ==
    /\ proc[p].pc \notin {"idle"} \cup Ended
    /\ Goto(p, "failed")
    /\ UNCHANGED <<stored, serverVars, network>>

-----------------------------------------------------------------------------
(* The server ends sessions, of its own or by their time.  One that nobody *)
(* uses any more may as well go on.                                        *)
EndSession(t) ==
    /\ t = stored \/ \E p \in Pids : proc[p].bearer = t
    /\ valid' = valid \ {t}
    /\ UNCHANGED <<stored, done, network, proc>>

(* It goes on to the next epoch.  A challenge is of the epoch in which the *)
(* server issued it, which may be before its answer comes.                 *)
AwaitsChallenge(p) ==
    /\ proc[p].pc \in {"authenticate", "session", "save", "clear", "challenge"}
    /\ <<"challenge", Key(p)>> \notin done

NextEpoch ==
    /\ proc' = [p \in Pids |-> [proc[p] EXCEPT !.behind = @ \/ AwaitsChallenge(p)]]
    /\ UNCHANGED <<stored, valid, done, network>>

-----------------------------------------------------------------------------
LogsIn(p) ==
    \/ Authenticate(p)
    \/ CreateAuthSession(p) \/ SaveApiSession(p) \/ ClearApiSession(p)

Works(p) == IssueChallenge(p) \/ SubmitWork(p) \/ Poll(p)

Server ==
    \/ \E r \in network : DoneUnheard(r)
    \/ \E t \in valid : EndSession(t)
    \/ NextEpoch

Next ==
    \/ \E p \in Pids : MineOnce(p) \/ Send(p) \/ GiveUp(p) \/ LogsIn(p) \/ Works(p) \/ Abort(p)
    \/ Server

Spec == Init /\ [][Next]_vars

(* A process goes on: fetch and the wallet answer or fail in time, and a   *)
(* search ends with its challenge.  Nothing is asked of the server.        *)
LiveSpec ==
    Spec /\ \A p \in Pids : WF_vars(Send(p) \/ GiveUp(p) \/ LogsIn(p) \/ Works(p))

-----------------------------------------------------------------------------
Done(kind, p) == {w \in done : w[1] = kind /\ w[2][1] = p}

(* A command hands in its work once, though it asks again after answers    *)
(* that were lost and requests arrive late.  It takes a second session or  *)
(* challenge only when the server refused the one before (sdk/src/index.ts *)
(* 125: "every write carries an idempotency key the server replays").      *)
WrittenOnce ==
    \A p \in Pids :
        LET turns == IF proc[p].renewed THEN 2 ELSE 1
        IN  /\ Cardinality(Done("work", p)) <= 1
            /\ Cardinality(Done("challenge", p)) <= turns
            /\ Cardinality(Done("session", p)) <= turns

(* A command ends, whatever the server does or does not do.                *)
CommandEnds == \A p \in Pids : At(p, "authenticate") ~> proc[p].pc \in Ended

(* A session that is good for the server stays in the ledger until the     *)
(* next one.  Does not hold: ClearApiSession deletes the session another   *)
(* process has just stored.                                                *)
GoodSessionIsKept == [][(stored \in valid) => (stored' # None)]_vars

(* A search is for the epoch of its challenge.  Does not hold: the epoch   *)
(* is the one of the config, which was read before the wallet was deployed *)
(* and logged in, and nothing compares the two before the search.          *)
SearchFitsChallenge ==
    \A p \in Pids : At(p, "work") => ~proc[p].behind
=============================================================================
