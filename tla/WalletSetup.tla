---------------------------- MODULE WalletSetup -----------------------------
(***************************************************************************)
(* The setup of a Circle Agent Wallet: the commands of the skill's helper  *)
(* (skills/arcals/scripts/setup-agent-wallet.mjs), which a host runs one   *)
(* process at a time or several beside each other, and the deployment of   *)
(* the wallet that a Mint begins with (AgentRuntime.ensureWalletDeployed   *)
(* with CircleCliDriver.deployAccount).                                    *)
(*                                                                         *)
(* Both work on one Circle CLI: the Terms it has recorded, the account it  *)
(* is logged into, and the transfers Circle takes, once per key.           *)
(***************************************************************************)
EXTENDS Naturals, FiniteSets

CONSTANTS
    Pids,        \* processes
    Commands,    \* what each of them may be asked to do
    Accounts,    \* Circle accounts, by their email; each has one wallet
    MaxVersion,  \* bound on the versions of Circle's Terms
    Skills,      \* how many skills Circle offers officially
    Transfers,   \* attempts of the CLI at one transfer, 3 in the code
    None

HelperCommands == {"install-circle", "install-circle-skills", "accept-terms", "wallet",
                   "login", "login-start", "login-complete", "deploy-wallet", "funding-plan"}

ASSUME SetupAssumption ==
    /\ Commands \in [Pids -> SUBSET (HelperCommands \cup {"mine"})]
    /\ MaxVersion \in Nat \ {0} /\ Skills \in Nat /\ Transfers \in Nat \ {0}
    /\ None \notin Pids \cup Accounts

Versions == 1..MaxVersion

(* What a process tells its caller, with a version, an account or None.    *)
States == {"NEEDS_INSTALL", "ALREADY_INSTALLED", "INSTALLED", "NEEDS_USER_AUTH",
           "TERMS_CONFIRMATION_REQUIRED", "TERMS_ACCEPTED", "ALREADY_ACCEPTED",
           "EMAIL_REQUIRED", "OTP_REQUIRED", "LOGIN_REQUIRED", "WALLET_READY",
           "WALLET_NOT_FOUND", "WALLET_SELECTION_REQUIRED", "WALLET_DEPLOYED", "FUNDING_REQUIRED", "FAILED"}
ASSUME SilenceAssumption == None \notin States

VARIABLES
    cli,        \* the Circle CLI: its version and the skills it has installed
    terms,      \* the current Terms, those in force, and all it has recorded
    user,       \* the Terms the user was shown, and those the user accepted
    login,      \* the account of the CLI, and the requests that wait for a code
    saved,      \* agent-wallet.json
    transfers,  \* the deployment transfers Circle has taken
    deployed,   \* the wallets that have code
    proc        \* the command of each process

vars == <<cli, terms, user, login, saved, transfers, deployed, proc>>
worldVars == <<cli, terms, user, login, saved, transfers, deployed>>

Idle == [pc |-> "idle", command |-> None, asked |-> 0, version |-> 0, account |-> None,
         attempt |-> 1, told |-> None]

TypeOK ==
    /\ cli \in [version : {"absent", "old", "supported"}, skills : 0..Skills]
    /\ terms \in [current : Versions, accepted : 0..MaxVersion, recorded : SUBSET Versions]
    /\ user \in [shown : SUBSET Versions, accepts : SUBSET Versions]
    /\ login \in [account : Accounts \cup {None}, requests : SUBSET Accounts]
    /\ saved \in Accounts \cup {None}
    /\ \A t \in transfers : t[1] \in Accounts
    /\ deployed \subseteq Accounts
    /\ proc \in [Pids ->
           [pc : {"idle", "npm", "terms", "live", "accept", "recorded", "skill", "init", "code",
                  "discover", "save", "status", "identity", "transfer", "await"},
            command : HelperCommands \cup {"mine", None}, asked : 0..MaxVersion,
            version : 0..MaxVersion, account : Accounts \cup {None}, attempt : Nat,
            told : States \cup {None}]]

Init ==
    /\ cli \in [version : {"absent", "old", "supported"}, skills : {0}]
    /\ terms = [current |-> 1, accepted |-> 0, recorded |-> {}]
    /\ user = [shown |-> {}, accepts |-> {}]
    /\ login = [account |-> None, requests |-> {}]
    /\ saved = None
    /\ transfers = {}
    /\ deployed = {}
    /\ proc = [p \in Pids |-> Idle]

At(p, label) == proc[p].pc = label
Does(p, commands) == proc[p].command \in commands
Become(p, local) == proc' = [proc EXCEPT ![p] = local]
Goto(p, label) == Become(p, [proc[p] EXCEPT !.pc = label])

(* output or fail: what a process said is all that is left of it.          *)
Says(local, state) == [local EXCEPT !.pc = "idle", !.told = state]
Tell(p, state) == Become(p, Says(proc[p], state))
Fails(p) == Tell(p, "FAILED")

-----------------------------------------------------------------------------
(* A command begins with its arguments and requireCircle.                  *)
Begin(p, c, local) ==
    /\ At(p, "idle") /\ c \in Commands[p]
    /\ Become(p, [local EXCEPT !.command = c])
    /\ UNCHANGED worldVars

WithCircle(local) ==
    IF cli.version = "supported" THEN local
    ELSE Says(local, IF cli.version = "absent" THEN "NEEDS_INSTALL" ELSE "FAILED")

ReadsTerms == {"install-circle-skills", "wallet", "login", "login-start", "deploy-wallet",
               "funding-plan"}

Start(p, c) ==
    /\ c \in ReadsTerms
    /\ \/ Begin(p, c, WithCircle([Idle EXCEPT !.pc = "terms"]))
       \/ c = "install-circle-skills" /\ Begin(p, c, Says(Idle, "NEEDS_USER_AUTH"))

(* With the version the user has accepted, or without a confirmation.      *)
AcceptTerms(p, v) ==
    /\ v \in user.accepts \cup {0}
    /\ Begin(p, "accept-terms", WithCircle([Idle EXCEPT !.pc = "terms", !.asked = v]))

(* login-complete does not look at the Terms.                              *)
LoginComplete(p, a) ==
    /\ a \in login.requests
    /\ Begin(p, "login-complete", WithCircle([Idle EXCEPT !.pc = "code", !.account = a]))

(* mine --once of the CLI; its wallet is an argument.                      *)
MineOnce(p, a) ==
    Begin(p, "mine", [Idle EXCEPT !.pc = "status", !.account = a])

(* install-circle, and the flag --confirm-install.                         *)
InstallCircle(p, confirmed) ==
    Begin(p, "install-circle",
          CASE cli.version = "supported" -> Says(Idle, "ALREADY_INSTALLED")
            [] cli.version # "supported" /\ ~confirmed -> Says(Idle, "NEEDS_USER_AUTH")
            [] OTHER -> [Idle EXCEPT !.pc = "npm"])

(* npm install -g, and the version that is there afterwards.               *)
Npm(p) ==
    /\ At(p, "npm")
    /\ \/ Tell(p, "INSTALLED") /\ cli' = [cli EXCEPT !.version = "supported"]
       \/ Fails(p) /\ cli' \in {cli, [cli EXCEPT !.version = "supported"]}
    /\ UNCHANGED <<terms, user, login, saved, transfers, deployed>>

-----------------------------------------------------------------------------
(* terms(): terms show; where they are not accepted, or the answer cannot  *)
(* be read, terms show --init.                                             *)
Accepted == terms.accepted = terms.current

ShowTerms(p) ==
    /\ At(p, "terms")
    /\ \/ Goto(p, "live")
       \/ /\ Accepted
          /\ \/ Does(p, {"accept-terms"}) /\ Tell(p, "ALREADY_ACCEPTED")
             \/ Does(p, {"install-circle-skills"}) /\ Goto(p, "skill")
             \/ Does(p, {"wallet", "deploy-wallet", "funding-plan"}) /\ Goto(p, "discover")
             \/ Does(p, {"login", "login-start"}) /\ Tell(p, "EMAIL_REQUIRED")
             \/ /\ Does(p, {"login", "login-start"})
                /\ \E a \in Accounts : Become(p, [proc[p] EXCEPT !.pc = "init", !.account = a])
       \/ Fails(p)
    /\ UNCHANGED worldVars

(* The version of this second answer is the one that is shown, and the one *)
(* that a confirmation must name.                                          *)
LiveTerms(p) ==
    /\ At(p, "live")
    /\ \/ /\ proc[p].asked = 0
          /\ Tell(p, "TERMS_CONFIRMATION_REQUIRED")
          /\ user' = [user EXCEPT !.shown = @ \cup {terms.current}]
       \/ /\ proc[p].asked = terms.current
          /\ Become(p, [proc[p] EXCEPT !.pc = "accept", !.version = terms.current])
          /\ UNCHANGED user
       \/ Fails(p) /\ UNCHANGED user
    /\ UNCHANGED <<cli, terms, login, saved, transfers, deployed>>

(* terms accept names no version: Circle records the current one.          *)
RecordTerms(p) ==
    /\ At(p, "accept")
    /\ terms' = [terms EXCEPT !.accepted = terms.current, !.recorded = @ \cup {terms.current}]
    /\ Goto(p, "recorded") \/ Fails(p)
    /\ UNCHANGED <<cli, user, login, saved, transfers, deployed>>

RecordedUnbound(p) ==
    /\ At(p, "recorded")
    /\ \/ Accepted /\ Tell(p, "TERMS_ACCEPTED")
       \/ Fails(p)
    /\ UNCHANGED worldVars

Recorded(p) ==
    /\ At(p, "recorded")
    /\ \/ Accepted /\ terms.current = proc[p].version /\ Tell(p, "TERMS_ACCEPTED")
       \/ Fails(p)
    /\ UNCHANGED worldVars

(* The official skills one by one.                                         *)
InstallSkill(p) ==
    /\ At(p, "skill")
    /\ \/ /\ proc[p].attempt <= Skills
          /\ Become(p, [proc[p] EXCEPT !.attempt = @ + 1])
          /\ cli' = [cli EXCEPT !.skills = IF @ < proc[p].attempt THEN proc[p].attempt ELSE @]
       \/ proc[p].attempt > Skills /\ Tell(p, "INSTALLED") /\ UNCHANGED cli
       \/ Fails(p) /\ UNCHANGED cli
    /\ UNCHANGED <<terms, user, login, saved, transfers, deployed>>

-----------------------------------------------------------------------------
(* wallet login --init of login-start; login asks for the code in its      *)
(* terminal.                                                               *)
LoginStart(p) ==
    /\ At(p, "init")
    /\ \/ /\ Does(p, {"login-start"})
          /\ login' = [login EXCEPT !.requests = @ \cup {proc[p].account}]
          /\ Tell(p, "OTP_REQUIRED") \/ Fails(p)
       \/ /\ Does(p, {"login"})
          /\ login' = [login EXCEPT !.account = proc[p].account]
          /\ Goto(p, "discover") \/ Fails(p)
       \/ Fails(p) /\ UNCHANGED login
    /\ UNCHANGED <<cli, terms, user, saved, transfers, deployed>>

(* wallet login --request --otp: a code is good for one login.             *)
EnterCode(p) ==
    /\ At(p, "code")
    /\ \/ /\ proc[p].account \in login.requests
          /\ login' = [account |-> proc[p].account,
                       requests |-> login.requests \ {proc[p].account}]
          /\ Goto(p, "discover") \/ Fails(p)
       \/ Fails(p) /\ UNCHANGED login
    /\ UNCHANGED <<cli, terms, user, saved, transfers, deployed>>

(* discoverWallet: the wallets of whoever is logged in by now.             *)
DiscoverWallet(p) ==
    LET found == [proc[p] EXCEPT !.account = login.account]
        logsIn == Does(p, {"login", "login-complete"})
    IN  /\ At(p, "discover")
        /\ \/ /\ login.account # None
              /\ \/ logsIn /\ Become(p, [found EXCEPT !.pc = "save"])
                 \/ Does(p, {"wallet"}) /\ Become(p, Says(found, "WALLET_READY"))
                 \/ Does(p, {"funding-plan"}) /\ Become(p, Says(found, "FUNDING_REQUIRED"))
                 \/ Does(p, {"deploy-wallet"}) /\ Become(p, [found EXCEPT !.pc = "status"])
                 \/ ~logsIn /\ \E s \in {"WALLET_NOT_FOUND", "WALLET_SELECTION_REQUIRED"} :
                                  Tell(p, s)
           \/ /\ ~logsIn /\ login.account = None
              /\ Tell(p, IF Does(p, {"deploy-wallet"}) THEN "LOGIN_REQUIRED" ELSE "EMAIL_REQUIRED")
           \/ Fails(p)
        /\ UNCHANGED worldVars

SavePublicWallet(p) ==
    /\ At(p, "save")
    /\ saved' = proc[p].account
    /\ Tell(p, "WALLET_READY")
    /\ UNCHANGED <<cli, terms, user, login, transfers, deployed>>

-----------------------------------------------------------------------------
(* Deployment, by the helper or by the CLI.  A chain that cannot be read   *)
(* stops the CLI; the helper then sends the transfer all the same.         *)
Wallet(p) == proc[p].account

WalletDeployment(p) ==
    /\ At(p, "status")
    /\ \/ Wallet(p) \in deployed /\ Tell(p, "WALLET_DEPLOYED")
       \/ Does(p, {"mine"}) /\ Wallet(p) \notin deployed /\ Goto(p, "identity")
       \/ Does(p, {"mine"}) /\ Fails(p)
       \/ Does(p, {"deploy-wallet"}) /\ Goto(p, "transfer")
    /\ UNCHANGED worldVars

(* ensureCircleIdentity: the wallet must be one of the account's.          *)
EnsureCircleIdentity(p) ==
    /\ At(p, "identity")
    /\ \/ login.account = Wallet(p) /\ Goto(p, "transfer")
       \/ Fails(p)
    /\ UNCHANGED worldVars

DeploymentKeyOfProgram(p) == <<Wallet(p), proc[p].command>>

(* A digest of the chain and the address, the same in both programs.       *)
DeploymentKey(p) == <<Wallet(p), "arcals-wallet-deploy">>

(* Circle takes a transfer once per key, from the account that is logged   *)
(* in.  The CLI repeats a call that failed in passing.                     *)
Transfer(p) ==
    /\ At(p, "transfer")
    /\ \/ /\ login.account = Wallet(p)
          /\ transfers' = transfers \cup {DeploymentKey(p)}
          /\ Goto(p, "await")
       \/ /\ \/ UNCHANGED transfers
             \/ /\ login.account = Wallet(p)
                /\ transfers' = transfers \cup {DeploymentKey(p)}
          /\ \/ Fails(p)
             \/ /\ Does(p, {"mine"}) /\ proc[p].attempt < Transfers
                /\ Become(p, [proc[p] EXCEPT !.attempt = @ + 1])
    /\ UNCHANGED <<cli, terms, user, login, saved, deployed>>

(* Code appears within 90 s, or the command fails.                         *)
Await(p) ==
    /\ At(p, "await")
    /\ \/ Wallet(p) \in deployed /\ Tell(p, "WALLET_DEPLOYED")
       \/ Fails(p)
    /\ UNCHANGED worldVars

-----------------------------------------------------------------------------
(* The user, Circle and the chain.                                         *)
UserAccepts(v) ==
    /\ v \in user.shown \ user.accepts
    /\ user' = [user EXCEPT !.accepts = @ \cup {v}]
    /\ UNCHANGED <<cli, terms, login, saved, transfers, deployed, proc>>

NewTerms ==
    /\ terms.current < MaxVersion
    /\ terms' = [terms EXCEPT !.current = @ + 1]
    /\ UNCHANGED <<cli, user, login, saved, transfers, deployed, proc>>

LogOut ==
    /\ login.account # None
    /\ login' = [login EXCEPT !.account = None]
    /\ UNCHANGED <<cli, terms, user, saved, transfers, deployed, proc>>

Deploy(t) ==
    /\ t[1] \notin deployed
    /\ deployed' = deployed \cup {t[1]}
    /\ UNCHANGED <<cli, terms, user, login, saved, transfers, proc>>

Crash(p) ==
    /\ ~At(p, "idle")
    /\ Become(p, Idle)
    /\ UNCHANGED worldVars

-----------------------------------------------------------------------------
Asked(p) ==
    \/ \E c \in HelperCommands : Start(p, c)
    \/ \E v \in 0..MaxVersion : AcceptTerms(p, v)
    \/ \E a \in Accounts : LoginComplete(p, a) \/ MineOnce(p, a)
    \/ \E confirmed \in BOOLEAN : InstallCircle(p, confirmed)

SetsUp(p) ==
    \/ Npm(p) \/ ShowTerms(p) \/ LiveTerms(p) \/ RecordTerms(p) \/ Recorded(p)
    \/ InstallSkill(p) \/ LoginStart(p) \/ EnterCode(p) \/ DiscoverWallet(p)
    \/ SavePublicWallet(p)

Deploys(p) ==
    WalletDeployment(p) \/ EnsureCircleIdentity(p) \/ Transfer(p) \/ Await(p)

World ==
    \/ \E v \in Versions : UserAccepts(v)
    \/ NewTerms \/ LogOut
    \/ \E t \in transfers : Deploy(t)

Next == World \/ \E p \in Pids : Asked(p) \/ SetsUp(p) \/ Deploys(p) \/ Crash(p)

Spec == Init /\ [][Next]_vars

-----------------------------------------------------------------------------
(* What a process tells its caller is so, although the user, Circle and    *)
(* the other processes go on while it looks: an acceptance that it reports *)
(* was the user's and Circle has recorded it, a wallet has code, the       *)
(* skills are there (setup-and-wallet.md 26: "version-bound assertion that *)
(* the user explicitly accepted the displayed Terms").                     *)
ReportsAreTrue ==
    \A p \in Pids :
        /\ proc[p].told = "TERMS_ACCEPTED" =>
               proc[p].version \in user.accepts \cap terms.recorded
        /\ proc[p].told = "WALLET_DEPLOYED" => Wallet(p) \in deployed
        /\ proc[p].told = "INSTALLED" /\ Does(p, {"install-circle-skills"}) =>
               cli.skills = Skills

(* A wallet is deployed by one transfer, whoever asks for it and however   *)
(* often: the helper, several CLI processes, again after an answer was     *)
(* lost (circle-cli-driver.ts 428: "cannot create a second transfer").     *)
OneDeployment ==
    \A a \in Accounts : Cardinality({t \in transfers : t[1] = a}) <= 1

(* Circle records no Terms the user has not accepted.  Does not hold:      *)
(* RecordTerms accepts what is current by then, and the helper, which      *)
(* notices, calls it ALREADY_ACCEPTED from then on.                        *)
OnlyAcceptedTerms == terms.recorded \subseteq user.accepts
=============================================================================
