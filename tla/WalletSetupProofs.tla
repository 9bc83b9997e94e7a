------------------------- MODULE WalletSetupProofs -------------------------
(***************************************************************************)
(* Proofs about WalletSetup: what the processes of the setup report is so, *)
(* and a wallet is deployed by one transfer, for any number of processes,  *)
(* accounts, versions of the Terms, skills and attempts.                   *)
(***************************************************************************)
EXTENDS WalletSetup, FiniteSetTheorems, TLAPS

(* What local reports is so. *)
ReportsTrue(local) ==
    /\ local.told = "TERMS_ACCEPTED" => local.version \in user.accepts \cap terms.recorded
    /\ local.told = "WALLET_DEPLOYED" => local.account \in deployed
    /\ local.told = "INSTALLED" /\ local.command = "install-circle-skills" =>
           cli.skills = Skills

(* What local relies on while its command goes on: the user accepted what  *)
(* it is to accept, and the skills before the next one are there.          *)
Relies(local) ==
    /\ local.asked \in user.accepts \cup {0}
    /\ local.pc \in {"accept", "recorded"} => local.version \in user.accepts
    /\ local.pc = "npm" => local.command = "install-circle"
    /\ local.pc = "terms" => local.attempt = 1
    /\ local.pc = "skill" => local.attempt \in 1..(cli.skills + 1)
    /\ local.pc \in {"init", "code", "save", "status", "identity", "transfer", "await"} =>
           local.account \in Accounts
    /\ local.pc # "idle" => local.told = None

RecordedIsKept == terms.accepted # 0 => terms.accepted \in terms.recorded

OneKey == \A t \in transfers : t = <<t[1], "arcals-wallet-deploy">>

SetupInv ==
    /\ TypeOK
    /\ \A p \in Pids : ReportsTrue(proc[p]) /\ Relies(proc[p])
    /\ RecordedIsKept
    /\ OneKey

Locals ==
    [pc : {"idle", "npm", "terms", "live", "accept", "recorded", "skill", "init", "code",
           "discover", "save", "status", "identity", "transfer", "await"},
     command : HelperCommands \cup {"mine", None}, asked : 0..MaxVersion,
     version : 0..MaxVersion, account : Accounts \cup {None}, attempt : Nat,
     told : States \cup {None}]

(* Everything but the processes. *)
WorldOK ==
    /\ cli \in [version : {"absent", "old", "supported"}, skills : 0..Skills]
    /\ terms \in [current : Versions, accepted : 0..MaxVersion, recorded : SUBSET Versions]
    /\ user \in [shown : SUBSET Versions, accepts : SUBSET Versions]
    /\ login \in [account : Accounts \cup {None}, requests : SUBSET Accounts]
    /\ saved \in Accounts \cup {None}
    /\ \A t \in transfers : t[1] \in Accounts
    /\ deployed \subseteq Accounts
    /\ RecordedIsKept
    /\ OneKey

(* What is reported of the world is not undone. *)
WorldGrows ==
    /\ user.accepts \subseteq user'.accepts
    /\ terms.recorded \subseteq terms'.recorded
    /\ deployed \subseteq deployed'
    /\ cli.skills <= cli'.skills

LEMMA Parts == SetupInv <=> /\ WorldOK
                            /\ proc \in [Pids -> Locals]
                            /\ \A p \in Pids : ReportsTrue(proc[p]) /\ Relies(proc[p])
BY DEF SetupInv, TypeOK, WorldOK, Locals

LEMMA StaysTrue ==
    ASSUME WorldOK, WorldOK', WorldGrows, NEW local \in Locals,
           ReportsTrue(local), Relies(local)
    PROVE  ReportsTrue(local)' /\ Relies(local)'
<1>1. /\ cli.skills \in 0..Skills /\ cli'.skills \in 0..Skills
      /\ cli.skills <= cli'.skills /\ Skills \in Nat
  BY SetupAssumption DEF WorldOK, WorldGrows
<1>2. ReportsTrue(local)'
  BY <1>1 DEF ReportsTrue, WorldGrows
<1>3. local.attempt \in 1..(cli.skills + 1) => local.attempt \in 1..(cli'.skills + 1)
  BY <1>1
<1>4. Relies(local)'
  BY <1>3 DEF Relies, WorldGrows
<1> QED
  BY <1>2, <1>4

(* A step of one process: enough is what it does itself. *)
LEMMA StepKeepsLater ==
    ASSUME SetupInv, NEW p \in Pids, NEW local \in Locals, Become(p, local),
           WorldOK', WorldGrows, (ReportsTrue(local) /\ Relies(local))'
    PROVE  SetupInv'
<1>1. /\ proc' \in [Pids -> Locals] /\ proc'[p] = local
      /\ \A q \in Pids : q # p => proc'[q] = proc[q]
  BY Parts DEF Become
<1>2. ReportsTrue(local)' /\ Relies(local)'
  OBVIOUS
<1>3. \A q \in Pids : q # p => ReportsTrue(proc[q])' /\ Relies(proc[q])'
  <2> SUFFICES ASSUME NEW q \in Pids, q # p
               PROVE  ReportsTrue(proc[q])' /\ Relies(proc[q])'
    OBVIOUS
  <2> DEFINE l == proc[q]
  <2>1. proc'[q] = l /\ l \in Locals /\ ReportsTrue(l) /\ Relies(l)
    BY <1>1, Parts
  <2>2. PICK m \in Locals : m = l
    BY <2>1
  <2>3. ReportsTrue(m)' /\ Relies(m)'
    BY <2>1, <2>2, Parts, StaysTrue
  <2> QED
    BY <2>1, <2>2, <2>3 DEF ReportsTrue, Relies
<1>4. \A q \in Pids : ReportsTrue(proc[q])' /\ Relies(proc[q])'
  BY <1>1, <1>2, <1>3 DEF ReportsTrue, Relies
<1>5. SetupInv' <=> /\ WorldOK'
                    /\ proc' \in [Pids -> Locals]
                    /\ \A q \in Pids : ReportsTrue(proc[q])' /\ Relies(proc[q])'
  BY DEF SetupInv, TypeOK, WorldOK, Locals
<1> QED
  BY <1>1, <1>4, <1>5

LEMMA StepKeeps ==
    ASSUME SetupInv, NEW p \in Pids, NEW local \in Locals, Become(p, local),
           WorldOK', WorldGrows, ReportsTrue(local), Relies(local)
    PROVE  SetupInv'
<1>1. ReportsTrue(local)' /\ Relies(local)'
  BY Parts, StaysTrue
<1> QED
  BY <1>1, StepKeepsLater

(* The world as it was. *)
LEMMA WorldStays ==
    ASSUME SetupInv, UNCHANGED worldVars
    PROVE  WorldOK' /\ WorldGrows
<1>1. WorldOK
  BY Parts
<1>2. WorldOK'
  BY <1>1 DEF worldVars, WorldOK, RecordedIsKept, OneKey
<1>3. cli.skills <= cli'.skills
  BY <1>1, SetupAssumption DEF worldVars, WorldOK
<1> QED
  BY <1>2, <1>3 DEF worldVars, WorldGrows

LEMMA IdleOK ==
    /\ Idle \in Locals /\ Idle.pc = "idle" /\ Idle.command = None /\ Idle.asked = 0
    /\ Idle.version = 0 /\ Idle.account = None /\ Idle.attempt = 1 /\ Idle.told = None
    /\ ReportsTrue(Idle) /\ Relies(Idle)
<1>1. /\ Idle \in Locals /\ Idle.pc = "idle" /\ Idle.command = None /\ Idle.asked = 0
      /\ Idle.version = 0 /\ Idle.account = None /\ Idle.attempt = 1 /\ Idle.told = None
  BY SetupAssumption DEF Idle, Locals
<1> QED
  BY <1>1, SilenceAssumption DEF ReportsTrue, Relies, States

(* The states that claim something. *)
Claims == {"TERMS_ACCEPTED", "WALLET_DEPLOYED", "INSTALLED"}

LEMMA SaysEffect ==
    ASSUME NEW local \in Locals, NEW state \in States
    PROVE  /\ Says(local, state) \in Locals
           /\ Says(local, state).pc = "idle" /\ Says(local, state).told = state
           /\ Says(local, state).command = local.command
           /\ Says(local, state).version = local.version
           /\ Says(local, state).account = local.account
           /\ Says(local, state).asked = local.asked
BY DEF Says, Locals

LEMMA SaysOK ==
    ASSUME NEW local \in Locals, Relies(local), NEW state \in States,
           state = "TERMS_ACCEPTED" => local.version \in user.accepts \cap terms.recorded,
           state = "WALLET_DEPLOYED" => local.account \in deployed,
           state = "INSTALLED" /\ local.command = "install-circle-skills" => cli.skills = Skills
    PROVE  ReportsTrue(Says(local, state)) /\ Relies(Says(local, state))
BY SaysEffect DEF ReportsTrue, Relies

LEMMA TellKeeps ==
    ASSUME SetupInv, NEW p \in Pids, NEW state \in States, Tell(p, state),
           WorldOK', WorldGrows,
           state = "TERMS_ACCEPTED" => proc[p].version \in user.accepts \cap terms.recorded,
           state = "WALLET_DEPLOYED" => proc[p].account \in deployed,
           state = "INSTALLED" /\ proc[p].command = "install-circle-skills" =>
               cli.skills = Skills
    PROVE  SetupInv'
<1>1. proc[p] \in Locals /\ Relies(proc[p])
  BY Parts
<1>2. /\ Says(proc[p], state) \in Locals
      /\ ReportsTrue(Says(proc[p], state)) /\ Relies(Says(proc[p], state))
  BY <1>1, SaysEffect, SaysOK
<1> QED
  BY <1>2, StepKeeps DEF Tell

LEMMA FailsKeeps ==
    ASSUME SetupInv, NEW p \in Pids, Fails(p), WorldOK', WorldGrows
    PROVE  SetupInv'
BY TellKeeps DEF Fails, States

(* A command that goes on. *)
LEMMA GotoKeeps ==
    ASSUME SetupInv, NEW p \in Pids, WorldOK', WorldGrows,
           proc[p].pc \in {"terms", "init", "code", "accept", "identity", "transfer", "status"},
           NEW label \in {"live", "recorded", "skill", "discover", "status", "identity",
                          "transfer", "await"},
           Goto(p, label),
           label = "recorded" => proc[p].pc = "accept",
           label = "skill" => proc[p].pc = "terms",
           label \in {"status", "identity", "transfer", "await"} => proc[p].account \in Accounts
    PROVE  SetupInv'
<1> DEFINE local == [proc[p] EXCEPT !.pc = label]
<1>1. proc[p] \in Locals /\ ReportsTrue(proc[p]) /\ Relies(proc[p])
      /\ cli.skills \in Nat
  BY Parts, SetupAssumption DEF WorldOK
<1>2. /\ local \in Locals /\ local.pc = label /\ local.told = proc[p].told
      /\ local.command = proc[p].command /\ local.version = proc[p].version
      /\ local.account = proc[p].account /\ local.asked = proc[p].asked
      /\ local.attempt = proc[p].attempt
  BY <1>1 DEF Locals
<1>3. Become(p, local)
  BY DEF Goto
<1> HIDE DEF local
<1>4. ReportsTrue(local)
  BY <1>1, <1>2 DEF ReportsTrue
<1>5. label = "skill" => local.attempt \in 1..(cli.skills + 1)
  <2>1. label = "skill" => local.attempt = 1
    BY <1>1, <1>2 DEF Relies
  <2>2. 1 \in 1..(cli.skills + 1)
    BY <1>1
  <2> QED
    BY <2>1, <2>2
<1>6. local.told = None /\ local.asked \in user.accepts \cup {0}
  BY <1>1, <1>2 DEF Relies
<1>7. label = "recorded" => local.version \in user.accepts
  BY <1>1, <1>2 DEF Relies
<1>8. Relies(local)
  BY <1>2, <1>5, <1>6, <1>7 DEF Relies
<1> QED
  BY <1>2, <1>3, <1>4, <1>8, StepKeeps

-----------------------------------------------------------------------------
(* A command begins. *)

LEMMA BeginKeeps ==
    ASSUME SetupInv, NEW p \in Pids, NEW c \in HelperCommands \cup {"mine"},
           NEW local \in Locals, Begin(p, c, local),
           local.told \notin Claims, local.asked \in user.accepts \cup {0},
           \/ local.pc = "idle"
           \/ local.told = None /\ local.pc = "terms" /\ local.attempt = 1
           \/ local.told = None /\ local.pc \in {"code", "status"} /\ local.account \in Accounts
           \/ local.told = None /\ local.pc = "npm" /\ c = "install-circle"
    PROVE  SetupInv'
<1>1. PICK new \in Locals :
          /\ new = [local EXCEPT !.command = c]
          /\ new.command = c /\ new.pc = local.pc /\ new.told = local.told
          /\ new.asked = local.asked /\ new.attempt = local.attempt
          /\ new.account = local.account
  <2> DEFINE to == [local EXCEPT !.command = c]
  <2>1. /\ to \in Locals
        /\ to.command = c /\ to.pc = local.pc /\ to.told = local.told
        /\ to.asked = local.asked /\ to.attempt = local.attempt
        /\ to.account = local.account
    BY DEF Locals
  <2> QED
    BY <2>1
<1>2. Become(p, new)
  BY <1>1 DEF Begin
<1>3. WorldOK' /\ WorldGrows
  BY WorldStays DEF Begin
<1>4. ReportsTrue(new) /\ Relies(new)
  BY <1>1 DEF ReportsTrue, Relies, Claims
<1> QED
  BY <1>2, <1>3, <1>4, StepKeeps

(* It needs the CLI, or says so. *)
LEMMA WithCircleKeeps ==
    ASSUME SetupInv, NEW p \in Pids, NEW c \in HelperCommands \cup {"mine"},
           NEW local \in Locals, Begin(p, c, WithCircle(local)),
           local.told = None, local.asked \in user.accepts \cup {0},
           \/ local.pc = "terms" /\ local.attempt = 1
           \/ local.pc \in {"code", "status"} /\ local.account \in Accounts
    PROVE  SetupInv'
<1>1. CASE WithCircle(local) = local
  <2>1. local.told \notin Claims
    BY SilenceAssumption DEF Claims, States
  <2> QED
    BY <1>1, <2>1, BeginKeeps
<1>2. ASSUME NEW state \in {"NEEDS_INSTALL", "FAILED"}, WithCircle(local) = Says(local, state)
      PROVE  SetupInv'
  <2>1. state \in States /\ state \notin Claims
    BY DEF States, Claims
  <2>2. /\ Says(local, state) \in Locals /\ Says(local, state).pc = "idle"
        /\ Says(local, state).told = state /\ Says(local, state).asked = local.asked
    BY <2>1, SaysEffect
  <2> QED
    BY <1>2, <2>1, <2>2, BeginKeeps
<1> QED
  BY <1>1, <1>2 DEF WithCircle

LEMMA AskedKeeps ==
    ASSUME SetupInv, NEW p \in Pids, Asked(p)
    PROVE  SetupInv'
<1>1. ASSUME NEW c \in HelperCommands, Start(p, c) PROVE SetupInv'
  <2>1. CASE Begin(p, c, WithCircle([Idle EXCEPT !.pc = "terms"]))
    <3>1. PICK local \in Locals :
              /\ local = [Idle EXCEPT !.pc = "terms"]
              /\ local.pc = "terms" /\ local.told = None /\ local.asked = 0
              /\ local.attempt = 1
      <4> DEFINE to == [Idle EXCEPT !.pc = "terms"]
      <4>1. /\ to \in Locals
            /\ to.pc = "terms" /\ to.told = None /\ to.asked = 0
            /\ to.attempt = 1
        BY IdleOK DEF Locals
      <4> QED
        BY <4>1
    <3> QED
      BY <2>1, <3>1, WithCircleKeeps
  <2>2. CASE Begin(p, c, Says(Idle, "NEEDS_USER_AUTH"))
    <3>1. PICK local \in Locals :
              /\ local = Says(Idle, "NEEDS_USER_AUTH") /\ local.pc = "idle"
              /\ local.told = "NEEDS_USER_AUTH" /\ local.asked = 0
      BY IdleOK, SaysEffect DEF States
    <3> QED
      BY <2>2, <3>1, BeginKeeps DEF Claims
  <2> QED
    BY <1>1, <2>1, <2>2 DEF Start
<1>2. ASSUME NEW v \in 0..MaxVersion, AcceptTerms(p, v) PROVE SetupInv'
  <2>1. PICK local \in Locals :
            /\ local = [Idle EXCEPT !.pc = "terms", !.asked = v]
            /\ local.pc = "terms" /\ local.told = None /\ local.asked = v
            /\ local.attempt = 1
    <3> DEFINE to == [Idle EXCEPT !.pc = "terms", !.asked = v]
    <3>1. /\ to \in Locals
          /\ to.pc = "terms" /\ to.told = None /\ to.asked = v
          /\ to.attempt = 1
      BY IdleOK DEF Locals
    <3> QED
      BY <3>1
  <2>2. "accept-terms" \in HelperCommands
    BY DEF HelperCommands
  <2> QED
    BY <1>2, <2>1, <2>2, WithCircleKeeps DEF AcceptTerms
<1>3. ASSUME NEW a \in Accounts, LoginComplete(p, a) PROVE SetupInv'
  <2>1. PICK local \in Locals :
            /\ local = [Idle EXCEPT !.pc = "code", !.account = a]
            /\ local.pc = "code" /\ local.told = None /\ local.asked = 0
            /\ local.account = a
    <3> DEFINE to == [Idle EXCEPT !.pc = "code", !.account = a]
    <3>1. /\ to \in Locals
          /\ to.pc = "code" /\ to.told = None /\ to.asked = 0
          /\ to.account = a
      BY IdleOK DEF Locals
    <3> QED
      BY <3>1
  <2>2. "login-complete" \in HelperCommands
    BY DEF HelperCommands
  <2> QED
    BY <1>3, <2>1, <2>2, WithCircleKeeps DEF LoginComplete
<1>4. ASSUME NEW a \in Accounts, MineOnce(p, a) PROVE SetupInv'
  <2>1. PICK local \in Locals :
            /\ local = [Idle EXCEPT !.pc = "status", !.account = a]
            /\ local.pc = "status" /\ local.told = None /\ local.asked = 0
            /\ local.account = a
    <3> DEFINE to == [Idle EXCEPT !.pc = "status", !.account = a]
    <3>1. /\ to \in Locals
          /\ to.pc = "status" /\ to.told = None /\ to.asked = 0
          /\ to.account = a
      BY IdleOK DEF Locals
    <3> QED
      BY <3>1
  <2>2. None \notin Claims
    BY SilenceAssumption DEF Claims, States
  <2> QED
    BY <1>4, <2>1, <2>2, BeginKeeps DEF MineOnce
<1>5. ASSUME NEW confirmed \in BOOLEAN, InstallCircle(p, confirmed) PROVE SetupInv'
  <2>1. "install-circle" \in HelperCommands
    BY DEF HelperCommands
  <2>2. ASSUME NEW state \in {"ALREADY_INSTALLED", "NEEDS_USER_AUTH"},
               Begin(p, "install-circle", Says(Idle, state))
        PROVE  SetupInv'
    <3>1. PICK local \in Locals :
              /\ local = Says(Idle, state) /\ local.pc = "idle"
              /\ local.told = state /\ local.asked = 0
      BY IdleOK, SaysEffect DEF States
    <3> QED
      BY <2>1, <2>2, <3>1, BeginKeeps DEF Claims
  <2>3. CASE Begin(p, "install-circle", [Idle EXCEPT !.pc = "npm"])
    <3>1. PICK local \in Locals :
              /\ local = [Idle EXCEPT !.pc = "npm"]
              /\ local.pc = "npm" /\ local.told = None /\ local.asked = 0
      <4> DEFINE to == [Idle EXCEPT !.pc = "npm"]
      <4>1. /\ to \in Locals
            /\ to.pc = "npm" /\ to.told = None /\ to.asked = 0
        BY IdleOK DEF Locals
      <4> QED
        BY <4>1
    <3>2. None \notin Claims
      BY SilenceAssumption DEF Claims, States
    <3> QED
      BY <2>1, <2>3, <3>1, <3>2, BeginKeeps
  <2>4. \/ \E state \in {"ALREADY_INSTALLED", "NEEDS_USER_AUTH"} :
               Begin(p, "install-circle", Says(Idle, state))
        \/ Begin(p, "install-circle", [Idle EXCEPT !.pc = "npm"])
    BY <1>5 DEF InstallCircle
  <2> QED
    BY <2>2, <2>3, <2>4
<1> QED
  BY <1>1, <1>2, <1>3, <1>4, <1>5 DEF Asked

-----------------------------------------------------------------------------
(* What changes of the world. *)

LEMMA CliGrows ==
    ASSUME SetupInv, NEW version \in {"absent", "old", "supported"},
           NEW skills \in 0..Skills, cli.skills <= skills,
           cli' = [version |-> version, skills |-> skills],
           UNCHANGED <<terms, user, login, saved, transfers, deployed>>
    PROVE  WorldOK' /\ WorldGrows
<1>1. WorldOK
  BY Parts
<1>2. cli' \in [version : {"absent", "old", "supported"}, skills : 0..Skills]
  OBVIOUS
<1>3. WorldOK'
  BY <1>1, <1>2 DEF WorldOK, RecordedIsKept, OneKey
<1> QED
  BY <1>3 DEF WorldGrows

LEMMA TermsGrow ==
    ASSUME SetupInv, terms' \in [current : Versions, accepted : 0..MaxVersion,
                                 recorded : SUBSET Versions],
           terms.recorded \subseteq terms'.recorded, RecordedIsKept',
           UNCHANGED <<cli, user, login, saved, transfers, deployed>>
    PROVE  WorldOK' /\ WorldGrows
<1>1. WorldOK
  BY Parts
<1>2. WorldOK'
  BY <1>1 DEF WorldOK, OneKey
<1>3. cli.skills <= cli'.skills
  BY <1>1, SetupAssumption DEF WorldOK
<1> QED
  BY <1>2, <1>3 DEF WorldGrows

LEMMA UserGrows ==
    ASSUME SetupInv, user' \in [shown : SUBSET Versions, accepts : SUBSET Versions],
           user.accepts \subseteq user'.accepts,
           UNCHANGED <<cli, terms, login, saved, transfers, deployed>>
    PROVE  WorldOK' /\ WorldGrows
<1>1. WorldOK
  BY Parts
<1>2. WorldOK'
  BY <1>1 DEF WorldOK, RecordedIsKept, OneKey
<1>3. cli.skills <= cli'.skills
  BY <1>1, SetupAssumption DEF WorldOK
<1> QED
  BY <1>2, <1>3 DEF WorldGrows

LEMMA LoginChanges ==
    ASSUME SetupInv, login' \in [account : Accounts \cup {None}, requests : SUBSET Accounts],
           UNCHANGED <<cli, terms, user, saved, transfers, deployed>>
    PROVE  WorldOK' /\ WorldGrows
<1>1. WorldOK
  BY Parts
<1>2. WorldOK'
  BY <1>1 DEF WorldOK, RecordedIsKept, OneKey
<1>3. cli.skills <= cli'.skills
  BY <1>1, SetupAssumption DEF WorldOK
<1> QED
  BY <1>2, <1>3 DEF WorldGrows

LEMMA DeploymentsGrow ==
    ASSUME SetupInv, saved' \in Accounts \cup {None},
           \A t \in transfers' : t[1] \in Accounts, OneKey',
           deployed \subseteq deployed', deployed' \subseteq Accounts,
           UNCHANGED <<cli, terms, user, login>>
    PROVE  WorldOK' /\ WorldGrows
<1>1. WorldOK
  BY Parts
<1>2. WorldOK'
  BY <1>1 DEF WorldOK, RecordedIsKept
<1>3. cli.skills <= cli'.skills
  BY <1>1, SetupAssumption DEF WorldOK
<1> QED
  BY <1>2, <1>3 DEF WorldGrows

-----------------------------------------------------------------------------
(* The commands of the helper. *)

LEMMA NpmKeeps ==
    ASSUME SetupInv, NEW p \in Pids, Npm(p)
    PROVE  SetupInv'
<1>1. WorldOK' /\ WorldGrows
  <2>1. cli \in [version : {"absent", "old", "supported"}, skills : 0..Skills]
        /\ cli.skills <= cli.skills
    BY Parts, SetupAssumption DEF WorldOK
  <2>2. cli' = cli \/ cli' = [cli EXCEPT !.version = "supported"]
    BY DEF Npm
  <2>3. cli' = [version |-> cli.version, skills |-> cli.skills]
        \/ cli' = [version |-> "supported", skills |-> cli.skills]
    BY <2>1, <2>2
  <2> QED
    BY <2>1, <2>3, CliGrows DEF Npm
<1>2. proc[p].command = "install-circle"
  BY Parts DEF Npm, At, Relies
<1>3. CASE Tell(p, "INSTALLED")
  BY <1>1, <1>2, <1>3, TellKeeps DEF States
<1>4. CASE Fails(p)
  BY <1>1, <1>4, FailsKeeps
<1> QED
  BY <1>3, <1>4 DEF Npm

LEMMA ShowTermsKeeps ==
    ASSUME SetupInv, NEW p \in Pids, ShowTerms(p)
    PROVE  SetupInv'
<1>1. WorldOK' /\ WorldGrows
  BY WorldStays DEF ShowTerms
<1>2. proc[p].pc = "terms" /\ proc[p] \in Locals /\ Relies(proc[p])
  BY Parts DEF ShowTerms, At
<1>3. CASE Goto(p, "live") \/ Goto(p, "skill") \/ Goto(p, "discover")
  BY <1>1, <1>2, <1>3, GotoKeeps
<1>4. CASE Tell(p, "ALREADY_ACCEPTED") \/ Tell(p, "EMAIL_REQUIRED") \/ Fails(p)
  BY <1>1, <1>4, TellKeeps, FailsKeeps DEF States
<1>5. ASSUME NEW a \in Accounts,
             Become(p, [proc[p] EXCEPT !.pc = "init", !.account = a])
      PROVE  SetupInv'
  <2> DEFINE local == [proc[p] EXCEPT !.pc = "init", !.account = a]
  <2>1. /\ local \in Locals /\ local.pc = "init" /\ local.told = proc[p].told
        /\ local.asked = proc[p].asked /\ local.account = a
    BY <1>2 DEF Locals
  <2>2. Become(p, local)
    BY <1>5
  <2> HIDE DEF local
  <2>3. local.told = None
    BY <1>2, <2>1 DEF Relies
  <2>4. ReportsTrue(local) /\ Relies(local)
    BY <1>2, <2>1, <2>3, SilenceAssumption DEF ReportsTrue, Relies, States
  <2> QED
    BY <1>1, <2>1, <2>2, <2>4, StepKeeps
<1> QED
  BY <1>3, <1>4, <1>5 DEF ShowTerms

LEMMA LiveTermsKeeps ==
    ASSUME SetupInv, NEW p \in Pids, LiveTerms(p)
    PROVE  SetupInv'
<1>1. /\ WorldOK /\ proc[p] \in Locals /\ Relies(proc[p]) /\ proc[p].pc = "live"
      /\ UNCHANGED <<cli, terms, login, saved, transfers, deployed>>
  BY Parts DEF LiveTerms, At
<1>2. /\ terms.current \in Versions /\ 0 \notin Versions
      /\ terms.current \in 0..MaxVersion
  BY <1>1, SetupAssumption DEF WorldOK, Versions
<1>3. CASE user' = user
  <2>1. WorldOK' /\ WorldGrows
    BY <1>1, <1>3, WorldStays DEF worldVars
  <2>2. CASE proc[p].asked = terms.current
             /\ Become(p, [proc[p] EXCEPT !.pc = "accept", !.version = terms.current])
    <3> DEFINE local == [proc[p] EXCEPT !.pc = "accept", !.version = terms.current]
    <3>1. /\ local \in Locals /\ local.pc = "accept" /\ local.told = proc[p].told
          /\ local.asked = proc[p].asked /\ local.version = terms.current
      BY <1>1, <1>2 DEF Locals
    <3>2. Become(p, local)
      BY <2>2
    <3> HIDE DEF local
    <3>3. local.told = None /\ local.version \in user.accepts
      BY <1>1, <1>2, <2>2, <3>1 DEF Relies
    <3>4. ReportsTrue(local) /\ Relies(local)
      BY <1>1, <3>1, <3>3, SilenceAssumption DEF ReportsTrue, Relies, States
    <3> QED
      BY <2>1, <3>1, <3>2, <3>4, StepKeeps
  <2>3. CASE Tell(p, "TERMS_CONFIRMATION_REQUIRED") \/ Fails(p)
    BY <2>1, <2>3, TellKeeps, FailsKeeps DEF States
  <2> QED
    BY <2>2, <2>3 DEF LiveTerms
<1>4. CASE /\ Tell(p, "TERMS_CONFIRMATION_REQUIRED")
           /\ user' = [user EXCEPT !.shown = @ \cup {terms.current}]
  <2>1. /\ user' \in [shown : SUBSET Versions, accepts : SUBSET Versions]
        /\ user'.accepts = user.accepts
    BY <1>1, <1>2, <1>4 DEF WorldOK
  <2>2. WorldOK' /\ WorldGrows
    BY <1>1, <2>1, UserGrows
  <2> QED
    BY <1>4, <2>2, TellKeeps DEF States
<1> QED
  BY <1>3, <1>4 DEF LiveTerms

LEMMA RecordTermsKeeps ==
    ASSUME SetupInv, NEW p \in Pids, RecordTerms(p)
    PROVE  SetupInv'
<1>1. /\ WorldOK /\ proc[p].pc = "accept"
      /\ terms' = [terms EXCEPT !.accepted = terms.current,
                                !.recorded = terms.recorded \cup {terms.current}]
      /\ UNCHANGED <<cli, user, login, saved, transfers, deployed>>
      /\ Goto(p, "recorded") \/ Fails(p)
  BY Parts DEF RecordTerms, At
<1>2. /\ terms' \in [current : Versions, accepted : 0..MaxVersion, recorded : SUBSET Versions]
      /\ terms.recorded \subseteq terms'.recorded
      /\ terms'.accepted \in terms'.recorded
  <2>1. /\ terms \in [current : Versions, accepted : 0..MaxVersion, recorded : SUBSET Versions]
        /\ terms.current \in 0..MaxVersion
    BY <1>1, SetupAssumption DEF WorldOK, Versions
  <2> QED
    BY <1>1, <2>1
<1>3. WorldOK' /\ WorldGrows
  BY <1>1, <1>2, TermsGrow DEF RecordedIsKept
<1> QED
  BY <1>1, <1>3, GotoKeeps, FailsKeeps

LEMMA RecordedKeeps ==
    ASSUME SetupInv, NEW p \in Pids, Recorded(p)
    PROVE  SetupInv'
<1>1. WorldOK' /\ WorldGrows
  BY WorldStays DEF Recorded
<1>2. CASE Accepted /\ terms.current = proc[p].version /\ Tell(p, "TERMS_ACCEPTED")
  <2>1. proc[p].version \in user.accepts
    BY Parts DEF Recorded, At, Relies
  <2>2. terms.accepted = proc[p].version /\ terms.accepted # 0
    BY <1>2, Parts DEF Accepted, WorldOK, Versions
  <2>3. proc[p].version \in terms.recorded
    BY <2>2, Parts DEF WorldOK, RecordedIsKept
  <2> QED
    BY <1>1, <1>2, <2>1, <2>3, TellKeeps DEF States
<1>3. CASE Fails(p)
  BY <1>1, <1>3, FailsKeeps
<1> QED
  BY <1>2, <1>3 DEF Recorded

LEMMA InstallSkillKeeps ==
    ASSUME SetupInv, NEW p \in Pids, InstallSkill(p)
    PROVE  SetupInv'
<1>1. /\ proc[p] \in Locals /\ Relies(proc[p]) /\ proc[p].pc = "skill"
      /\ cli \in [version : {"absent", "old", "supported"}, skills : 0..Skills]
      /\ UNCHANGED <<terms, user, login, saved, transfers, deployed>>
  BY Parts DEF InstallSkill, At, WorldOK
<1>2. proc[p].attempt \in 1..(cli.skills + 1) /\ Skills \in Nat /\ cli.skills \in 0..Skills
      /\ proc[p].told = None
  BY <1>1, SetupAssumption DEF Relies
<1>3. cli' = cli => WorldOK' /\ WorldGrows
  BY <1>1, WorldStays DEF worldVars
<1>4. CASE proc[p].attempt > Skills /\ Tell(p, "INSTALLED") /\ UNCHANGED cli
  <2>1. cli.skills = Skills
    BY <1>2, <1>4
  <2> QED
    BY <1>3, <1>4, <2>1, TellKeeps DEF States
<1>5. CASE Fails(p) /\ UNCHANGED cli
  BY <1>3, <1>5, FailsKeeps
<1>6. CASE /\ proc[p].attempt <= Skills
           /\ Become(p, [proc[p] EXCEPT !.attempt = @ + 1])
           /\ cli' = [cli EXCEPT !.skills = IF @ < proc[p].attempt THEN proc[p].attempt ELSE @]
  <2> DEFINE skills == IF cli.skills < proc[p].attempt THEN proc[p].attempt ELSE cli.skills
             local == [proc[p] EXCEPT !.attempt = proc[p].attempt + 1]
  <2>1. /\ skills \in 0..Skills /\ cli.skills <= skills
        /\ proc[p].attempt + 1 \in 1..(skills + 1)
    BY <1>2, <1>6
  <2>2. cli' = [version |-> cli.version, skills |-> skills]
    BY <1>1, <1>6
  <2> HIDE DEF skills
  <2>3. WorldOK' /\ WorldGrows /\ cli'.skills = skills
    BY <1>1, <2>1, <2>2, CliGrows
  <2>4. PICK m \in Locals :
            /\ m = local /\ m.pc = "skill" /\ m.told = proc[p].told
            /\ m.asked = proc[p].asked /\ m.attempt = proc[p].attempt + 1
    <3>1. /\ local \in Locals /\ local.pc = "skill" /\ local.told = proc[p].told
          /\ local.asked = proc[p].asked /\ local.attempt = proc[p].attempt + 1
      BY <1>1, <1>2 DEF Locals
    <3> QED
      BY <3>1
  <2>5. Become(p, m)
    BY <1>6, <2>4
  <2>6. (ReportsTrue(m) /\ Relies(m))'
    BY <1>1, <1>2, <2>1, <2>3, <2>4, SilenceAssumption DEF ReportsTrue, Relies, States
  <2> QED
    BY <2>3, <2>4, <2>5, <2>6, StepKeepsLater
<1> QED
  BY <1>4, <1>5, <1>6 DEF InstallSkill

LEMMA LoginKeeps ==
    ASSUME SetupInv, NEW p \in Pids, LoginStart(p) \/ EnterCode(p)
    PROVE  SetupInv'
<1>1. /\ WorldOK /\ proc[p] \in Locals /\ Relies(proc[p])
      /\ proc[p].pc \in {"init", "code"} /\ proc[p].account \in Accounts
      /\ UNCHANGED <<cli, terms, user, saved, transfers, deployed>>
  BY Parts DEF LoginStart, EnterCode, At, Relies
<1>2. login' \in [account : Accounts \cup {None}, requests : SUBSET Accounts]
  <2>1. login \in [account : Accounts \cup {None}, requests : SUBSET Accounts]
    BY <1>1 DEF WorldOK
  <2>2. \/ login' = login
        \/ login' = [login EXCEPT !.requests = login.requests \cup {proc[p].account}]
        \/ login' = [login EXCEPT !.account = proc[p].account]
        \/ login' = [account |-> proc[p].account,
                     requests |-> login.requests \ {proc[p].account}]
    BY DEF LoginStart, EnterCode
  <2> QED
    BY <1>1, <2>1, <2>2
<1>3. WorldOK' /\ WorldGrows
  BY <1>1, <1>2, LoginChanges
<1>4. Tell(p, "OTP_REQUIRED") \/ Fails(p) \/ Goto(p, "discover")
  BY DEF LoginStart, EnterCode
<1>5. CASE Tell(p, "OTP_REQUIRED")
  BY <1>3, <1>5, TellKeeps DEF States
<1> QED
  BY <1>1, <1>3, <1>4, <1>5, FailsKeeps, GotoKeeps

LEMMA DiscoverKeeps ==
    ASSUME SetupInv, NEW p \in Pids, DiscoverWallet(p)
    PROVE  SetupInv'
<1>1. WorldOK' /\ WorldGrows
  BY WorldStays DEF DiscoverWallet
<1>2. /\ proc[p] \in Locals /\ Relies(proc[p]) /\ ReportsTrue(proc[p])
      /\ proc[p].told = None /\ login.account \in Accounts \cup {None}
  BY Parts DEF DiscoverWallet, At, Relies, WorldOK
<1>3. ASSUME NEW state \in States \ Claims, Tell(p, state) PROVE SetupInv'
  BY <1>1, <1>3, TellKeeps DEF Claims
<1>4. ASSUME login.account # None,
             NEW state \in {"WALLET_READY", "FUNDING_REQUIRED"},
             Become(p, Says([proc[p] EXCEPT !.account = login.account], state))
      PROVE  SetupInv'
  <2> DEFINE found == [proc[p] EXCEPT !.account = login.account]
             local == Says(found, state)
  <2>1. found \in Locals /\ found.asked = proc[p].asked /\ state \in States \ Claims
    BY <1>2 DEF Locals, States, Claims
  <2> HIDE DEF found
  <2>2. /\ local \in Locals /\ local.pc = "idle" /\ local.told = state
        /\ local.asked = proc[p].asked
    BY <2>1, SaysEffect
  <2>3. Become(p, local)
    BY <1>4 DEF found
  <2> HIDE DEF local
  <2>4. ReportsTrue(local) /\ Relies(local)
    BY <1>2, <2>1, <2>2 DEF ReportsTrue, Relies, Claims
  <2> QED
    BY <1>1, <2>2, <2>3, <2>4, StepKeeps
<1>5. ASSUME login.account # None, NEW label \in {"save", "status"},
             Become(p, [[proc[p] EXCEPT !.account = login.account] EXCEPT !.pc = label])
      PROVE  SetupInv'
  <2> DEFINE found == [proc[p] EXCEPT !.account = login.account]
             local == [found EXCEPT !.pc = label]
  <2>1. /\ found \in Locals /\ found.asked = proc[p].asked
        /\ found.account = login.account /\ found.told = proc[p].told
    BY <1>2 DEF Locals
  <2>2. Become(p, local)
    BY <1>5
  <2> HIDE DEF found
  <2>3. /\ local \in Locals /\ local.pc = label /\ local.asked = proc[p].asked
        /\ local.account = login.account /\ local.told = None
    BY <1>2, <2>1 DEF Locals
  <2> HIDE DEF local
  <2>4. ReportsTrue(local) /\ Relies(local)
    BY <1>2, <1>5, <2>3, SilenceAssumption DEF ReportsTrue, Relies, States
  <2> QED
    BY <1>1, <2>2, <2>3, <2>4, StepKeeps
<1>6. \/ \E state \in {"WALLET_NOT_FOUND", "WALLET_SELECTION_REQUIRED", "LOGIN_REQUIRED",
                       "EMAIL_REQUIRED", "FAILED"} : Tell(p, state)
      \/ login.account # None /\ \E state \in {"WALLET_READY", "FUNDING_REQUIRED"} :
             Become(p, Says([proc[p] EXCEPT !.account = login.account], state))
      \/ login.account # None /\ \E label \in {"save", "status"} :
             Become(p, [[proc[p] EXCEPT !.account = login.account] EXCEPT !.pc = label])
  BY DEF DiscoverWallet, Fails
<1> QED
  BY <1>3, <1>4, <1>5, <1>6 DEF States, Claims

LEMMA SaveKeeps ==
    ASSUME SetupInv, NEW p \in Pids, SavePublicWallet(p)
    PROVE  SetupInv'
<1>1. /\ WorldOK /\ saved' \in Accounts \cup {None}
      /\ UNCHANGED <<cli, terms, user, login, transfers, deployed>>
  BY Parts DEF SavePublicWallet, At, Relies
<1>2. OneKey' /\ \A t \in transfers' : t[1] \in Accounts
  BY <1>1 DEF WorldOK, OneKey
<1>3. WorldOK' /\ WorldGrows
  BY <1>1, <1>2, DeploymentsGrow DEF WorldOK
<1> QED
  BY <1>3, TellKeeps DEF SavePublicWallet, States

-----------------------------------------------------------------------------
(* Deployment. *)

LEMMA DeployKeeps ==
    ASSUME SetupInv, NEW p \in Pids,
           WalletDeployment(p) \/ EnsureCircleIdentity(p) \/ Await(p)
    PROVE  SetupInv'
<1>1. WorldOK' /\ WorldGrows
  BY WorldStays DEF WalletDeployment, EnsureCircleIdentity, Await
<1>2. proc[p].pc \in {"status", "identity", "await"} /\ proc[p].account \in Accounts
  BY Parts DEF WalletDeployment, EnsureCircleIdentity, Await, At, Relies
<1>3. CASE Wallet(p) \in deployed /\ Tell(p, "WALLET_DEPLOYED")
  BY <1>1, <1>3, TellKeeps DEF States, Wallet
<1>4. CASE Fails(p)
  BY <1>1, <1>4, FailsKeeps
<1>5. CASE proc[p].pc \in {"status", "identity"} /\ (Goto(p, "identity") \/ Goto(p, "transfer"))
  BY <1>1, <1>2, <1>5, GotoKeeps
<1> QED
  BY <1>3, <1>4, <1>5 DEF WalletDeployment, EnsureCircleIdentity, Await, At

LEMMA TransferKeeps ==
    ASSUME SetupInv, NEW p \in Pids, Transfer(p)
    PROVE  SetupInv'
<1>1. /\ WorldOK /\ proc[p] \in Locals /\ Relies(proc[p]) /\ proc[p].pc = "transfer"
      /\ proc[p].account \in Accounts /\ proc[p].told = None
      /\ UNCHANGED <<cli, terms, user, login, saved, deployed>>
  BY Parts DEF Transfer, At, Relies
<1>2. transfers' = transfers \/ transfers' = transfers \cup {DeploymentKey(p)}
  BY DEF Transfer
<1>3. DeploymentKey(p) = <<proc[p].account, "arcals-wallet-deploy">>
  BY DEF DeploymentKey, Wallet
<1>4. OneKey' /\ \A t \in transfers' : t[1] \in Accounts
  BY <1>1, <1>2, <1>3 DEF WorldOK, OneKey
<1>5. WorldOK' /\ WorldGrows
  BY <1>1, <1>4, DeploymentsGrow DEF WorldOK
<1>6. CASE Become(p, [proc[p] EXCEPT !.attempt = @ + 1])
  <2> DEFINE local == [proc[p] EXCEPT !.attempt = proc[p].attempt + 1]
  <2>1. /\ local \in Locals /\ local.pc = "transfer" /\ local.told = None
        /\ local.asked = proc[p].asked /\ local.account = proc[p].account
    BY <1>1 DEF Locals
  <2>2. Become(p, local)
    BY <1>6
  <2> HIDE DEF local
  <2>3. ReportsTrue(local) /\ Relies(local)
    BY <1>1, <2>1, SilenceAssumption DEF ReportsTrue, Relies, States
  <2> QED
    BY <1>5, <2>1, <2>2, <2>3, StepKeeps
<1>7. CASE Goto(p, "await")
  BY <1>1, <1>5, <1>7, GotoKeeps
<1>8. CASE Fails(p)
  BY <1>5, <1>8, FailsKeeps
<1> QED
  BY <1>6, <1>7, <1>8 DEF Transfer

LEMMA CrashKeeps ==
    ASSUME SetupInv, NEW p \in Pids, Crash(p)
    PROVE  SetupInv'
BY IdleOK, WorldStays, StepKeeps DEF Crash

(* The user, Circle and the chain leave the processes as they are. *)
LEMMA OutsideKeeps ==
    ASSUME SetupInv, WorldOK', WorldGrows, proc' = proc
    PROVE  SetupInv'
<1>1. ASSUME NEW p \in Pids PROVE ReportsTrue(proc[p])' /\ Relies(proc[p])'
  <2>1. PICK m \in Locals : m = proc[p] /\ ReportsTrue(m) /\ Relies(m)
    BY Parts
  <2>2. ReportsTrue(m)' /\ Relies(m)'
    BY <2>1, Parts, StaysTrue
  <2> QED
    BY <2>1, <2>2 DEF ReportsTrue, Relies
<1>2. SetupInv' <=> /\ WorldOK'
                    /\ proc' \in [Pids -> Locals]
                    /\ \A q \in Pids : ReportsTrue(proc[q])' /\ Relies(proc[q])'
  BY DEF SetupInv, TypeOK, WorldOK, Locals
<1> QED
  BY <1>1, <1>2, Parts

LEMMA WorldKeeps ==
    ASSUME SetupInv, World
    PROVE  SetupInv'
<1>1. WorldOK
  BY Parts
<1>2. ASSUME NEW v \in Versions, UserAccepts(v) PROVE SetupInv'
  <2>1. /\ user' \in [shown : SUBSET Versions, accepts : SUBSET Versions]
        /\ user.accepts \subseteq user'.accepts
    BY <1>1, <1>2 DEF WorldOK, UserAccepts
  <2> QED
    BY <1>2, <2>1, UserGrows, OutsideKeeps DEF UserAccepts
<1>3. CASE NewTerms
  <2>1. terms.current + 1 \in Versions
    BY <1>1, <1>3, SetupAssumption DEF WorldOK, NewTerms, Versions
  <2>2. terms' = [terms EXCEPT !.current = terms.current + 1]
    BY <1>3 DEF NewTerms
  <2>3. /\ terms' \in [current : Versions, accepted : 0..MaxVersion, recorded : SUBSET Versions]
        /\ terms'.recorded = terms.recorded /\ terms'.accepted = terms.accepted
    BY <1>1, <2>1, <2>2 DEF WorldOK
  <2> QED
    BY <1>1, <1>3, <2>3, TermsGrow, OutsideKeeps DEF WorldOK, NewTerms, RecordedIsKept
<1>4. CASE LogOut
  <2>1. login' \in [account : Accounts \cup {None}, requests : SUBSET Accounts]
    BY <1>1, <1>4 DEF WorldOK, LogOut
  <2> QED
    BY <1>4, <2>1, LoginChanges, OutsideKeeps DEF LogOut
<1>5. ASSUME NEW t \in transfers, Deploy(t) PROVE SetupInv'
  <2>1. /\ deployed \subseteq deployed' /\ deployed' \subseteq Accounts
        /\ saved' \in Accounts \cup {None} /\ \A u \in transfers' : u[1] \in Accounts
        /\ OneKey'
    BY <1>1, <1>5 DEF WorldOK, Deploy, OneKey
  <2> QED
    BY <1>5, <2>1, DeploymentsGrow, OutsideKeeps DEF Deploy
<1> QED
  BY <1>2, <1>3, <1>4, <1>5 DEF World

-----------------------------------------------------------------------------
LEMMA SetupInvInit == Init => SetupInv
<1> SUFFICES ASSUME Init PROVE SetupInv
  OBVIOUS
<1>1. WorldOK
  BY SetupAssumption DEF Init, WorldOK, RecordedIsKept, OneKey, Versions
<1>2. proc \in [Pids -> Locals] /\ \A p \in Pids : proc[p] = Idle
  BY IdleOK DEF Init
<1> QED
  BY <1>1, <1>2, IdleOK, Parts

LEMMA SetupInvNext == SetupInv /\ [Next]_vars => SetupInv'
<1> SUFFICES ASSUME SetupInv, [Next]_vars PROVE SetupInv'
  OBVIOUS
<1>1. ASSUME NEW p \in Pids, SetsUp(p) PROVE SetupInv'
  BY <1>1, NpmKeeps, ShowTermsKeeps, LiveTermsKeeps, RecordTermsKeeps, RecordedKeeps,
     InstallSkillKeeps, LoginKeeps, DiscoverKeeps, SaveKeeps DEF SetsUp
<1>2. ASSUME NEW p \in Pids, Deploys(p) PROVE SetupInv'
  BY <1>2, DeployKeeps, TransferKeeps DEF Deploys
<1>3. CASE UNCHANGED vars
  BY <1>3, WorldStays, OutsideKeeps DEF vars, worldVars
<1> QED
  BY <1>1, <1>2, <1>3, AskedKeeps, CrashKeeps, WorldKeeps DEF Next

(* What the helper's processes report or rely on stays so, and the         *)
(* transfers of an account have one key (setup-agent-wallet.mjs).          *)
THEOREM SetupInvHolds == Spec => []SetupInv
<1> QED
  BY SetupInvInit, SetupInvNext, PTL DEF Spec

(* An acceptance that is reported was the user's and is recorded, a wallet *)
(* reported to be deployed has code, skills reported to be installed are   *)
(* there, whatever goes on beside the process that says so.                *)
THEOREM ReportsHold == Spec => []ReportsAreTrue
<1>1. SetupInv => ReportsAreTrue
  BY DEF SetupInv, ReportsTrue, ReportsAreTrue, Wallet, Does
<1> QED
  BY <1>1, SetupInvHolds, PTL

(* A wallet is deployed by one transfer: the helper and the CLI derive the *)
(* same key from it.                                                       *)
THEOREM DeployedOnce == Spec => []OneDeployment
<1>1. SetupInv => OneDeployment
  <2> SUFFICES ASSUME OneKey, NEW a \in Accounts
               PROVE  Cardinality({t \in transfers : t[1] = a}) <= 1
    BY DEF SetupInv, OneDeployment
  <2> DEFINE key == <<a, "arcals-wallet-deploy">>
  <2>1. {t \in transfers : t[1] = a} \subseteq {key}
    BY DEF OneKey
  <2>2. IsFiniteSet({key}) /\ Cardinality({key}) = 1
    BY FS_Singleton
  <2> QED
    BY <2>1, <2>2, FS_Subset, FS_CardinalityType
<1> QED
  BY <1>1, SetupInvHolds, PTL
==============================================================================
