--------------------------- MODULE CompanionStart ---------------------------
(***************************************************************************)
(* arcals companion start, start --detach and stop, run by several         *)
(* processes of one user (apps/cli/src/companion-command.ts), with the     *)
(* check of the manifest and the installation of the RandomX worker that a *)
(* start begins with (apps/cli/src/trust.ts).                              *)
(*                                                                         *)
(* The processes share a TCP port, the record companion.json and the       *)
(* directories of worker files.  What a running companion does is in       *)
(* CompanionJobs.                                                          *)
(***************************************************************************)
EXTENDS Naturals

CONSTANTS
    Pids,         \* processes; a pid may be used again
    Commands,     \* what each of them may be asked to do
    Manifests,    \* the manifests at hand (--manifest PATH)
    Platform,     \* process.platform and process.arch
    None

Modes == {"local-fixture", "arc-testnet", "arc-mainnet"}
Platforms == {"linux-x64", "linux-arm64", "darwin-arm64", "darwin-x64", "win32-x64"}

(* The bytes of a worker are named by their SHA-256. *)
Hashes == {"sha1", "sha2", "sha3"}
Contents == Hashes \cup {"absent", "partial", "garbage"}

(* A build names the hash, a path of its own and a URL, or None of these.  *)
Build == [sha : Hashes, path : STRING \cup {None}, url : BOOLEAN]

ASSUME StartAssumption ==
    /\ None \notin Pids
    /\ Commands \in [Pids -> SUBSET {"start", "detach", "stop"}]
    /\ Platform \in STRING
    /\ \A m \in Manifests :
           /\ m.mode \in Modes \cup {"other"} /\ m.productionAuthorized \in BOOLEAN
           /\ m.chain \in {"testnet", "mainnet", "other"} /\ m.environmentBound \in BOOLEAN
           /\ m.addresses \in {"distinct", "zero", "repeated"}
           /\ m.registrar \in {"absent", "distinct", "zero", "deployed"}
           /\ m.worker \in Build /\ m.perPlatform \in BOOLEAN
           /\ DOMAIN m.platforms \subseteq STRING
           /\ \A name \in DOMAIN m.platforms : m.platforms[name] \in Build

-----------------------------------------------------------------------------
(* loadAgentManifest: the environment must be bound to its chain and Core, *)
(* and only arc-mainnet may authorize production.                          *)
EnvironmentAccepted(m) ==
    /\ m.mode \in Modes
    /\ m.productionAuthorized => m.mode = "arc-mainnet"
    /\ m.addresses = "distinct"
    /\ m.mode = "arc-testnet" => m.chain = "testnet"
    /\ m.mode = "arc-mainnet" => m.chain = "mainnet"
    /\ m.environmentBound
    /\ m.registrar \in {"absent", "distinct"}

(* A manifest without worker.platforms has one build for all of them.      *)
PlatformAccepted(m) ==
    m.perPlatform =>
        DOMAIN m.platforms \subseteq Platforms /\ Platform \in DOMAIN m.platforms

Accepted(m) == EnvironmentAccepted(m) /\ PlatformAccepted(m)

(* The build of this platform. *)
Selected(m) == IF m.perPlatform THEN m.platforms[Platform] ELSE m.worker

(* The URL of the manifest is there for the platforms that name none.      *)
Downloads(m) == Selected(m).url \/ m.worker.url

(* The file of a worker: a path the manifest names, or for a download one  *)
(* below a directory that is named by the hash.                            *)
BinaryPathByName(m) == IF Selected(m).path # None THEN Selected(m).path ELSE m.worker.path

BinaryPath(m) ==
    CASE Selected(m).path # None -> Selected(m).path
      [] Selected(m).path = None /\ Selected(m).url -> Selected(m).sha
      [] OTHER -> m.worker.path

Paths == {BinaryPath(m) : m \in {n \in Manifests : Accepted(n)}}

(* A path the manifests name, if something is downloaded there, is one of  *)
(* a single build: the default directory is named by the hash, and a       *)
(* worker.binaryPath has to be chosen that way by the operator.            *)
PathsNameBuilds ==
    \A m, n \in Manifests :
        /\ Accepted(m) /\ Accepted(n) /\ Downloads(m)
        /\ BinaryPath(m) = BinaryPath(n)
        => Selected(m).sha = Selected(n).sha

-----------------------------------------------------------------------------
VARIABLES
    disk,      \* the worker file at each path
    download,  \* the file being written beside it, by path and pid
    port,      \* the process that listens, or None
    record,    \* companion.json: absent, being written, or a pid
    proc       \* the command each process is in

vars == <<disk, download, port, record, proc>>

Starting == {"health", "access", "open", "write", "rename", "hash", "listen", "truncate",
             "record"}
Running == {"running", "closing"}
Stopping == {"read", "kill", "poll"}

Idle == [pc |-> "idle", manifest |-> None, stops |-> None]
Begun(m) == [pc |-> "health", manifest |-> m, stops |-> None]

TypeOK ==
    /\ disk \in [Paths -> Contents]
    /\ download \in [Paths \X Pids -> Contents]
    /\ port \in Pids \cup {None}
    /\ record \in Pids \cup {"absent", "torn"}
    /\ proc \in [Pids ->
           [pc : {"idle", "wait"} \cup Starting \cup Running \cup Stopping,
            manifest : Manifests \cup {None}, stops : Pids \cup {None}]]

(* A build that is not downloaded is there, or not, or another one.        *)
Init ==
    /\ disk \in {d \in [Paths -> {"absent", "garbage"} \cup Hashes] :
           \A m \in Manifests : Accepted(m) =>
               d[BinaryPath(m)] \in {"absent"} \cup
                   IF Downloads(m) THEN {} ELSE {"garbage", Selected(m).sha}}
    /\ download = [f \in Paths \X Pids |-> "absent"]
    /\ port = None
    /\ record = "absent"
    /\ proc = [p \in Pids |-> Idle]

At(p, label) == proc[p].pc = label
Become(p, local) == proc' = [proc EXCEPT ![p] = local]
Goto(p, label) == Become(p, [proc[p] EXCEPT !.pc = label])
End(p) == Become(p, Idle)

Manifest(p) == proc[p].manifest
Path(p) == BinaryPath(Manifest(p))
Sha(p) == Selected(Manifest(p)).sha

-----------------------------------------------------------------------------
(* start.  What only the process itself sees (the manifest, a download, the *)
(* closing of its miner) is part of the step before or after it.           *)

Start(p, m) ==
    /\ At(p, "idle") /\ "start" \in Commands[p]
    /\ Become(p, Begun(m))
    /\ UNCHANGED <<disk, download, port, record>>

(* --detach, if no companion answers, spawns a start and polls until a     *)
(* companion answers, the child has exited or 180 s are over.              *)
Detach(p, m) ==
    /\ At(p, "idle") /\ "detach" \in Commands[p] /\ port = None
    /\ \E c \in Pids \ {p} :
          /\ At(c, "idle")
          /\ proc' = [proc EXCEPT ![c] = Begun(m), ![p] = [Idle EXCEPT !.pc = "wait"]]
    /\ UNCHANGED <<disk, download, port, record>>

Wait(p) ==
    /\ At(p, "wait")
    /\ End(p)
    /\ UNCHANGED <<disk, download, port, record>>

(* A companion that answers is ALREADY_RUNNING; then loadAgentManifest.    *)
Load(p) ==
    /\ At(p, "health")
    /\ IF port # None \/ ~Accepted(Manifest(p)) THEN End(p)
       ELSE Goto(p, IF Downloads(Manifest(p)) THEN "access" ELSE "hash")
    /\ UNCHANGED <<disk, download, port, record>>

(* A file that is not there is fetched; other bytes than the manifest's,   *)
(* an error or a time-out end the start.                                   *)
Access(p) ==
    /\ At(p, "access")
    /\ \/ disk[Path(p)] # "absent" /\ Goto(p, "hash")
       \/ disk[Path(p)] = "absent" /\ Goto(p, "open")
       \/ disk[Path(p)] = "absent" /\ End(p)
    /\ UNCHANGED <<disk, download, port, record>>

TemporaryOfAll(p) == <<Path(p), CHOOSE q \in Pids : TRUE>>

Temporary(p) == <<Path(p), p>>

Open(p) ==
    /\ At(p, "open")
    /\ download' = [download EXCEPT ![Temporary(p)] = "partial"]
    /\ Goto(p, "write")
    /\ UNCHANGED <<disk, port, record>>

Write(p) ==
    /\ At(p, "write")
    /\ download' = [download EXCEPT ![Temporary(p)] = Sha(p)]
    /\ Goto(p, "rename")
    /\ UNCHANGED <<disk, port, record>>

Rename(p) ==
    /\ At(p, "rename")
    /\ IF download[Temporary(p)] = "absent"
       THEN End(p) /\ UNCHANGED <<disk, download>>
       ELSE /\ disk' = [disk EXCEPT ![Path(p)] = download[Temporary(p)]]
            /\ download' = [download EXCEPT ![Temporary(p)] = "absent"]
            /\ Goto(p, "hash")
    /\ UNCHANGED <<port, record>>

(* sha256File throws if there is no file.                                  *)
Hash(p) ==
    /\ At(p, "hash")
    /\ IF disk[Path(p)] = Sha(p) THEN Goto(p, "listen") ELSE End(p)
    /\ UNCHANGED <<disk, download, port, record>>

Listen(p) ==
    /\ At(p, "listen")
    /\ IF port = None
       THEN port' = p /\ Goto(p, "truncate")
       ELSE End(p) /\ UNCHANGED port
    /\ UNCHANGED <<disk, download, record>>

(* writeFile(recordPath()): a reader in between finds no JSON.             *)
TruncateRecord(p) ==
    /\ At(p, "truncate")
    /\ record' = "torn"
    /\ Goto(p, "record")
    /\ UNCHANGED <<disk, download, port>>

WriteRecord(p) ==
    /\ At(p, "record")
    /\ record' = p
    /\ Goto(p, "running")
    /\ UNCHANGED <<disk, download, port>>

(* After the last connection has ended, and miner.close.                   *)
RemoveRecord(p) ==
    /\ At(p, "closing")
    /\ record' = "absent"
    /\ End(p)
    /\ UNCHANGED <<disk, download, port>>

(* A process that dies leaves its files, and its port is free.             *)
Dies(p) ==
    /\ port' = IF port = p THEN None ELSE port
    /\ End(p)

Crash(p) ==
    /\ ~At(p, "idle")
    /\ Dies(p)
    /\ UNCHANGED <<disk, download, record>>

-----------------------------------------------------------------------------
(* Signals: SIGTERM of a stop, SIGINT of a terminal.  The handler          *)
(* (cancelAll, server.close) runs once; a process without one ends by them. *)
Interrupt(p) ==
    /\ At(p, "running")
    /\ port' = None
    /\ Goto(p, "closing")
    /\ UNCHANGED <<disk, download, record>>

Stop(p) ==
    /\ At(p, "idle") /\ "stop" \in Commands[p]
    /\ Become(p, [Idle EXCEPT !.pc = "read"])
    /\ UNCHANGED <<disk, download, port, record>>

ReadRecord(p) ==
    /\ At(p, "read")
    /\ IF record \in Pids
       THEN Become(p, [pc |-> "kill", manifest |-> None, stops |-> record])
       ELSE End(p)
    /\ UNCHANGED <<disk, download, port, record>>

(* Whoever has the recorded pid now is signalled.                          *)
Kill(p) ==
    LET q == proc[p].stops
        polling == [proc EXCEPT ![p] = [Idle EXCEPT !.pc = "poll"]]
    IN  /\ At(p, "kill")
        /\ \/ /\ At(q, "running")
              /\ proc' = [polling EXCEPT ![q].pc = "closing"] /\ port' = None
           \/ /\ At(q, "idle")
              /\ proc' = polling /\ UNCHANGED port
           \/ /\ proc[q].pc \notin {"idle", "running"}
              /\ proc' = [polling EXCEPT ![q] = Idle]
              /\ port' = IF port = q THEN None ELSE port
        /\ UNCHANGED <<disk, download, record>>

(* health of the recorded port every 250 ms, until nobody answers or for   *)
(* 10 s; then the record goes.                                             *)
RemoveWhenSilent(p) ==
    /\ At(p, "poll") /\ port = None
    /\ record' = "absent"
    /\ End(p)
    /\ UNCHANGED <<disk, download, port>>

Remove(p) ==
    /\ At(p, "poll")
    /\ record' = "absent"
    /\ End(p)
    /\ UNCHANGED <<disk, download, port>>

-----------------------------------------------------------------------------
Installs(p) == Load(p) \/ Access(p) \/ Open(p) \/ Write(p) \/ Rename(p) \/ Hash(p)

Serves(p) ==
    Listen(p) \/ TruncateRecord(p) \/ WriteRecord(p) \/ RemoveRecord(p)

Stops(p) == ReadRecord(p) \/ Kill(p) \/ Remove(p)

Asked(p) == (\E m \in Manifests : Start(p, m) \/ Detach(p, m)) \/ Stop(p) \/ Interrupt(p)

Next == \E p \in Pids :
    Asked(p) \/ Installs(p) \/ Serves(p) \/ Stops(p) \/ Wait(p) \/ Crash(p)

Spec == Init /\ [][Next]_vars

(* A stop goes on: its reads, its requests and its pauses have an end.     *)
(* Nothing is asked of the other commands.                                 *)
LiveSpec == Spec /\ \A p \in {q \in Pids : "stop" \in Commands[q]} : WF_vars(Stops(p))

-----------------------------------------------------------------------------
(* From the check of its hash until the companion that made it has ended,  *)
(* the worker file is the manifest's build, though other processes install *)
(* workers, of other releases too, and die doing it (trust.ts: "a          *)
(* different release can never be mistaken for this one").                 *)
VerifiedStays ==
    \A p \in Pids :
        proc[p].pc \in {"listen", "truncate", "record"} \cup Running =>
            disk[Path(p)] = Sha(p)

(* No process ever finds a worker that is half written, or one a process   *)
(* before it left behind like that (trust.ts: "then atomically renamed").  *)
NeverHalfInstalled == \A path \in Paths : disk[path] # "partial"

(* A stop returns, though the companion it stopped takes its time, and     *)
(* another one may answer on the same port by then.                        *)
StopReturns ==
    \A p \in {q \in Pids : "stop" \in Commands[q]} :
        proc[p].pc \in Stopping ~> At(p, "idle")

(* While nobody else is doing anything, a running companion is recorded,   *)
(* so that stop finds it.  Does not hold: RemoveRecord of the companion    *)
(* before it comes late.                                                   *)
StopFindsCompanion ==
    \A p \in Pids :
        At(p, "running") /\ (\A q \in Pids \ {p} : At(q, "idle")) => record = p
=============================================================================
